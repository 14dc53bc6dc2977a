----------------------------- MODULE Air_proofs -----------------------------
(***************************************************************************)
(* The parts of AirParts together: each of them takes its own steps in the *)
(* composition, so that what is proved of a part holds there. And of the   *)
(* parts themselves:                                                       *)
(*                                                                         *)
(* The three tables that are gone round by a remainder. The hop sequence   *)
(* meets its requirements for any number of channels and whatever numbers  *)
(* the generator gives; the link quality windows count the last slots, for *)
(* any word width and any size; and AirPort's FIFO, whose counters run     *)
(* freely, is a bounded queue for any capacity and any counter width that  *)
(* is a multiple of it, wherever the interrupt falls.                      *)
(*                                                                         *)
(* Neither side of binding goes in or out of binding mode out of turn, for *)
(* any number of packets, starts, power failures and edits. The MSP uplink *)
(* hands every message over exactly once, in order and intact, until a     *)
(* chunk is given up, for any messages, sizes and bounds.                  *)
(***************************************************************************)
EXTENDS AirParts, Stubborn_proofs, FiniteSetTheorems

(* Quotient and remainder *)

\* q and r are a quotient and a remainder.
Divided(k, w, q, r) == w \in Nat \ {0} /\ q \in Int /\ r \in 0..w - 1 /\ k = w * q + r

\* Quotient and remainder are determined.
LEMMA Division ==
  ASSUME NEW w \in Nat \ {0}, NEW q \in Int, NEW r \in 0..w - 1, NEW k, k = w * q + r
  PROVE  k \in Int /\ k \div w = q /\ k % w = r
<1>1. k \in Int
  OBVIOUS
<1>2. PICK p \in Int, s \in Int : p = k \div w /\ s = k % w
  BY <1>1
<1>3. k = w * p + s /\ s \in 0..w - 1
  BY <1>1, <1>2, Z3T(30)
<1>4. ~(p > q)
  <2> SUFFICES ASSUME p > q PROVE FALSE
    OBVIOUS
  <2>1. PICK e \in Nat : p = q + 1 + e
    <3>1. p - q - 1 \in Nat /\ p = q + 1 + (p - q - 1)
      OBVIOUS
    <3> QED BY <3>1
  <2>2. w * p = w * q + w + w * e /\ w * e \in Nat
    BY <2>1
  <2> QED BY <1>3, <2>2
<1>5. ~(q > p)
  <2> SUFFICES ASSUME q > p PROVE FALSE
    OBVIOUS
  <2>1. PICK e \in Nat : q = p + 1 + e
    <3>1. q - p - 1 \in Nat /\ q = p + 1 + (q - p - 1)
      OBVIOUS
    <3> QED BY <3>1
  <2>2. w * q = w * p + w + w * e /\ w * e \in Nat
    BY <2>1
  <2> QED BY <1>3, <2>2
<1>6. p = q
  BY <1>4, <1>5
<1> QED BY <1>1, <1>2, <1>3, <1>6

\* The same, to be used of a number given as an expression.
LEMMA DivisionOf ==
  ASSUME NEW k, NEW w, NEW q, NEW r, Divided(k, w, q, r)
  PROVE  k \div w = q /\ k % w = r
BY Division DEF Divided

\* A number is a quotient and a remainder.
LEMMA DivMod ==
  ASSUME NEW w \in Nat \ {0}, NEW j \in Nat
  PROVE  \E a \in Nat, b \in 0..w - 1 : j = w * a + b /\ j \div w = a /\ j % w = b
<1>1. PICK a \in Int, b \in Int : a = j \div w /\ b = j % w
  OBVIOUS
<1>2. j = w * a + b /\ b \in 0..w - 1
  BY <1>1, Z3T(30)
<1>3. ~(a < 0)
  <2> SUFFICES ASSUME a < 0 PROVE FALSE
    OBVIOUS
  <2>1. PICK e \in Nat : a = -1 - e
    <3>1. -1 - a \in Nat /\ a = -1 - (-1 - a)
      OBVIOUS
    <3> QED BY <3>1
  <2>2. w * a = -w - w * e /\ w * e \in Nat
    BY <2>1
  <2> QED BY <1>2, <2>2
<1>4. a \in Nat
  BY <1>3
<1> QED BY <1>1, <1>2, <1>4, Zenon

-----------------------------------------------------------------------------
(* The hop sequence *)

FhssInv == FhssTypeOK /\ HopsEvenly

\* The sync channel is a channel, and not the first.
LEMMA SyncIsChannel == SyncChannel \in 1..FreqCount - 1
BY FhssAssumption DEF SyncChannel

\* There is a block.
LEMMA SomeBlocks == SequenceLen \div FreqCount \in Nat \ {0}
<1>1. \A n, k \in Nat : n >= 1 /\ k >= n => k \div n \in Nat \ {0}
  BY Z3T(30)
<1> QED BY <1>1, FhssAssumption

\* The first loop puts every channel once in a block, the sync channel first.
LEMMA FilledRight ==
  /\ Filled \in [Blocks \X Hops -> Hops]
  /\ \A b \in Blocks, p, q \in Hops :
       /\ Filled[<<b, p>>] = SyncChannel <=> p = 0
       /\ Filled[<<b, p>>] = Filled[<<b, q>>] => p = q
<1>1. FreqCount \in Nat /\ FreqCount >= 3
  BY FhssAssumption
<1>2. \A b \in Blocks, p \in Hops :
        Filled[<<b, p>>] = IF p = 0 THEN SyncChannel ELSE IF p = SyncChannel THEN 0 ELSE p
  BY DEF Filled
<1>3. Filled \in [Blocks \X Hops -> Hops]
  BY <1>1, SyncIsChannel DEF Filled, Hops
<1> QED BY <1>1, <1>2, <1>3, SyncIsChannel DEF Hops

\* The cursor moves to the next entry, or behind the last.
LEMMA AdvanceType ==
  ASSUME FhssTypeOK, Building, Advance
  PROVE  cursor' \in (Blocks \X Hops) \cup {<<SequenceLen \div FreqCount, 0>>}
<1>1. cursor \in Blocks \X Hops
  BY SomeBlocks DEF FhssTypeOK, Building, Blocks
<1>2. PICK b \in Blocks, p \in Hops : cursor = <<b, p>>
  BY <1>1
<1>3. CASE p + 1 \in Hops
  BY <1>2, <1>3 DEF Advance
<1>4. CASE p + 1 \notin Hops
  <2>1. cursor' = <<b + 1, 0>>
    BY <1>2, <1>4 DEF Advance
  <2>2. 0 \in Hops
    BY FhssAssumption DEF Hops
  <2>3. b + 1 \in Blocks \/ b + 1 = SequenceLen \div FreqCount
    BY SomeBlocks DEF Blocks
  <2> QED BY <2>1, <2>2, <2>3
<1> QED BY <1>3, <1>4

\* A swap within a block, off its first entry, keeps the requirements.
LEMMA SwapKeeps ==
  ASSUME FhssInv, Swap
  PROVE  FhssInv'
<1>1. PICK b \in Blocks, p \in Hops : cursor = <<b, p>> /\ p # 0
  BY SomeBlocks DEF FhssInv, FhssTypeOK, Building, Blocks, Swap
<1>2. PICK r \in Partners :
        hops' = [hops EXCEPT ![cursor] = hops[<<cursor[1], r>>], ![<<cursor[1], r>>] = hops[cursor]]
  BY DEF Swap
<1>3. r \in Hops /\ r # 0
  BY FhssAssumption DEF Partners, Hops
<1>4. hops \in [Blocks \X Hops -> Hops]
  BY DEF FhssInv, FhssTypeOK
<1>5. hops' = [hops EXCEPT ![<<b, p>>] = hops[<<b, r>>], ![<<b, r>>] = hops[<<b, p>>]]
  BY <1>1, <1>2
<1>6. \A c \in Blocks, q \in Hops :
        hops'[<<c, q>>] = IF c = b /\ q = r THEN hops[<<b, p>>]
                          ELSE IF c = b /\ q = p THEN hops[<<b, r>>] ELSE hops[<<c, q>>]
  BY <1>3, <1>4, <1>5
<1>7. hops' \in [Blocks \X Hops -> Hops]
  BY <1>3, <1>4, <1>5
<1>8. FhssTypeOK'
  BY <1>7, AdvanceType DEF FhssInv, FhssTypeOK, Swap
<1>9. \A c \in Blocks, x, y \in Hops :
        /\ hops[<<c, x>>] = SyncChannel <=> x = 0
        /\ hops[<<c, x>>] = hops[<<c, y>>] => x = y
  BY DEF FhssInv, HopsEvenly
<1>10. ASSUME NEW c \in Blocks, NEW x \in Hops
       PROVE  hops'[<<c, x>>] = SyncChannel <=> x = 0
  BY <1>1, <1>3, <1>6, <1>9
<1>11. ASSUME NEW c \in Blocks, NEW x \in Hops, NEW y \in Hops, hops'[<<c, x>>] = hops'[<<c, y>>]
       PROVE  x = y
  <2> DEFINE Was(z) == IF c = b /\ z = r THEN p ELSE IF c = b /\ z = p THEN r ELSE z
  <2>1. \A z \in Hops : Was(z) \in Hops /\ hops'[<<c, z>>] = hops[<<c, Was(z)>>]
    BY <1>1, <1>3, <1>6
  <2>2. Was(x) = Was(y) => x = y
    OBVIOUS
  <2>3. PICK u, v \in Hops : u = Was(x) /\ v = Was(y)
    BY <1>1, <1>3
  <2>4. hops'[<<c, x>>] = hops[<<c, u>>] /\ hops'[<<c, y>>] = hops[<<c, v>>]
    BY <2>1, <2>3, Zenon
  <2> HIDE DEF Was
  <2>5. u = v
    BY <1>9, <1>11, <2>4, Zenon
  <2> QED BY <2>2, <2>3, <2>5, Zenon
<1>12. HopsEvenly'
  BY <1>10, <1>11 DEF HopsEvenly, SyncChannel
<1> QED BY <1>8, <1>12 DEF FhssInv

\* The requirements hold from the first loop on.
LEMMA InitEvenly == FhssInit => FhssInv
<1> SUFFICES ASSUME FhssInit PROVE FhssInv
  OBVIOUS
<1>1. <<0, 0>> \in Blocks \X Hops
  BY SomeBlocks, FhssAssumption DEF Blocks, Hops
<1> QED BY <1>1, FilledRight DEF FhssInit, FhssInv, FhssTypeOK, HopsEvenly

LEMMA NextEvenly == FhssInv /\ [FhssNext]_fhssVars => FhssInv'
<1> SUFFICES ASSUME FhssInv, [FhssNext]_fhssVars PROVE FhssInv'
  OBVIOUS
<1>1. CASE PassSync
  BY <1>1, AdvanceType DEF FhssInv, FhssTypeOK, HopsEvenly, PassSync
<1>2. CASE Swap
  BY <1>2, SwapKeeps
<1>3. CASE Rebuild
  <2>1. <<0, 0>> \in Blocks \X Hops
    BY SomeBlocks, FhssAssumption DEF Blocks, Hops
  <2> QED BY <1>3, <2>1, FilledRight DEF Rebuild, FhssInv, FhssTypeOK, HopsEvenly
<1>4. CASE UNCHANGED fhssVars
  BY <1>4 DEF fhssVars, FhssInv, FhssTypeOK, HopsEvenly
<1> QED BY <1>1, <1>2, <1>3, <1>4 DEF FhssNext

\* Every channel once in a block, the sync channel at its start, at any moment of
\* the building and for any picks of the generator (FHSS.c:81-94).
THEOREM EveryChannelOnce == FhssSpec => [](FhssTypeOK /\ HopsEvenly)
<1>1. FhssSpec => []FhssInv
  BY InitEvenly, NextEvenly, PTL DEF FhssSpec
<1> QED BY <1>1, PTL DEF FhssInv

\* So that no channel comes twice in a row, the requirement of FHSS.c:52.
LEMMA EvenlyNeverTwice == FhssInv => NeverTwiceInRow
<1> SUFFICES ASSUME FhssInv, NEW b \in Blocks, NEW c \in Blocks, NEW p \in Hops
             PROVE  hops[<<b, p>>] # hops[IF p + 1 \in Hops THEN <<b, p + 1>> ELSE <<c, 0>>]
  BY DEF NeverTwiceInRow
<1>1. CASE p + 1 \in Hops
  BY <1>1 DEF FhssInv, HopsEvenly, Hops
<1>2. CASE p + 1 \notin Hops
  <2>1. p # 0 /\ 0 \in Hops
    BY <1>2, FhssAssumption DEF Hops
  <2>2. hops[<<b, p>>] # SyncChannel /\ hops[<<c, 0>>] = SyncChannel
    BY <2>1 DEF FhssInv, HopsEvenly
  <2> QED BY <1>2, <2>2
<1> QED BY <1>1, <1>2

THEOREM NoRepeat == FhssSpec => []NeverTwiceInRow
<1>1. FhssSpec => []FhssInv
  BY InitEvenly, NextEvenly, PTL DEF FhssSpec
<1> QED BY <1>1, EvenlyNeverTwice, PTL

\* Behind the last entry comes the first again, on another channel.
LEMMA EvenlyWraps == FhssInv => FrameWraps
<1> SUFFICES ASSUME FhssInv, (TemplateLen - 1) % FreqCount # 0
             PROVE  SlotChannel(TemplateLen - 1) # SlotChannel(TemplateLen)
  BY DEF FrameWraps
<1> DEFINE F == FreqCount
           T == TemplateLen
           B == SequenceLen \div FreqCount
<1>1. F \in Nat \ {0} /\ B \in Nat \ {0} /\ T \in Nat \ {0} /\ T <= F * B /\ T - 1 \in Nat
  BY FhssAssumption, SomeBlocks
<1>2. (T - 1) % T = T - 1 /\ T % T = 0
  <2> HIDE DEF T
  <2>1. PICK t \in Nat : t = T - 1
    BY <1>1
  <2>2. t \in 0..T - 1 /\ t = T * 0 + t
    BY <1>1, <2>1
  <2>3. t % T = t
    BY <1>1, <2>1, DivisionOf DEF Divided
  <2>4. 0 \in 0..T - 1 /\ T = T * 1 + 0
    BY <1>1
  <2>5. T % T = 0
    BY <1>1, <2>4, Division
  <2> QED BY <2>1, <2>3, <2>5, Zenon
<1>3. EntryOf(0) = <<0, 0>>
  <2> HIDE DEF F
  <2>1. 0 \in 0..F - 1 /\ 0 = F * 0 + 0
    BY <1>1
  <2>2. 0 \div F = 0 /\ 0 % F = 0
    BY <1>1, <2>1, Division
  <2> QED BY <2>2, Zenon DEF EntryOf, F
<1>4. PICK a \in Nat, b \in 0..F - 1 : T - 1 = F * a + b /\ (T - 1) \div F = a /\ (T - 1) % F = b
  <2> HIDE DEF F, T, B
  <2> QED BY <1>1, DivMod
<1>5. a \in Blocks /\ b \in Hops /\ b # 0 /\ 0 \in Blocks /\ 0 \in Hops
  <2>1. b # 0
    BY <1>4, Zenon
  <2> HIDE DEF F, T, B
  <2>2. ~(a >= B)
    <3> SUFFICES ASSUME a >= B PROVE FALSE
      OBVIOUS
    <3>1. PICK e \in Nat : a = B + e
      <4>1. a - B \in Nat /\ a = B + (a - B)
        BY <1>1
      <4> QED BY <4>1, Zenon
    <3>2. F * a = F * B + F * e /\ F * e \in Nat /\ F * B \in Nat
      BY <1>1, <3>1
    <3> QED BY <1>1, <1>4, <3>2
  <2>3. a \in 0..B - 1 /\ 0 \in 0..B - 1 /\ 0 \in 0..F - 1
    BY <1>1, <2>2
  <2> QED BY <2>1, <2>3 DEF Blocks, Hops, F, B
<1>6. SlotChannel(TemplateLen - 1) = hops[<<a, b>>] /\ SlotChannel(TemplateLen) = hops[<<0, 0>>]
  <2>1. EntryOf(T - 1) = <<a, b>>
    BY <1>4, Zenon DEF EntryOf
  <2> QED BY <1>2, <1>3, <2>1, Zenon DEF SlotChannel
<1>7. hops[<<a, b>>] # SyncChannel /\ hops[<<0, 0>>] = SyncChannel
  BY <1>5 DEF FhssInv, HopsEvenly
<1> QED BY <1>6, <1>7, Zenon

\* FHSS: at any moment of the building and whatever the generator gives, the sequence
\* is a fair hopping one, where it comes round too (FHSS.c:50-52, FHSS.h).
THEOREM HopsFair == FhssSpec => [](FhssTypeOK /\ HopsRight)
<1>1. FhssSpec => []FhssInv
  BY InitEvenly, NextEvenly, PTL DEF FhssSpec
<1>2. FhssInv => FhssTypeOK /\ HopsRight
  BY EvenlyNeverTwice, EvenlyWraps DEF FhssInv, HopsRight
<1> QED BY <1>1, <1>2, PTL
-----------------------------------------------------------------------------
(* The link quality windows *)

\* The k-th position of the ring.
PosAt(k) == <<k \div WordBits, k % WordBits>>

\* The number of the position d slots before number c, in a ring of n.
Back(c, d, n) == IF d <= c THEN c - d ELSE c - d + n

\* How long ago the slots were that brought a packet, among the last ones.
Ago(seq) == {d \in 1..Len(seq) : seq[Len(seq) + 1 - d]}

\* The bits set are those of the slots that brought a packet, behind the current
\* position; the current bit is clear until its slot has been marked.
WindowInv(t, seq) ==
  /\ t \in Windows /\ CountsBits(t)
  /\ seq \in Seq(BOOLEAN) /\ Len(seq) < t.size
  /\ Len(seq) <= t.count /\ t.count <= t.size
  /\ \E c \in 0..t.size - 1 :
       At(t) = PosAt(c) /\ t.set = {PosAt(Back(c, d, t.size)) : d \in Ago(seq)}

\* The transmitter's count begins at 1: it is always ahead of the slots behind.
LqInv == /\ WindowInv(upLq, upSeen) /\ WindowInv(downLq, downSeen)
         /\ downLq.size = DownWindow /\ Len(downSeen) < downLq.count


\* The positions of the ring are different, and follow one another bit by bit and
\* word by word.
LEMMA PosFacts ==
  ASSUME NEW k \in Nat
  PROVE  /\ PosAt(k) \in Positions
         /\ \A j \in Nat : PosAt(j) = PosAt(k) => j = k
         /\ PosAt(0) = <<0, 0>>
         /\ PosAt(k + 1) = IF (k % WordBits) + 1 < WordBits
                           THEN <<k \div WordBits, (k % WordBits) + 1>>
                           ELSE <<k \div WordBits + 1, 0>>
<1> DEFINE W == WordBits
<1>1. W \in Nat \ {0}
  BY LqAssumption
<1> HIDE DEF W
<1>2. \A j \in Nat : \E a \in Nat, b \in 0..W - 1 : j = W * a + b /\ j \div W = a /\ j % W = b
  BY <1>1, DivMod
<1>3. PICK q \in Nat, r \in 0..W - 1 : k = W * q + r /\ k \div W = q /\ k % W = r
  BY <1>2
<1>4. \A j \in Nat : j \div W = q /\ j % W = r => j = k
  <2> SUFFICES ASSUME NEW j \in Nat, j \div W = q, j % W = r PROVE j = k
    OBVIOUS
  <2>1. PICK a \in Nat, b \in 0..W - 1 : j = W * a + b /\ j \div W = a /\ j % W = b
    BY <1>2
  <2>2. a = q /\ b = r
    BY <2>1, Zenon
  <2> QED BY <1>3, <2>1, <2>2, Zenon
<1>5. 0 \div W = 0 /\ 0 % W = 0
  <2>1. 0 \in 0..W - 1 /\ 0 = W * 0 + 0
    BY <1>1
  <2> QED BY <1>1, <2>1, Division
<1>6. PosAt(k) = <<q, r>> /\ PosAt(0) = <<0, 0>>
  BY <1>3, <1>5, Zenon DEF PosAt, W
<1>7. \A j \in Nat : PosAt(j) = PosAt(k) => j = k
  BY <1>4, <1>6 DEF PosAt, W
<1>8. PosAt(k + 1) = IF r + 1 < W THEN <<q, r + 1>> ELSE <<q + 1, 0>>
  <2>1. PICK m \in Nat : m = k + 1
    OBVIOUS
  <2>2. CASE r + 1 < W
    <3>1. PICK s \in 0..W - 1 : s = r + 1
      BY <1>1, <2>2
    <3>2. m = W * q + s
      BY <1>1, <1>3, <2>1, <3>1
    <3>3. m \div W = q /\ m % W = s
      BY <1>1, <3>2, Division
    <3> QED BY <2>1, <2>2, <3>1, <3>3, Zenon DEF PosAt, W
  <2>3. CASE ~(r + 1 < W)
    <3>1. 0 \in 0..W - 1 /\ q + 1 \in Nat /\ m = W * (q + 1) + 0
      BY <1>1, <1>3, <2>1, <2>3
    <3>2. m \div W = q + 1 /\ m % W = 0
      BY <1>1, <3>1, Division
    <3> QED BY <2>1, <2>3, <3>2, Zenon DEF PosAt, W
  <2> QED BY <2>2, <2>3
<1>9. PosAt(k) \in Positions
  BY <1>6 DEF Positions, W
<1> QED BY <1>3, <1>6, <1>7, <1>8, <1>9, Zenon DEF W

\* The d-th position back is one of the ring's, another for another d, and the d-th
\* before the next.
LEMMA BackFacts ==
  ASSUME NEW n \in Nat \ {0}, NEW c \in 0..n - 1, NEW c1, c1 = IF c + 1 = n THEN 0 ELSE c + 1
  PROVE  /\ c1 \in 0..n - 1
         /\ \A d \in 0..n : Back(c, d, n) \in 0..n - 1
         /\ \A d, e \in 1..n : Back(c, d, n) = Back(c, e, n) => d = e
         /\ Back(c, n, n) = c /\ Back(c, 0, n) = c
         /\ \A d \in 1..n : Back(c1, d, n) = Back(c, d - 1, n)
BY DEF Back

\* No two slots of a window share a position.
LEMMA BackApart ==
  ASSUME NEW n \in Nat \ {0}, NEW c \in 0..n - 1, NEW d \in 1..n, NEW e \in 1..n,
         Back(c, d, n) = Back(c, e, n)
  PROVE  d = e
BY DEF Back

\* Move on, and around at the end of the window: from one position to the next.
LEMMA MoveFacts ==
  ASSUME NEW t \in Windows, NEW c \in 0..t.size - 1, At(t) = PosAt(c),
         NEW u, u = Wrapped(Moved(t))
  PROVE  /\ u \in Windows /\ At(u) = PosAt(IF c + 1 = t.size THEN 0 ELSE c + 1)
         /\ u.size = t.size /\ u.set = t.set /\ u.lq = t.lq /\ u.count = t.count
<1>1. /\ t.size \in Nat \ {0} /\ c \in Nat /\ c + 1 \in Nat /\ WordBits \in Nat \ {0}
      /\ t.index \in Nat /\ t.bit \in 0..WordBits - 1
  BY LqAssumption DEF Windows
<1>2. t.index = c \div WordBits /\ t.bit = c % WordBits
  BY DEF At, PosAt
<1>3. PICK m \in Windows : m = Moved(t)
  <2>1. CASE t.bit + 1 < WordBits
    <3>1. t.bit + 1 \in 0..WordBits - 1
      BY <1>1, <2>1
    <3>2. [t EXCEPT !.bit = t.bit + 1] \in Windows
      BY <3>1 DEF Windows
    <3> QED BY <2>1, <3>2 DEF Moved
  <2>2. CASE ~(t.bit + 1 < WordBits)
    <3>1. t.index + 1 \in Nat /\ 0 \in 0..WordBits - 1
      BY <1>1
    <3>2. [t EXCEPT !.bit = 0, !.index = t.index + 1] \in Windows
      BY <3>1 DEF Windows
    <3> QED BY <2>2, <3>2 DEF Moved
  <2> QED BY <2>1, <2>2
<1>4. /\ m.size = t.size /\ m.set = t.set /\ m.lq = t.lq /\ m.count = t.count
      /\ At(m) = PosAt(c + 1)
  <2>1. /\ m.index = IF t.bit + 1 < WordBits THEN t.index ELSE t.index + 1
        /\ m.bit = IF t.bit + 1 < WordBits THEN t.bit + 1 ELSE 0
        /\ m.size = t.size /\ m.set = t.set /\ m.lq = t.lq /\ m.count = t.count
    BY <1>3 DEF Moved, Windows
  <2>2. PosAt(c + 1) = IF t.bit + 1 < WordBits THEN <<t.index, t.bit + 1>>
                       ELSE <<t.index + 1, 0>>
    BY <1>1, <1>2, PosFacts
  <2> QED BY <2>1, <2>2 DEF At
<1>5. AtEnd(m) <=> c + 1 = t.size
  <2>1. AtEnd(m) <=> At(m) = PosAt(t.size)
    BY <1>4 DEF AtEnd, At, PosAt
  <2>2. t.size \in Nat
    BY <1>1
  <2> QED BY <1>1, <1>4, <2>1, <2>2, PosFacts
<1>6. CASE AtEnd(m)
  <2>1. u = [m EXCEPT !.index = 0, !.bit = 0]
    BY <1>3, <1>6 DEF Wrapped
  <2>4. 0 \in Nat /\ 0 \in 0..WordBits - 1
    BY <1>1
  <2>2. u \in Windows /\ u.size = m.size /\ u.set = m.set /\ u.lq = m.lq /\ u.count = m.count
        /\ u.index = 0 /\ u.bit = 0
    BY <2>1, <2>4 DEF Windows
  <2>3. PosAt(0) = <<0, 0>>
    BY PosFacts
  <2> QED BY <1>4, <1>5, <1>6, <2>2, <2>3 DEF At
<1>7. CASE ~AtEnd(m)
  BY <1>3, <1>4, <1>5, <1>7 DEF Wrapped
<1> QED BY <1>6, <1>7

\* What is remembered of one slot more: it, and not the oldest in a full window.
OneMore(s, seq, n, valid) ==
  /\ s \in Seq(BOOLEAN) /\ Len(s) = IF Len(seq) + 1 < n THEN Len(seq) + 1 ELSE n - 1
  /\ \A d \in Nat : d \in Ago(s) <=>
       /\ d < n
       /\ \/ d = 1 /\ valid = TRUE
          \/ d > 1 /\ d - 1 \in Ago(seq)

\* The last slots, one slot later.
LEMMA SeenNext ==
  ASSUME NEW seq \in Seq(BOOLEAN), NEW n \in Nat \ {0}, Len(seq) < n, NEW valid \in BOOLEAN,
         NEW s, s = LastOf(Append(seq, valid), n - 1)
  PROVE  OneMore(s, seq, n, valid)
<1> DEFINE q == Append(seq, valid)
           len == Len(seq)
<1>1. /\ q \in Seq(BOOLEAN) /\ len \in Nat /\ Len(q) = len + 1 /\ q[len + 1] = valid
      /\ \A i \in 1..len : q[i] = seq[i]
  OBVIOUS
<1>2. \A d \in Nat : d \in 1..len + 1 /\ q[len + 2 - d] <=>
        \/ d = 1 /\ valid = TRUE
        \/ d > 1 /\ d - 1 \in Ago(seq)
  <2> SUFFICES ASSUME NEW d \in Nat
               PROVE  d \in 1..len + 1 /\ q[len + 2 - d] <=>
                        \/ d = 1 /\ valid = TRUE
                        \/ d > 1 /\ d - 1 \in Ago(seq)
    OBVIOUS
  <2> HIDE DEF q
  <2>1. CASE d = 1
    <3>1. len + 2 - d = len + 1 /\ d \in 1..len + 1
      BY <1>1, <2>1
    <3>2. q[len + 2 - d] = valid
      BY <1>1, <3>1
    <3> QED BY <2>1, <3>1, <3>2
  <2>2. CASE d > 1 /\ d \in 1..len + 1
    <3>1. len + 2 - d \in 1..len /\ d - 1 \in 1..len /\ len + 1 - (d - 1) = len + 2 - d
      BY <1>1, <2>2
    <3>2. q[len + 2 - d] = seq[len + 1 - (d - 1)]
      BY <1>1, <3>1
    <3> QED BY <2>2, <3>1, <3>2 DEF Ago
  <2>3. CASE d = 0 \/ d > len + 1
    <3>1. d \notin 1..len + 1 /\ d # 1 /\ ~(d > 1 /\ d - 1 \in 1..len)
      BY <1>1, <2>3
    <3> QED BY <3>1 DEF Ago
  <2>4. d = 1 \/ (d > 1 /\ d \in 1..len + 1) \/ d = 0 \/ d > len + 1
    BY <1>1
  <2> QED BY <2>1, <2>2, <2>3, <2>4
<1>3. CASE len + 1 < n
  <2>1. s = q
    BY <1>1, <1>3 DEF LastOf
  <2>2. \A d \in Nat : d \in Ago(s) <=> d \in 1..len + 1 /\ q[len + 2 - d]
    <3>1. \A d \in Nat : Len(q) + 1 - d = len + 2 - d
      BY <1>1
    <3> HIDE DEF q
    <3> QED BY <1>1, <2>1, <3>1 DEF Ago
  <2>3. \A d \in 1..len + 1 : d < n
    BY <1>1, <1>3
  <2> QED BY <1>1, <1>2, <1>3, <2>1, <2>2, <2>3 DEF OneMore
<1>4. CASE ~(len + 1 < n)
  <2>1. len + 1 = n
    BY <1>1, <1>4
  <2>2. s = SubSeq(q, 2, n)
    <3>1. s = IF Len(q) <= n - 1 THEN q ELSE SubSeq(q, Len(q) - (n - 1) + 1, Len(q))
      BY DEF LastOf
    <3> HIDE DEF q
    <3>2. Len(q) = n /\ ~(Len(q) <= n - 1) /\ Len(q) - (n - 1) + 1 = 2
      BY <1>1, <2>1
    <3> QED BY <3>1, <3>2
  <2>3. /\ s \in Seq(BOOLEAN) /\ Len(s) = n - 1
        /\ \A i \in 1..n - 1 : s[i] = q[i + 1]
    <3> HIDE DEF q
    <3>1. Len(q) = n /\ DOMAIN q = 1..n /\ \A i \in 1..n : q[i] \in BOOLEAN
      BY <1>1, <2>1
    <3>2. s = [i \in 1..n - 1 |-> q[i + 1]]
      <4>1. SubSeq(q, 2, n) = [i \in 1..(1 + n - 2) |-> q[2 + i - 1]]
        BY <3>1
      <4>2. 1 + n - 2 = n - 1 /\ \A i \in 1..n - 1 : 2 + i - 1 = i + 1
        OBVIOUS
      <4> QED BY <2>2, <4>1, <4>2
    <3>3. \A i \in 1..n - 1 : i + 1 \in 1..n
      OBVIOUS
    <3>4. s \in [1..n - 1 -> BOOLEAN] /\ n - 1 \in Nat
      BY <3>1, <3>2, <3>3
    <3> QED BY <3>2, <3>4
  <2>4. \A d \in Nat : d \in Ago(s) <=> d < n /\ d \in 1..len + 1 /\ q[len + 2 - d]
    <3> SUFFICES ASSUME NEW d \in Nat
                 PROVE  d \in Ago(s) <=> d < n /\ d \in 1..len + 1 /\ q[len + 2 - d]
      OBVIOUS
    <3> HIDE DEF q
    <3>1. d \in 1..n - 1 <=> d < n /\ d \in 1..len + 1
      BY <1>1, <2>1
    <3>2. ASSUME d \in 1..n - 1 PROVE s[n - 1 + 1 - d] = q[len + 2 - d]
      <4>1. n - 1 + 1 - d \in 1..n - 1 /\ n - 1 + 1 - d + 1 = len + 2 - d
        BY <1>1, <2>1, <3>2
      <4> QED BY <2>3, <4>1
    <3> QED BY <2>3, <3>1, <3>2 DEF Ago
  <2> QED BY <1>2, <1>4, <2>3, <2>4 DEF OneMore
<1> QED BY <1>3, <1>4

\* Marking the current bit adds one to the count, because it is clear.
LEMMA MarkFacts ==
  ASSUME NEW t, NEW seq, NEW c, WindowInv(t, seq), c \in 0..t.size - 1, At(t) = PosAt(c),
         t.set = {PosAt(Back(c, d, t.size)) : d \in Ago(seq)},
         NEW m, m = Marked(t)
  PROVE  /\ At(t) \notin t.set /\ m = [t EXCEPT !.set = t.set \cup {At(t)}, !.lq = t.lq + 1]
         /\ m \in Windows /\ CountsBits(m) /\ m.set = t.set \cup {At(t)} /\ m.lq = t.lq + 1
         /\ m.size = t.size /\ m.count = t.count /\ At(m) = At(t)
<1>1. /\ t \in Windows /\ CountsBits(t) /\ t.size \in Nat \ {0} /\ t.lq \in Nat
      /\ Ago(seq) \subseteq 1..t.size - 1
  <2>1. Len(seq) \in Nat /\ Len(seq) < t.size /\ t.size \in Nat \ {0}
    BY DEF WindowInv, Windows
  <2>2. \A d \in 1..Len(seq) : d \in 1..t.size - 1
    BY <2>1
  <2> QED BY <2>1, <2>2 DEF WindowInv, Ago, Windows
<1>2. At(t) \notin t.set
  <2> SUFFICES ASSUME NEW d \in Ago(seq), PosAt(Back(c, d, t.size)) = PosAt(c) PROVE FALSE
    OBVIOUS
  <2>1. d \in 1..t.size /\ d # t.size /\ t.size \in 1..t.size /\ d \in 0..t.size
    BY <1>1
  <2>2. Back(c, d, t.size) \in Nat /\ c \in Nat
    BY <1>1, <2>1, BackFacts
  <2>3. Back(c, d, t.size) = Back(c, t.size, t.size)
    BY <1>1, <2>1, <2>2, PosFacts, BackFacts
  <2> QED BY <1>1, <2>1, <2>3, BackFacts
<1>3. m = [t EXCEPT !.set = t.set \cup {At(t)}, !.lq = t.lq + 1]
  BY <1>2 DEF Marked
<1>4. At(t) \in Positions /\ t.set \cup {At(t)} \in SUBSET Positions /\ t.lq + 1 \in Nat
  BY <1>1 DEF At, Windows, Positions
<1>5. /\ m \in Windows /\ m.set = t.set \cup {At(t)} /\ m.lq = t.lq + 1
      /\ m.size = t.size /\ m.count = t.count /\ m.index = t.index /\ m.bit = t.bit
  BY <1>1, <1>3, <1>4 DEF Windows
<1>6. CountsBits(m)
  <2>1. IsFiniteSet(t.set) /\ t.lq = Cardinality(t.set)
    BY <1>1 DEF CountsBits
  <2>2. /\ IsFiniteSet(t.set \cup {At(t)})
        /\ Cardinality(t.set \cup {At(t)}) = Cardinality(t.set) + 1
    BY <1>2, <2>1, FS_AddElement
  <2> QED BY <1>5, <2>1, <2>2 DEF CountsBits
<1> QED BY <1>2, <1>3, <1>5, <1>6 DEF At

\* A slot is done: the window counts it, and has dropped the one that left.
LEMMA SlotCounted ==
  ASSUME NEW t, NEW seq, WindowInv(t, seq), NEW valid \in BOOLEAN,
         NEW u, u = Advanced(IF valid THEN Marked(t) ELSE t),
         NEW s, s = LastOf(Append(seq, valid), t.size - 1)
  PROVE  /\ WindowInv(u, s) /\ u.size = t.size
         /\ Len(seq) < t.count => Len(s) < u.count
<1>1. PICK c \in 0..t.size - 1 :
        At(t) = PosAt(c) /\ t.set = {PosAt(Back(c, d, t.size)) : d \in Ago(seq)}
  BY DEF WindowInv
<1> DEFINE n == t.size
           c1 == IF c + 1 = n THEN 0 ELSE c + 1
           m == IF valid THEN Marked(t) ELSE t
           w == Wrapped(Moved(m))
           x == IF At(w) \in w.set THEN [w EXCEPT !.set = @ \ {At(w)}, !.lq = @ - 1] ELSE w
<1>2. /\ t \in Windows /\ CountsBits(t) /\ n \in Nat \ {0} /\ t.lq \in Nat
      /\ seq \in Seq(BOOLEAN) /\ Len(seq) \in Nat /\ Len(seq) < n
      /\ t.count \in Nat /\ Len(seq) <= t.count /\ t.count <= n
  BY DEF WindowInv, Windows
<1>3. /\ m \in Windows /\ CountsBits(m) /\ m.size = n /\ m.count = t.count /\ At(m) = PosAt(c)
      /\ m.set = IF valid THEN t.set \cup {PosAt(c)} ELSE t.set
  <2>1. CASE valid
    BY <1>1, <2>1, MarkFacts
  <2>2. CASE ~valid
    BY <1>1, <1>2, <2>2
  <2> QED BY <2>1, <2>2
<1>4. /\ s \in Seq(BOOLEAN) /\ Len(s) = IF Len(seq) + 1 < n THEN Len(seq) + 1 ELSE n - 1
      /\ \A d \in Nat : d \in Ago(s) <=>
           /\ d < n
           /\ \/ d = 1 /\ valid = TRUE
              \/ d > 1 /\ d - 1 \in Ago(seq)
  <2>1. s = LastOf(Append(seq, valid), n - 1)
    OBVIOUS
  <2> HIDE DEF n
  <2>2. OneMore(s, seq, n, valid)
    BY <1>2, <2>1, SeenNext
  <2> QED BY <2>2 DEF OneMore
<1>5. /\ w \in Windows /\ At(w) = PosAt(c1)
      /\ w.size = n /\ w.set = m.set /\ w.lq = m.lq /\ w.count = t.count
  <2> HIDE DEF m
  <2> QED BY <1>1, <1>3, MoveFacts
<1>6. /\ c1 \in 0..n - 1 /\ \A d \in 0..n : Back(c1, d, n) \in 0..n - 1
      /\ \A d \in 1..n : Back(c1, d, n) = Back(c, d - 1, n)
      /\ \A d, e \in 1..n : Back(c1, d, n) = Back(c1, e, n) => d = e
      /\ Back(c1, n, n) = c1 /\ Back(c, 0, n) = c
  <2>1. c1 \in 0..n - 1
    BY <1>1, <1>2
  <2> HIDE DEF c1, n
  <2>2. \A d \in 1..n : Back(c1, d, n) = Back(c, d - 1, n)
    <3>1. c1 = IF c + 1 = n THEN 0 ELSE c + 1
      BY DEF c1
    <3>2. c \in 0..n - 1 /\ n \in Nat \ {0}
      BY <1>1, <1>2 DEF n
    <3> QED BY <3>1, <3>2, BackFacts
  <2> QED BY <1>1, <1>2, <2>1, <2>2, BackFacts DEF n
<1>7. u = IF x.count < x.size THEN [x EXCEPT !.count = @ + 1] ELSE x
  BY DEF Advanced
<1>8. /\ x \in Windows /\ CountsBits(x) /\ x.set = m.set \ {PosAt(c1)}
      /\ x.size = n /\ x.count = t.count /\ At(x) = PosAt(c1)
  <2> HIDE DEF c1, m, w
  <2>1. CASE At(w) \in w.set
    <3>1. x = [w EXCEPT !.set = w.set \ {At(w)}, !.lq = w.lq - 1]
      BY <2>1
    <3>2. IsFiniteSet(w.set) /\ w.lq = Cardinality(w.set) /\ w.lq \in Nat
      BY <1>3, <1>5 DEF CountsBits, Windows
    <3>3. /\ IsFiniteSet(w.set \ {At(w)}) /\ Cardinality(w.set \ {At(w)}) = w.lq - 1
      BY <2>1, <3>2, FS_RemoveElement
    <3>4. w.lq - 1 \in Nat /\ w.set \ {At(w)} \in SUBSET Positions
      BY <1>5, <3>3, FS_CardinalityType DEF Windows
    <3>5. /\ x \in Windows /\ x.set = w.set \ {At(w)} /\ x.lq = w.lq - 1
          /\ x.size = w.size /\ x.count = w.count /\ x.index = w.index /\ x.bit = w.bit
      BY <1>5, <3>1, <3>4 DEF Windows
    <3> QED BY <1>5, <3>3, <3>5 DEF CountsBits, At
  <2>2. CASE At(w) \notin w.set
    <3>1. x = w /\ m.set \ {PosAt(c1)} = m.set
      BY <1>5, <2>2
    <3> QED BY <1>3, <1>5, <3>1 DEF CountsBits
  <2> QED BY <2>1, <2>2
<1>9. x.set = {PosAt(Back(c1, d, n)) : d \in Ago(s)}
  <2> HIDE DEF c1, m, x, n
  <2>0. Ago(seq) \subseteq 1..n - 1
    BY <1>2 DEF Ago
  <2>1. \A d \in Ago(s) : PosAt(Back(c1, d, n)) \in x.set
    <3> SUFFICES ASSUME NEW d \in Ago(s) PROVE PosAt(Back(c1, d, n)) \in x.set
      OBVIOUS
    <3>1. d \in Nat /\ d >= 1
      BY <1>4 DEF Ago
    <3>2. d \in 1..n /\ d # n /\ n \in 1..n /\ d \in 0..n
      BY <1>2, <1>4, <3>1
    <3>3. PosAt(Back(c1, d, n)) # PosAt(c1)
      <4>1. Back(c1, d, n) \in Nat /\ c1 \in Nat /\ Back(c1, d, n) # c1
        BY <1>6, <3>2
      <4> QED BY <4>1, PosFacts
    <3>4. PosAt(Back(c1, d, n)) = PosAt(Back(c, d - 1, n))
      BY <1>6, <3>2
    <3>5. CASE d = 1 /\ valid
      <4>1. PosAt(Back(c1, d, n)) = PosAt(c)
        BY <1>6, <3>4, <3>5
      <4> QED BY <1>3, <1>8, <3>3, <3>5, <4>1
    <3>6. CASE d > 1 /\ d - 1 \in Ago(seq)
      <4>1. PosAt(Back(c, d - 1, n)) \in t.set
        BY <1>1, <3>6 DEF n
      <4> QED BY <1>3, <1>8, <3>3, <3>4, <4>1
    <3> QED BY <1>4, <3>1, <3>5, <3>6
  <2>2. \A p \in x.set : \E d \in Ago(s) : p = PosAt(Back(c1, d, n))
    <3> SUFFICES ASSUME NEW p \in x.set PROVE \E d \in Ago(s) : p = PosAt(Back(c1, d, n))
      OBVIOUS
    <3>1. p # PosAt(c1) /\ p \in m.set
      BY <1>8
    <3> DEFINE Due(d) == (d = 1 /\ valid = TRUE) \/ (d > 1 /\ d - 1 \in Ago(seq))
    <3>2. \A d \in 1..n : p = PosAt(Back(c1, d, n)) /\ Due(d) => d \in Ago(s)
      <4> SUFFICES ASSUME NEW d \in 1..n, p = PosAt(Back(c1, d, n)), Due(d)
                   PROVE  d \in Ago(s)
        OBVIOUS
      <4>1. d # n
        BY <1>6, <3>1
      <4> QED BY <1>2, <1>4, <4>1
    <3>3. CASE valid = TRUE /\ p = PosAt(c)
      <4>1. PICK d \in 1..n : d = 1
        BY <1>2
      <4>2. p = PosAt(Back(c1, d, n))
        <5>1. d - 1 = 0
          BY <4>1
        <5> QED BY <1>6, <3>3, <5>1
      <4>4. Due(d)
        BY <3>3, <4>1
      <4>3. d \in Ago(s)
        BY <3>2, <4>2, <4>4
      <4> QED BY <4>2, <4>3
    <3>4. CASE p \in t.set
      <4>1. PICK e \in Ago(seq) : p = PosAt(Back(c, e, n))
        BY <1>1, <3>4 DEF n
      <4>2. PICK d \in 1..n : d = e + 1
        <5>1. e + 1 \in 1..n
          BY <1>2, <2>0
        <5> QED BY <5>1
      <4>4. d > 1 /\ d - 1 = e
        BY <2>0, <4>2
      <4>3. p = PosAt(Back(c1, d, n))
        BY <1>6, <4>1, <4>4
      <4> QED BY <3>2, <4>1, <4>3, <4>4
    <3> QED BY <1>3, <3>1, <3>3, <3>4
  <2> QED BY <2>1, <2>2
<1>10. /\ u \in Windows /\ u.set = x.set /\ u.lq = x.lq /\ u.size = n /\ At(u) = PosAt(c1)
       /\ u.count = IF t.count < n THEN t.count + 1 ELSE t.count
  <2> HIDE DEF x, c1
  <2>1. CASE x.count < x.size
    <3>1. u = [x EXCEPT !.count = x.count + 1] /\ x.count + 1 \in Nat
      BY <1>2, <1>7, <1>8, <2>1
    <3>2. /\ u \in Windows /\ u.set = x.set /\ u.lq = x.lq /\ u.size = x.size
          /\ u.index = x.index /\ u.bit = x.bit /\ u.count = x.count + 1
      BY <1>8, <3>1 DEF Windows
    <3> QED BY <1>8, <2>1, <3>2 DEF At
  <2>2. CASE ~(x.count < x.size)
    BY <1>7, <1>8, <2>2
  <2> QED BY <2>1, <2>2
<1>11. CountsBits(u) /\ Len(s) < n /\ Len(s) <= u.count /\ u.count <= n
       /\ (Len(seq) < t.count => Len(s) < u.count)
  <2>1. CountsBits(u)
    BY <1>8, <1>10 DEF CountsBits
  <2> HIDE DEF n, x
  <2> QED BY <1>2, <1>4, <1>10, <2>1
<1> HIDE DEF x, c1, m, w
<1>12. \E k \in 0..u.size - 1 :
         At(u) = PosAt(k) /\ u.set = {PosAt(Back(k, d, u.size)) : d \in Ago(s)}
  BY <1>6, <1>9, <1>10
<1> QED BY <1>4, <1>10, <1>11, <1>12 DEF WindowInv

\* The count is the number of the last slots that brought a packet, and within what
\* it is a share of.
LEMMA CountIsRecent ==
  ASSUME NEW t, NEW seq, WindowInv(t, seq)
  PROVE  t.lq = Valid(seq) /\ t.lq \in Nat /\ t.lq <= Len(seq)
<1>1. PICK c \in 0..t.size - 1 :
        At(t) = PosAt(c) /\ t.set = {PosAt(Back(c, d, t.size)) : d \in Ago(seq)}
  BY DEF WindowInv
<1> DEFINE n == t.size
           len == Len(seq)
           S == {i \in DOMAIN seq : seq[i]}
           f == [i \in S |-> PosAt(Back(c, len + 1 - i, n))]
<1>2. /\ n \in Nat \ {0} /\ c \in 0..n - 1 /\ len \in Nat /\ len < n /\ DOMAIN seq = 1..len
      /\ IsFiniteSet(t.set) /\ t.lq = Cardinality(t.set)
  BY DEF WindowInv, Windows, CountsBits
<1>3. \A i \in S : /\ i \in 1..len /\ len + 1 - i \in Ago(seq) /\ len + 1 - i \in 1..n
                   /\ Back(c, len + 1 - i, n) \in Nat
  <2> SUFFICES ASSUME NEW i \in S
               PROVE  /\ i \in 1..len /\ len + 1 - i \in Ago(seq) /\ len + 1 - i \in 1..n
                      /\ Back(c, len + 1 - i, n) \in Nat
    OBVIOUS
  <2>1. i \in 1..len /\ seq[i]
    BY <1>2
  <2> HIDE DEF n, len
  <2>2. PICK d \in 1..len : d = len + 1 - i
    BY <1>2, <2>1
  <2>3. len + 1 - d = i /\ d \in 1..n /\ d \in 0..n
    BY <1>2, <2>1, <2>2
  <2>4. d \in Ago(seq)
    BY <2>1, <2>2, <2>3 DEF Ago, len
  <2>5. Back(c, d, n) \in Nat
    <3>1. Back(c, d, n) \in 0..n - 1
      BY <1>2, <2>3, BackFacts
    <3> QED BY <1>2, <3>1
  <2> QED BY <2>1, <2>2, <2>3, <2>4, <2>5
<1>4. \A d \in Ago(seq) : \E i \in S : d = len + 1 - i
  <2> SUFFICES ASSUME NEW d \in Ago(seq) PROVE \E i \in S : d = len + 1 - i
    OBVIOUS
  <2>1. d \in 1..len /\ seq[len + 1 - d]
    BY DEF Ago
  <2> HIDE DEF len
  <2>2. PICK i \in 1..len : i = len + 1 - d
    BY <1>2, <2>1
  <2>3. d = len + 1 - i
    BY <1>2, <2>1, <2>2
  <2> QED BY <1>2, <2>1, <2>2, <2>3
<1>5. f \in [S -> t.set]
  BY <1>1, <1>3
<1>6. \A i, j \in S : f[i] = f[j] => i = j
  <2> SUFFICES ASSUME NEW i \in S, NEW j \in S, f[i] = f[j] PROVE i = j
    OBVIOUS
  <2> HIDE DEF n, len, S
  <2>1. PosAt(Back(c, len + 1 - i, n)) = PosAt(Back(c, len + 1 - j, n))
    OBVIOUS
  <2>2. Back(c, len + 1 - i, n) = Back(c, len + 1 - j, n)
    BY <1>3, <2>1, PosFacts
  <2>3. PICK d \in Nat, e \in Nat : d = len + 1 - i /\ e = len + 1 - j /\ d \in 1..n /\ e \in 1..n
    BY <1>2, <1>3
  <2>4. Back(c, d, n) = Back(c, e, n)
    BY <2>2, <2>3
  <2>5. d = e
    BY <1>2, <2>3, <2>4, BackApart
  <2> QED BY <1>2, <1>3, <2>3, <2>5
<1>7. \A x \in t.set : \E i \in S : f[i] = x
  <2> SUFFICES ASSUME NEW x \in t.set PROVE \E i \in S : f[i] = x
    OBVIOUS
  <2>1. PICK d \in Ago(seq) : x = PosAt(Back(c, d, n))
    BY <1>1
  <2>2. PICK i \in S : d = len + 1 - i
    BY <1>4
  <2> HIDE DEF S, len, n
  <2> QED BY <2>1, <2>2
<1>8. IsFiniteSet(S) /\ Cardinality(S) <= len
  <2>1. IsFiniteSet(1..len) /\ Cardinality(1..len) = len
    <3> HIDE DEF len
    <3>1. 1 \in Int /\ len \in Int /\ (IF 1 > len THEN 0 ELSE len - 1 + 1) = len
      BY <1>2
    <3> QED BY <3>1, FS_Interval
  <2>2. S \in SUBSET (1..len)
    BY <1>2
  <2> HIDE DEF S
  <2> QED BY <2>1, <2>2, FS_Subset
<1>9. Cardinality(S) = Cardinality(t.set)
  <2> HIDE DEF S
  <2>1. f \in Bijection(S, t.set)
    BY <1>5, <1>6, <1>7 DEF Bijection, Injection, Surjection, IsInjective
  <2>2. ExistsBijection(S, t.set)
    BY <2>1 DEF ExistsBijection
  <2> QED BY <1>8, <2>2, FS_Bijection
<1>10. Cardinality(S) \in Nat
  BY <1>8, FS_CardinalityType
<1> QED BY <1>2, <1>8, <1>9, <1>10 DEF Valid

\* A share of a hundred.
LEMMA Share == ASSUME NEW a \in Nat, NEW b \in Nat, a <= b, b # 0 PROVE (a * 100) \div b <= 100
<1>1. PICK q \in Int, r \in Int : q = (a * 100) \div b /\ r = (a * 100) % b
  OBVIOUS
<1>2. a * 100 = b * q + r /\ r \in 0..b - 1
  BY <1>1, Z3T(30)
<1>3. ~(q > 100)
  <2> SUFFICES ASSUME q > 100 PROVE FALSE
    OBVIOUS
  <2>1. PICK e \in Nat : q = 101 + e
    <3>1. q - 101 \in Nat /\ q = 101 + (q - 101)
      OBVIOUS
    <3> QED BY <3>1
  <2>2. b * q = b * 101 + b * e /\ b * e \in Nat
    BY <2>1
  <2> QED BY <1>2, <2>2
<1> QED BY <1>1, <1>3

\* A fresh tracker, over no slot.
LEMMA FreshRight ==
  ASSUME NEW n \in Nat \ {0}, NEW k \in {0, 1}
  PROVE  WindowInv(Fresh(n, k), <<>>)
<1> DEFINE t == Fresh(n, k)
<1>1. /\ t \in Windows /\ t.size = n /\ t.set = {} /\ t.lq = 0 /\ t.index = 0 /\ t.bit = 0
      /\ t.count = k
  <2>1. {} \in SUBSET Positions /\ 0 \in 0..WordBits - 1
    BY LqAssumption
  <2> QED BY <2>1 DEF Fresh, Windows
<1>2. CountsBits(t)
  BY <1>1, FS_EmptySet DEF CountsBits
<1>3. Ago(<<>>) = {} /\ Len(<<>>) = 0 /\ <<>> \in Seq(BOOLEAN)
  BY DEF Ago
<1>4. 0 \in 0..t.size - 1 /\ At(t) = PosAt(0) /\ t.set = {PosAt(Back(0, d, t.size)) : d \in Ago(<<>>)}
  <2>1. PosAt(0) = <<0, 0>>
    BY PosFacts
  <2>2. 0 \in 0..t.size - 1
    BY <1>1
  <2> HIDE DEF t
  <2> QED BY <1>1, <1>3, <2>1, <2>2 DEF At
<1> HIDE DEF t
<1>5. WindowInv(t, <<>>)
  BY <1>1, <1>2, <1>3, <1>4 DEF WindowInv
<1> QED BY <1>5 DEF t

\* The window covers a number of slots in its range.
LEMMA WindowRange == \A r \in AirRates : WindowSize(r) \in Nat \ {0}
<1> SUFFICES ASSUME NEW r \in AirRates PROVE WindowSize(r) \in Nat \ {0}
  OBVIOUS
<1> DEFINE slot == IF r.denom > 1
                   THEN (r.interval * r.denom + r.denom - 2) \div (r.denom - 1) ELSE r.interval
           n == (TargetTime + slot - 1) \div slot
<1>1. r.interval \in Nat \ {0} /\ r.denom \in Nat \ {0}
  BY LqAssumption
<1>2. slot \in Int /\ slot > 0
  <2>1. CASE r.denom > 1
    <3>1. PICK a \in Nat, b \in Nat \ {0} : /\ a = r.interval * r.denom + r.denom - 2
                                            /\ b = r.denom - 1 /\ a >= b
      <4>1. r.denom - 1 \in Nat \ {0} /\ r.interval * r.denom \in Nat /\ r.interval * r.denom >= 1
        BY <1>1, <2>1
      <4>2. /\ r.interval * r.denom + r.denom - 2 \in Nat
            /\ r.interval * r.denom + r.denom - 2 >= r.denom - 1
        BY <1>1, <2>1, <4>1
      <4> QED BY <4>1, <4>2, Zenon
    <3>2. a \div b \in Nat \ {0}
      <4>1. \A m, k \in Nat : m >= 1 /\ k >= m => k \div m \in Nat \ {0}
        BY Z3T(30)
      <4>2. a \in Nat /\ b \in Nat /\ b >= 1
        OBVIOUS
      <4>3. a >= b
        BY <3>1, Zenon
      <4> QED BY ONLY <4>1, <4>2, <4>3, Zenon
    <3> QED BY <2>1, <3>1, <3>2
  <2>2. CASE ~(r.denom > 1)
    BY <1>1, <2>2
  <2> QED BY <2>1, <2>2
<1>3. n \in Int
  <2> HIDE DEF slot
  <2> QED BY <1>2, LqAssumption
<1>4. WindowSize(r) = IF n < MinWindow THEN MinWindow ELSE IF n > MaxWindow THEN MaxWindow ELSE n
  BY DEF WindowSize
<1> HIDE DEF n
<1> QED BY <1>3, <1>4, LqAssumption

LEMMA LqStarts == LqInit => LqInv
<1> SUFFICES ASSUME LqInit PROVE LqInv
  OBVIOUS
<1>1. MaxWindow \in Nat \ {0} /\ DownWindow \in Nat \ {0}
  BY LqAssumption
<1>2. WindowInv(upLq, upSeen) /\ WindowInv(downLq, downSeen)
  BY <1>1, FreshRight DEF LqInit
<1> QED BY <1>2 DEF LqInit, LqInv, Fresh

LEMMA LqSteps == LqInv /\ [LqNext]_lqVars => LqInv'
<1> SUFFICES ASSUME LqInv, [LqNext]_lqVars PROVE LqInv'
  OBVIOUS
<1>0. /\ WindowInv(upLq, upSeen) /\ WindowInv(downLq, downSeen)
      /\ downLq.size = DownWindow /\ Len(downSeen) < downLq.count
  BY DEF LqInv
<1>1. CASE UplinkReset
  <2>1. PICK n : n \in {WindowSize(r) : r \in AirRates} \cup {MaxWindow} /\ upLq' = Fresh(n, 0)
    BY <1>1 DEF UplinkReset
  <2>2. n \in Nat \ {0}
    BY <2>1, WindowRange, LqAssumption
  <2>3. WindowInv(upLq, upSeen)'
    BY <1>1, <2>1, <2>2, FreshRight DEF UplinkReset
  <2> QED BY <1>0, <1>1, <2>3 DEF UplinkReset, LqInv
<1>2. ASSUME NEW v \in BOOLEAN, UplinkSlotDone(v) PROVE LqInv'
  <2>1. WindowInv(upLq, upSeen)'
    BY <1>0, <1>2, SlotCounted DEF UplinkSlotDone
  <2> QED BY <1>0, <1>2, <2>1 DEF UplinkSlotDone, LqInv
<1>3. ASSUME NEW v \in BOOLEAN, DownlinkTlmWindowDone(v) PROVE LqInv'
  <2>1. /\ downLq' = Advanced(IF v THEN Marked(downLq) ELSE downLq)
        /\ downSeen' = LastOf(Append(downSeen, v), downLq.size - 1)
        /\ UNCHANGED <<upLq, upSeen>>
    BY <1>0, <1>3 DEF DownlinkTlmWindowDone, Reported
  <2>2. /\ WindowInv(downLq', downSeen') /\ downLq'.size = downLq.size
        /\ Len(downSeen) < downLq.count => Len(downSeen') < downLq'.count
    BY <1>0, <2>1, SlotCounted
  <2> QED BY <1>0, <2>1, <2>2 DEF LqInv
<1>4. CASE UNCHANGED lqVars
  BY <1>0, <1>4 DEF lqVars, LqInv
<1> QED BY <1>1, <1>2, <1>3, <1>4 DEF LqNext

\* The quality that is reported, of the slots behind and of the current one.
LEMMA LqRight == LqInv => LqTypeOK /\ LqCountsWindow
<1> SUFFICES ASSUME LqInv PROVE LqTypeOK /\ LqCountsWindow
  OBVIOUS
<1>1. /\ WindowInv(upLq, upSeen) /\ WindowInv(downLq, downSeen) /\ Len(downSeen) < downLq.count
  BY DEF LqInv
<1>2. LqTypeOK /\ LqIsCount
  BY <1>1 DEF LqTypeOK, LqIsCount, WindowInv
<1>3. /\ upLq.lq = Valid(upSeen) /\ upLq.lq \in Nat /\ upLq.lq <= Len(upSeen)
      /\ downLq.lq = Valid(downSeen) /\ downLq.lq \in Nat /\ downLq.lq <= Len(downSeen)
  BY <1>1, CountIsRecent
<1>4. /\ upLq.count \in Nat /\ Len(upSeen) \in Nat /\ Len(upSeen) <= upLq.count
      /\ downLq.count \in Nat /\ Len(downSeen) \in Nat
  BY <1>1 DEF WindowInv, Windows
<1>5. GetLq(upLq) <= 100
  <2>1. CASE upLq.count = 0
    BY <2>1 DEF GetLq
  <2>2. CASE upLq.count # 0
    <3>1. upLq.lq <= upLq.count
      BY <1>3, <1>4
    <3> QED BY <1>3, <1>4, <2>2, <3>1, Share DEF GetLq
  <2> QED BY <2>1, <2>2
<1>6. \A v \in BOOLEAN : GetLq(Reported(v)) <= 100
  <2> SUFFICES ASSUME NEW v \in BOOLEAN PROVE GetLq(Reported(v)) <= 100
    OBVIOUS
  <2>1. PICK c : c \in 0..downLq.size - 1 /\ At(downLq) = PosAt(c)
                 /\ downLq.set = {PosAt(Back(c, d, downLq.size)) : d \in Ago(downSeen)}
    BY <1>1 DEF WindowInv
  <2>2. Marked(downLq).lq = downLq.lq + 1 /\ Marked(downLq).count = downLq.count
    BY <1>1, <2>1, MarkFacts
  <2>3. PICK a \in Nat : a = Reported(v).lq /\ a <= downLq.count /\ Reported(v).count = downLq.count
    <3>1. CASE v
      <4>1. downLq.lq + 1 \in Nat /\ downLq.lq + 1 <= downLq.count
        BY <1>1, <1>3, <1>4
      <4> QED BY <2>2, <3>1, <4>1 DEF Reported
    <3>2. CASE ~v
      <4>1. downLq.lq <= downLq.count
        BY <1>1, <1>3, <1>4
      <4> QED BY <1>3, <3>2, <4>1 DEF Reported
    <3> QED BY <3>1, <3>2
  <2>4. downLq.count # 0
    BY <1>1, <1>4
  <2>5. GetLq(Reported(v)) = (a * 100) \div downLq.count
    BY <2>3, <2>4 DEF GetLq
  <2> QED BY <1>4, <2>3, <2>4, <2>5, Share
<1> QED BY <1>2, <1>3, <1>5, <1>6 DEF LqCountsWindow, LqIsRecent, LqIsPercent

\* LqWindow: for every word width, window size and rate, the running counts are the
\* number of the last slots that brought a packet, and what is reported is a percentage.
THEOREM LqCounts == LqSpec => [](LqTypeOK /\ LqCountsWindow)
BY LqStarts, LqSteps, LqRight, PTL DEF LqSpec
-----------------------------------------------------------------------------
(* AirPort's FIFO *)

\* The main loop is between the two stores of a reset: the ring holds what came in since
\* the first, and the interrupt counts from a tail that is out of date, never less.
WhileResetting ==
  head = 0 \/ (head <= Size(head, tail) /\ Size(head, tail) <= Capacity)

\* The packet's count is covered by what was popped and what is still there; the byte
\* popped last is still in its slot.
WhilePopping ==
  /\ pc = "pop" => count - Len(payload) <= Size(head, tail)
  /\ pc = "release" => /\ Len(payload) >= 1 /\ count - Len(payload) + 1 <= Size(head, tail)
                       /\ payload[Len(payload)] = data[Slot(tail)]

FifoInv ==
  /\ TypeOK
  /\ IF pc = "resetTail" THEN WhileResetting ELSE Size(head, tail) <= Capacity
  /\ IF pc \in {"pop", "release"} THEN Len(payload) <= count ELSE payload = <<>>
  /\ WhilePopping

\* The constants.
LEMMA CounterFacts ==
  /\ Capacity \in Nat \ {0} /\ CounterMod \in Nat \ {0} /\ Capacity < CounterMod
  /\ \E k \in Nat : CounterMod = Capacity * k
  /\ MaxPayload \in Nat \ {0} /\ MaxBytes \in Nat /\ MaxResets \in Nat
<1>1. Capacity \in Nat \ {0} /\ CounterMod \in Nat /\ Capacity < CounterMod /\ CounterMod % Capacity = 0
  BY CounterAssumption
<1>2. PICK a \in Nat, b \in 0..Capacity - 1 : CounterMod = Capacity * a + b /\ CounterMod % Capacity = b
  <2>1. CounterMod \in Nat /\ Capacity \in Nat \ {0}
    BY <1>1
  <2>2. PICK a \in Nat, b \in 0..Capacity - 1 :
          CounterMod = Capacity * a + b /\ CounterMod \div Capacity = a /\ CounterMod % Capacity = b
    BY <2>1, DivMod
  <2> QED BY <2>2, Zenon
<1>3. b = 0
  BY <1>1, <1>2, Zenon
<1>4. CounterMod = Capacity * a
  BY <1>1, <1>2, <1>3
<1> QED BY <1>1, <1>4, BoundAssumption

\* The distance of two counters, one of which may have come round.
LEMMA SizeIs ==
  ASSUME NEW h \in Counters, NEW t \in Counters
  PROVE  /\ Size(h, t) = IF t <= h THEN h - t ELSE h - t + CounterMod
         /\ Size(h, t) \in Nat /\ Size(h, t) < CounterMod
<1> DEFINE M == CounterMod
<1>1. M \in Nat \ {0} /\ h \in 0..M - 1 /\ t \in 0..M - 1
  BY CounterFacts DEF Counters
<1>2. Size(h, t) = (h - t) % M
  BY DEF Size
<1> HIDE DEF M
<1>3. CASE t <= h
  <2>1. Divided(h - t, M, 0, h - t)
    BY <1>1, <1>3 DEF Divided
  <2>2. Size(h, t) = h - t
    BY <1>2, <2>1, DivisionOf, Zenon
  <2> QED BY <1>1, <1>3, <2>2 DEF M
<1>4. CASE ~(t <= h)
  <2>1. Divided(h - t, M, (-1), h - t + M)
    BY <1>1, <1>4 DEF Divided
  <2>2. Size(h, t) = h - t + M
    BY <1>2, <2>1, DivisionOf, Zenon
  <2> QED BY <1>1, <1>4, <2>2 DEF M
<1> QED BY <1>3, <1>4

\* A counter moves on.
LEMMA CounterNext ==
  ASSUME NEW h \in Counters
  PROVE  /\ (h + 1) % CounterMod = IF h + 1 = CounterMod THEN 0 ELSE h + 1
         /\ (h + 1) % CounterMod \in Counters
<1> DEFINE M == CounterMod
<1>1. M \in Nat \ {0} /\ h \in 0..M - 1
  BY CounterFacts DEF Counters
<1> HIDE DEF M
<1>2. CASE h + 1 = M
  <2>1. Divided(h + 1, M, 1, 0)
    BY <1>1, <1>2 DEF Divided
  <2>2. (h + 1) % M = 0
    BY <2>1, DivisionOf, Zenon
  <2> QED BY <1>1, <1>2, <2>1, <2>2 DEF M, Counters
<1>3. CASE h + 1 # M
  <2>1. Divided(h + 1, M, 0, h + 1)
    BY <1>1, <1>3 DEF Divided
  <2>2. (h + 1) % M = h + 1
    BY <2>1, DivisionOf, Zenon
  <2> QED BY <1>1, <1>3, <2>1, <2>2 DEF M, Counters
<1> QED BY <1>2, <1>3

\* Counters a lap apart have the same slot.
LEMMA SameSlot ==
  ASSUME NEW x \in Nat, CounterMod <= x
  PROVE  Slot(x - CounterMod) = Slot(x)
<1>1. PICK k \in Nat : CounterMod = Capacity * k
  BY CounterFacts
<1>2. PICK y \in Nat : y = x - CounterMod
  BY CounterFacts
<1>3. PICK a \in Nat, b \in 0..Capacity - 1 : y = Capacity * a + b /\ y % Capacity = b
  BY CounterFacts, DivMod
<1>4. PICK q \in Nat : q = a + k
  OBVIOUS
<1>5. x = Capacity * q + b
  <2>1. Capacity * q = Capacity * a + Capacity * k
    BY <1>4, CounterFacts
  <2>2. x = y + CounterMod
    BY <1>2, CounterFacts
  <2> QED BY <1>1, <1>3, <2>1, <2>2, CounterFacts
<1>6. x % Capacity = b
  BY <1>5, CounterFacts, Division
<1> QED BY <1>2, <1>3, <1>6, Zenon DEF Slot

\* Counters less than a lap of the ring apart have different slots.
LEMMA OtherSlot ==
  ASSUME NEW x \in Nat, NEW y \in Nat, x < y, y < x + Capacity
  PROVE  Slot(x) # Slot(y)
<1> SUFFICES ASSUME Slot(x) = Slot(y) PROVE FALSE
  OBVIOUS
<1>1. Capacity \in Nat \ {0}
  BY CounterFacts
<1>2. PICK a \in Nat, b \in 0..Capacity - 1 : x = Capacity * a + b /\ x % Capacity = b
  BY <1>1, DivMod
<1>3. PICK c \in Nat, d \in 0..Capacity - 1 : y = Capacity * c + d /\ y % Capacity = d
  BY <1>1, DivMod
<1>4. b = d
  BY <1>2, <1>3, Zenon DEF Slot
<1>5. ~(c <= a)
  <2> SUFFICES ASSUME c <= a PROVE FALSE
    OBVIOUS
  <2>1. PICK e \in Nat : a = c + e
    <3>1. a - c \in Nat /\ a = c + (a - c)
      OBVIOUS
    <3> QED BY <3>1, Zenon
  <2>2. Capacity * a = Capacity * c + Capacity * e /\ Capacity * e \in Nat /\ Capacity * c \in Nat
    BY <1>1, <2>1
  <2> QED BY <1>1, <1>2, <1>3, <1>4, <2>2
<1>6. ~(c > a)
  <2> SUFFICES ASSUME c > a PROVE FALSE
    OBVIOUS
  <2>1. PICK e \in Nat : c = a + 1 + e
    <3>1. c - a - 1 \in Nat /\ c = a + 1 + (c - a - 1)
      OBVIOUS
    <3> QED BY <3>1, Zenon
  <2>2. Capacity * c = Capacity * a + Capacity + Capacity * e
        /\ Capacity * e \in Nat /\ Capacity * a \in Nat
    BY <1>1, <2>1
  <2> QED BY <1>1, <1>2, <1>3, <1>4, <2>2
<1> QED BY <1>5, <1>6

\* A slot is an index of the ring.
LEMMA SlotIndex == \A x \in Nat : Slot(x) \in 0..Capacity - 1
<1> SUFFICES ASSUME NEW x \in Nat PROVE Slot(x) \in 0..Capacity - 1
  OBVIOUS
<1>1. PICK a \in Nat, b \in 0..Capacity - 1 : x % Capacity = b
  BY CounterFacts, DivMod
<1> QED BY <1>1, Zenon DEF Slot

\* One byte more, and one less.
LEMMA SizeNext ==
  ASSUME NEW h \in Counters, NEW t \in Counters
  PROVE  /\ Size(h, t) < Capacity => Size((h + 1) % CounterMod, t) = Size(h, t) + 1
         /\ h # t => Size(h, (t + 1) % CounterMod) = Size(h, t) - 1 /\ Size(h, t) >= 1
         /\ h = t <=> Size(h, t) = 0
<1> DEFINE h1 == (h + 1) % CounterMod
           t1 == (t + 1) % CounterMod
<1>1. /\ h1 \in Counters /\ h1 = IF h + 1 = CounterMod THEN 0 ELSE h + 1
      /\ t1 \in Counters /\ t1 = IF t + 1 = CounterMod THEN 0 ELSE t + 1
  BY CounterNext
<1> HIDE DEF h1, t1
<1>2. /\ Size(h, t) = IF t <= h THEN h - t ELSE h - t + CounterMod
      /\ Size(h1, t) = IF t <= h1 THEN h1 - t ELSE h1 - t + CounterMod
      /\ Size(h, t1) = IF t1 <= h THEN h - t1 ELSE h - t1 + CounterMod
  BY <1>1, SizeIs
<1>3. h \in 0..CounterMod - 1 /\ t \in 0..CounterMod - 1
      /\ Capacity \in Nat /\ CounterMod \in Nat /\ Capacity < CounterMod
  BY CounterFacts DEF Counters
<1>4. Size(h, t) < Capacity => Size(h1, t) = Size(h, t) + 1
  BY <1>1, <1>2, <1>3
<1>5. h # t => Size(h, t1) = Size(h, t) - 1 /\ Size(h, t) >= 1
  BY <1>1, <1>2, <1>3
<1>6. h = t <=> Size(h, t) = 0
  BY <1>2, <1>3
<1> QED BY <1>4, <1>5, <1>6 DEF h1, t1

\* A counter in the same slot as the one that many behind another.
LEMMA SlotAhead ==
  ASSUME NEW h \in Counters, NEW t \in Counters
  PROVE  /\ Slot(h) = Slot(t + Size(h, t))
         /\ \A j \in Nat : Slot(((t + 1) % CounterMod) + j) = Slot(t + 1 + j)
<1>1. /\ h \in 0..CounterMod - 1 /\ t \in 0..CounterMod - 1 /\ CounterMod \in Nat
      /\ Size(h, t) = IF t <= h THEN h - t ELSE h - t + CounterMod
  BY CounterFacts, SizeIs DEF Counters
<1>2. Slot(h) = Slot(t + Size(h, t))
  <2>1. CASE t <= h
    <3>1. t + Size(h, t) = h
      BY <1>1, <2>1
    <3> QED BY <3>1
  <2>2. CASE ~(t <= h)
    <3>1. PICK x \in Nat : x = h + CounterMod /\ CounterMod <= x
      BY <1>1
    <3>2. t + Size(h, t) = x /\ x - CounterMod = h
      BY <1>1, <2>2, <3>1
    <3> QED BY <3>1, <3>2, SameSlot
  <2> QED BY <2>1, <2>2
<1>3. \A j \in Nat : Slot(((t + 1) % CounterMod) + j) = Slot(t + 1 + j)
  <2> SUFFICES ASSUME NEW j \in Nat PROVE Slot(((t + 1) % CounterMod) + j) = Slot(t + 1 + j)
    OBVIOUS
  <2> DEFINE t1 == (t + 1) % CounterMod
  <2>1. t1 = IF t + 1 = CounterMod THEN 0 ELSE t + 1
    BY CounterNext
  <2> HIDE DEF t1
  <2>2. Slot(t1 + j) = Slot(t + 1 + j)
    <3>1. CASE t + 1 = CounterMod
      <4>1. PICK x \in Nat : x = t + 1 + j /\ CounterMod <= x
        BY <1>1, <3>1
      <4>2. x - CounterMod = t1 + j
        BY <1>1, <2>1, <3>1, <4>1
      <4> QED BY <4>1, <4>2, SameSlot
    <3>2. CASE t + 1 # CounterMod
      BY <2>1, <3>2
    <3> QED BY <3>1, <3>2
  <2> QED BY <2>2 DEF t1
<1> QED BY <1>2, <1>3

\* Where the interrupt writes next no byte of the ring is.
LEMMA FreeSlot ==
  ASSUME NEW h \in Counters, NEW t \in Counters, Size(h, t) < Capacity
  PROVE  \A j \in Nat : j < Size(h, t) => Slot(t + j) # Slot(h)
<1> SUFFICES ASSUME NEW j \in Nat, j < Size(h, t) PROVE Slot(t + j) # Slot(h)
  OBVIOUS
<1>1. PICK n \in Nat : n = Size(h, t) /\ n < Capacity /\ Slot(h) = Slot(t + n)
  BY SizeIs, SlotAhead
<1>2. PICK x \in Nat, y \in Nat : x = t + j /\ y = t + n
  <2>1. t \in Nat
    BY CounterFacts DEF Counters
  <2>2. t + j \in Nat /\ t + n \in Nat
    BY <2>1
  <2> QED BY <2>2
<1>3. x < y /\ y < x + Capacity
  BY <1>1, <1>2, CounterFacts DEF Counters
<1> QED BY <1>1, <1>2, <1>3, OtherSlot

LEMMA FifoStarts == Init => FifoInv
<1> SUFFICES ASSUME Init PROVE FifoInv
  OBVIOUS
<1>1. /\ head \in Counters /\ tail = head /\ pc = "idle" /\ count = 0 /\ payload = <<>>
      /\ sent = <<>> /\ arrived = 0 /\ resets = 0
  BY DEF Init
<1>2. data \in [0..Capacity - 1 -> Nat]
  BY DEF Init
<1>3. TypeOK
  BY <1>1, <1>2, CounterFacts DEF TypeOK
<1>4. Size(head, tail) <= Capacity
  <2>1. Size(head, tail) = 0
    BY <1>1, SizeNext
  <2> QED BY <2>1, CounterFacts
<1> QED BY <1>1, <1>3, <1>4 DEF FifoInv, WhilePopping

\* The parts of the invariant, for the proofs to come.
LEMMA FifoUnfold ==
  ASSUME FifoInv
  PROVE  /\ head \in Counters /\ tail \in Counters /\ data \in [0..Capacity - 1 -> Nat]
         /\ pc \in {"idle", "pop", "release", "resetTail"} /\ count \in 0..MaxPayload
         /\ payload \in Seq(Nat) /\ Len(payload) \in Nat /\ sent \in Seq(Nat)
         /\ arrived \in 0..MaxBytes /\ resets \in 0..MaxResets
         /\ pc = "resetTail" => WhileResetting
         /\ pc # "resetTail" => Size(head, tail) <= Capacity
         /\ pc \in {"pop", "release"} => Len(payload) <= count
         /\ pc \notin {"pop", "release"} => payload = <<>>
         /\ WhilePopping
         /\ Size(head, tail) \in Nat /\ Size(head, tail) < CounterMod
         /\ count \in Nat /\ Capacity \in Nat \ {0} /\ CounterMod \in Nat /\ Capacity < CounterMod
<1>1. head \in Counters /\ tail \in Counters /\ payload \in Seq(Nat) /\ count \in 0..MaxPayload
  BY DEF FifoInv, TypeOK
<1>2. Size(head, tail) \in Nat /\ Size(head, tail) < CounterMod
  BY <1>1, SizeIs
<1>3. count \in Nat /\ Len(payload) \in Nat
  BY <1>1, CounterFacts
<1> QED BY <1>1, <1>2, <1>3, CounterFacts DEF FifoInv, TypeOK

\* The interrupt between two accesses of the main loop.
LEMMA UartByteKeeps == ASSUME FifoInv, UartByte PROVE FifoInv'
<1>1. UNCHANGED mainVars /\ arrived' = arrived + 1 /\ arrived < MaxBytes
  BY DEF UartByte
<1>2. arrived' \in 0..MaxBytes
  BY <1>1, FifoUnfold, CounterFacts
<1>3. CASE ~HasRoom
  <2>1. UNCHANGED <<head, data>>
    BY <1>3 DEF UartByte
  <2> QED BY <1>1, <1>2, <2>1, FifoUnfold
          DEF FifoInv, TypeOK, WhileResetting, WhilePopping, mainVars, Size, Slot
<1>4. CASE HasRoom
  <2>1. /\ data' = [data EXCEPT ![Slot(head)] = arrived'] /\ head' = (head + 1) % CounterMod
        /\ Size(head, tail) < Capacity
    BY <1>4 DEF UartByte, HasRoom
  <2>2. head' \in Counters /\ Size(head', tail) = Size(head, tail) + 1
        /\ head' = IF head + 1 = CounterMod THEN 0 ELSE head + 1
    BY <2>1, CounterNext, SizeNext, FifoUnfold
  <2>3. data' \in [0..Capacity - 1 -> Nat]
    <3>1. arrived' \in Nat
      BY <1>2, CounterFacts
    <3> QED BY <2>1, <3>1, FifoUnfold
  <2>4. TypeOK'
    BY <1>1, <1>2, <2>2, <2>3, FifoUnfold DEF TypeOK, mainVars
  <2>5. UNCHANGED <<tail, pc, count, payload>>
    BY <1>1 DEF mainVars
  <2>6. pc = "resetTail" => WhileResetting'
    <3>1. head \in 0..CounterMod - 1
      BY FifoUnfold DEF Counters
    <3>2. pc = "resetTail" => head' <= head + 1 /\ head <= Size(head, tail)
      BY <2>2, <3>1, FifoUnfold DEF WhileResetting
    <3>3. head' \in Nat
      BY <2>2, FifoUnfold DEF Counters
    <3> QED BY <2>1, <2>2, <2>5, <3>1, <3>2, <3>3, FifoUnfold DEF WhileResetting
  <2>7. Size(head', tail') <= Capacity
    BY <2>1, <2>2, <2>5, FifoUnfold
  <2>8. WhilePopping'
    <3>1. pc = "pop" => count - Len(payload) <= Size(head', tail)
      BY <2>2, FifoUnfold DEF WhilePopping
    <3>2. ASSUME pc = "release"
          PROVE  /\ Len(payload) >= 1 /\ count - Len(payload) + 1 <= Size(head', tail)
                 /\ payload[Len(payload)] = data'[Slot(tail)]
      <4>1. /\ Len(payload) >= 1 /\ count - Len(payload) + 1 <= Size(head, tail)
            /\ payload[Len(payload)] = data[Slot(tail)]
            /\ Len(payload) <= count
        BY <3>2, FifoUnfold DEF WhilePopping
      <4>2. 0 < Size(head, tail) /\ tail \in Nat
        BY <4>1, FifoUnfold DEF Counters
      <4>3. tail + 0 = tail
        BY <4>2
      <4>4. Slot(tail) # Slot(head)
        BY <2>1, <4>2, <4>3, FreeSlot, FifoUnfold
      <4>5. data'[Slot(tail)] = data[Slot(tail)]
        BY <2>1, <4>2, <4>4, SlotIndex, FifoUnfold
      <4> QED BY <2>2, <4>1, <4>5, FifoUnfold
    <3> QED BY <2>5, <3>1, <3>2 DEF WhilePopping
  <2> QED BY <2>4, <2>5, <2>6, <2>7, <2>8, FifoUnfold DEF FifoInv
<1> QED BY <1>3, <1>4

LEMMA StartPacketKeeps == ASSUME FifoInv, StartPacket PROVE FifoInv'
<1>1. /\ pc = "idle" /\ pc' = "pop" /\ payload = <<>>
      /\ count' = IF Size(head, tail) > MaxPayload THEN MaxPayload ELSE Size(head, tail)
      /\ UNCHANGED <<head, tail, data, payload, sent, arrived, resets>>
  BY FifoUnfold DEF StartPacket
<1>2. count' \in 0..MaxPayload /\ count' <= Size(head, tail) /\ count' \in Nat
  BY <1>1, FifoUnfold, CounterFacts
<1>3. TypeOK'
  BY <1>1, <1>2, FifoUnfold DEF TypeOK
<1>4. Size(head', tail') = Size(head, tail) /\ Len(payload') = 0
  BY <1>1
<1>5. WhilePopping'
  BY <1>1, <1>2, <1>4, FifoUnfold DEF WhilePopping
<1> QED BY <1>1, <1>2, <1>3, <1>4, <1>5, FifoUnfold DEF FifoInv

LEMMA PopByteKeeps == ASSUME FifoInv, PopByte PROVE FifoInv'
<1>1. /\ pc = "pop" /\ pc' = "release" /\ Len(payload) < count
      /\ payload' = Append(payload, data[Slot(tail)])
      /\ UNCHANGED <<head, tail, data, count, sent, arrived, resets>>
  BY DEF PopByte
<1>2. data[Slot(tail)] \in Nat
  <2>1. tail \in Nat
    BY FifoUnfold DEF Counters
  <2> QED BY <2>1, SlotIndex, FifoUnfold
<1>3. /\ payload' \in Seq(Nat) /\ Len(payload') = Len(payload) + 1
      /\ payload'[Len(payload')] = data[Slot(tail)]
  BY <1>1, <1>2, FifoUnfold
<1>4. TypeOK'
  BY <1>1, <1>3, FifoUnfold DEF TypeOK
<1>5. Size(head', tail') = Size(head, tail) /\ Len(payload') <= count /\ Len(payload') >= 1
  BY <1>1, <1>3, FifoUnfold
<1>6. count - Len(payload') + 1 <= Size(head, tail)
  BY <1>1, <1>3, FifoUnfold DEF WhilePopping
<1>7. WhilePopping'
  BY <1>1, <1>3, <1>5, <1>6 DEF WhilePopping
<1> QED BY <1>1, <1>4, <1>5, <1>7, FifoUnfold DEF FifoInv

\* While a byte is being popped the ring is not empty.
LEMMA Releasing ==
  ASSUME FifoInv, pc = "release"
  PROVE  /\ head # tail /\ Size(head, tail) >= 1 /\ Len(payload) >= 1
         /\ Size(head, (tail + 1) % CounterMod) = Size(head, tail) - 1
<1>1. Len(payload) >= 1 /\ count - Len(payload) + 1 <= Size(head, tail) /\ Len(payload) <= count
  BY FifoUnfold DEF WhilePopping
<1>2. Size(head, tail) >= 1
  BY <1>1, FifoUnfold
<1>3. head # tail
  BY <1>2, SizeNext, FifoUnfold
<1> QED BY <1>1, <1>2, <1>3, SizeNext, FifoUnfold

LEMMA ReleaseSlotKeeps == ASSUME FifoInv, ReleaseSlot PROVE FifoInv'
<1>1. /\ pc = "release" /\ pc' = "pop" /\ tail' = (tail + 1) % CounterMod
      /\ UNCHANGED <<head, data, count, payload, sent, arrived, resets>>
  BY DEF ReleaseSlot
<1>2. tail' \in Counters /\ Size(head, tail') = Size(head, tail) - 1
  BY <1>1, CounterNext, Releasing, FifoUnfold
<1>3. TypeOK'
  BY <1>1, <1>2, FifoUnfold DEF TypeOK
<1>4. count - Len(payload) <= Size(head, tail')
  BY <1>1, <1>2, FifoUnfold DEF WhilePopping
<1>5. WhilePopping'
  BY <1>1, <1>4 DEF WhilePopping
<1>6. Size(head', tail') <= Capacity
  BY <1>1, <1>2, FifoUnfold
<1> QED BY <1>1, <1>3, <1>5, <1>6, FifoUnfold DEF FifoInv

LEMMA SendPacketKeeps == ASSUME FifoInv, SendPacket PROVE FifoInv' /\ Len(payload) = count
<1>1. /\ pc = "pop" /\ pc' = "idle" /\ sent' = sent \o payload /\ payload' = <<>>
      /\ UNCHANGED <<head, tail, data, count, arrived, resets>>
      /\ Len(payload) = count \/ tail = head
  BY DEF SendPacket
<1>2. TypeOK'
  BY <1>1, FifoUnfold DEF TypeOK
<1>3. FifoInv'
  BY <1>1, <1>2, FifoUnfold DEF FifoInv, WhilePopping
<1>4. Len(payload) = count
  <2>1. ASSUME tail = head PROVE Len(payload) = count
    <3>1. Size(head, tail) = 0
      BY <2>1, SizeNext, FifoUnfold
    <3> QED BY <1>1, <3>1, FifoUnfold DEF WhilePopping
  <2> QED BY <1>1, <2>1
<1> QED BY <1>3, <1>4

LEMMA ResetKeeps == ASSUME FifoInv, ResetHead \/ ResetTail PROVE FifoInv'
<1>0. 0 \in Counters
  BY CounterFacts DEF Counters
<1>1. CASE ResetHead
  <2>1. /\ pc = "idle" /\ pc' = "resetTail" /\ head' = 0 /\ resets' = resets + 1 /\ resets < MaxResets
        /\ UNCHANGED <<tail, data, count, payload, sent, arrived>> /\ payload = <<>>
    BY <1>1, FifoUnfold DEF ResetHead
  <2>2. resets' \in 0..MaxResets
    BY <2>1, FifoUnfold, CounterFacts
  <2>3. TypeOK'
    BY <1>0, <2>1, <2>2, FifoUnfold DEF TypeOK
  <2> QED BY <2>1, <2>3 DEF FifoInv, WhileResetting, WhilePopping
<1>2. CASE ResetTail
  <2>1. /\ pc = "resetTail" /\ pc' = "idle" /\ tail' = 0
        /\ UNCHANGED <<head, data, count, payload, sent, arrived, resets>> /\ payload = <<>>
    BY <1>2, FifoUnfold DEF ResetTail
  <2>2. TypeOK'
    BY <1>0, <2>1, FifoUnfold DEF TypeOK
  <2>3. Size(head, 0) = head /\ head <= Capacity
    <3>1. head \in 0..CounterMod - 1 /\ Size(head, 0) = IF 0 <= head THEN head - 0 ELSE head - 0 + CounterMod
      BY <1>0, SizeIs, FifoUnfold DEF Counters
    <3>2. WhileResetting
      BY <2>1, FifoUnfold
    <3> QED BY <3>1, <3>2, FifoUnfold DEF WhileResetting
  <2> QED BY <2>1, <2>2, <2>3 DEF FifoInv, WhilePopping
<1> QED BY <1>1, <1>2

LEMMA FifoSteps == FifoInv /\ [Next]_vars => FifoInv'
<1> SUFFICES ASSUME FifoInv, [Next]_vars PROVE FifoInv'
  OBVIOUS
<1>1. CASE UNCHANGED vars
  BY <1>1 DEF vars, FifoInv, TypeOK, WhileResetting, WhilePopping
<1> QED BY <1>1, UartByteKeeps, StartPacketKeeps, PopByteKeeps, ReleaseSlotKeeps, SendPacketKeeps,
           ResetKeeps DEF Next, Main

\* AirportFifo: whatever the interrupt does between the size being read and the last byte
\* being popped, a packet carries the count it announces, for every capacity, counter
\* width and payload.
THEOREM PacketsCarryCount == Spec => []TypeOK /\ CountIsCarried
<1>1. FifoInv => TypeOK
  BY DEF FifoInv
<1>2. FifoInv /\ [Next]_vars => [SendPacket => Len(payload) = count]_vars
  BY SendPacketKeeps
<1> QED BY <1>1, <1>2, FifoStarts, FifoSteps, PTL DEF Spec, CountIsCarried

\* The bytes inside: a sequence of as many as the counters say, no more than there is
\* room for.
LEMMA RingIs ==
  ASSUME FifoInv
  PROVE  /\ Oldest \in Counters /\ Oldest \in Nat
         /\ Size(head, Oldest) \in Nat /\ Size(head, Oldest) <= Capacity
         /\ HasRoom => Size(head, Oldest) < Capacity
         /\ InRing \in Seq(Nat) /\ Len(InRing) = Size(head, Oldest)
         /\ \A i \in 1..Size(head, Oldest) : InRing[i] = data[Slot(Oldest + i - 1)]
<1> DEFINE o == Oldest
           n == Size(head, Oldest)
<1>1. o \in Counters /\ o \in Nat
  <2>1. 0 \in Counters
    BY CounterFacts DEF Counters
  <2>2. o \in Counters
    BY <2>1, FifoUnfold DEF Oldest
  <2> HIDE DEF o
  <2> QED BY <2>2, CounterFacts DEF Counters
<1>2. n \in Nat /\ n <= Capacity /\ (HasRoom => n < Capacity)
  <2>1. CASE pc = "resetTail"
    <3>1. o = 0
      BY <2>1 DEF Oldest
    <3>2. head \in 0..CounterMod - 1 /\ n = IF 0 <= head THEN head - 0 ELSE head - 0 + CounterMod
      BY <1>1, <3>1, SizeIs, FifoUnfold DEF Counters
    <3>3. WhileResetting
      BY <2>1, FifoUnfold
    <3> HIDE DEF n
    <3> QED BY <3>2, <3>3, FifoUnfold DEF WhileResetting, HasRoom
  <2>2. CASE pc # "resetTail"
    <3>1. o = tail
      BY <2>2 DEF Oldest
    <3> QED BY <2>2, <3>1, FifoUnfold DEF HasRoom
  <2> QED BY <2>1, <2>2
<1>3. InRing = [i \in 1..n |-> data[Slot(o + i - 1)]]
  BY DEF InRing
<1> HIDE DEF o, n
<1>4. \A i \in 1..n : data[Slot(o + i - 1)] \in Nat
  <2> SUFFICES ASSUME NEW i \in 1..n PROVE data[Slot(o + i - 1)] \in Nat
    OBVIOUS
  <2>1. o + i - 1 \in Nat
    BY <1>1, <1>2
  <2>2. Slot(o + i - 1) \in 0..Capacity - 1
    BY <2>1, SlotIndex
  <2> QED BY <2>2, FifoUnfold
<1>5. InRing \in Seq(Nat) /\ Len(InRing) = n /\ \A i \in 1..n : InRing[i] = data[Slot(o + i - 1)]
  <2>1. InRing \in [1..n -> Nat]
    BY <1>3, <1>4
  <2> QED BY <1>2, <1>3, <2>1
<1> QED BY <1>1, <1>2, <1>5 DEF o, n

\* The same of the next state.
RingHolds ==
  /\ InRing \in Seq(Nat) /\ Len(InRing) = Size(head, Oldest)
  /\ \A i \in 1..Size(head, Oldest) : InRing[i] = data[Slot(Oldest + i - 1)]

LEMMA RingHoldsNext == FifoInv' => RingHolds'
<1>1. FifoInv => RingHolds
  BY RingIs DEF RingHolds
<1> QED BY <1>1, PTL

\* Sequences of the same length with the same elements.
LEMMA SameElements ==
  ASSUME NEW S, NEW a \in Seq(S), NEW b \in Seq(S), Len(a) = Len(b),
         \A i \in 1..Len(a) : a[i] = b[i]
  PROVE  a = b
OBVIOUS

\* One sequence behind another.
LEMMA Concatenated ==
  ASSUME NEW S, NEW a \in Seq(S), NEW b \in Seq(S)
  PROVE  /\ a \o b \in Seq(S) /\ Len(a \o b) = Len(a) + Len(b)
         /\ \A i \in 1..Len(a) : (a \o b)[i] = a[i]
         /\ \A i \in 1..Len(b) : (a \o b)[Len(a) + i] = b[i]
OBVIOUS

\* The last element of what is handed over.
LEMMA LastHandedOver ==
  ASSUME NEW s \in Seq(Nat), NEW p \in Seq(Nat), NEW v \in Nat
  PROVE  /\ Len(p) >= 1 => s \o p = Append(s \o SubSeq(p, 1, Len(p) - 1), p[Len(p)])
         /\ SubSeq(Append(p, v), 1, Len(Append(p, v)) - 1) = p
<1>1. ASSUME Len(p) >= 1 PROVE s \o p = Append(s \o SubSeq(p, 1, Len(p) - 1), p[Len(p)])
  <2> DEFINE q == SubSeq(p, 1, Len(p) - 1)
             a == s \o p
             b == Append(s \o q, p[Len(p)])
             m == Len(s)
             k == Len(p)
  <2>1. m \in Nat /\ k \in Nat /\ k >= 1 /\ p[k] \in Nat
    BY <1>1
  <2>2. q \in Seq(Nat) /\ Len(q) = k - 1 /\ \A i \in 1..k - 1 : q[i] = p[i]
    <3>1. PICK j \in Nat : j = Len(p) - 1 /\ j <= Len(p)
      <4>1. Len(p) - 1 \in Nat /\ Len(p) - 1 <= Len(p)
        BY <1>1
      <4> QED BY <4>1
    <3>2. SubSeq(p, 1, j) \in Seq(Nat) /\ Len(SubSeq(p, 1, j)) = j
          /\ \A i \in 1..j : SubSeq(p, 1, j)[i] = p[i]
      BY <3>1
    <3>3. q = SubSeq(p, 1, j) /\ k - 1 = j
      BY <3>1
    <3> HIDE DEF q, k
    <3> QED BY <3>2, <3>3
  <2>3. /\ a \in Seq(Nat) /\ Len(a) = m + k
        /\ \A i \in 1..m : a[i] = s[i]
        /\ \A i \in 1..k : a[m + i] = p[i]
    OBVIOUS
  <2> HIDE DEF q
  <2>4. /\ s \o q \in Seq(Nat) /\ Len(s \o q) = m + (k - 1)
        /\ \A i \in 1..m : (s \o q)[i] = s[i]
        /\ \A i \in 1..k - 1 : (s \o q)[m + i] = q[i]
    <3>0. q \in Seq(Nat)
      BY <2>2
    <3>1. s \o q \in Seq(Nat) /\ Len(s \o q) = m + Len(q)
      BY ONLY <3>0, s \in Seq(Nat), Concatenated
    <3>2. \A i \in 1..m : (s \o q)[i] = s[i]
      BY ONLY <3>0, s \in Seq(Nat), Concatenated
    <3>3. \A i \in 1..Len(q) : (s \o q)[m + i] = q[i]
      BY ONLY <3>0, s \in Seq(Nat), Concatenated
    <3> QED BY <2>2, <3>1, <3>2, <3>3
  <2> DEFINE c == s \o q
  <2> HIDE DEF c
  <2>5. /\ b \in Seq(Nat) /\ Len(b) = m + k /\ b[m + k] = p[k]
        /\ \A i \in 1..m + (k - 1) : b[i] = c[i]
    <3>1. c \in Seq(Nat) /\ Len(c) = m + (k - 1) /\ b = Append(c, p[k])
      BY <2>4 DEF c
    <3> HIDE DEF b
    <3>2. Append(c, p[k]) \in Seq(Nat) /\ Len(Append(c, p[k])) = Len(c) + 1
          /\ Append(c, p[k])[Len(c) + 1] = p[k]
          /\ \A i \in 1..Len(c) : Append(c, p[k])[i] = c[i]
      BY <2>1, <3>1
    <3>3. Len(c) + 1 = m + k
      BY <2>1, <3>1
    <3> QED BY <3>1, <3>2, <3>3
  <2> HIDE DEF a, b, m, k
  <2>6. \A i \in 1..m + k : a[i] = b[i]
    <3> SUFFICES ASSUME NEW i \in 1..m + k PROVE a[i] = b[i]
      OBVIOUS
    <3>1. CASE i <= m
      <4>1. i \in 1..m /\ i \in 1..m + (k - 1)
        BY <2>1, <3>1
      <4> QED BY <2>3, <2>4, <2>5, <4>1 DEF c
    <3>2. CASE i > m /\ i # m + k
      <4>1. PICK j \in 1..k - 1 : i = m + j
        <5>1. i - m \in 1..k - 1 /\ i = m + (i - m)
          BY <2>1, <3>2
        <5> QED BY <5>1, Zenon
      <4>2. j \in 1..k /\ i \in 1..m + (k - 1)
        BY <2>1, <4>1
      <4>3. a[m + j] = p[j] /\ c[m + j] = q[j] /\ q[j] = p[j]
        BY <2>2, <2>3, <2>4, <4>2 DEF c
      <4> QED BY <2>5, <4>1, <4>2, <4>3
    <3>3. CASE i = m + k
      <4>1. k \in 1..k
        BY <2>1
      <4> QED BY <2>3, <2>5, <3>3, <4>1
    <3> QED BY <2>1, <3>1, <3>2, <3>3
  <2>7. a = b
    BY <2>3, <2>5, <2>6, SameElements
  <2> QED BY <2>7 DEF a, b, q, k
<1>2. SubSeq(Append(p, v), 1, Len(Append(p, v)) - 1) = p
  <2> DEFINE a == Append(p, v)
             b == SubSeq(a, 1, Len(p))
  <2>1. a \in Seq(Nat) /\ Len(a) = Len(p) + 1 /\ Len(p) \in Nat /\ \A i \in 1..Len(p) : a[i] = p[i]
    OBVIOUS
  <2> HIDE DEF a
  <2>2. b \in Seq(Nat) /\ Len(b) = Len(p) /\ \A i \in 1..Len(p) : b[i] = a[i]
    BY <2>1
  <2> HIDE DEF b
  <2>3. b = p
    BY <2>1, <2>2, SameElements
  <2>4. Len(a) - 1 = Len(p)
    BY <2>1
  <2> QED BY <2>3, <2>4 DEF a, b
<1> QED BY <1>1, <1>2

\* A byte comes in: it is put behind the others, or refused.
LEMMA UartByteArrives == ASSUME FifoInv, UartByte PROVE Queue!Arrive
<1> DEFINE o == Oldest
           n == Size(head, Oldest)
<1>1. /\ arrived' = arrived + 1 /\ UNCHANGED <<tail, pc, payload, sent>>
  BY DEF UartByte, mainVars
<1>2. Oldest' = Oldest /\ Left' = Left /\ (pc' = "resetTail") = (pc = "resetTail")
  BY <1>1 DEF Oldest, Left
<1>3. CASE ~HasRoom
  <2>1. UNCHANGED <<head, data>>
    BY <1>3 DEF UartByte
  <2>2. InRing' = InRing
    BY <1>2, <2>1 DEF InRing, Size, Slot
  <2>3. Len(InRing) = Capacity \/ pc = "resetTail"
    <3>1. ASSUME pc # "resetTail" PROVE Len(InRing) = Capacity
      <4>1. Oldest = tail /\ Size(head, tail) <= Capacity /\ ~(Size(head, tail) < Capacity)
        BY <1>3, <3>1, FifoUnfold DEF HasRoom, Oldest
      <4> QED BY <4>1, RingIs, FifoUnfold
    <3> QED BY <3>1
  <2> QED BY <1>1, <1>2, <2>2, <2>3 DEF Queue!Arrive
<1>4. CASE HasRoom
  <2>1. data' = [data EXCEPT ![Slot(head)] = arrived'] /\ head' = (head + 1) % CounterMod
    BY <1>4 DEF UartByte
  <2>2. /\ o \in Counters /\ o \in Nat /\ head \in Counters /\ n \in Nat /\ n < Capacity
        /\ InRing \in Seq(Nat) /\ Len(InRing) = n
        /\ \A i \in 1..n : InRing[i] = data[Slot(o + i - 1)]
    BY <1>4, RingIs, FifoUnfold
  <2>3. Size(head', o) = n + 1
    BY <2>1, <2>2, SizeNext
  <2>4. InRing' \in Seq(Nat) /\ Len(InRing') = n + 1
        /\ \A i \in 1..n + 1 : InRing'[i] = data'[Slot(o + i - 1)]
    <3>1. FifoInv'
      BY UartByteKeeps
    <3>2. /\ InRing' \in Seq(Nat) /\ Len(InRing') = Size(head', Oldest')
          /\ \A i \in 1..Size(head', Oldest') : InRing'[i] = data'[Slot(Oldest' + i - 1)]
      BY <3>1, RingHoldsNext DEF RingHolds
    <3> HIDE DEF n
    <3> QED BY <1>2, <2>3, <3>2
  <2>5. arrived' \in Nat
    BY <1>1, FifoUnfold, CounterFacts
  <2>6. data'[Slot(o + n)] = arrived'
    <3>1. Slot(head) = Slot(o + n) /\ Slot(head) \in 0..Capacity - 1
      BY <2>2, SlotAhead, SlotIndex DEF Counters
    <3> HIDE DEF n, o
    <3> QED BY <2>1, <3>1, FifoUnfold
  <2>7. \A i \in 1..n : data'[Slot(o + i - 1)] = data[Slot(o + i - 1)]
    <3> SUFFICES ASSUME NEW i \in 1..n PROVE data'[Slot(o + i - 1)] = data[Slot(o + i - 1)]
      OBVIOUS
    <3>1. PICK j \in Nat : j = i - 1 /\ j < n
      <4> HIDE DEF n
      <4>1. i - 1 \in Nat /\ i - 1 < n
        BY <2>2
      <4> QED BY <4>1
    <3>2. Slot(o + j) # Slot(head)
      BY <2>2, <3>1, FreeSlot
    <3>3. o + j \in Nat /\ o + i - 1 = o + j
      <4> HIDE DEF o, n
      <4> QED BY <2>2, <3>1
    <3>4. Slot(o + j) \in 0..Capacity - 1
      BY <3>3, SlotIndex
    <3> HIDE DEF o
    <3>5. data'[Slot(o + j)] = data[Slot(o + j)]
      BY <2>1, <3>2, <3>4, FifoUnfold
    <3> QED BY <3>3, <3>5
  <2> HIDE DEF o, n
  <2>8. InRing' = Append(InRing, arrived')
    <3> DEFINE a == InRing'
               b == Append(InRing, arrived')
               q == InRing
    <3>1. b \in Seq(Nat) /\ Len(b) = n + 1 /\ b[n + 1] = arrived' /\ \A i \in 1..n : b[i] = q[i]
      <4> HIDE DEF q
      <4>1. Append(q, arrived') \in Seq(Nat) /\ Len(Append(q, arrived')) = Len(q) + 1
            /\ Append(q, arrived')[Len(q) + 1] = arrived'
            /\ \A i \in 1..Len(q) : Append(q, arrived')[i] = q[i]
        BY <2>2, <2>5 DEF q
      <4> QED BY <2>2, <4>1 DEF q
    <3>2. \A i \in 1..n + 1 : a[i] = b[i]
      <4> SUFFICES ASSUME NEW i \in 1..n + 1 PROVE a[i] = b[i]
        OBVIOUS
      <4> HIDE DEF a, b, q
      <4>1. CASE i \in 1..n
        BY <2>2, <2>4, <2>7, <3>1, <4>1 DEF a, q
      <4>2. CASE i = n + 1
        <5>1. o + i - 1 = o + n
          BY <2>2, <4>2
        <5> QED BY <2>4, <2>6, <3>1, <4>2, <5>1 DEF a
      <4> QED BY <2>2, <4>1, <4>2
    <3>3. a \in Seq(Nat) /\ Len(a) = n + 1
      BY <2>4
    <3> HIDE DEF a, b
    <3>4. a = b
      BY <3>1, <3>2, <3>3, SameElements
    <3> QED BY <3>4 DEF a, b
  <2> QED BY <1>1, <1>2, <2>2, <2>8 DEF Queue!Arrive
<1> QED BY <1>3, <1>4

\* A slot is given back: the oldest byte leaves.
LEMMA ReleaseLeaves == ASSUME FifoInv, ReleaseSlot PROVE Queue!Leave
<1>1. /\ pc = "release" /\ pc' = "pop" /\ tail' = (tail + 1) % CounterMod
      /\ UNCHANGED <<head, data, count, payload, sent, arrived, resets>>
  BY DEF ReleaseSlot
<1>2. Oldest = tail /\ Oldest' = tail' /\ (pc' = "resetTail") = (pc = "resetTail")
  BY <1>1 DEF Oldest
<1> DEFINE n == Size(head, tail)
<1>3. /\ n \in Nat /\ n >= 1 /\ Len(payload) >= 1 /\ Size(head, tail') = n - 1
      /\ tail \in Nat /\ tail \in Counters /\ head \in Counters
      /\ InRing \in Seq(Nat) /\ Len(InRing) = n
      /\ \A i \in 1..n : InRing[i] = data[Slot(tail + i - 1)]
  BY <1>1, <1>2, RingIs, Releasing, FifoUnfold
<1>4. InRing' \in Seq(Nat) /\ Len(InRing') = n - 1
      /\ \A i \in 1..n - 1 : InRing'[i] = data[Slot(tail' + i - 1)]
  <2>1. FifoInv'
    BY ReleaseSlotKeeps
  <2>2. /\ InRing' \in Seq(Nat) /\ Len(InRing') = Size(head', Oldest')
        /\ \A i \in 1..Size(head', Oldest') : InRing'[i] = data'[Slot(Oldest' + i - 1)]
    BY <2>1, RingHoldsNext DEF RingHolds
  <2> HIDE DEF n
  <2> QED BY <1>1, <1>2, <1>3, <2>1, <2>2
<1>5. \A i \in 1..n - 1 : data[Slot(tail' + i - 1)] = data[Slot(tail + (i + 1) - 1)]
  <2> SUFFICES ASSUME NEW i \in 1..n - 1
               PROVE  data[Slot(tail' + i - 1)] = data[Slot(tail + (i + 1) - 1)]
    OBVIOUS
  <2>1. PICK j \in Nat : j = i - 1
    <3> HIDE DEF n
    <3>1. i - 1 \in Nat
      BY <1>3
    <3> QED BY <3>1
  <2>2. Slot(tail' + j) = Slot(tail + 1 + j)
    BY <1>1, <1>3, SlotAhead
  <2>3. tail' \in Nat
    BY <1>1, <1>3, CounterNext, CounterFacts DEF Counters
  <2>4. tail' + j = tail' + i - 1 /\ tail + 1 + j = tail + (i + 1) - 1
    <3> HIDE DEF n
    <3> QED BY <1>3, <2>1, <2>3
  <2> QED BY <2>2, <2>4
<1> HIDE DEF n
<1>6. InRing # <<>> /\ Head(InRing) = data[Slot(tail)] /\ Tail(InRing) = InRing'
  <2> DEFINE q == InRing
             a == InRing'
             b == Tail(InRing)
  <2>1. q \in Seq(Nat) /\ Len(q) = n /\ n \in Nat /\ n >= 1
    BY <1>3
  <2>2. q # <<>> /\ Head(q) = q[1]
    <3> HIDE DEF q
    <3> QED BY <2>1
  <2>3. b \in Seq(Nat) /\ Len(b) = n - 1 /\ \A i \in 1..n - 1 : b[i] = q[i + 1]
    <3>1. Tail(q) \in Seq(Nat) /\ Len(Tail(q)) = Len(q) - 1
          /\ \A i \in 1..Len(q) - 1 : Tail(q)[i] = q[i + 1]
      <4> HIDE DEF q
      <4> QED BY <2>1, <2>2
    <3> HIDE DEF q
    <3> QED BY <2>1, <3>1 DEF q
  <2>4. q[1] = data[Slot(tail)]
    <3>1. 1 \in 1..n /\ tail + 1 - 1 = tail
      BY <1>3
    <3>2. q[1] = data[Slot(tail + 1 - 1)]
      BY <1>3, <3>1
    <3> QED BY <3>1, <3>2
  <2>5. \A i \in 1..n - 1 : a[i] = b[i]
    <3> SUFFICES ASSUME NEW i \in 1..n - 1 PROVE a[i] = b[i]
      OBVIOUS
    <3>1. i + 1 \in 1..n
      BY <1>3
    <3>2. q[i + 1] = data[Slot(tail + (i + 1) - 1)]
      BY <1>3, <3>1
    <3> HIDE DEF a, b, q
    <3> QED BY <1>4, <1>5, <2>3, <3>2 DEF a
  <2>6. a \in Seq(Nat) /\ Len(a) = n - 1
    BY <1>4
  <2> HIDE DEF a, b
  <2>7. a = b
    BY <2>3, <2>5, <2>6, SameElements
  <2> QED BY <2>2, <2>4, <2>7 DEF a, b, q
<1>7. Left' = Append(Left, data[Slot(tail)])
  <2>1. payload[Len(payload)] = data[Slot(tail)]
    BY <1>1, FifoUnfold DEF WhilePopping
  <2>2. sent \o payload = Append(sent \o SubSeq(payload, 1, Len(payload) - 1), payload[Len(payload)])
    <3>1. 0 \in Nat
      OBVIOUS
    <3> QED BY <1>3, <3>1, LastHandedOver, FifoUnfold
  <2>3. Left = sent \o SubSeq(payload, 1, Len(payload) - 1) /\ Left' = sent \o payload
    BY <1>1 DEF Left
  <2> QED BY <2>1, <2>2, <2>3
<1> QED BY <1>1, <1>2, <1>6, <1>7 DEF Queue!Leave

\* The other steps of the main loop: the ring is what it was, or is emptied.
LEMMA OthersKeepQueue ==
  ASSUME FifoInv, StartPacket \/ PopByte \/ SendPacket \/ UNCHANGED vars
  PROVE  UNCHANGED Queue!queueVars
<1>1. UNCHANGED <<head, tail, data, arrived>>
  BY DEF StartPacket, PopByte, SendPacket, vars
<1>2. (pc' = "resetTail") = (pc = "resetTail")
  BY DEF StartPacket, PopByte, SendPacket, vars
<1>3. InRing' = InRing
  BY <1>1, <1>2 DEF InRing, Oldest, Size, Slot
<1>4. Left' = Left
  <2>1. CASE StartPacket \/ UNCHANGED vars
    BY <2>1 DEF StartPacket, vars, Left
  <2>2. CASE PopByte
    <3>1. /\ pc = "pop" /\ pc' = "release" /\ sent' = sent
          /\ payload' = Append(payload, data[Slot(tail)])
      BY <2>2 DEF PopByte
    <3>2. data[Slot(tail)] \in Nat
      <4>1. tail \in Nat
        BY FifoUnfold DEF Counters
      <4> QED BY <4>1, SlotIndex, FifoUnfold
    <3>3. SubSeq(payload', 1, Len(payload') - 1) = payload
      BY <3>1, <3>2, LastHandedOver, FifoUnfold
    <3> QED BY <3>1, <3>3 DEF Left
  <2>3. CASE SendPacket
    <3>1. pc = "pop" /\ pc' = "idle" /\ sent' = sent \o payload /\ payload' = <<>>
      BY <2>3 DEF SendPacket
    <3>2. Left = sent \o payload /\ Left' = (sent \o payload) \o <<>>
      BY <3>1 DEF Left
    <3>3. (sent \o payload) \o <<>> = sent \o payload
      <4>1. sent \o payload \in Seq(Nat)
        BY FifoUnfold
      <4> QED BY <4>1
    <3> QED BY <3>2, <3>3
  <2> QED BY <2>1, <2>2, <2>3
<1> QED BY <1>1, <1>2, <1>3, <1>4 DEF Queue!queueVars

LEMMA ResetEmpties ==
  ASSUME FifoInv
  PROVE  /\ ResetHead => Queue!BeginEmptying
         /\ ResetTail => Queue!EndEmptying
<1>1. ASSUME ResetHead PROVE Queue!BeginEmptying
  <2>1. /\ pc = "idle" /\ pc' = "resetTail" /\ head' = 0
        /\ UNCHANGED <<tail, data, count, payload, sent, arrived>>
    BY <1>1 DEF ResetHead
  <2>2. Left' = Left
    BY <2>1 DEF Left
  <2>3. Size(head', Oldest') = 0
    <3>1. Oldest' = 0 /\ 0 \in Counters
      BY <2>1, CounterFacts DEF Oldest, Counters
    <3> QED BY <2>1, <3>1, SizeNext
  <2>4. InRing' = <<>>
    BY <2>3 DEF InRing
  <2> QED BY <2>1, <2>2, <2>4 DEF Queue!BeginEmptying
<1>2. ASSUME ResetTail PROVE Queue!EndEmptying
  <2>1. /\ pc = "resetTail" /\ pc' = "idle" /\ tail' = 0
        /\ UNCHANGED <<head, data, count, payload, sent, arrived, resets>>
    BY <1>2 DEF ResetTail
  <2>2. Left' = Left /\ Oldest' = Oldest
    BY <2>1 DEF Left, Oldest
  <2>3. InRing' = InRing
    BY <2>1, <2>2 DEF InRing, Size, Slot
  <2> QED BY <2>1, <2>2, <2>3 DEF Queue!EndEmptying
<1> QED BY <1>1, <1>2

LEMMA QueueStarts == Init => Queue!Init
<1> SUFFICES ASSUME Init PROVE Queue!Init
  OBVIOUS
<1>1. /\ head \in Counters /\ tail = head /\ pc = "idle" /\ payload = <<>>
      /\ sent = <<>> /\ arrived = 0
  BY DEF Init
<1>2. Size(head, Oldest) = 0
  BY <1>1, SizeNext DEF Oldest
<1>3. InRing = <<>>
  BY <1>2 DEF InRing
<1>4. Left = <<>>
  BY <1>1 DEF Left
<1> QED BY <1>1, <1>3, <1>4 DEF Queue!Init

LEMMA QueueSteps == FifoInv /\ [Next]_vars => [Queue!Next]_(Queue!queueVars)
BY UartByteArrives, ReleaseLeaves, OthersKeepQueue, ResetEmpties DEF Next, Main, Queue!Next

\* The lock-free ring is the bounded queue, for every capacity and counter width, and
\* wherever the interrupt falls between the accesses of the main loop.
THEOREM FifoIsQueue == Spec => ImplementsQueue
BY FifoStarts, FifoSteps, QueueStarts, QueueSteps, PTL DEF Spec, ImplementsQueue, Queue!Spec
-----------------------------------------------------------------------------

(* Binding: the transmitter leaves when its packets are out *)

\* The count runs ahead of the packets that went out on the binding channel by at
\* most the one the radio still held when binding mode was entered: after its report
\* nothing is reported until the radio has been set up anew.
BindTxInv ==
  /\ bindTx \in [InBindingMode : BOOLEAN, BindingSendCount : 0..BindingSpamAmount + 1,
                 restart : {"no", "soon", "now"}, pending : {"none", "rc", "uid"},
                 channel : {"link", "binding"}, aired : 0..BindingSpamAmount]
  /\ bindTx.InBindingMode =>
       /\ bindTx.BindingSendCount <= bindTx.aired + 1
       /\ bindTx.restart = "soon" => bindTx.BindingSendCount = 0
       /\ bindTx.restart = "no" => bindTx.channel = "binding" /\ bindTx.pending # "rc"

LEMMA BindTxInit == BindInit => BindTxInv
BY BindAssumption DEF BindInit, BindTxInv

LEMMA BindTxStep == BindTxInv /\ [BindNext]_bindVars => BindTxInv'
<1> SUFFICES ASSUME BindTxInv, [BindNext]_bindVars PROVE BindTxInv'
  OBVIOUS
<1>1. CASE EnterTxBindingMode
  <2>1. bindTx' = [InBindingMode |-> TRUE, BindingSendCount |-> 0, restart |-> "soon",
                   pending |-> bindTx.pending, channel |-> bindTx.channel, aired |-> 0]
    BY <1>1 DEF EnterTxBindingMode, BindTxInv
  <2> QED BY <2>1, BindAssumption DEF BindTxInv
<1>2. CASE TxRadioFollows
  BY <1>2 DEF TxRadioFollows, BindTxInv
<1>3. CASE QueuePacket
  BY <1>3 DEF QueuePacket, BindTxInv
<1>4. CASE TxDone
  <2> DEFINE aired == IF OnTheAir /\ bindTx.aired < BindingSpamAmount THEN bindTx.aired + 1 ELSE bindTx.aired
             restart == IF bindTx.restart = "soon" THEN "now" ELSE bindTx.restart
             sendCount == IF bindTx.InBindingMode THEN bindTx.BindingSendCount + 1 ELSE bindTx.BindingSendCount
  <2>1. bindTx' = [InBindingMode |-> bindTx.InBindingMode, BindingSendCount |-> sendCount, restart |-> restart,
                   pending |-> "none", channel |-> bindTx.channel, aired |-> aired]
    <3>1. CASE bindTx.InBindingMode
      BY <1>4, <3>1 DEF TxDone, Sent, BindTxInv
    <3>2. CASE ~bindTx.InBindingMode
      BY <1>4, <3>2 DEF TxDone, BindTxInv
    <3> QED BY <3>1, <3>2
  <2>2. aired \in 0..BindingSpamAmount /\ aired >= bindTx.aired
    BY BindAssumption DEF BindTxInv
  <2>3. bindTx.InBindingMode => bindTx.BindingSendCount <= BindingSpamAmount
    BY <1>4, BindAssumption DEF TxDone, SentEnough, BindTxInv
  <2>4. restart \in {"no", "now"} /\ (restart = "no" => bindTx.restart = "no")
    BY <1>4 DEF TxDone, BindTxInv
  <2>5. bindTx.InBindingMode => sendCount <= aired + 1 /\ (restart = "no" => bindTx.channel = "binding")
    <3>1. CASE bindTx.restart = "soon"
      BY <2>2, <3>1, BindAssumption DEF BindTxInv
    <3>2. ASSUME bindTx.InBindingMode, bindTx.restart # "soon" PROVE sendCount <= aired + 1
      <4>1. OnTheAir
        BY <1>4, <3>2 DEF TxDone, OnTheAir, BindTxInv
      <4> QED BY <2>3, <3>2, <4>1, BindAssumption DEF BindTxInv
    <3> QED BY <3>1, <3>2, <2>4 DEF BindTxInv
  <2>6. sendCount \in 0..BindingSpamAmount + 1
    BY <2>3, BindAssumption DEF BindTxInv
  <2> HIDE DEF aired, restart, sendCount
  <2> QED BY <2>1, <2>2, <2>4, <2>5, <2>6 DEF BindTxInv
<1>5. CASE ExitTxBindingMode
  BY <1>5 DEF ExitTxBindingMode, BindTxInv
<1>6. CASE UNCHANGED bindTx
  BY <1>6 DEF BindTxInv
<1>7. ASSUME NEW a \in BOOLEAN, EnterRxBindingMode(a) PROVE UNCHANGED bindTx
  BY <1>7 DEF EnterRxBindingMode
<1> QED
  BY <1>1, <1>2, <1>3, <1>4, <1>5, <1>6, <1>7
  DEF BindNext, RxStep, TxStep, RxStart, RxStartCutOff, RxPowerOff, CommitCutOff, RequestBinding,
      EditSetting, UpdateBindingMode, ExitRxBindingMode, RxRadioFollows, ClearPowerOnCounter,
      CheckConfigChangePending, bindVars

LEMMA LeavesLate ==
  BindTxInv /\ [BindNext]_bindVars
    => [(bindTx.InBindingMode /\ ~bindTx'.InBindingMode) => bindTx.aired >= BindingSpamAmount]_bindVars
<1> SUFFICES ASSUME BindTxInv, BindNext, bindTx.InBindingMode, ~bindTx'.InBindingMode
             PROVE  bindTx.aired >= BindingSpamAmount
  OBVIOUS
<1>1. CASE ExitTxBindingMode
  BY <1>1, BindAssumption DEF ExitTxBindingMode, SentEnough, BindTxInv
<1>2. ASSUME NEW a \in BOOLEAN, EnterRxBindingMode(a) PROVE UNCHANGED bindTx
  BY <1>2 DEF EnterRxBindingMode
<1>3. CASE TxDone
  BY <1>3 DEF TxDone, Sent, BindTxInv
<1>4. CASE EnterTxBindingMode \/ TxRadioFollows \/ QueuePacket
  BY <1>4 DEF EnterTxBindingMode, TxRadioFollows, QueuePacket, BindTxInv
<1> QED
  BY <1>1, <1>2, <1>3, <1>4
  DEF BindNext, RxStep, TxStep, RxStart, RxStartCutOff, RxPowerOff, CommitCutOff, RequestBinding,
      EditSetting, UpdateBindingMode, ExitRxBindingMode, RxRadioFollows, ClearPowerOnCounter,
      CheckConfigChangePending

\* The transmitter does not leave binding mode before BindingSpamAmount packets with
\* its UID have gone out on the binding channel (tx_main.c:1396).
THEOREM UidGoesOut == BindSpec => BindPacketsGoOut
<1>1. BindSpec => []BindTxInv
  BY BindTxInit, BindTxStep, PTL DEF BindSpec
<1> QED BY <1>1, LeavesLate, PTL DEF BindSpec, BindPacketsGoOut
-----------------------------------------------------------------------------
(* Binding: the receiver enters only for a reason *)

\* A receiver without a UID never had one, or power failed during a commit.
Excused == ~wasBound \/ used.cuts > 0

\* The count of starts in RAM is the one in flash and no more than the quick starts
\* there were; what RAM and flash say of the UID differs only while marked modified.
BindRxInv ==
  /\ rx \in [on : BOOLEAN, uid : Uids, live : Uids, modified : BOOLEAN, count : Nat,
             clearDue : BOOLEAN, InBindingMode : BOOLEAN, tuned : BOOLEAN,
             heard : BOOLEAN, asked : BOOLEAN]
  /\ used \in [Bounds -> Nat] /\ wasBound \in BOOLEAN
  /\ zeros \in Nat /\ quick \in Nat /\ zeros <= quick
  /\ flash \in Uids \cup {Blank}
  /\ flash \in {NoUid, Blank} => Excused
  /\ rx.on => /\ rx.count = zeros
              /\ rx.live = rx.uid
              /\ rx.uid = NoUid => Excused
              /\ ~rx.modified => flash = rx.uid

\* A bound is used up; nothing is taken back.
LEMMA Spent ==
  ASSUME NEW what \in Bounds, NEW limit, used \in [Bounds -> Nat], Spend(what, limit)
  PROVE  used' \in [Bounds -> Nat] /\ (used.cuts > 0 => used'.cuts > 0)
         /\ (what = "cuts" => used'.cuts > 0)
<1>1. used' = [used EXCEPT ![what] = @ + 1] /\ "cuts" \in Bounds
  BY DEF Spend, Bounds
<1>2. used' \in [Bounds -> Nat]
  BY <1>1
<1>3. used'["cuts"] = IF what = "cuts" THEN used["cuts"] + 1 ELSE used["cuts"]
  BY <1>1
<1>4. used["cuts"] \in Nat
  BY <1>1
<1>5. (used["cuts"] > 0 => used'["cuts"] > 0) /\ (what = "cuts" => used'["cuts"] > 0)
  BY <1>3, <1>4
<1>6. used.cuts = used["cuts"] /\ used'.cuts = used'["cuts"]
  OBVIOUS
<1> QED BY <1>2, <1>5, <1>6

LEMMA BindRxInit == BindInit => BindRxInv
<1> SUFFICES ASSUME BindInit PROVE BindRxInv
  OBVIOUS
<1>1. used \in [Bounds -> Nat]
  BY DEF BindInit
<1>2. rx = Off /\ zeros = 0 /\ quick = 0 /\ flash \in {OldUid, NoUid} /\ wasBound = (flash # NoUid)
  BY DEF BindInit
<1>3. wasBound \in BOOLEAN /\ (flash \in {NoUid, Blank} => Excused)
  BY <1>2, BindAssumption DEF Excused
<1> QED BY <1>1, <1>2, <1>3 DEF BindRxInv, Off, Uids

\* A commit, with what else the handler does in r.
LEMMA CommitKeeps ==
  ASSUME BindRxInv, NEW r, Commit(r), rx.on, UNCHANGED used,
         zeros' \in Nat, quick' \in Nat, zeros' <= quick',
         r.on, r.uid = rx.uid, r.live = rx.uid, r.count = zeros',
         r \in [on : BOOLEAN, uid : Uids, live : Uids, modified : BOOLEAN, count : Nat,
               clearDue : BOOLEAN, InBindingMode : BOOLEAN, tuned : BOOLEAN,
               heard : BOOLEAN, asked : BOOLEAN]
  PROVE  BindRxInv'
<1>1. rx' = [r EXCEPT !.modified = FALSE] /\ flash' = rx.uid
  BY DEF Commit, BindRxInv
<1>2. wasBound' = (wasBound \/ rx.uid # NoUid) /\ wasBound' \in BOOLEAN
  BY <1>1 DEF Commit, BindRxInv
<1>3. rx.uid = NoUid => Excused'
  BY <1>2 DEF BindRxInv, Excused
<1>4. rx.uid # Blank
  BY BindAssumption DEF BindRxInv, Uids
<1> QED BY <1>1, <1>2, <1>3, <1>4 DEF BindRxInv

LEMMA BindRxStep == BindRxInv /\ [BindNext]_bindVars => BindRxInv'
<1> SUFFICES ASSUME BindRxInv, [BindNext]_bindVars PROVE BindRxInv'
  OBVIOUS
<1>1. CASE RxStart
  <2>1. used' \in [Bounds -> Nat] /\ (used.cuts > 0 => used'.cuts > 0)
    BY <1>1, Spent DEF RxStart, Bounds, BindRxInv
  <2>2. LoadedUid \in Uids /\ (LoadedUid = NoUid => Excused)
    BY DEF LoadedUid, BindRxInv, Uids
  <2>3. CountedStarts \in Nat /\ CountedStarts <= zeros + 1
    BY DEF CountedStarts, QuickStarts, BindRxInv
  <2>4. LoadedUid # Blank
    BY <2>2, BindAssumption DEF Uids
  <2>5. Excused => Excused'
    BY <1>1, <2>1 DEF RxStart, Excused
  <2>6. rx' = [on |-> TRUE, uid |-> LoadedUid, live |-> LoadedUid, modified |-> FALSE,
               count |-> CountedStarts, clearDue |-> TRUE, InBindingMode |-> FALSE,
               tuned |-> FALSE, heard |-> FALSE, asked |-> FALSE]
    BY <1>1 DEF RxStart, Off
  <2>7. /\ flash' = LoadedUid /\ zeros' = CountedStarts /\ quick' = quick + 1
        /\ wasBound' = wasBound
    BY <1>1 DEF RxStart
  <2> HIDE DEF LoadedUid, CountedStarts
  <2>8. zeros' \in Nat /\ quick' \in Nat /\ zeros' <= quick'
    BY <2>3, <2>7 DEF BindRxInv
  <2> QED BY <2>1, <2>2, <2>3, <2>4, <2>5, <2>6, <2>7, <2>8 DEF BindRxInv
<1>2. CASE RxStartCutOff
  <2>1. used' \in [Bounds -> Nat] /\ (used.cuts > 0 => used'.cuts > 0)
    BY <1>2, Spent DEF RxStartCutOff, Bounds, BindRxInv
  <2> QED BY <1>2, <2>1 DEF RxStartCutOff, BindRxInv, Excused
<1>3. CASE RxPowerOff
  BY <1>3 DEF RxPowerOff, Off, Uids, BindRxInv, Excused
<1>4. CASE CommitCutOff
  <2>1. used' \in [Bounds -> Nat] /\ used'.cuts > 0
    BY <1>4, Spent DEF CommitCutOff, Bounds, BindRxInv
  <2> QED BY <1>4, <2>1 DEF CommitCutOff, Off, Uids, BindRxInv, Excused
<1>5. ASSUME NEW a \in BOOLEAN, rx.on, EnterRxBindingMode(a) PROVE BindRxInv'
  <2> DEFINE r == [rx EXCEPT !.InBindingMode = TRUE, !.tuned = FALSE, !.heard = FALSE, !.asked = a]
  <2>1. Commit(r) /\ UNCHANGED <<zeros, used, quick>>
    BY <1>5 DEF EnterRxBindingMode
  <2>2. r \in [on : BOOLEAN, uid : Uids, live : Uids, modified : BOOLEAN, count : Nat,
               clearDue : BOOLEAN, InBindingMode : BOOLEAN, tuned : BOOLEAN,
               heard : BOOLEAN, asked : BOOLEAN]
        /\ r.on /\ r.uid = rx.uid /\ r.live = rx.uid /\ r.count = zeros
    BY <1>5 DEF BindRxInv
  <2>3. zeros' \in Nat /\ quick' \in Nat /\ zeros' <= quick' /\ zeros' = zeros /\ used' = used
    BY <2>1 DEF BindRxInv
  <2> HIDE DEF r
  <2> QED BY <1>5, <2>1, <2>2, <2>3, CommitKeeps
<1>6. CASE ExitRxBindingMode
  <2> DEFINE r == [rx EXCEPT !.InBindingMode = FALSE, !.tuned = FALSE]
  <2>1. rx.on /\ Commit(r) /\ UNCHANGED <<zeros, used, quick>>
    BY <1>6 DEF ExitRxBindingMode
  <2>2. r \in [on : BOOLEAN, uid : Uids, live : Uids, modified : BOOLEAN, count : Nat,
               clearDue : BOOLEAN, InBindingMode : BOOLEAN, tuned : BOOLEAN,
               heard : BOOLEAN, asked : BOOLEAN]
        /\ r.on /\ r.uid = rx.uid /\ r.live = rx.uid /\ r.count = zeros
    BY <2>1 DEF BindRxInv
  <2>3. zeros' \in Nat /\ quick' \in Nat /\ zeros' <= quick' /\ zeros' = zeros /\ used' = used
    BY <2>1 DEF BindRxInv
  <2> HIDE DEF r
  <2> QED BY <2>1, <2>2, <2>3, CommitKeeps
<1>7. CASE ClearPowerOnCounter
  <2>1. rx.on /\ quick' = 0 /\ UNCHANGED used
    BY <1>7 DEF ClearPowerOnCounter
  <2>2. zeros' = 0
    BY <1>7, <2>1 DEF ClearPowerOnCounter, BindRxInv
  <2>3. CASE rx.count # 0
    <3> DEFINE r == [rx EXCEPT !.clearDue = FALSE, !.count = 0]
    <3>1. Commit(r)
      BY <1>7, <2>3 DEF ClearPowerOnCounter
    <3>2. r \in [on : BOOLEAN, uid : Uids, live : Uids, modified : BOOLEAN, count : Nat,
                 clearDue : BOOLEAN, InBindingMode : BOOLEAN, tuned : BOOLEAN,
                 heard : BOOLEAN, asked : BOOLEAN]
          /\ r.on /\ r.uid = rx.uid /\ r.live = rx.uid /\ r.count = zeros'
      BY <2>1, <2>2 DEF BindRxInv
    <3>3. zeros' \in Nat /\ quick' \in Nat /\ zeros' <= quick'
      BY <2>1, <2>2
    <3> HIDE DEF r
    <3> QED BY <2>1, <3>1, <3>2, <3>3, CommitKeeps
  <2>4. CASE rx.count = 0
    <3>1. rx' = [rx EXCEPT !.clearDue = FALSE] /\ UNCHANGED <<flash, wasBound>>
      BY <1>7, <2>4 DEF ClearPowerOnCounter
    <3>2. rx' \in [on : BOOLEAN, uid : Uids, live : Uids, modified : BOOLEAN, count : Nat,
                   clearDue : BOOLEAN, InBindingMode : BOOLEAN, tuned : BOOLEAN,
                   heard : BOOLEAN, asked : BOOLEAN]
      BY <3>1 DEF BindRxInv
    <3>3. /\ rx'.on = rx.on /\ rx'.uid = rx.uid /\ rx'.live = rx.live /\ rx'.count = 0
          /\ rx'.modified = rx.modified
      BY <2>4, <3>1 DEF BindRxInv
    <3> QED BY <2>1, <2>2, <3>1, <3>2, <3>3 DEF BindRxInv, Excused
  <2> QED BY <2>3, <2>4 DEF BindRxInv
<1>8. CASE EditSetting
  <2>1. used' \in [Bounds -> Nat] /\ (used.cuts > 0 => used'.cuts > 0)
    BY <1>8, Spent DEF EditSetting, Bounds, BindRxInv
  <2> QED BY <1>8, <2>1 DEF EditSetting, BindRxInv, Excused
<1>9. CASE CheckConfigChangePending
  <2>1. rx.on /\ rx.modified /\ Commit(rx) /\ UNCHANGED <<zeros, used, quick>>
    BY <1>9 DEF CheckConfigChangePending
  <2>2. zeros' \in Nat /\ quick' \in Nat /\ zeros' <= quick' /\ zeros' = zeros /\ used' = used
    BY <2>1 DEF BindRxInv
  <2> QED BY <2>1, <2>2, CommitKeeps DEF BindRxInv
<1>10. CASE RxRadioFollows
  BY <1>10 DEF RxRadioFollows, BindRxInv, Excused
<1>11. CASE EnterTxBindingMode
  <2>1. used' \in [Bounds -> Nat] /\ (used.cuts > 0 => used'.cuts > 0)
    BY <1>11, Spent DEF EnterTxBindingMode, Bounds, BindRxInv
  <2>2. UNCHANGED <<flash, zeros, rx, quick, wasBound>>
    BY <1>11 DEF EnterTxBindingMode, receiver
  <2> QED BY <2>1, <2>2 DEF BindRxInv, Excused
<1>12. CASE TxDone
  <2>1. UNCHANGED <<flash, zeros, used, quick, wasBound>>
    BY <1>12 DEF TxDone
  <2>2. CASE UNCHANGED rx
    BY <2>1, <2>2 DEF BindRxInv, Excused
  <2>3. CASE OnELRSBindMSP
    BY <2>1, <2>3, BindAssumption DEF OnELRSBindMSP, BindRxInv, Excused, Uids
  <2> QED BY <1>12, <2>2, <2>3 DEF TxDone
<1>13. CASE UNCHANGED <<flash, zeros, rx, used, quick, wasBound>>
  BY <1>13 DEF BindRxInv, Excused
<1> QED
  BY <1>1, <1>2, <1>3, <1>4, <1>5, <1>6, <1>7, <1>8, <1>9, <1>10, <1>11, <1>12, <1>13
  DEF BindNext, RxStep, TxStep, RequestBinding, UpdateBindingMode, TxRadioFollows, QueuePacket,
      ExitTxBindingMode, receiver, bindVars

LEMMA EntersForReason ==
  BindRxInv /\ [BindNext]_bindVars
    => [(rx'.InBindingMode /\ ~rx.InBindingMode)
          => \/ rx'.asked
             \/ quick >= QuickStarts
             \/ rx.live = NoUid /\ (~wasBound \/ used.cuts > 0)]_bindVars
<1> SUFFICES ASSUME BindRxInv, BindNext, rx'.InBindingMode, ~rx.InBindingMode
             PROVE  rx'.asked \/ quick >= QuickStarts \/ (rx.live = NoUid /\ Excused)
  BY DEF Excused
<1>1. CASE RequestBinding
  BY <1>1 DEF RequestBinding, EnterRxBindingMode, Commit, BindRxInv
<1>2. CASE rx.on /\ CountedOut
  BY <1>2 DEF CountedOut, QuickStarts, BindRxInv
<1>3. CASE rx.on /\ NotBound
  BY <1>3 DEF NotBound, BindRxInv
<1>4. CASE RxPowerOff \/ CommitCutOff
  BY <1>4 DEF RxPowerOff, CommitCutOff, Off
<1>7. CASE RxStart
  BY <1>7 DEF RxStart, Off
<1>8. CASE RxStartCutOff \/ EditSetting
  BY <1>8 DEF RxStartCutOff, EditSetting, BindRxInv
<1>5. CASE ExitRxBindingMode \/ CheckConfigChangePending \/ ClearPowerOnCounter
  BY <1>5 DEF ExitRxBindingMode, CheckConfigChangePending, ClearPowerOnCounter, Commit, BindRxInv
<1>6. CASE RxRadioFollows \/ EnterTxBindingMode \/ TxStep
  BY <1>6 DEF RxRadioFollows, EnterTxBindingMode, TxStep, TxRadioFollows, QueuePacket, TxDone,
              ExitTxBindingMode, OnELRSBindMSP, receiver, BindRxInv
<1> QED BY <1>1, <1>2, <1>3, <1>4, <1>5, <1>6, <1>7, <1>8 DEF BindNext, RxStep, UpdateBindingMode

\* Whatever starts, power failures, edits and commits came before, a bound receiver
\* enters binding mode only on request or after quick starts (rx_main.c:1249-1262).
THEOREM BindsForReason == BindSpec => BindOnlyOnRequest
<1>1. BindSpec => []BindRxInv
  BY BindRxInit, BindRxStep, PTL DEF BindSpec
<1> QED BY <1>1, EntersForReason, PTL DEF BindSpec, BindOnlyOnRequest

\* The count of starts stops at three, in the sector and in RAM.
CountsCapped == zeros \in 0..QuickStarts /\ rx.count \in 0..QuickStarts

LEMMA CountsStart == BindInit => CountsCapped
BY DEF BindInit, Off, CountsCapped, QuickStarts

LEMMA CountsStep == BindRxInv /\ CountsCapped /\ [BindNext]_bindVars => CountsCapped'
<1> SUFFICES ASSUME BindRxInv, CountsCapped, [BindNext]_bindVars PROVE CountsCapped'
  OBVIOUS
<1>1. CASE RxStart
  <2>1. CountedStarts \in 0..QuickStarts
    BY DEF CountedStarts, CountsCapped, QuickStarts
  <2>2. zeros' = CountedStarts /\ rx'.count = CountedStarts
    BY <1>1 DEF RxStart, Off
  <2> QED BY <2>1, <2>2 DEF CountsCapped
<1>2. CASE RxStartCutOff
  BY <1>2 DEF RxStartCutOff, CountsCapped, QuickStarts
<1>3. CASE RxPowerOff \/ CommitCutOff
  BY <1>3 DEF RxPowerOff, CommitCutOff, Off, CountsCapped, QuickStarts
<1>4. ASSUME NEW a \in BOOLEAN, EnterRxBindingMode(a) PROVE CountsCapped'
  BY <1>4 DEF EnterRxBindingMode, Commit, BindRxInv, CountsCapped
<1>5. CASE ExitRxBindingMode
  BY <1>5 DEF ExitRxBindingMode, Commit, BindRxInv, CountsCapped
<1>6. CASE RxRadioFollows
  BY <1>6 DEF RxRadioFollows, BindRxInv, CountsCapped
<1>7. CASE ClearPowerOnCounter
  <2>1. zeros' \in 0..QuickStarts
    BY <1>7 DEF ClearPowerOnCounter, CountsCapped, QuickStarts
  <2>2. CASE rx.count # 0
    BY <1>7, <2>1, <2>2 DEF ClearPowerOnCounter, Commit, BindRxInv, CountsCapped, QuickStarts
  <2>3. CASE rx.count = 0
    BY <1>7, <2>1, <2>3 DEF ClearPowerOnCounter, BindRxInv, CountsCapped
  <2> QED BY <2>2, <2>3
<1>8. CASE EditSetting
  BY <1>8 DEF EditSetting, BindRxInv, CountsCapped
<1>9. CASE CheckConfigChangePending
  BY <1>9 DEF CheckConfigChangePending, Commit, BindRxInv, CountsCapped
<1>10. CASE TxDone
  BY <1>10 DEF TxDone, OnELRSBindMSP, BindRxInv, CountsCapped
<1>11. CASE UNCHANGED <<zeros, rx>>
  BY <1>11 DEF CountsCapped
<1> QED
  BY <1>1, <1>2, <1>3, <1>4, <1>5, <1>6, <1>7, <1>8, <1>9, <1>10, <1>11
  DEF BindNext, RxStep, TxStep, RequestBinding, UpdateBindingMode, EnterTxBindingMode,
      TxRadioFollows, QueuePacket, ExitTxBindingMode, receiver, bindVars

\* The variables of binding hold values of their types: no count runs past its end.
THEOREM BindTyped == BindSpec => []BindTypeOK
<1>1. BindInit => BindTxInv /\ BindRxInv /\ CountsCapped
  BY BindTxInit, BindRxInit, CountsStart
<1>2. BindTxInv /\ BindRxInv /\ CountsCapped /\ [BindNext]_bindVars
        => (BindTxInv /\ BindRxInv /\ CountsCapped)'
  BY BindTxStep, BindRxStep, CountsStep
<1>3. BindTxInv /\ BindRxInv /\ CountsCapped => BindTypeOK
  <2> SUFFICES ASSUME BindTxInv, BindRxInv, CountsCapped PROVE BindTypeOK
    OBVIOUS
  <2>1. bindTx.InBindingMode \in BOOLEAN /\ bindTx.restart \in {"no", "soon", "now"}
        /\ bindTx.BindingSendCount \in 0..BindingSpamAmount + 1
        /\ bindTx.aired \in 0..BindingSpamAmount
        /\ bindTx.pending \in {"none", "rc", "uid"} /\ bindTx.channel \in {"link", "binding"}
    BY DEF BindTxInv
  <2>2. /\ flash \in Uids \cup {Blank} /\ rx.uid \in Uids /\ rx.live \in Uids
        /\ {rx.on, rx.modified, rx.clearDue, rx.InBindingMode, rx.tuned, rx.heard, rx.asked}
             \subseteq BOOLEAN
    BY DEF BindRxInv
  <2> QED BY <2>1, <2>2 DEF CountsCapped, BindTypeOK
<1> QED BY <1>1, <1>2, <1>3, PTL DEF BindSpec
-----------------------------------------------------------------------------
(* The MSP uplink *)

USE DEF Messages, Bit, Flip

UpPackets == [p : Packets, msp : BOOLEAN, sent : BOOLEAN]

MspSenderOK ==
  /\ msnd \in Senders /\ msnd.state # "RESYNC_THEN_SEND"
  /\ msnd.state \in Sending => msnd.msg > 0 /\ msnd.off < Length[msnd.msg]

\* Type correctness, with the types of the histories and of what is queued.
MspTypes ==
  /\ MspSenderOK /\ mrcv \in Receivers
  /\ offered \in 0..Len(Body) /\ current \in 0..Len(Body)
  /\ waiting \in Seq(1..Len(Body)) /\ Len(waiting) <= QueueLen
  /\ transfer \in BOOLEAN /\ turn \in BOOLEAN
  /\ up \in Seq(UpPackets) /\ Len(up) <= 1
  /\ down \in Bit /\ frame \in 1..FrameSlots
  /\ done \in Seq(Buffers) /\ taken \in Seq(1..Len(Body))

\* What goes up is a packet.
LEMMA ChunkType ==
  ASSUME MspSenderOK
  PROVE  /\ Chunk \in Packets /\ AfterGetPayload(msnd, ChunkLen) \in Senders
         /\ Chunk.idx = ChunkIndex(msnd, ChunkLen) /\ Chunk.len = ChunkLen
         /\ Chunk.n = ChunkSize(msnd, ChunkLen)
<1> DEFINE n == ChunkSize(msnd, ChunkLen)
           idx == ChunkIndex(msnd, ChunkLen)
           body == IF n = 0 THEN NoBody ELSE Body[msnd.msg]
           from == IF n = 0 THEN 0 ELSE msnd.off
<1>1. ChunkLen \in Nat \ {0}
  BY MspAssumption
<1>2. n \in Nat /\ idx \in Nat /\ AfterGetPayload(msnd, ChunkLen) \in Senders
  BY <1>1, GetPayloadTypes DEF MspSenderOK
<1>3. n # 0 => msnd.msg \in 1..Len(Body) /\ msnd.off \in Nat
  BY SendingMessage DEF ChunkSize, MspSenderOK, Senders
<1>4. body \in Bodies \cup {NoBody} /\ from \in Nat
  BY <1>3, MessageFacts
<1>5. Chunk = [idx |-> idx, len |-> ChunkLen, n |-> n, body |-> body, from |-> from]
  BY DEF Chunk
<1> HIDE DEF n, idx, body, from
<1>6. Chunk \in Packets /\ Chunk.idx = idx /\ Chunk.len = ChunkLen /\ Chunk.n = n
  BY <1>1, <1>2, <1>4, <1>5 DEF Packets
<1> QED BY <1>2, <1>6 DEF n, idx

LEMMA MspStartsTyped == MspInit => MspTypes
<1> SUFFICES ASSUME MspInit PROVE MspTypes
  OBVIOUS
<1>1. msnd \in Senders /\ msnd.state = "IDLE"
  BY BodyAssumption DEF MspInit, ResetSender, Senders, SenderStates
<1>2. mrcv \in Receivers
  <2>1. \A k \in 1..BufLen : Pad \in Bytes
    BY DEF Pad, Bytes
  <2> QED BY <2>1, BufferAssumption DEF MspInit, ResetReceiver, Receivers, Buffers
<1>3. /\ offered \in 0..Len(Body) /\ current \in 0..Len(Body)
      /\ down \in Bit /\ frame \in 1..FrameSlots
  BY BodyAssumption, MspAssumption DEF MspInit
<1>4. /\ waiting \in Seq(1..Len(Body)) /\ Len(waiting) <= QueueLen
      /\ up \in Seq(UpPackets) /\ Len(up) <= 1
      /\ done \in Seq(Buffers) /\ taken \in Seq(1..Len(Body))
  BY MspAssumption DEF MspInit
<1>5. transfer \in BOOLEAN /\ turn \in BOOLEAN
  BY DEF MspInit
<1> QED BY <1>1, <1>2, <1>3, <1>4, <1>5 DEF MspTypes, MspSenderOK, Sending

\* A step that leaves the two ends of the transport alone keeps the types.
LEMMA MspTypesFold ==
  ASSUME MspSenderOK', mrcv' \in Receivers,
         offered' \in 0..Len(Body), current' \in 0..Len(Body),
         waiting' \in Seq(1..Len(Body)), Len(waiting') <= QueueLen,
         transfer' \in BOOLEAN, turn' \in BOOLEAN,
         up' \in Seq(UpPackets), Len(up') <= 1,
         down' \in Bit, frame' \in 1..FrameSlots,
         done' \in Seq(Buffers), taken' \in Seq(1..Len(Body))
  PROVE  MspTypes'
BY DEF MspTypes

LEMMA MspTypesUnfold ==
  ASSUME MspTypes
  PROVE  /\ MspSenderOK /\ mrcv \in Receivers
         /\ offered \in 0..Len(Body) /\ current \in 0..Len(Body)
         /\ waiting \in Seq(1..Len(Body)) /\ Len(waiting) <= QueueLen
         /\ transfer \in BOOLEAN /\ turn \in BOOLEAN
         /\ up \in Seq(UpPackets) /\ Len(up) <= 1
         /\ down \in Bit /\ frame \in 1..FrameSlots
         /\ done \in Seq(Buffers) /\ taken \in Seq(1..Len(Body))
         /\ Len(Body) \in Nat /\ QueueLen \in Nat
BY BodyAssumption, MspAssumption DEF MspTypes

LEMMA MspStepTyped == MspTypes /\ [MspNext]_mspVars => MspTypes'
<1> SUFFICES ASSUME MspTypes, [MspNext]_mspVars PROVE MspTypes'
  OBVIOUS
<1>0. UNCHANGED msnd => MspSenderOK'
  BY MspTypesUnfold DEF MspSenderOK
<1>a. <<>> \in Seq(UpPackets) /\ Len(<<>>) <= 1
  OBVIOUS
<1>b. \A u \in UpPackets : <<u>> \in Seq(UpPackets) /\ Len(<<u>>) <= 1
  OBVIOUS
<1>1. CASE AddMspMessage
  <2>1. offered' \in 1..Len(Body)
    BY <1>1, MspTypesUnfold DEF AddMspMessage
  <2>2. /\ current' \in 0..Len(Body)
        /\ waiting' \in Seq(1..Len(Body)) /\ Len(waiting') <= QueueLen
    <3>1. /\ Append(waiting, offered') \in Seq(1..Len(Body))
          /\ Len(Append(waiting, offered')) = Len(waiting) + 1 /\ Len(waiting) \in Nat
      BY <2>1, MspTypesUnfold
    <3>2. offered' \in 0..Len(Body) /\ UNCHANGED <<waiting, current>> =>
            current' \in 0..Len(Body) /\ waiting' \in Seq(1..Len(Body)) /\ Len(waiting') <= QueueLen
      BY MspTypesUnfold
    <3>3. CASE current = 0
      BY <1>1, <2>1, <3>3, MspTypesUnfold DEF AddMspMessage
    <3>4. CASE current # 0 /\ Len(waiting) < QueueLen
      <4>1. waiting' = Append(waiting, offered') /\ current' = current
        BY <1>1, <3>4 DEF AddMspMessage
      <4>2. Len(waiting) + 1 <= QueueLen
        BY <3>1, <3>4, MspTypesUnfold
      <4> QED BY <3>1, <4>1, <4>2, MspTypesUnfold
    <3>5. CASE current # 0 /\ ~(Len(waiting) < QueueLen)
      BY <1>1, <3>5, MspTypesUnfold DEF AddMspMessage
    <3> QED BY <3>3, <3>4, <3>5
  <2> QED BY <1>0, <1>1, <2>1, <2>2, MspTypesUnfold, MspTypesFold DEF AddMspMessage, rxSide
<1>2. CASE UnlockMspMessage
  <2>1. /\ current' \in 0..Len(Body)
        /\ waiting' \in Seq(1..Len(Body)) /\ Len(waiting') <= QueueLen
    <3>1. CASE waiting = <<>>
      BY <1>2, <3>1, MspTypesUnfold DEF UnlockMspMessage
    <3>2. CASE waiting # <<>>
      <4>1. /\ Head(waiting) \in 1..Len(Body) /\ Tail(waiting) \in Seq(1..Len(Body))
            /\ Len(Tail(waiting)) = Len(waiting) - 1 /\ Len(waiting) \in Nat
        BY <3>2, MspTypesUnfold
      <4> QED BY <1>2, <3>2, <4>1, MspTypesUnfold DEF UnlockMspMessage
    <3> QED BY <3>1, <3>2
  <2> QED BY <1>0, <1>2, <2>1, MspTypesUnfold, MspTypesFold DEF UnlockMspMessage, rxSide
<1>3. CASE StartTransfer
  <2>1. current \in 1..Len(Body)
    BY <1>3, MspTypesUnfold DEF StartTransfer
  <2>2. taken' \in Seq(1..Len(Body))
    BY <1>3, <2>1, MspTypesUnfold DEF StartTransfer
  <2>3. MspSenderOK'
    <3>1. msnd' = [state |-> "SEND_PENDING", off |-> 0, last |-> msnd.last, pkg |-> 1,
                   exp |-> msnd.exp, wait |-> 0, msg |-> current]
      BY <1>3, SetDataFields, MspTypesUnfold DEF StartTransfer, MspSenderOK
    <3>2. Length[current] \in Nat \ {0}
      BY <2>1, MessageFacts
    <3>3. msnd.last \in Nat /\ msnd.exp \in Bit
      BY MspTypesUnfold DEF MspSenderOK, Senders
    <3>4. msnd' \in Senders
      BY <2>1, <3>1, <3>3, MspTypesUnfold DEF Senders, SenderStates
    <3> QED BY <2>1, <3>1, <3>2, <3>4 DEF MspSenderOK
  <2> QED BY <1>3, <2>2, <2>3, MspTypesUnfold, MspTypesFold DEF StartTransfer, rxSide
<1>4. CASE QueueUplink
  <2>1. CASE ChunkDue
    <3>1. /\ up' = <<[p |-> Chunk, msp |-> TRUE, sent |-> FALSE]>> /\ turn' = FALSE
          /\ msnd' = AfterGetPayload(msnd, ChunkLen)
      BY <1>4, <2>1 DEF QueueUplink
    <3>2. Chunk \in Packets /\ msnd' \in Senders
      BY <3>1, ChunkType, MspTypesUnfold
    <3>3. [p |-> Chunk, msp |-> TRUE, sent |-> FALSE] \in UpPackets
      BY <3>2 DEF UpPackets
    <3>4. up' \in Seq(UpPackets) /\ Len(up') <= 1
      BY <1>b, <3>1, <3>3
    <3>5. /\ msnd'.state = IF msnd.state = "SEND_PENDING" THEN "SENDING" ELSE msnd.state
          /\ msnd'.off = msnd.off /\ msnd'.msg = msnd.msg
      BY <3>1, GetPayloadFields, MspTypesUnfold DEF MspSenderOK
    <3>6. MspSenderOK'
      BY <3>2, <3>5, MspTypesUnfold DEF MspSenderOK, Sending
    <3> QED BY <1>4, <3>1, <3>4, <3>6, MspTypesUnfold, MspTypesFold DEF QueueUplink, rxSide, queue
  <2>2. CASE ~ChunkDue
    <3>1. /\ up' = <<[p |-> Rc, msp |-> FALSE, sent |-> FALSE]>> /\ turn' = TRUE
          /\ UNCHANGED msnd
      BY <1>4, <2>2 DEF QueueUplink
    <3>2. [p |-> Rc, msp |-> FALSE, sent |-> FALSE] \in UpPackets
      BY DEF UpPackets, Rc, NoPacket, Packets
    <3>3. up' \in Seq(UpPackets) /\ Len(up') <= 1
      BY <1>b, <3>1, <3>2
    <3> QED BY <1>0, <1>4, <3>1, <3>3, MspTypesUnfold, MspTypesFold DEF QueueUplink, rxSide, queue
  <2> QED BY <2>1, <2>2
<1>5. CASE RecoverPending
  BY <1>0, <1>a, <1>5, MspTypesUnfold, MspTypesFold DEF RecoverPending, rxSide, queue
<1>6. CASE ResetByBinding
  <2>1. msnd' \in Senders /\ msnd'.state = "IDLE"
    BY <1>6, BodyAssumption DEF ResetByBinding, ResetSender, Senders, SenderStates
  <2>2. MspSenderOK'
    BY <2>1 DEF MspSenderOK, Sending
  <2> QED BY <1>a, <1>6, <2>2, MspTypesUnfold, MspTypesFold DEF ResetByBinding, rxSide, queue
<1>7. CASE MspReceiveComplete
  <2>1. mrcv.data \in Buffers
    BY MspTypesUnfold DEF Receivers
  <2>2. done' \in Seq(Buffers) /\ mrcv' \in Receivers
    BY <1>7, <2>1, UnlockTypes, MspTypesUnfold DEF MspReceiveComplete
  <2> QED BY <1>0, <1>7, <2>2, MspTypesUnfold, MspTypesFold DEF MspReceiveComplete, queue
<1>8. CASE RefreshDownlink
  <2>1. down' \in Bit
    BY <1>8, MspTypesUnfold DEF RefreshDownlink, Receivers
  <2> QED BY <1>0, <1>8, <2>1, MspTypesUnfold, MspTypesFold DEF RefreshDownlink, queue
<1>9. CASE MspUplinkSlot
  <2>1. frame' \in 1..FrameSlots
    BY <1>9, MspAssumption, MspTypesUnfold DEF MspUplinkSlot, NextFrameSlot
  <2>2. /\ mrcv' \in Receivers
        /\ up' \in Seq(UpPackets) /\ Len(up') <= 1
    <3>1. CASE UNCHANGED <<up, mrcv>>
      BY <3>1, MspTypesUnfold
    <3>2. CASE OnAir /\ (up' = <<>> \/ up' = <<[up[1] EXCEPT !.sent = TRUE]>>)
               /\ (mrcv' = mrcv \/ mrcv' = ProcessRfPacket_MSP(up[1].p))
      <4>1. up[1] \in UpPackets
        BY <3>2, MspTypesUnfold DEF OnAir
      <4>2. up[1].p \in Packets /\ [up[1] EXCEPT !.sent = TRUE] \in UpPackets
        BY <4>1 DEF UpPackets
      <4>3. mrcv' \in Receivers
        BY <3>2, <4>2, ReceiveTypes, MspTypesUnfold DEF ProcessRfPacket_MSP
      <4> QED BY <1>a, <1>b, <3>2, <4>2, <4>3
    <3> QED BY <1>9, <3>1, <3>2 DEF MspUplinkSlot
  <2> QED BY <1>0, <1>9, <2>1, <2>2, MspTypesUnfold, MspTypesFold DEF MspUplinkSlot, queue
<1>10. CASE MspDownlinkSlot
  <2>1. frame' \in 1..FrameSlots /\ down' \in Bit
    BY <1>10, MspAssumption, MspTypesUnfold DEF MspDownlinkSlot, NextFrameSlot, Receivers
  <2>2. MspSenderOK'
    <3>1. CASE UNCHANGED msnd
      BY <1>0, <3>1
    <3>2. CASE msnd' = ConfirmCurrentPayload(msnd, down)
      BY <3>2, ConfirmTypes, MspTypesUnfold DEF MspSenderOK
    <3> QED BY <1>10, <3>1, <3>2 DEF MspDownlinkSlot, Acknowledged
  <2> QED BY <1>10, <2>1, <2>2, MspTypesUnfold, MspTypesFold DEF MspDownlinkSlot, queue
<1>11. CASE UNCHANGED mspVars
  BY <1>0, <1>11, MspTypesUnfold, MspTypesFold DEF mspVars
<1> QED BY <1>1, <1>2, <1>3, <1>4, <1>5, <1>6, <1>7, <1>8, <1>9, <1>10, <1>11
        DEF MspNext, MspLoop, MspSlot

\* MspUplink: every reachable state is well typed; in particular the sender has
\* something left to send while it is sending.
THEOREM MspTyped == MspSpec => [](MspTypeOK)
<1>1. MspTypes => MspTypeOK
  BY DEF MspTypes, MspTypeOK, MspSenderOK
<1> QED BY <1>1, MspStartsTyped, MspStepTyped, PTL DEF MspSpec

\* The numbers of the sender's chunk.
LEMMA ChunkFacts ==
  ASSUME MspTypes, SenderHolds, msnd.state = "SENDING"
  PROVE  /\ msnd.msg \in 1..Len(Body) /\ Body[msnd.msg] \in Bodies
         /\ Length[msnd.msg] \in Nat /\ Length[msnd.msg] <= BufLen /\ BufLen \in Nat
         /\ msnd.off \in Nat /\ msnd.pkg \in Nat /\ msnd.pkg >= 1 /\ msnd.last \in Nat
         /\ Chunk \in Packets
         /\ Chunk.len = ChunkLen /\ ChunkLen \in Nat /\ ChunkLen >= 1 /\ ChunkLen <= BufLen
         /\ Chunk.n \in Nat /\ Chunk.n >= 1 /\ Chunk.n <= ChunkLen
         /\ msnd.off + Chunk.n <= Length[msnd.msg]
         /\ msnd.off + Chunk.n < Length[msnd.msg] => Chunk.n = ChunkLen
         /\ Chunk.body = Body[msnd.msg] /\ Chunk.from = msnd.off
         /\ Chunk.idx = IF msnd.pkg > 1 /\ msnd.off + Chunk.n >= Length[msnd.msg]
                        THEN 0 ELSE msnd.pkg
         /\ msnd.pkg < MaxPackageIndex /\ MaxPackageIndex \in Nat /\ MaxPackageIndex # 0
<1>1. MspSenderOK /\ msnd \in Senders
  BY MspTypesUnfold DEF MspSenderOK
<1>2. /\ msnd.msg \in 1..Len(Body) /\ Length[msnd.msg] \in Nat
      /\ Length[msnd.msg] - msnd.off \in Nat \ {0}
  BY <1>1, SendingMessage DEF MspSenderOK, Sending
<1>3. Body[msnd.msg] \in Bodies /\ Length[msnd.msg] <= BufLen /\ Length[msnd.msg] < MaxPackageIndex
  BY <1>2, MessageFacts
<1>4. ChunkLen \in Nat \ {0} /\ ChunkLen <= BufLen /\ BufLen \in Nat /\ MaxPackageIndex \in Nat \ {0}
  BY MspAssumption, BufferAssumption
<1>5. msnd.off \in Nat /\ msnd.pkg \in Nat \ {0} /\ msnd.last \in Nat /\ msnd.pkg <= msnd.off + 1
  BY <1>1 DEF Senders, SenderHolds
<1>6. /\ Chunk \in Packets /\ Chunk.idx = ChunkIndex(msnd, ChunkLen) /\ Chunk.len = ChunkLen
      /\ Chunk.n = ChunkSize(msnd, ChunkLen)
  BY <1>1, ChunkType
<1>7. ChunkSize(msnd, ChunkLen) = Smaller(Length[msnd.msg] - msnd.off, ChunkLen)
  BY DEF ChunkSize, Sending
<1>8. /\ Chunk.n \in Nat /\ Chunk.n >= 1 /\ Chunk.n <= ChunkLen
      /\ msnd.off + Chunk.n <= Length[msnd.msg]
      /\ msnd.off + Chunk.n < Length[msnd.msg] => Chunk.n = ChunkLen
  BY <1>2, <1>4, <1>5, <1>6, <1>7 DEF Smaller
<1>9. Chunk.body = Body[msnd.msg] /\ Chunk.from = msnd.off
  <2>1. ChunkSize(msnd, ChunkLen) # 0
    BY <1>6, <1>8
  <2> QED BY <2>1 DEF Chunk
<1>10. ChunkIndex(msnd, ChunkLen) =
         IF msnd.pkg > 1 /\ msnd.off + ChunkSize(msnd, ChunkLen) >= Length[msnd.msg]
         THEN 0 ELSE msnd.pkg
  BY DEF ChunkIndex, Sending, Resyncing
<1>11. msnd.pkg < MaxPackageIndex
  BY <1>2, <1>3, <1>4, <1>5
<1>12. Chunk.idx = IF msnd.pkg > 1 /\ msnd.off + Chunk.n >= Length[msnd.msg]
                   THEN 0 ELSE msnd.pkg
  BY <1>6, <1>10
<1>13. /\ ChunkLen \in Nat /\ ChunkLen >= 1 /\ msnd.pkg \in Nat /\ msnd.pkg >= 1
       /\ MaxPackageIndex \in Nat /\ MaxPackageIndex # 0
  BY <1>4, <1>5
<1> QED BY ONLY <1>2, <1>3, <1>4, <1>5, <1>6, <1>8, <1>9, <1>11, <1>12, <1>13, Zenon

\* A sender that waits for the last confirmation sends empty packets of index 0.
LEMMA ClosingChunk ==
  ASSUME MspTypes, msnd.state = "WAIT_UNTIL_NEXT_CONFIRM"
  PROVE  Chunk \in Packets /\ Chunk.idx = 0 /\ Chunk.n = 0 /\ 0 # MaxPackageIndex
BY ChunkType, MspTypesUnfold, BufferAssumption DEF ChunkIndex, ChunkSize, Sending, Resyncing

\* What is passed over changes nothing.
LEMMA PassedOverKeeps ==
  ASSUME MspTypes, NEW p \in Packets, PassedOver(p)
  PROVE  ReceiveData(mrcv, p) = mrcv
<1>1. MaxPackageIndex \in Nat \ {0} /\ mrcv.pkg \in Nat \ {0}
  BY BufferAssumption, MspTypesUnfold DEF Receivers
<1>2. CASE p.idx = 0
  BY <1>1, <1>2 DEF PassedOver, ReceiveData
<1>3. CASE p.idx # 0
  BY <1>1, <1>3 DEF PassedOver, ReceiveData
<1> QED BY <1>2, <1>3

\* The chunk the receiver has is passed over when it comes again.
LEMMA ThereIsPassedOver ==
  ASSUME MspTypes, MspParts, msnd.state = "SENDING", BitAsExpected
  PROVE  PassedOver(Chunk)
<1>1. SenderHolds /\ ChunkThere
  BY DEF MspParts
<1>2. CASE Chunk.idx = 0
  BY <1>1, <1>2 DEF ChunkThere, Between, PassedOver
<1>3. CASE Chunk.idx # 0
  <2>1. /\ Chunk.idx = msnd.pkg /\ mrcv.pkg = msnd.pkg + 1 /\ ~mrcv.finished
        /\ mrcv.off = Smaller(BufLen, msnd.off + ChunkLen)
        /\ msnd.pkg = 1 => /\ msnd.off = 0
                           /\ \A j \in 1..ChunkLen : mrcv.data[j] = PayloadUnit(Chunk, j)
    BY <1>1, <1>3, ChunkFacts DEF ChunkThere
  <2>2. Chunk.idx # mrcv.pkg /\ Chunk.idx # MaxPackageIndex
    BY <1>1, <2>1, ChunkFacts
  <2>3. ASSUME Chunk.idx = 1 PROVE Retransmission(mrcv, Chunk)
    <3>1. mrcv.off = ChunkLen /\ Chunk.len = ChunkLen /\ mrcv.pkg = 2
      BY <1>1, <2>1, <2>3, ChunkFacts DEF Smaller
    <3> QED BY <2>1, <2>3, <3>1 DEF Retransmission
  <2> QED BY <1>3, <2>1, <2>2, <2>3 DEF PassedOver
<1> QED BY <1>2, <1>3

\* A first chunk that the receiver lacks is taken.
LEMMA FirstTaken ==
  ASSUME MspTypes, MspParts, msnd.state = "SENDING", ~BitAsExpected, msnd.pkg = 1,
         ~mrcv.finished, NEW r, r = ReceiveData(mrcv, Chunk)
  PROVE  /\ Chunk.idx = 1 /\ msnd.off = 0 /\ InTransfer = 1
         /\ r.confirm = 1 - mrcv.confirm /\ ~r.finished /\ r.pkg = 2 /\ r.off = ChunkLen
         /\ \A j \in 1..ChunkLen : r.data[j] = PayloadUnit(Chunk, j)
<1>1. SenderHolds /\ ChunkLacking
  BY DEF MspParts
<1>2. msnd.off = 0 /\ mrcv.pkg = 1 /\ mrcv.off = 0 /\ InTransfer = 1
  BY <1>1 DEF ChunkLacking, Between
<1>3. Chunk.idx = 1 /\ Chunk.idx # MaxPackageIndex
  BY <1>1, ChunkFacts
<1>4. r = AcceptChunk(mrcv, Chunk)
  BY <1>2, <1>3 DEF ReceiveData
<1>5. mrcv \in Receivers /\ Chunk \in Packets
  BY <1>1, ChunkFacts, MspTypesUnfold
<1>6. Smaller(BufLen - 0, Chunk.len) = ChunkLen
  BY <1>1, ChunkFacts DEF Smaller
<1>7. r.confirm = 1 - mrcv.confirm /\ r.pkg = 2 /\ r.off = ChunkLen
  BY <1>1, <1>2, <1>4, <1>5, <1>6, AcceptFields, ChunkFacts
<1>8. r.finished = mrcv.finished
  BY <1>4, <1>5, AcceptFields
<1>9. ~r.finished
  BY <1>8, Zenon
<1>10. \A j \in 1..ChunkLen : r.data[j] = PayloadUnit(Chunk, j)
  <2> SUFFICES ASSUME NEW j \in 1..ChunkLen PROVE r.data[j] = PayloadUnit(Chunk, j)
    OBVIOUS
  <2>1. j \in 1..BufLen /\ 0 < j /\ j <= 0 + ChunkLen /\ j - 0 = j
    BY <1>1, ChunkFacts
  <2>2. r.data[j] = IF mrcv.off < j /\ j <= mrcv.off + Smaller(BufLen - mrcv.off, Chunk.len)
                    THEN PayloadUnit(Chunk, j - mrcv.off) ELSE mrcv.data[j]
    BY <1>4, <1>5, <2>1, AcceptFields
  <2> QED BY <1>2, <1>6, <2>1, <2>2
<1> QED BY <1>2, <1>3, <1>7, <1>9, <1>10

\* A later chunk that the receiver lacks is added; the last one finishes the message.
LEMMA LaterTaken ==
  ASSUME MspTypes, MspParts, msnd.state = "SENDING", ~BitAsExpected, msnd.pkg > 1,
         NEW r, r = ReceiveData(mrcv, Chunk)
  PROVE  /\ ~mrcv.finished /\ InTransfer = 1
         /\ r.confirm = 1 - mrcv.confirm
         /\ \A k \in 1..msnd.off + Chunk.n : r.data[k] = <<Body[msnd.msg], k>>
         /\ Chunk.idx = 0 => r.finished
         /\ Chunk.idx # 0 => /\ ~r.finished /\ r.pkg = msnd.pkg + 1
                             /\ r.off = Smaller(BufLen, msnd.off + ChunkLen)
<1>1. SenderHolds /\ ChunkLacking
  BY DEF MspParts
<1>2. /\ ~mrcv.finished /\ InTransfer = 1
      /\ mrcv.pkg = msnd.pkg /\ mrcv.off = msnd.off /\ Begun(msnd.off)
  BY <1>1 DEF ChunkLacking
<1>3. mrcv \in Receivers /\ Chunk \in Packets
  BY <1>1, ChunkFacts, MspTypesUnfold
<1>4. Chunk.idx # MaxPackageIndex /\ (Chunk.idx = 0 \/ Chunk.idx = msnd.pkg)
  BY <1>1, ChunkFacts
<1>5. r = IF Chunk.idx = 0 THEN AcceptChunk([mrcv EXCEPT !.finished = TRUE], Chunk)
          ELSE AcceptChunk(mrcv, Chunk)
  BY <1>2, <1>4 DEF ReceiveData
<1>6. r.confirm = 1 - mrcv.confirm
  BY <1>3, <1>5, AcceptFields, FinishFields
<1>7. \A k \in 1..BufLen :
        r.data[k] = IF mrcv.off < k /\ k <= mrcv.off + Smaller(BufLen - mrcv.off, Chunk.len)
                    THEN PayloadUnit(Chunk, k - mrcv.off) ELSE mrcv.data[k]
  <2>1. CASE Chunk.idx = 0
    BY <1>3, <1>5, <2>1, FinishFields
  <2>2. CASE Chunk.idx # 0
    BY <1>3, <1>5, <2>2, AcceptFields
  <2> QED BY <2>1, <2>2
<1>8. \A k \in 1..msnd.off + Chunk.n : r.data[k] = <<Body[msnd.msg], k>>
  <2> SUFFICES ASSUME NEW k \in 1..msnd.off + Chunk.n
               PROVE  r.data[k] = <<Body[msnd.msg], k>>
    OBVIOUS
  <2>1. k \in 1..BufLen /\ msnd.off <= BufLen
    <3> DEFINE n == Chunk.n
               len == Length[msnd.msg]
    <3>1. /\ msnd.off \in Nat /\ n \in Nat /\ len \in Nat /\ BufLen \in Nat
          /\ msnd.off + n <= len /\ len <= BufLen
      BY <1>1, ChunkFacts
    <3>2. k \in 1..msnd.off + n
      OBVIOUS
    <3> HIDE DEF n, len
    <3> QED BY <3>1, <3>2
  <2>2. CASE k <= msnd.off
    <3>1. mrcv.data[k] = <<Body[msnd.msg], k>> /\ ~(mrcv.off < k)
      BY <1>1, <1>2, <2>1, <2>2, ChunkFacts DEF Begun
    <3> QED BY <1>7, <2>1, <3>1
  <2>3. CASE msnd.off < k
    <3>1. k <= msnd.off + Smaller(BufLen - msnd.off, Chunk.len)
      BY <1>1, <2>1, <2>3, ChunkFacts DEF Smaller
    <3>2. r.data[k] = PayloadUnit(Chunk, k - msnd.off)
      BY <1>2, <1>7, <2>1, <2>3, <3>1
    <3>3. k - msnd.off <= Chunk.n /\ Chunk.from + (k - msnd.off) = k
      BY <1>1, <2>3, ChunkFacts
    <3> QED BY <1>1, <3>2, <3>3, ChunkFacts DEF PayloadUnit
  <2>4. k \in Nat /\ msnd.off \in Nat
    BY <1>1, ChunkFacts
  <2> QED BY <2>2, <2>3, <2>4
<1>9. Chunk.idx = 0 => r.finished
  BY <1>3, <1>5, FinishFields
<1>10. ASSUME Chunk.idx # 0
       PROVE  /\ ~r.finished /\ r.pkg = msnd.pkg + 1
              /\ r.off = Smaller(BufLen, msnd.off + ChunkLen)
  <2>1. r.pkg = msnd.pkg + 1 /\ r.off = mrcv.off + Smaller(BufLen - mrcv.off, Chunk.len)
    BY <1>2, <1>3, <1>5, <1>10, AcceptFields
  <2>2. r.off = Smaller(BufLen, msnd.off + ChunkLen)
    BY <1>1, <1>2, <2>1, ChunkFacts DEF Smaller
  <2>3. r.finished = mrcv.finished
    BY <1>3, <1>5, <1>10, AcceptFields
  <2> QED BY <1>2, <2>1, <2>2, <2>3, Zenon
<1> QED BY <1>2, <1>6, <1>8, <1>9, <1>10

\* The closing packet finishes a message of one chunk.
LEMMA CloseTaken ==
  ASSUME MspTypes, MspParts, msnd.state = "WAIT_UNTIL_NEXT_CONFIRM", ~BitAsExpected,
         NEW r, r = ReceiveData(mrcv, Chunk)
  PROVE  /\ InTransfer = 1 /\ r.confirm = 1 - mrcv.confirm /\ r.finished
         /\ \A k \in 1..Length[msnd.msg] : r.data[k] = <<Body[msnd.msg], k>>
<1>1. SenderHolds /\ AtClose
  BY DEF MspParts
<1>2. /\ ~mrcv.finished /\ InTransfer = 1
      /\ mrcv.pkg = 2 /\ mrcv.off >= Length[msnd.msg] /\ Begun(Length[msnd.msg])
  BY <1>1 DEF AtClose
<1>3. mrcv \in Receivers /\ Chunk \in Packets /\ Chunk.idx = 0 /\ 0 # MaxPackageIndex
  BY ClosingChunk, MspTypesUnfold
<1>4. msnd.msg \in 1..Len(Body)
  BY <1>1, MspTypesUnfold DEF SenderHolds
<1>5. Length[msnd.msg] \in Nat /\ Length[msnd.msg] <= BufLen /\ BufLen \in Nat
  BY <1>4, MessageFacts, BufferAssumption
<1>6. r = AcceptChunk([mrcv EXCEPT !.finished = TRUE], Chunk)
  BY <1>2, <1>3 DEF ReceiveData
<1>7. r.confirm = 1 - mrcv.confirm /\ r.finished
  BY <1>3, <1>6, FinishFields
<1>8. \A k \in 1..Length[msnd.msg] : r.data[k] = <<Body[msnd.msg], k>>
  <2> SUFFICES ASSUME NEW k \in 1..Length[msnd.msg]
               PROVE  r.data[k] = <<Body[msnd.msg], k>>
    OBVIOUS
  <2>1. k \in 1..BufLen /\ mrcv.off \in Nat /\ ~(mrcv.off < k)
    BY <1>2, <1>3, <1>5 DEF Receivers
  <2>2. r.data[k] = IF mrcv.off < k /\ k <= mrcv.off + Smaller(BufLen - mrcv.off, Chunk.len)
                    THEN PayloadUnit(Chunk, k - mrcv.off) ELSE mrcv.data[k]
    BY <1>3, <1>6, <2>1, FinishFields
  <2> QED BY <1>2, <2>1, <2>2 DEF Begun
<1> QED BY <1>2, <1>7, <1>8
-----------------------------------------------------------------------------
(* The steps of MspUplink that keep its invariant *)

LEMMA MspPartsUnfold ==
  ASSUME MspParts
  PROVE  /\ SenderHolds /\ AtRest /\ AtStart /\ ChunkLacking /\ ChunkThere /\ AtClose
         /\ ChunkWaiting /\ DoneRight
BY DEF MspParts

\* A sender's chunk depends on its position alone.
LEMMA SameChunkNext ==
  ASSUME msnd'.state = msnd.state \/ (msnd.state = "SEND_PENDING" /\ msnd'.state = "SENDING"),
         msnd'.off = msnd.off, msnd'.pkg = msnd.pkg, msnd'.msg = msnd.msg
  PROVE  Chunk' = Chunk
<1>1. ChunkSize(msnd, ChunkLen)' = ChunkSize(msnd, ChunkLen)
  BY DEF ChunkSize, Sending
<1>2. ChunkIndex(msnd, ChunkLen)' = ChunkIndex(msnd, ChunkLen)
  BY <1>1 DEF ChunkIndex, Sending, Resyncing
<1> QED BY <1>1, <1>2 DEF Chunk

\* A step that leaves both ends and the histories where they are.
LEMMA QuietKeeps ==
  ASSUME MspParts, UNCHANGED <<mrcv, done, taken>>,
         msnd'.state = msnd.state, msnd'.off = msnd.off, msnd'.pkg = msnd.pkg,
         msnd'.msg = msnd.msg, msnd'.exp = msnd.exp,
         msnd'.last = msnd.last \/ msnd'.last = Chunk.n,
         down' = msnd.exp => BitAsExpected, ChunkWaiting'
  PROVE  MspParts'
<1>1. Chunk' = Chunk
  BY SameChunkNext
<1>2. (BitAsExpected' <=> BitAsExpected) /\ InTransfer' = InTransfer
  BY DEF BitAsExpected, InTransfer
<1>3. /\ \A n : Between(n)' <=> Between(n)
      /\ \A n : Begun(n)' <=> Begun(n)
  BY <1>2 DEF Between, Begun
<1>4. SenderHolds'
  BY <1>2, MspPartsUnfold DEF SenderHolds
<1>5. AtRest' /\ AtStart'
  BY <1>2, <1>3, MspPartsUnfold DEF AtRest, AtStart
<1>6. ChunkLacking'
  BY <1>2, <1>3, MspPartsUnfold DEF ChunkLacking
<1>7. ChunkThere'
  BY <1>1, <1>2, <1>3, MspPartsUnfold DEF ChunkThere, PayloadUnit
<1>8. AtClose'
  BY <1>2, <1>3, MspPartsUnfold DEF AtClose
<1>9. DoneRight'
  BY MspPartsUnfold DEF DoneRight, Holds
<1> QED BY <1>4, <1>5, <1>6, <1>7, <1>8, <1>9 DEF MspParts

\* The packet in the radio's buffer stays, or goes.
LEMMA WaitingKept ==
  ASSUME MspParts, UNCHANGED <<mrcv, msnd>>, UNCHANGED up \/ up' = <<>>
  PROVE  ChunkWaiting'
<1>1. Chunk' = Chunk
  BY SameChunkNext
<1>2. \A p : PassedOver(p)' <=> PassedOver(p)
  BY DEF PassedOver, Retransmission
<1>3. CASE up' = <<>>
  BY <1>3 DEF ChunkWaiting
<1>4. CASE UNCHANGED up
  BY <1>1, <1>2, <1>4, MspPartsUnfold DEF ChunkWaiting
<1> QED BY <1>3, <1>4

LEMMA StartTransferKeeps ==
  ASSUME MspTypes, MspParts, StartTransfer
  PROVE  MspParts'
<1>1. /\ msnd.state = "IDLE" /\ taken' = Append(taken, current) /\ current \in 1..Len(Body)
      /\ msnd' = SetDataToTransmit(msnd, current)
      /\ UNCHANGED <<mrcv, down, done, up>>
  BY MspTypesUnfold DEF StartTransfer, rxSide
<1>2. msnd' = [state |-> "SEND_PENDING", off |-> 0, last |-> msnd.last, pkg |-> 1,
               exp |-> msnd.exp, wait |-> 0, msg |-> current]
  BY <1>1, SetDataFields, MspTypesUnfold DEF MspSenderOK
<1>3. /\ msnd'.state = "SEND_PENDING" /\ msnd'.off = 0 /\ msnd'.pkg = 1
      /\ msnd'.exp = msnd.exp /\ msnd'.msg = current
  BY <1>2
<1>4. /\ Len(taken) \in Nat /\ Len(taken') = Len(taken) + 1 /\ taken'[Len(taken) + 1] = current
      /\ \A i \in 1..Len(taken) : taken'[i] = taken[i]
      /\ Len(done) \in Nat
  BY <1>1, MspTypesUnfold
<1>5. ~BitAsExpected /\ ~BitAsExpected' /\ Between(0)
  BY <1>1, <1>3, MspPartsUnfold DEF AtRest, BitAsExpected
<1>6. Between(1)'
  <2>1. InTransfer' = InTransfer + 1 /\ InTransfer \in Int
    BY <1>1, <1>4 DEF InTransfer
  <2> QED BY <1>1, <1>5, <2>1 DEF Between
<1>7. SenderHolds'
  BY <1>1, <1>3, <1>4, <1>5, MspPartsUnfold DEF SenderHolds, BitAsExpected, Resyncing
<1>8. ChunkWaiting'
  <2>1. \A p : PassedOver(p)' <=> PassedOver(p)
    BY <1>1 DEF PassedOver, Retransmission
  <2> QED BY <1>1, <2>1, MspPartsUnfold DEF ChunkWaiting
<1>9. DoneRight'
  <2>1. /\ \A i \in 1..Len(done) : i <= Len(taken) /\ Holds(done[i], taken[i])
        /\ mrcv.finished => Len(done) < Len(taken) /\ Holds(mrcv.data, taken[Len(done) + 1])
    BY MspPartsUnfold DEF DoneRight
  <2>2. \A i \in 1..Len(done) : i <= Len(taken') /\ Holds(done[i], taken'[i])
    BY <1>4, <2>1
  <2>3. mrcv.finished => Len(done) < Len(taken') /\ Holds(mrcv.data, taken'[Len(done) + 1])
    BY <1>4, <2>1
  <2> QED BY <1>1, <2>2, <2>3 DEF DoneRight, Holds
<1>10. AtRest' /\ AtStart' /\ ChunkLacking' /\ ChunkThere' /\ AtClose'
  BY <1>3, <1>5, <1>6 DEF AtRest, AtStart, ChunkLacking, ChunkThere, AtClose
<1> QED BY <1>7, <1>8, <1>9, <1>10 DEF MspParts

LEMMA QueueUplinkKeeps ==
  ASSUME MspTypes, MspParts, QueueUplink
  PROVE  MspParts'
<1>1. CASE ~ChunkDue
  <2>1. /\ up' = <<[p |-> Rc, msp |-> FALSE, sent |-> FALSE]>>
        /\ UNCHANGED <<msnd, mrcv, done, taken, down>>
    BY <1>1 DEF QueueUplink, rxSide, queue
  <2>2. ChunkWaiting'
    BY <2>1 DEF ChunkWaiting
  <2> QED BY <2>1, <2>2, QuietKeeps, MspPartsUnfold DEF SenderHolds
<1>2. CASE ChunkDue
  <2>1. /\ msnd.state # "IDLE" /\ up' = <<[p |-> Chunk, msp |-> TRUE, sent |-> FALSE]>>
        /\ msnd' = AfterGetPayload(msnd, ChunkLen)
        /\ UNCHANGED <<mrcv, done, taken, down>>
    BY <1>2 DEF QueueUplink, rxSide, queue, ChunkDue
  <2>2. msnd' = [state |-> IF msnd.state = "SEND_PENDING" THEN "SENDING" ELSE msnd.state,
                 off |-> msnd.off, last |-> ChunkSize(msnd, ChunkLen), pkg |-> msnd.pkg,
                 exp |-> msnd.exp, wait |-> msnd.wait, msg |-> msnd.msg]
    BY <2>1, GetPayloadFields, MspTypesUnfold DEF MspSenderOK
  <2>3. /\ msnd'.state = IF msnd.state = "SEND_PENDING" THEN "SENDING" ELSE msnd.state
        /\ msnd'.off = msnd.off /\ msnd'.pkg = msnd.pkg /\ msnd'.exp = msnd.exp
        /\ msnd'.msg = msnd.msg /\ msnd'.last = Chunk.n
    BY <2>2, ChunkType, MspTypesUnfold
  <2>4. Chunk' = Chunk
    BY <2>3, SameChunkNext
  <2>5. msnd.state \in {"SEND_PENDING", "SENDING", "WAIT_UNTIL_NEXT_CONFIRM"}
    BY <2>1, MspTypesUnfold, MspPartsUnfold
       DEF SenderHolds, MspSenderOK, Senders, SenderStates, Resyncing
  <2>6. ChunkWaiting'
    BY <2>1, <2>3, <2>4, <2>5 DEF ChunkWaiting
  <2>7. CASE msnd.state # "SEND_PENDING"
    BY <2>1, <2>3, <2>6, <2>7, QuietKeeps, MspPartsUnfold DEF SenderHolds
  <2>8. CASE msnd.state = "SEND_PENDING"
    <3>1. ~BitAsExpected /\ Between(1) /\ msnd.off = 0 /\ msnd.pkg = 1
      BY <2>8, MspPartsUnfold DEF AtStart
    <3>2. ~BitAsExpected' /\ Between(1)'
      BY <2>1, <2>3, <3>1 DEF BitAsExpected, Between, InTransfer
    <3>3. SenderHolds'
      BY <2>1, <2>3, <2>8, <3>1, MspPartsUnfold DEF SenderHolds, BitAsExpected, Resyncing
    <3>4. DoneRight'
      BY <2>1, MspPartsUnfold DEF DoneRight, Holds
    <3>5. AtRest' /\ AtStart' /\ ChunkLacking' /\ ChunkThere' /\ AtClose'
      BY <2>3, <2>8, <3>1, <3>2 DEF AtRest, AtStart, ChunkLacking, ChunkThere, AtClose
    <3> QED BY <2>6, <3>3, <3>4, <3>5 DEF MspParts
  <2> QED BY <2>7, <2>8
<1> QED BY <1>1, <1>2

LEMMA ReceiveCompleteKeeps ==
  ASSUME MspTypes, MspParts, MspReceiveComplete
  PROVE  MspParts'
<1>1. /\ mrcv.finished /\ done' = Append(done, mrcv.data) /\ mrcv' = Unlock(mrcv)
      /\ UNCHANGED <<msnd, taken, up, down>>
  BY DEF MspReceiveComplete, queue
<1>2. /\ ~mrcv'.finished /\ mrcv'.pkg = 1 /\ mrcv'.off = 0
      /\ mrcv'.confirm = mrcv.confirm /\ mrcv'.data = mrcv.data
  BY <1>1, MspTypesUnfold DEF Unlock, Receivers
<1>3. /\ Len(done') = Len(done) + 1 /\ done'[Len(done) + 1] = mrcv.data /\ Len(done) \in Nat
      /\ \A i \in 1..Len(done) : done'[i] = done[i]
      /\ Len(taken) \in Nat
  <2>1. mrcv.data \in Buffers
    BY MspTypesUnfold DEF Receivers
  <2> QED BY <1>1, <2>1, MspTypesUnfold
<1>4. (BitAsExpected' <=> BitAsExpected) /\ Chunk' = Chunk
  BY <1>1, <1>2, SameChunkNext DEF BitAsExpected
<1>5. ASSUME NEW n \in {0, 1}, Between(n) PROVE Between(n)'
  <2>1. InTransfer = n + 1 /\ InTransfer' = InTransfer - 1
    BY <1>1, <1>3, <1>5 DEF Between, InTransfer
  <2> QED BY <1>2, <2>1 DEF Between
<1>6. SenderHolds'
  BY <1>1, <1>4, MspPartsUnfold DEF SenderHolds
<1>7. AtRest' /\ AtStart'
  BY <1>1, <1>4, <1>5, MspPartsUnfold DEF AtRest, AtStart
<1>8. ChunkLacking'
  BY <1>1, <1>4, <1>5, MspPartsUnfold DEF ChunkLacking
<1>9. ChunkThere'
  BY <1>1, <1>4, <1>5, MspPartsUnfold DEF ChunkThere
<1>10. AtClose'
  BY <1>1, <1>4, <1>5, MspPartsUnfold DEF AtClose
<1>11. ChunkWaiting'
  <2>1. \A p : PassedOver(p) => PassedOver(p)'
    BY <1>1, <1>2 DEF PassedOver
  <2> QED BY <1>1, <1>4, <2>1, MspPartsUnfold DEF ChunkWaiting
<1>12. DoneRight'
  <2>1. /\ \A i \in 1..Len(done) : i <= Len(taken) /\ Holds(done[i], taken[i])
        /\ Len(done) < Len(taken) /\ Holds(mrcv.data, taken[Len(done) + 1])
    BY <1>1, MspPartsUnfold DEF DoneRight
  <2>2. \A i \in 1..Len(done) + 1 : i <= Len(taken) /\ Holds(done'[i], taken[i])
    <3> SUFFICES ASSUME NEW i \in 1..Len(done) + 1
                 PROVE  i <= Len(taken) /\ Holds(done'[i], taken[i])
      OBVIOUS
    <3>1. CASE i = Len(done) + 1
      BY <1>3, <2>1, <3>1
    <3>2. CASE i # Len(done) + 1
      <4>1. i \in 1..Len(done)
        BY <1>3, <3>2
      <4> QED BY <1>3, <2>1, <4>1
    <3> QED BY <3>1, <3>2
  <2> QED BY <1>1, <1>2, <1>3, <2>2 DEF DoneRight, Holds
<1> QED BY <1>6, <1>7, <1>8, <1>9, <1>10, <1>11, <1>12 DEF MspParts

\* The receiver hears the sender's chunk.
LEMMA ChunkHeard ==
  ASSUME MspTypes, MspTypes', MspParts, ~mrcv.finished,
         msnd.state \in {"SENDING", "WAIT_UNTIL_NEXT_CONFIRM"}, msnd.last = Chunk.n,
         mrcv' = ReceiveData(mrcv, Chunk),
         UNCHANGED <<msnd, down, done, taken>>, ChunkWaiting'
  PROVE  MspParts'
<1>1. Chunk' = Chunk /\ InTransfer' = InTransfer
  BY SameChunkNext DEF InTransfer
<1>2. CASE mrcv' = mrcv
  BY <1>2, QuietKeeps, MspPartsUnfold DEF SenderHolds
<1>3. ASSUME ~BitAsExpected, mrcv'.confirm = 1 - mrcv.confirm PROVE BitAsExpected'
  <2>1. mrcv.confirm \in Bit /\ msnd.exp \in Bit
    BY MspTypesUnfold DEF MspSenderOK, Senders, Receivers
  <2> QED BY <1>3, <2>1 DEF BitAsExpected
<1>4. ASSUME BitAsExpected' PROVE SenderHolds'
  BY <1>4, MspPartsUnfold DEF SenderHolds
<1>5. ASSUME InTransfer = 1 PROVE Len(done) + 1 = Len(taken) /\ Len(done) < Len(taken)
  <2>1. Len(done) \in Nat /\ Len(taken) \in Nat
    BY MspTypesUnfold
  <2> QED BY <1>5, <2>1 DEF InTransfer
<1>6. SenderHolds /\ msnd.msg = taken[Len(taken)] /\ \A i \in 1..Len(done) :
        i <= Len(taken) /\ Holds(done[i], taken[i])
  BY MspPartsUnfold DEF SenderHolds, DoneRight
<1>7. CASE msnd.state = "SENDING" /\ BitAsExpected
  <2>1. PassedOver(Chunk) /\ Chunk \in Packets
    BY <1>6, <1>7, ThereIsPassedOver, ChunkFacts
  <2> QED BY <1>2, <2>1, PassedOverKeeps
<1>8. CASE msnd.state = "SENDING" /\ ~BitAsExpected /\ msnd.pkg = 1
  <2>1. /\ Chunk.idx = 1 /\ msnd.off = 0 /\ InTransfer = 1
        /\ mrcv'.confirm = 1 - mrcv.confirm /\ ~mrcv'.finished /\ mrcv'.pkg = 2
        /\ mrcv'.off = ChunkLen
        /\ \A j \in 1..ChunkLen : mrcv'.data[j] = PayloadUnit(Chunk, j)
    BY <1>8, FirstTaken
  <2>2. BitAsExpected'
    BY <1>3, <1>8, <2>1
  <2>3. mrcv'.off = Smaller(BufLen, msnd.off + ChunkLen)
    BY <1>6, <1>8, <2>1, ChunkFacts DEF Smaller
  <2>4. Begun(msnd.off + Chunk.n)'
    <3>1. ASSUME NEW k \in 1..0 + Chunk.n PROVE mrcv'.data[k] = <<Body[msnd.msg], k>>
      <4>1. k \in 1..ChunkLen /\ k <= Chunk.n /\ Chunk.from + k = k
        BY <1>6, <1>8, <2>1, <3>1, ChunkFacts
      <4> QED BY <1>6, <1>8, <2>1, <4>1, ChunkFacts DEF PayloadUnit
    <3> QED BY <1>1, <2>1, <3>1 DEF Begun
  <2>5. ChunkThere'
    BY <1>1, <1>8, <2>1, <2>2, <2>3, <2>4 DEF ChunkThere, PayloadUnit
  <2>6. DoneRight'
    BY <1>6, <2>1 DEF DoneRight, Holds
  <2>7. AtRest' /\ AtStart' /\ ChunkLacking' /\ AtClose'
    BY <1>8, <2>2 DEF AtRest, AtStart, ChunkLacking, AtClose
  <2> QED BY <1>4, <2>2, <2>5, <2>6, <2>7 DEF MspParts
<1>9. CASE msnd.state = "SENDING" /\ ~BitAsExpected /\ msnd.pkg > 1
  <2>1. /\ ~mrcv.finished /\ InTransfer = 1
        /\ mrcv'.confirm = 1 - mrcv.confirm
        /\ \A k \in 1..msnd.off + Chunk.n : mrcv'.data[k] = <<Body[msnd.msg], k>>
        /\ Chunk.idx = 0 => mrcv'.finished
        /\ Chunk.idx # 0 => /\ ~mrcv'.finished /\ mrcv'.pkg = msnd.pkg + 1
                            /\ mrcv'.off = Smaller(BufLen, msnd.off + ChunkLen)
    BY <1>9, LaterTaken
  <2>2. BitAsExpected'
    BY <1>3, <1>9, <2>1
  <2>3. Begun(msnd.off + Chunk.n)'
    BY <1>1, <2>1 DEF Begun
  <2>4. ChunkThere'
    <3>1. CASE Chunk.idx = 0
      BY <1>1, <1>9, <2>1, <2>2, <3>1 DEF ChunkThere, Between
    <3>2. CASE Chunk.idx # 0
      BY <1>1, <1>9, <2>1, <2>2, <2>3, <3>2 DEF ChunkThere
    <3> QED BY <3>1, <3>2
  <2>5. DoneRight'
    <3>1. CASE Chunk.idx = 0
      <4>1. msnd.off + Chunk.n = Length[msnd.msg]
        <5> DEFINE n == Chunk.n
                   len == Length[msnd.msg]
        <5>1. /\ msnd.off \in Nat /\ n \in Nat /\ len \in Nat
              /\ msnd.off + n <= len /\ msnd.off + n >= len
          <6>1. msnd.off + n <= len /\ n \in Nat /\ len \in Nat /\ msnd.off \in Nat
            BY <1>6, <1>9, ChunkFacts
          <6>2. msnd.pkg \in Nat /\ msnd.pkg # 0
            BY <1>6, <1>9, ChunkFacts
          <6>3. Chunk.idx = IF msnd.pkg > 1 /\ msnd.off + n >= len THEN 0 ELSE msnd.pkg
            BY <1>6, <1>9, ChunkFacts
          <6> HIDE DEF n, len
          <6> QED BY <3>1, <6>1, <6>2, <6>3
        <5> HIDE DEF n, len
        <5>2. msnd.off + n = len
          BY <5>1
        <5> QED BY <5>2 DEF n, len
      <4>2. Holds(mrcv'.data, taken[Len(done) + 1])
        BY <1>5, <1>6, <2>1, <4>1 DEF Holds
      <4> QED BY <1>5, <1>6, <2>1, <4>2 DEF DoneRight, Holds
    <3>2. CASE Chunk.idx # 0
      BY <1>6, <2>1, <3>2 DEF DoneRight, Holds
    <3> QED BY <3>1, <3>2
  <2>6. AtRest' /\ AtStart' /\ ChunkLacking' /\ AtClose'
    BY <1>9, <2>2 DEF AtRest, AtStart, ChunkLacking, AtClose
  <2> QED BY <1>4, <2>2, <2>4, <2>5, <2>6 DEF MspParts
<1>10. CASE msnd.state = "WAIT_UNTIL_NEXT_CONFIRM" /\ BitAsExpected
  <2>1. PassedOver(Chunk) /\ Chunk \in Packets
    BY <1>10, ClosingChunk, MspPartsUnfold DEF AtClose, Between, PassedOver
  <2> QED BY <1>2, <2>1, PassedOverKeeps
<1>11. CASE msnd.state = "WAIT_UNTIL_NEXT_CONFIRM" /\ ~BitAsExpected
  <2>1. /\ InTransfer = 1 /\ mrcv'.confirm = 1 - mrcv.confirm /\ mrcv'.finished
        /\ \A k \in 1..Length[msnd.msg] : mrcv'.data[k] = <<Body[msnd.msg], k>>
    BY <1>11, CloseTaken
  <2>2. BitAsExpected'
    BY <1>3, <1>11, <2>1
  <2>3. AtClose'
    BY <1>1, <1>11, <2>1, <2>2 DEF AtClose, Between
  <2>4. DoneRight'
    <3>1. Holds(mrcv'.data, taken[Len(done) + 1])
      BY <1>5, <1>6, <2>1 DEF Holds
    <3> QED BY <1>5, <1>6, <2>1, <3>1 DEF DoneRight, Holds
  <2>5. AtRest' /\ AtStart' /\ ChunkLacking' /\ ChunkThere'
    BY <1>11, <2>2 DEF AtRest, AtStart, ChunkLacking, ChunkThere
  <2> QED BY <1>4, <2>2, <2>3, <2>4, <2>5 DEF MspParts
<1>12. msnd.pkg = 1 \/ msnd.pkg > 1
  BY MspTypesUnfold DEF MspSenderOK, Senders
<1> QED BY <1>7, <1>8, <1>9, <1>10, <1>11, <1>12

LEMMA UplinkSlotKeeps ==
  ASSUME MspTypes, MspTypes', MspParts, MspUplinkSlot
  PROVE  MspParts'
<1>1. UNCHANGED <<msnd, down, done, taken>> /\ ~mrcv.finished
  BY DEF MspUplinkSlot, LoopsAhead, queue
<1>2. down' = msnd.exp => BitAsExpected
  BY <1>1, MspPartsUnfold DEF SenderHolds
<1>3. CASE ~OnAir
  <2>1. UNCHANGED <<up, mrcv>>
    BY <1>3 DEF MspUplinkSlot
  <2> QED BY <1>1, <1>2, <2>1, QuietKeeps, WaitingKept
<1>4. CASE OnAir
  <2>1. up[1] \in UpPackets /\ ~up[1].sent /\ 1 \in DOMAIN up
    BY <1>4, MspTypesUnfold DEF OnAir
  <2>2. up[1].p \in Packets /\ [up[1] EXCEPT !.sent = TRUE].sent
    BY <2>1 DEF UpPackets
  <2>3. up' = <<>> \/ up' = <<[up[1] EXCEPT !.sent = TRUE]>>
    BY <1>4 DEF MspUplinkSlot
  <2>4. ChunkWaiting'
    <3> DEFINE u == [up[1] EXCEPT !.sent = TRUE]
    <3>1. u.sent /\ (up' = <<>> \/ up' = <<u>>)
      BY <2>2, <2>3
    <3> HIDE DEF u
    <3>2. \A i \in DOMAIN up' : up'[i].sent
      <4>1. CASE up' = <<>>
        BY <4>1
      <4>2. CASE up' = <<u>>
        BY <3>1, <4>2
      <4> QED BY <3>1, <4>1, <4>2
    <3> QED BY <3>2 DEF ChunkWaiting
  <2>5. CASE mrcv' = mrcv
    BY <1>1, <1>2, <2>4, <2>5, QuietKeeps
  <2>6. CASE up[1].msp /\ mrcv' = ReceiveData(mrcv, up[1].p)
    <3>1. \/ PassedOver(up[1].p)
          \/ /\ msnd.state \in {"SENDING", "WAIT_UNTIL_NEXT_CONFIRM"}
             /\ up[1].p = Chunk /\ msnd.last = Chunk.n
      BY <2>1, <2>6, MspPartsUnfold DEF ChunkWaiting
    <3>2. CASE PassedOver(up[1].p)
      BY <2>2, <2>5, <2>6, <3>2, PassedOverKeeps
    <3>3. CASE ~PassedOver(up[1].p)
      BY <1>1, <2>4, <2>6, <3>1, <3>3, ChunkHeard
    <3> QED BY <3>2, <3>3
  <2> QED BY <1>4, <2>5, <2>6 DEF MspUplinkSlot, ProcessRfPacket_MSP
<1> QED BY <1>3, <1>4

\* The sender moves on: its chunk, if it still waits, is one the receiver has.
LEMMA ConfirmedKeeps ==
  ASSUME MspTypes, MspTypes', MspParts, down = msnd.exp,
         msnd.state \in {"SENDING", "WAIT_UNTIL_NEXT_CONFIRM"},
         msnd' = ConfirmCurrentPayload(msnd, down),
         down' = mrcv.confirm, UNCHANGED <<mrcv, done, taken, up>>
  PROVE  MspParts'
<1>1. BitAsExpected /\ SenderHolds
  BY MspPartsUnfold DEF SenderHolds
<1>2. msnd \in Senders /\ msnd.state # "RESYNC_THEN_SEND" /\ down \in Bit
  BY MspTypesUnfold DEF MspSenderOK
<1>3. /\ \A n : Between(n) => Between(n)'
      /\ InTransfer' = InTransfer
  BY DEF Between, InTransfer
<1>4. msnd'.exp = 1 - msnd.exp /\ msnd'.msg = msnd.msg
  <2>1. CASE msnd.state = "SENDING"
    BY <1>2, <2>1, ConfirmCases, ChunkConfirmedFields
  <2>2. CASE msnd.state = "WAIT_UNTIL_NEXT_CONFIRM"
    BY <1>2, <2>2, ConfirmCases
  <2> QED BY <2>1, <2>2
<1>5. ~BitAsExpected' /\ (down' = msnd'.exp => FALSE)
  <2>1. msnd.exp \in Bit
    BY <1>2 DEF Senders
  <2> QED BY <1>1, <1>4, <2>1 DEF BitAsExpected
<1>6. PassedOver(Chunk)
  BY <1>1, ThereIsPassedOver, ClosingChunk, MspPartsUnfold DEF AtClose, Between, PassedOver
<1>7. ChunkWaiting'
  <2>1. \A p : PassedOver(p)' <=> PassedOver(p)
    BY DEF PassedOver, Retransmission
  <2> QED BY <1>6, <2>1, MspPartsUnfold DEF ChunkWaiting
<1>8. DoneRight'
  BY MspPartsUnfold DEF DoneRight, Holds
<1>9. ChunkThere'
  BY <1>5 DEF ChunkThere
<1>10. CASE msnd.state = "WAIT_UNTIL_NEXT_CONFIRM"
  <2>1. msnd'.state = "IDLE" /\ msnd'.off = msnd.off /\ msnd'.pkg = msnd.pkg
    BY <1>2, <1>10, ConfirmCases
  <2>2. Between(0)'
    BY <1>1, <1>3, <1>10, MspPartsUnfold DEF AtClose
  <2>3. SenderHolds'
    BY <1>1, <1>5, <2>1 DEF SenderHolds, Resyncing
  <2>4. AtRest' /\ AtStart' /\ ChunkLacking' /\ AtClose'
    BY <1>5, <2>1, <2>2 DEF AtRest, AtStart, ChunkLacking, AtClose
  <2> QED BY <1>7, <1>8, <1>9, <2>3, <2>4 DEF MspParts
<1>11. CASE msnd.state = "SENDING"
  <2>1. msnd' = ChunkConfirmed(msnd)
    BY <1>2, <1>11, ConfirmCases
  <2>2. /\ msnd'.state = IF msnd.off + msnd.last < Length[msnd.msg] THEN "SENDING"
                         ELSE IF msnd.pkg = 1 THEN "WAIT_UNTIL_NEXT_CONFIRM" ELSE "IDLE"
        /\ msnd'.off = msnd.off + msnd.last /\ msnd'.pkg = msnd.pkg + 1
    BY <1>2, <2>1, ChunkConfirmedFields
  <2>3. /\ msnd.last = Chunk.n
        /\ IF Chunk.idx = 0 THEN Between(0)
           ELSE /\ ~mrcv.finished /\ InTransfer = 1
                /\ mrcv.pkg = msnd.pkg + 1 /\ mrcv.off = Smaller(BufLen, msnd.off + ChunkLen)
                /\ Begun(msnd.off + Chunk.n)
                /\ msnd.pkg = 1 => msnd.off = 0
    BY <1>1, <1>11, MspPartsUnfold DEF ChunkThere
  <2>4. SenderHolds'
    <3>1. msnd.pkg + 1 <= msnd.off + msnd.last + 1
      <4> DEFINE n == Chunk.n
      <4>1. /\ msnd.off \in Nat /\ msnd.pkg \in Nat /\ n \in Nat /\ n >= 1 /\ msnd.last = n
        BY <1>1, <1>11, <2>3, ChunkFacts
      <4>2. msnd.pkg <= msnd.off + 1
        BY <1>1 DEF SenderHolds
      <4> HIDE DEF n
      <4> QED BY <4>1, <4>2
    <3> QED BY <1>1, <1>4, <1>5, <1>11, <2>2, <3>1 DEF SenderHolds, Resyncing
  <2>5. CASE msnd.off + msnd.last < Length[msnd.msg]
    <3>1. Chunk.idx # 0 /\ msnd.pkg + 1 > 1 /\ msnd.off + msnd.last = msnd.off + ChunkLen
          /\ Smaller(BufLen, msnd.off + ChunkLen) = msnd.off + ChunkLen
      BY <1>1, <1>11, <2>3, <2>5, ChunkFacts DEF Smaller
    <3>2. msnd'.state = "SENDING" /\ mrcv'.off = msnd'.off /\ mrcv'.pkg = msnd'.pkg
          /\ ~mrcv'.finished /\ InTransfer' = 1 /\ msnd'.pkg > 1
      BY <1>3, <2>2, <2>3, <2>5, <3>1
    <3>3. Begun(msnd.off)'
      BY <1>4, <2>2, <2>3, <3>1 DEF Begun
    <3>4. ChunkLacking'
      BY <3>2, <3>3 DEF ChunkLacking
    <3>5. AtRest' /\ AtStart' /\ AtClose'
      BY <3>2 DEF AtRest, AtStart, AtClose
    <3> QED BY <1>7, <1>8, <1>9, <2>4, <3>4, <3>5 DEF MspParts
  <2>6. CASE ~(msnd.off + msnd.last < Length[msnd.msg]) /\ msnd.pkg = 1
    <3>1. /\ Chunk.idx # 0 /\ msnd.off + Chunk.n = Length[msnd.msg]
          /\ Smaller(BufLen, msnd.off + ChunkLen) >= Length[msnd.msg]
      BY <1>1, <1>11, <2>3, <2>6, ChunkFacts DEF Smaller
    <3>2. /\ msnd'.state = "WAIT_UNTIL_NEXT_CONFIRM"
          /\ ~mrcv'.finished /\ InTransfer' = 1 /\ mrcv'.pkg = 2
          /\ mrcv'.off >= Length[msnd'.msg]
      BY <1>3, <1>4, <2>2, <2>3, <2>6, <3>1
    <3>3. Begun(Length[msnd.msg])'
      BY <1>4, <2>3, <3>1 DEF Begun
    <3>4. AtClose'
      BY <1>5, <3>2, <3>3 DEF AtClose
    <3>5. AtRest' /\ AtStart' /\ ChunkLacking'
      BY <3>2 DEF AtRest, AtStart, ChunkLacking
    <3> QED BY <1>7, <1>8, <1>9, <2>4, <3>4, <3>5 DEF MspParts
  <2>7. CASE ~(msnd.off + msnd.last < Length[msnd.msg]) /\ msnd.pkg # 1
    <3>1. Chunk.idx = 0 /\ msnd'.state = "IDLE"
      BY <1>1, <1>11, <2>2, <2>3, <2>7, ChunkFacts
    <3>2. Between(0)'
      BY <1>3, <2>3, <3>1
    <3>3. AtRest' /\ AtStart' /\ ChunkLacking' /\ AtClose'
      BY <1>5, <3>1, <3>2 DEF AtRest, AtStart, ChunkLacking, AtClose
    <3> QED BY <1>7, <1>8, <1>9, <2>4, <3>3 DEF MspParts
  <2> QED BY <2>5, <2>6, <2>7
<1> QED BY <1>10, <1>11

LEMMA DownlinkSlotKeeps ==
  ASSUME MspTypes, MspTypes', MspParts, MspDownlinkSlot, ~mgaveUp'
  PROVE  MspParts'
<1>1. /\ UNCHANGED <<mrcv, done, taken, up>> /\ down' = mrcv.confirm
      /\ msnd'.state \notin Resyncing
      /\ msnd' = msnd \/ msnd' = ConfirmCurrentPayload(msnd, down)
  BY DEF MspDownlinkSlot, queue, Acknowledged
<1>2. msnd \in Senders /\ msnd.state # "RESYNC_THEN_SEND" /\ down \in Bit
  BY MspTypesUnfold DEF MspSenderOK
<1>3. msnd.state \in {"IDLE", "SEND_PENDING", "SENDING", "WAIT_UNTIL_NEXT_CONFIRM"}
  BY <1>2, MspPartsUnfold DEF SenderHolds, Senders, SenderStates, Resyncing
<1>4. down' = msnd.exp => BitAsExpected
  BY <1>1 DEF BitAsExpected
<1>5. CASE msnd' = msnd
  BY <1>1, <1>4, <1>5, QuietKeeps, WaitingKept
<1>6. CASE msnd' = ConfirmCurrentPayload(msnd, down) /\ msnd' # msnd
  <2>1. msnd.state \in {"SENDING", "WAIT_UNTIL_NEXT_CONFIRM"}
    BY <1>2, <1>3, <1>6, ConfirmCases
  <2>2. CASE down = msnd.exp
    BY <1>1, <1>6, <2>1, <2>2, ConfirmedKeeps
  <2>3. CASE down # msnd.exp
    <3>1. msnd' = MissedConfirm(msnd, down)
      BY <1>2, <1>6, <2>1, <2>3, ConfirmCases
    <3>2. ~(msnd.wait + 1 > MaxWait)
      BY <1>1, <1>2, <3>1, MissedConfirmFields DEF Resyncing
    <3>3. /\ msnd'.state = msnd.state /\ msnd'.off = msnd.off /\ msnd'.last = msnd.last
          /\ msnd'.pkg = msnd.pkg /\ msnd'.exp = msnd.exp /\ msnd'.msg = msnd.msg
      BY <1>2, <3>1, <3>2, MissedConfirmFields
    <3>4. Chunk' = Chunk
      BY <3>3, SameChunkNext
    <3>5. ChunkWaiting'
      <4>1. \A p : PassedOver(p)' <=> PassedOver(p)
        BY <1>1 DEF PassedOver, Retransmission
      <4> QED BY <1>1, <3>3, <3>4, <4>1, MspPartsUnfold DEF ChunkWaiting
    <3> QED BY <1>1, <1>4, <3>3, <3>5, QuietKeeps
  <2> QED BY <2>2, <2>3
<1> QED BY <1>1, <1>5, <1>6

LEMMA MspStartsRight == MspInit => MspInv
<1> SUFFICES ASSUME MspInit PROVE MspParts
  BY DEF MspInv
<1>1. /\ msnd.state = "IDLE" /\ msnd.exp = 1 /\ msnd.pkg = 1 /\ msnd.off = 0
      /\ mrcv.confirm = 0 /\ ~mrcv.finished /\ mrcv.pkg = 1 /\ mrcv.off = 0
  BY DEF MspInit, ResetSender, ResetReceiver
<1>2. down = 0 /\ up = <<>> /\ done = <<>> /\ taken = <<>>
  BY DEF MspInit
<1>3. ~BitAsExpected /\ Between(0)
  BY <1>1, <1>2 DEF BitAsExpected, Between, InTransfer
<1>4. SenderHolds
  BY <1>1, <1>2 DEF SenderHolds, Resyncing
<1>5. AtRest /\ AtStart /\ ChunkLacking /\ ChunkThere /\ AtClose
  BY <1>1, <1>3 DEF AtRest, AtStart, ChunkLacking, ChunkThere, AtClose
<1>6. ChunkWaiting /\ DoneRight
  BY <1>1, <1>2 DEF ChunkWaiting, DoneRight
<1> QED BY <1>4, <1>5, <1>6 DEF MspParts

LEMMA MspStepRight == MspTypes /\ MspTypes' /\ MspInv /\ [MspNext]_mspVars => MspInv'
<1> SUFFICES ASSUME MspTypes, MspTypes', MspInv, [MspNext]_mspVars, ~mgaveUp'
             PROVE  MspParts'
  BY DEF MspInv
<1>1. CASE MspDownlinkSlot
  <2>1. MspParts
    BY <1>1 DEF MspDownlinkSlot, MspInv
  <2> QED BY <1>1, <2>1, DownlinkSlotKeeps
<1>2. ASSUME ~MspDownlinkSlot PROVE MspParts
  BY <1>2 DEF MspInv, MspNext, MspLoop, MspSlot, AddMspMessage, ResetByBinding,
              UnlockMspMessage, StartTransfer, QueueUplink, RecoverPending, MspReceiveComplete,
              RefreshDownlink, MspUplinkSlot, mspVars
<1>3. CASE StartTransfer \/ QueueUplink \/ MspReceiveComplete \/ MspUplinkSlot
  BY <1>1, <1>2, <1>3, StartTransferKeeps, QueueUplinkKeeps, ReceiveCompleteKeeps, UplinkSlotKeeps
<1>4. CASE AddMspMessage \/ UnlockMspMessage \/ RecoverPending \/ RefreshDownlink
           \/ UNCHANGED mspVars
  <2>1. CASE MspDownlinkSlot
    BY <1>1, <2>1
  <2>2. CASE ~MspDownlinkSlot
    <3>1. MspParts
      BY <1>2, <2>2
    <3>2. /\ UNCHANGED <<msnd, mrcv, done, taken>> /\ (UNCHANGED up \/ up' = <<>>)
          /\ down' = down \/ down' = mrcv.confirm
      BY <1>4 DEF AddMspMessage, UnlockMspMessage, RecoverPending, RefreshDownlink, rxSide, queue,
                  mspVars
    <3>3. down' = msnd.exp => BitAsExpected
      BY <3>1, <3>2, MspPartsUnfold DEF SenderHolds, BitAsExpected
    <3>4. ChunkWaiting'
      BY <3>1, <3>2, WaitingKept
    <3> QED BY <3>1, <3>2, <3>3, <3>4, QuietKeeps
  <2> QED BY <2>1, <2>2
<1>5. CASE ResetByBinding
  BY <1>5 DEF ResetByBinding
<1> QED BY <1>1, <1>3, <1>4, <1>5 DEF MspNext, MspLoop, MspSlot

\* MspUplink: for any messages, sizes of chunks and of the TDMA frame, and any number of
\* losses, a sender that never had to give up has had every message acted on once, whole
\* and in order.
THEOREM MspDelivers == MspSpec => []MspExactlyOnce
<1>1. MspTypes /\ MspInv => MspExactlyOnce
  <2> SUFFICES ASSUME MspTypes, MspParts
               PROVE  /\ Len(done) <= Len(taken)
                      /\ \A i \in DOMAIN done : Holds(done[i], taken[i])
                      /\ msnd.state = "IDLE" /\ ~mrcv.finished => Len(done) = Len(taken)
    BY DEF MspInv, MspExactlyOnce
  <2>1. /\ Len(done) \in Nat /\ Len(taken) \in Nat /\ DOMAIN done = 1..Len(done)
    BY MspTypesUnfold
  <2>2. \A i \in 1..Len(done) : i <= Len(taken) /\ Holds(done[i], taken[i])
    BY MspPartsUnfold DEF DoneRight
  <2>3. Len(done) <= Len(taken)
    BY <2>1, <2>2
  <2>4. msnd.state = "IDLE" /\ ~mrcv.finished => Len(done) = Len(taken)
    BY <2>1, MspPartsUnfold DEF AtRest, Between, InTransfer
  <2> QED BY <2>1, <2>2, <2>3, <2>4
<1> QED BY <1>1, MspStartsTyped, MspStepTyped, MspStartsRight, MspStepRight, PTL DEF MspSpec

-----------------------------------------------------------------------------
(* The composition *)

LEMMA AirStart == AirInit => BindInit /\ MspInit /\ LqInit /\ FhssInit /\ Init
BY DEF AirInit

LEMMA AirStep ==
  [AirNext]_airVars =>
    /\ [BindNext]_bindVars /\ [MspNext]_mspVars /\ [LqNext]_lqVars
    /\ [FhssNext]_fhssVars /\ [Next]_vars
BY DEF AirNext, airVars

\* The composition implements each of the parts: no step of one touches another.
THEOREM AirPartsRun == AirSpec => BindSpec /\ MspSpec /\ LqSpec /\ FhssSpec /\ Spec
BY AirStart, AirStep, PTL DEF AirSpec, BindSpec, MspSpec, LqSpec, FhssSpec, Spec

\* Type correctness of every part, and what the two tables over the slots say.
THEOREM AirTablesRight == AirSpec => [](AirTypeOK /\ SlotTablesRight)
<1>1. AirSpec => []BindTypeOK /\ []MspTypeOK /\ [](LqTypeOK /\ LqCountsWindow)
                   /\ [](FhssTypeOK /\ HopsRight) /\ []TypeOK
  BY AirPartsRun, BindTyped, MspTyped, LqCounts, HopsFair, PacketsCarryCount
<1> QED BY <1>1, PTL DEF AirTypeOK, SlotTablesRight

\* Type correctness of binding, the MSP uplink, the link quality, hopping and AirPort's
\* FIFO, in the composition (AirTypeOK).
THEOREM AirTyped == AirSpec => []AirTypeOK
BY AirTablesRight, PTL

\* Binding, the MSP uplink and AirPort's FIFO do what they promise, in the composition.
THEOREM AirSafe ==
  AirSpec => []MspExactlyOnce /\ BindOnlyOnRequest /\ BindPacketsGoOut /\ CountIsCarried
               /\ ImplementsQueue
BY AirPartsRun, MspDelivers, BindsForReason, UidGoesOut, PacketsCarryCount, FifoIsQueue
=============================================================================
