---------------------------- MODULE Parser_proofs ----------------------------
(***************************************************************************)
(* The serial parsers and the handset's output: CrsfHandset, SbusHandset   *)
(* and TelemetryParser. No buffer overflows, answers are written whole,    *)
(* and what the other side sends is taken whatever the line does to it.    *)
(***************************************************************************)
EXTENDS CrsfHandset, SbusHandset, TelemetryParser, FiniteSetTheorems, SequenceTheorems,
        WellFoundedInduction, TLAPS
-----------------------------------------------------------------------------
(* The handset's output *)
\* A set of numbers has a least one.
LEMMA LeastNumber ==
  ASSUME NEW T \in SUBSET Nat, T # {}
  PROVE  \E x \in T : \A y \in T : ~(y < x)
<1>1. PICK x \in T : \A y \in T : ~(<<y, x>> \in OpToRel(<, Nat))
  BY WFMin, NatLessThanWellFounded
<1>2. \A y \in T : y < x => <<y, x>> \in OpToRel(<, Nat)
  <2> SUFFICES ASSUME NEW y \in T, y < x PROVE <<y, x>> \in OpToRel(<, Nat)
    OBVIOUS
  <2> HIDE <1>1
  <2>1. <<y, x>> \in {ss \in Nat \X Nat : ss[1] < ss[2]}
    OBVIOUS
  <2> QED BY <2>1 DEF OpToRel
<1>3. \A y \in T : ~(y < x)
  BY <1>1, <1>2, Zenon
<1> QED BY <1>3

\* What holds of 0, and of n + 1 if of n, holds of every number.
LEMMA Induction ==
  ASSUME NEW S \in SUBSET Nat, 0 \in S, \A n \in S : n + 1 \in S
  PROVE  S = Nat
<1> DEFINE T == Nat \ S
<1> SUFFICES ASSUME T # {} PROVE FALSE
  OBVIOUS
<1>1. PICK x \in T : \A y \in T : ~(y < x)
  BY LeastNumber
<1>2. x \in Nat /\ x # 0
  OBVIOUS
<1>3. x - 1 \in Nat /\ (x - 1) + 1 = x /\ x - 1 < x
  BY <1>2
<1>4. x - 1 \in S
  BY <1>1, <1>3
<1> QED BY <1>3, <1>4

\* A least and a greatest number.
LEMMA MinIn ==
  ASSUME NEW S \in SUBSET Nat, S # {}
  PROVE  Min(S) \in S /\ \A y \in S : Min(S) <= y
<1>1. PICK x \in S : \A y \in S : ~(y < x)
  BY LeastNumber
<1>2. \A y \in S : x =< y
  BY <1>1
<1> QED BY <1>2 DEF Min

LEMMA MaxIn ==
  ASSUME NEW n \in Nat, NEW S \in SUBSET (0..n), S # {}
  PROVE  Max(S) \in S /\ \A y \in S : y <= Max(S)
<1> DEFINE T == {n - y : y \in S}
<1>1. T \in SUBSET Nat /\ T # {}
  <2>1. \A y \in 0..n : n - y \in Nat
    OBVIOUS
  <2>2. PICK y \in S : y \in 0..n
    OBVIOUS
  <2>3. n - y \in T
    OBVIOUS
  <2> QED BY <2>1, <2>3
<1>2. PICK x \in T : \A y \in T : ~(y < x)
  BY <1>1, LeastNumber
<1>3. n - x \in S
  BY <1>2
<1>4. \A y \in S : n - x >= y
  <2> SUFFICES ASSUME NEW y \in S PROVE n - x >= y
    OBVIOUS
  <2>1. n - y \in T /\ ~(n - y < x)
    BY <1>2
  <2>2. x \in Nat /\ n - y \in Nat /\ y \in Nat
    BY <1>1, <2>1
  <2> QED BY <2>1, <2>2
<1> QED BY <1>3, <1>4 DEF Max

\* Products grow with their factors.
LEMMA ProductOrder ==
  ASSUME NEW l \in Nat, NEW a \in Nat, NEW b \in Nat, l * a < l * b
  PROVE  a < b
<1> SUFFICES ASSUME b <= a PROVE FALSE
  OBVIOUS
<1>1. a - b \in Nat /\ a = b + (a - b)
  OBVIOUS
<1>2. \A d \in Nat : l * (b + d) = l * b + l * d /\ l * d \in Nat /\ l * b \in Nat
  OBVIOUS
<1>3. l * a = l * b + l * (a - b) /\ l * (a - b) \in Nat /\ l * b \in Nat
  BY <1>1, <1>2
<1> QED BY <1>3

LEMMA OneMore ==
  ASSUME NEW n \in Nat, NEW l \in Nat
  PROVE  (n + 1) * l = n * l + l /\ n * l \in Nat
OBVIOUS

\* x, F[x], F[F[x]] and so on can be listed.
CanIterate(D, F, x, N) ==
  \E g \in [0..N -> D] : g[0] = x /\ \A v \in 1..N : g[v] = F[g[v - 1]]

LEMMA Iterated ==
  ASSUME NEW D, NEW F \in [D -> D], NEW x \in D, NEW N \in Nat
  PROVE  CanIterate(D, F, x, N)
<1> DEFINE Runs(n, g) == g \in [0..n -> D] /\ g[0] = x /\ \A v \in 1..n : g[v] = F[g[v - 1]]
           S == {n \in Nat : \E g \in [0..n -> D] : Runs(n, g)}
<1>1. 0 \in S
  <2>1. Runs(0, [v \in 0..0 |-> x])
    OBVIOUS
  <2> QED BY <2>1
<1>2. ASSUME NEW n \in S PROVE n + 1 \in S
  <2>1. n \in Nat
    OBVIOUS
  <2>2. PICK g \in [0..n -> D] : Runs(n, g)
    OBVIOUS
  <2> DEFINE h == [v \in 0..n + 1 |-> IF v <= n THEN g[v] ELSE F[g[n]]]
  <2>3. h \in [0..n + 1 -> D]
    BY <2>1, <2>2
  <2>4. h[0] = x
    BY <2>1, <2>2
  <2>5. ASSUME NEW v \in 1..n + 1 PROVE h[v] = F[h[v - 1]]
    <3>1. CASE v <= n
      BY <2>1, <2>2, <3>1
    <3>2. CASE ~(v <= n)
      <4>1. v = n + 1 /\ v - 1 = n /\ n \in 0..n + 1 /\ n <= n
        BY <2>1, <3>2
      <4> QED BY <2>1, <4>1
    <3> QED BY <3>1, <3>2
  <2> HIDE DEF h
  <2>6. Runs(n + 1, h)
    BY <2>3, <2>4, <2>5
  <2> QED BY <2>1, <2>3, <2>6
<1> HIDE DEF S
<1>3. S = Nat
  <2>1. S \in SUBSET Nat
    BY DEF S
  <2> QED BY <1>1, <1>2, <2>1, Induction
<1> QED BY <1>3 DEF S, CanIterate

\* The loop of handleOutput stays among the states its body stays among.
LEMMA LoopStays ==
  ASSUME NEW D, NEW w, Piece(w) \in D,
         \A u \in D : u[4] # 0 /\ u[1] # <<>> => Piece(u) \in D
  PROVE  Written(w) \in D
<1> DEFINE Turn(u) == IF u[4] # 0 /\ u[1] # <<>> THEN Piece(u) ELSE u
           F == [u \in D |-> Turn(u)]
           Is(l) == l = [v \in 0..OutSize |-> IF v = 0 THEN Piece(w) ELSE Turn(l[v - 1])]
           loop == CHOOSE l : Is(l)
<1>1. OutSize \in Nat
  BY HandsetAssumption
<1>2. F \in [D -> D]
  OBVIOUS
<1>3. PICK g \in [0..OutSize -> D] : g[0] = Piece(w) /\ \A v \in 1..OutSize : g[v] = F[g[v - 1]]
  <2>1. Piece(w) \in D
    OBVIOUS
  <2> HIDE DEF F
  <2>2. CanIterate(D, F, Piece(w), OutSize)
    BY <1>1, <1>2, <2>1, Iterated, Zenon
  <2> QED BY <2>2 DEF CanIterate
<1>4. \A v \in 1..OutSize : g[v] = Turn(g[v - 1])
  <2> SUFFICES ASSUME NEW v \in 1..OutSize PROVE g[v] = Turn(g[v - 1])
    OBVIOUS
  <2>1. v - 1 \in 0..OutSize
    BY <1>1
  <2>2. g[v - 1] \in D
    BY <2>1
  <2> QED BY <1>3, <2>2
<1>5. Is(g)
  <2> HIDE DEF Turn
  <2>1. \A v \in 0..OutSize : g[v] = IF v = 0 THEN Piece(w) ELSE Turn(g[v - 1])
    BY <1>1, <1>3, <1>4
  <2> QED BY <2>1
<1>6. Is(loop)
  <2> HIDE DEF Is
  <2> QED BY <1>5
<1>7. Written(w) = loop[OutSize]
  BY DEF Written
<1>8. \A v \in 0..OutSize : loop[v] = IF v = 0 THEN Piece(w) ELSE Turn(loop[v - 1])
  <2> HIDE DEF loop
  <2> QED BY <1>6
<1> HIDE DEF loop
<1> DEFINE S == {n \in Nat : n <= OutSize => loop[n] \in D}
<1>9. 0 \in S
  BY <1>1, <1>8
<1>10. ASSUME NEW n \in S PROVE n + 1 \in S
  <2> SUFFICES ASSUME n + 1 <= OutSize PROVE loop[n + 1] \in D
    OBVIOUS
  <2>1. n \in Nat /\ n <= OutSize /\ n + 1 \in 0..OutSize /\ n + 1 # 0 /\ (n + 1) - 1 = n
    BY <1>1
  <2>2. loop[n] \in D
    BY <2>1
  <2>3. loop[n + 1] = Turn(loop[n])
    BY <1>8, <2>1
  <2> QED BY <2>2, <2>3
<1>11. S = Nat
  <2> HIDE DEF S
  <2>1. S \in SUBSET Nat
    BY DEF S
  <2> QED BY <1>9, <1>10, <2>1, Induction
<1> QED BY <1>1, <1>7, <1>11

\* Every byte of s is one of AnswerLen equal ones in a row, and of no others.
Block(s, i, b) == /\ b < i /\ i <= b + AnswerLen /\ b + AnswerLen <= Len(s)
                  /\ \A j \in 1..Len(s) : s[j] = s[i] <=> b < j /\ j <= b + AnswerLen
InBlocks(s) == \A i \in 1..Len(s) : \E b \in Nat : Block(s, i, b)

\* What is in the FIFO q, left of a packet (tail) and written, with a answers given.
OutTyped(q, tail, wr, a) == q \in Seq(1..a) /\ tail \in Seq(1..a) /\ wr \in Seq(1..a)
InOrder(q) == \A i, j \in 1..Len(q) : i < j => q[i] < q[j]
Older(s, q) == \A i \in 1..Len(s), j \in 1..Len(q) : s[i] < q[j]
OutInv(q, tail, wr, a) ==
  /\ OutTyped(q, tail, wr, a) /\ Len(tail) < AnswerLen
  /\ InOrder(q) /\ Older(wr \o tail, q) /\ InBlocks(wr \o tail)

\* A sequence cut in two and put together again.
CanCut(S, s, t, n) ==
  /\ SubSeq(t, 1, n) \in Seq(S) /\ SubSeq(t, n + 1, Len(t)) \in Seq(S)
  /\ Len(SubSeq(t, n + 1, Len(t))) = Len(t) - n
  /\ s \o SubSeq(t, 1, n) \in Seq(S)
  /\ (s \o SubSeq(t, 1, n)) \o SubSeq(t, n + 1, Len(t)) = s \o t
LEMMA CutAndJoined ==
  ASSUME NEW S, NEW s \in Seq(S), NEW t \in Seq(S), NEW n \in 0..Len(t)
  PROVE  CanCut(S, s, t, n)
<1> DEFINE u == SubSeq(t, 1, n)
           v == SubSeq(t, n + 1, Len(t))
<1>1. u \in Seq(S) /\ Len(u) = n /\ \A i \in 1..n : u[i] = t[i]
  OBVIOUS
<1>2. v \in Seq(S) /\ Len(v) = Len(t) - n /\ \A i \in 1..Len(t) - n : v[i] = t[n + i]
  OBVIOUS
<1> HIDE DEF u, v
<1>3. s \o u \in Seq(S) /\ (s \o u) \o v \in Seq(S) /\ s \o t \in Seq(S)
  BY <1>1, <1>2
<1>4. /\ Len(s \o u) = Len(s) + n /\ Len((s \o u) \o v) = Len(s) + Len(t)
      /\ Len(s \o t) = Len(s) + Len(t) /\ Len(s) \in Nat /\ Len(t) \in Nat
  <2>1. Len(s) \in Nat /\ Len(t) \in Nat /\ n \in Nat /\ n <= Len(t)
    OBVIOUS
  <2>2. Len(s \o t) = Len(s) + Len(t)
    OBVIOUS
  <2>3. Len(s \o u) = Len(s) + n
    BY <1>1
  <2>4. Len((s \o u) \o v) = Len(s \o u) + Len(v)
    BY <1>2, <1>3, ConcatProperties
  <2> QED BY <1>2, <2>1, <2>2, <2>3, <2>4
<1>5. ASSUME NEW i \in 1..Len(s) + Len(t) PROVE ((s \o u) \o v)[i] = (s \o t)[i]
  <2>1. CASE i <= Len(s)
    BY <1>1, <1>2, <1>3, <1>4, <2>1
  <2>2. CASE i > Len(s) /\ i <= Len(s) + n
    <3>1. i - Len(s) \in 1..n
      BY <2>2
    <3>2. (s \o t)[i] = t[i - Len(s)] /\ (s \o u)[i] = u[i - Len(s)]
      BY <1>1, <2>2
    <3>3. ((s \o u) \o v)[i] = (s \o u)[i]
      BY <1>2, <1>3, <1>4, <2>2
    <3> QED BY <1>1, <3>1, <3>2, <3>3
  <2>3. CASE i > Len(s) + n
    <3>1. i - (Len(s) + n) \in 1..Len(t) - n /\ n + (i - (Len(s) + n)) = i - Len(s)
      BY <2>3
    <3>2. (s \o t)[i] = t[i - Len(s)]
      BY <2>3
    <3>3. ((s \o u) \o v)[i] = v[i - (Len(s) + n)]
      BY <1>2, <1>3, <1>4, <2>3
    <3> QED BY <1>2, <3>1, <3>2, <3>3
  <2> QED BY <1>4, <2>1, <2>2, <2>3
<1>6. (s \o u) \o v = s \o t
  BY <1>3, <1>4, <1>5, SeqEqual
<1> QED BY <1>1, <1>2, <1>3, <1>6 DEF u, v, CanCut

\* A whole packet of a newer answer is one more row.
LEMMA OneRowMore ==
  ASSUME NEW a \in Nat, NEW s \in Seq(1..a), InBlocks(s),
         NEW n \in 1..a, \A i \in 1..Len(s) : s[i] # n
  PROVE  InBlocks(s \o [i \in 1..AnswerLen |-> n])
<1> DEFINE p == [i \in 1..AnswerLen |-> n]
           r == s \o p
<1>1. AnswerLen \in Nat \ {0}
  BY HandsetAssumption
<1>2. p \in Seq(1..a) /\ Len(p) = AnswerLen /\ \A i \in 1..AnswerLen : p[i] = n
  BY <1>1
<1> HIDE DEF p
<1>3. /\ r \in Seq(1..a) /\ Len(r) = Len(s) + AnswerLen
      /\ \A i \in 1..Len(s) : r[i] = s[i]
      /\ \A i \in Len(s) + 1..Len(s) + AnswerLen : r[i] = p[i - Len(s)]
  BY <1>1, <1>2
<1>4. \A i \in Len(s) + 1..Len(s) + AnswerLen : r[i] = n
  <2> SUFFICES ASSUME NEW i \in Len(s) + 1..Len(s) + AnswerLen PROVE r[i] = n
    OBVIOUS
  <2>1. i - Len(s) \in 1..AnswerLen
    BY <1>1
  <2> QED BY <1>2, <1>3, <2>1
<1> HIDE DEF r
<1>5. ASSUME NEW i \in 1..Len(r) PROVE \E b \in Nat : Block(r, i, b)
  <2>1. CASE i <= Len(s)
    <3>1. i \in 1..Len(s) /\ r[i] = s[i] /\ r[i] # n
      BY <1>3, <2>1
    <3>2. PICK b \in Nat : Block(s, i, b)
      BY <3>1 DEF InBlocks
    <3>3. b < i /\ i <= b + AnswerLen /\ b + AnswerLen <= Len(r)
      BY <1>1, <1>3, <3>2 DEF Block
    <3>4. ASSUME NEW j \in 1..Len(r)
          PROVE  r[j] = r[i] <=> b < j /\ j <= b + AnswerLen
      <4>1. CASE j <= Len(s)
        BY <1>3, <3>1, <3>2, <4>1 DEF Block
      <4>2. CASE j > Len(s)
        <5>1. r[j] = n /\ ~(j <= b + AnswerLen)
          BY <1>1, <1>3, <1>4, <3>2, <4>2 DEF Block
        <5> QED BY <3>1, <5>1
      <4> QED BY <4>1, <4>2
    <3> QED BY <3>3, <3>4 DEF Block
  <2>2. CASE i > Len(s)
    <3>1. r[i] = n /\ Len(s) \in Nat
      BY <1>1, <1>3, <1>4, <2>2
    <3>2. Len(s) < i /\ i <= Len(s) + AnswerLen /\ Len(s) + AnswerLen <= Len(r)
      BY <1>1, <1>3, <2>2
    <3>3. ASSUME NEW j \in 1..Len(r)
          PROVE  r[j] = r[i] <=> Len(s) < j /\ j <= Len(s) + AnswerLen
      <4>1. CASE j <= Len(s)
        <5>1. j \in 1..Len(s)
          BY <1>3, <4>1
        <5>2. r[j] # n
          BY <1>3, <5>1
        <5> QED BY <3>1, <4>1, <5>2
      <4>2. CASE j > Len(s)
        BY <1>1, <1>3, <1>4, <3>1, <4>2
      <4> QED BY <4>1, <4>2
    <3>4. Block(r, i, Len(s))
      BY <3>2, <3>3 DEF Block
    <3> QED BY <3>1, <3>4
  <2> QED BY <2>1, <2>2
<1>6. InBlocks(r)
  BY <1>5 DEF InBlocks
<1> QED BY <1>6 DEF r, p

\* What one piece does to the FIFO and to the line.
PieceMade(q, tail, wr, k, a) ==
  \E packet \in Seq(1..a), n \in Nat, r \in Seq(1..a) :
    /\ n <= Len(packet) /\ n <= k
    /\ Piece(<<q, tail, wr, k>>)
         = <<r, SubSeq(packet, n + 1, Len(packet)), wr \o SubSeq(packet, 1, n), k - n>>
    /\ Len(packet) - n < AnswerLen
    /\ \/ packet = tail /\ r = q /\ (tail # <<>> \/ q = <<>>)
       \/ /\ tail = <<>> /\ q # <<>> /\ r = Tail(q)
          /\ packet = [i \in 1..AnswerLen |-> Head(q)]
LEMMA PieceIs ==
  ASSUME NEW a \in Nat, NEW q \in Seq(1..a), NEW tail \in Seq(1..a), NEW wr \in Seq(1..a),
         NEW k \in Nat \ {0}, Len(tail) < AnswerLen
  PROVE  PieceMade(q, tail, wr, k, a)
<1> DEFINE new == tail = <<>>
           packet == IF ~new THEN tail ELSE IF q = <<>> THEN <<>>
                     ELSE [i \in 1..AnswerLen |-> Head(q)]
           n == IF Len(packet) < k THEN Len(packet) ELSE k
           r == IF new /\ q # <<>> THEN Tail(q) ELSE q
<1>1. AnswerLen \in Nat \ {0}
  BY HandsetAssumption
<1>2. Piece(<<q, tail, wr, k>>)
        = <<r, SubSeq(packet, n + 1, Len(packet)), wr \o SubSeq(packet, 1, n), k - n>>
  BY DEF Piece
<1>3. \/ packet = tail /\ r = q /\ (tail # <<>> \/ q = <<>>)
      \/ /\ tail = <<>> /\ q # <<>> /\ r = Tail(q)
         /\ packet = [i \in 1..AnswerLen |-> Head(q)]
  <2>1. CASE tail # <<>>
    BY <2>1
  <2>2. CASE tail = <<>> /\ q = <<>>
    BY <2>2
  <2>3. CASE tail = <<>> /\ q # <<>>
    BY <2>3
  <2> QED BY <2>1, <2>2, <2>3
<1>4. r \in Seq(1..a)
  <2>1. q # <<>> => Tail(q) \in Seq(1..a)
    OBVIOUS
  <2> QED BY <2>1
<1>5. packet \in Seq(1..a) /\ (packet = tail \/ Len(packet) = AnswerLen)
  <2>1. CASE packet = tail
    BY <2>1
  <2>2. CASE q # <<>> /\ packet = [i \in 1..AnswerLen |-> Head(q)]
    <3>1. Head(q) \in 1..a
      BY <2>2
    <3>2. [i \in 1..AnswerLen |-> Head(q)] \in Seq(1..a)
      BY <1>1, <3>1
    <3>3. Len([i \in 1..AnswerLen |-> Head(q)]) = AnswerLen
      BY <1>1
    <3> QED BY <2>2, <3>2, <3>3
  <2> QED BY <1>3, <2>1, <2>2
<1> HIDE DEF packet, r
<1>6. n \in Nat /\ n <= Len(packet) /\ n <= k /\ Len(packet) - n < AnswerLen
  BY <1>1, <1>5
<1> HIDE DEF n
<1> QED BY <1>2, <1>3, <1>4, <1>5, <1>6 DEF PieceMade

\* One piece keeps the packets whole.
PieceWhole(w, a) == \E r, t, v, l : /\ Piece(w) = <<r, t, v, l>>
                                   /\ l \in Nat /\ OutInv(r, t, v, a)
LEMMA PieceKeeps ==
  ASSUME NEW a \in Nat, NEW q, NEW tail, NEW wr, NEW k \in Nat \ {0}, OutInv(q, tail, wr, a)
  PROVE  PieceWhole(<<q, tail, wr, k>>, a)
<1>1. /\ q \in Seq(1..a) /\ tail \in Seq(1..a) /\ wr \in Seq(1..a)
      /\ Len(tail) < AnswerLen /\ InOrder(q) /\ Older(wr \o tail, q) /\ InBlocks(wr \o tail)
  BY DEF OutInv, OutTyped
<1>2. PICK packet \in Seq(1..a), n \in Nat, r \in Seq(1..a) :
           /\ n <= Len(packet) /\ n <= k
           /\ Piece(<<q, tail, wr, k>>)
                = <<r, SubSeq(packet, n + 1, Len(packet)), wr \o SubSeq(packet, 1, n), k - n>>
           /\ Len(packet) - n < AnswerLen
           /\ \/ packet = tail /\ r = q /\ (tail # <<>> \/ q = <<>>)
              \/ /\ tail = <<>> /\ q # <<>> /\ r = Tail(q)
                 /\ packet = [i \in 1..AnswerLen |-> Head(q)]
  <2>1. PieceMade(q, tail, wr, k, a)
    BY <1>1, PieceIs, Zenon
  <2> QED BY <2>1 DEF PieceMade
<1> DEFINE t == SubSeq(packet, n + 1, Len(packet))
           v == wr \o SubSeq(packet, 1, n)
<1>3. n \in 0..Len(packet)
  BY <1>2
<1>4. t \in Seq(1..a) /\ Len(t) = Len(packet) - n /\ v \in Seq(1..a) /\ v \o t = wr \o packet
  <2>1. wr \in Seq(1..a) /\ packet \in Seq(1..a)
    BY <1>1
  <2>2. CanCut(1..a, wr, packet, n)
    BY <1>3, <2>1, CutAndJoined, Zenon
  <2> QED BY <2>2 DEF CanCut
<1> HIDE DEF t, v
<1>5. InOrder(r) /\ Older(wr \o packet, r) /\ InBlocks(wr \o packet)
  <2>1. CASE packet = tail /\ r = q
    BY <1>1, <2>1
  <2>2. CASE tail = <<>> /\ q # <<>> /\ r = Tail(q) /\ packet = [i \in 1..AnswerLen |-> Head(q)]
    <3>1. wr \o tail = wr
      BY <1>1, <2>2
    <3>2. /\ Len(q) \in Nat \ {0} /\ Len(r) = Len(q) - 1 /\ Head(q) = q[1] /\ Head(q) \in 1..a
          /\ \A j \in 1..Len(r) : r[j] = q[j + 1]
      BY <1>1, <2>2
    <3>3. InOrder(r)
      <4> SUFFICES ASSUME NEW i \in 1..Len(r), NEW j \in 1..Len(r), i < j PROVE r[i] < r[j]
        BY DEF InOrder
      <4>1. i + 1 \in 1..Len(q) /\ j + 1 \in 1..Len(q) /\ i + 1 < j + 1
        BY <3>2
      <4>2. q[i + 1] < q[j + 1]
        BY <1>1, <4>1 DEF InOrder
      <4> QED BY <3>2, <4>2
    <3>4. \A i \in 1..Len(wr), j \in 1..Len(q) : wr[i] < q[j]
      BY <1>1, <3>1 DEF Older
    <3>5. AnswerLen \in Nat \ {0} /\ Len(packet) = AnswerLen
          /\ \A i \in 1..AnswerLen : packet[i] = q[1]
      BY <2>2, <3>2, HandsetAssumption
    <3>6. ASSUME NEW i \in 1..Len(wr \o packet), NEW j \in 1..Len(r)
          PROVE  (wr \o packet)[i] < r[j]
      <4>1. Len(wr \o packet) = Len(wr) + AnswerLen /\ Len(wr) \in Nat
        <5>1. wr \in Seq(1..a) /\ packet \in Seq(1..a)
          BY <1>1
        <5>2. Len(wr \o packet) = Len(wr) + Len(packet)
          BY <5>1, ConcatProperties
        <5> QED BY <1>1, <3>5, <5>2
      <4>2. r[j] = q[j + 1] /\ j + 1 \in 1..Len(q) /\ 1 \in 1..Len(q) /\ 1 < j + 1
        BY <3>2
      <4>3. CASE i <= Len(wr)
        <5>1. (wr \o packet)[i] = wr[i]
          BY <1>1, <1>2, <4>3
        <5> QED BY <3>4, <4>1, <4>2, <4>3, <5>1
      <4>4. CASE i > Len(wr)
        <5>1. (wr \o packet)[i] = packet[i - Len(wr)]
          BY <1>1, <1>2, <4>4
        <5>2. i - Len(wr) \in 1..AnswerLen
          BY <3>5, <4>1, <4>4
        <5>3. q[1] < q[j + 1]
          BY <1>1, <4>2 DEF InOrder
        <5> QED BY <3>5, <4>2, <5>1, <5>2, <5>3
      <4> QED BY <4>1, <4>3, <4>4
    <3>7. InBlocks(wr \o packet)
      <4>1. \A i \in 1..Len(wr) : wr[i] # Head(q)
        <5> SUFFICES ASSUME NEW i \in 1..Len(wr) PROVE wr[i] # Head(q)
          OBVIOUS
        <5>1. wr[i] < q[1] /\ wr[i] \in Nat /\ q[1] \in Nat
          BY <1>1, <3>2, <3>4
        <5> QED BY <3>2, <5>1
      <4> QED BY <1>1, <2>2, <3>1, <3>2, <4>1, OneRowMore
    <3> QED BY <3>3, <3>6, <3>7 DEF Older
  <2> QED BY <1>2, <2>1, <2>2
<1>6. OutInv(r, t, v, a)
  BY <1>2, <1>4, <1>5 DEF OutInv, OutTyped
<1>7. k - n \in Nat
  BY <1>2
<1>8. Piece(<<q, tail, wr, k>>) = <<r, t, v, k - n>>
  BY <1>2 DEF t, v
<1> QED BY <1>6, <1>7, <1>8 DEF PieceWhole


\* The loop of handleOutput keeps the packets whole.
LEMMA WriteKeeps ==
  ASSUME NEW a \in Nat, NEW q, NEW tail, NEW wr, OutInv(q, tail, wr, a)
  PROVE  LET w == Written(<<q, tail, wr, PeriodBytes>>) IN OutInv(w[1], w[2], w[3], a)
<1> DEFINE S == Seq(1..a)
           D == {w \in S \X S \X S \X Nat : OutInv(w[1], w[2], w[3], a)}
           x == <<q, tail, wr, PeriodBytes>>
<1>1. ASSUME NEW r, NEW t, NEW v, NEW k \in Nat \ {0}, OutInv(r, t, v, a)
      PROVE  Piece(<<r, t, v, k>>) \in D
  <2>1. PICK r2, t2, v2, l : /\ Piece(<<r, t, v, k>>) = <<r2, t2, v2, l>>
                             /\ l \in Nat /\ OutInv(r2, t2, v2, a)
    <3>1. PieceWhole(<<r, t, v, k>>, a)
      BY <1>1, PieceKeeps, Zenon
    <3> QED BY <3>1 DEF PieceWhole
  <2>2. r2 \in S /\ t2 \in S /\ v2 \in S
    BY <2>1, Zenon DEF OutInv, OutTyped
  <2> HIDE DEF S
  <2>3. <<r2, t2, v2, l>> \in S \X S \X S \X Nat
    BY <2>1, <2>2
  <2>4. <<r2, t2, v2, l>> \in D
    BY <2>1, <2>3
  <2> QED BY <2>1, <2>4
<1>2. Piece(x) \in D
  <2>1. PeriodBytes \in Nat \ {0}
    BY HandsetAssumption
  <2> HIDE DEF D
  <2> QED BY <1>1, <2>1
<1>3. ASSUME NEW u \in D, u[4] # 0, u[1] # <<>> PROVE Piece(u) \in D
  <2>1. u = <<u[1], u[2], u[3], u[4]>> /\ u[4] \in Nat \ {0} /\ OutInv(u[1], u[2], u[3], a)
    <3> HIDE DEF S
    <3> QED BY <1>3
  <2>2. Piece(<<u[1], u[2], u[3], u[4]>>) \in D
    <3> HIDE DEF D
    <3> QED BY <1>1, <2>1
  <2> QED BY <2>1, <2>2
<1> HIDE DEF D
<1>4. Written(x) \in D
  BY <1>2, <1>3, LoopStays, Zenon
<1> HIDE DEF x
<1>5. OutInv(Written(x)[1], Written(x)[2], Written(x)[3], a)
  BY <1>4 DEF D
<1> QED BY <1>5 DEF x

\* With a newer answer given, what is there stays in order.
LEMMA GivenMore ==
  ASSUME NEW a \in Nat, NEW q, NEW tail, NEW wr, OutInv(q, tail, wr, a)
  PROVE  OutInv(q, tail, wr, a + 1)
<1>1. \A s \in Seq(1..a) : s \in Seq(1..a + 1)
  <2> SUFFICES ASSUME NEW s \in Seq(1..a) PROVE s \in Seq(1..a + 1)
    OBVIOUS
  <2>1. \A i \in 1..Len(s) : s[i] \in 1..a + 1
    <3> SUFFICES ASSUME NEW i \in 1..Len(s) PROVE s[i] \in 1..a + 1
      OBVIOUS
    <3>1. s[i] \in 1..a
      OBVIOUS
    <3> QED BY <3>1
  <2>2. s \in [1..Len(s) -> 1..a + 1] /\ Len(s) \in Nat
    BY <2>1
  <2> QED BY <2>2
<1> QED BY <1>1 DEF OutInv, OutTyped

\* The FIFO has room for an answer when it is empty, so a least number of packets
\* makes room.
LEMMA LeastRoom ==
  ASSUME NEW q, Len(q) \in Nat
  PROVE  \E m \in 0..Len(q) : \A x : Queued(q, x) = Append(SubSeq(q, m + 1, Len(q)), x)
<1> DEFINE R == {i \in 0..Len(q) :
                   OutBytes(SubSeq(q, i + 1, Len(q))) + AnswerLen + 1 <= OutSize}
<1>1. Len(q) \in R
  <2>1. SubSeq(q, Len(q) + 1, Len(q)) = <<>>
    OBVIOUS
  <2>2. OutBytes(<<>>) = AnswerLen * 0 + 0
    BY DEF OutBytes
  <2>3. OutBytes(<<>>) + AnswerLen + 1 <= OutSize
    BY <2>2, HandsetAssumption
  <2>4. OutBytes(SubSeq(q, Len(q) + 1, Len(q))) + AnswerLen + 1 <= OutSize
    BY <2>1, <2>3
  <2> QED BY <2>4
<1>2. R \in SUBSET Nat
  OBVIOUS
<1> HIDE DEF R
<1>3. PICK l \in R : \A y \in R : ~(y < l)
  BY <1>1, <1>2, LeastNumber
<1>4. \A y \in R : l <= y
  BY <1>2, <1>3
<1>5. Min(R) \in R
  BY <1>3, <1>4 DEF Min
<1>6. Min(R) \in 0..Len(q)
  BY <1>5 DEF R
<1>7. \A x : Queued(q, x) = Append(SubSeq(q, Min(R) + 1, Len(q)), x)
  BY DEF Queued, R
<1> DEFINE m == Min(R)
<1> HIDE DEF m
<1>8. m \in 0..Len(q) /\ \A x : Queued(q, x) = Append(SubSeq(q, m + 1, Len(q)), x)
  BY <1>6, <1>7 DEF m
<1> QED BY <1>8

\* The end of a sequence.
CanDrop(S, s, m) == /\ SubSeq(s, m + 1, Len(s)) \in Seq(S)
                    /\ Len(SubSeq(s, m + 1, Len(s))) = Len(s) - m
                    /\ \A i \in 1..Len(s) - m : SubSeq(s, m + 1, Len(s))[i] = s[m + i]
LEMMA Dropped ==
  ASSUME NEW S, NEW s \in Seq(S), NEW m \in 0..Len(s)
  PROVE  CanDrop(S, s, m)
BY DEF CanDrop

\* A queued answer is the newest; the packets that make room for it go whole.
LEMMA QueueKeeps ==
  ASSUME NEW a \in Nat, NEW q, NEW tail, NEW wr, OutInv(q, tail, wr, a)
  PROVE  OutInv(Queued(q, a + 1), tail, wr, a + 1)
<1> DEFINE b == a + 1
           S == 1..b
           all == wr \o tail
<1>1. OutInv(q, tail, wr, b)
  BY GivenMore
<1>2. /\ q \in Seq(S) /\ tail \in Seq(S) /\ wr \in Seq(S)
      /\ Len(tail) < AnswerLen /\ InOrder(q) /\ Older(all, q) /\ InBlocks(all)
  BY <1>1, Zenon DEF OutInv, OutTyped
<1>3. q \in Seq(1..a) /\ tail \in Seq(1..a) /\ wr \in Seq(1..a) /\ all \in Seq(1..a)
  <2>1. q \in Seq(1..a) /\ tail \in Seq(1..a) /\ wr \in Seq(1..a)
    BY Zenon DEF OutInv, OutTyped
  <2> QED BY <2>1, ConcatProperties
<1>4. PICK m \in 0..Len(q) : \A x : Queued(q, x) = Append(SubSeq(q, m + 1, Len(q)), x)
  <2>1. Len(q) \in Nat
    BY <1>3
  <2> QED BY <2>1, LeastRoom
<1> DEFINE d == SubSeq(q, m + 1, Len(q))
           r == Append(d, b)
<1>5. d \in Seq(1..a) /\ Len(d) = Len(q) - m /\ \A i \in 1..Len(d) : d[i] = q[m + i]
  <2>1. CanDrop(1..a, q, m)
    BY <1>3, Dropped, Zenon
  <2> QED BY <2>1 DEF CanDrop
<1>6. Queued(q, b) = r
  BY <1>4
<1> HIDE DEF d
<1>7. \A i \in 1..Len(d) : d[i] \in 1..a
  BY <1>5
<1>8. Len(r) = Len(d) + 1 /\ r[Len(d) + 1] = b /\ \A i \in 1..Len(d) : r[i] = d[i]
  BY <1>5
<1>9. r \in Seq(S)
  <2>1. OutTyped(d, <<>>, <<>>, a) => d \in Seq(S)
    <3>1. \A i \in 1..Len(d) : d[i] \in S
      BY <1>7
    <3>2. d \in [1..Len(d) -> S] /\ Len(d) \in Nat
      BY <1>5, <3>1
    <3> QED BY <3>2
  <2>2. <<>> \in Seq(1..a)
    OBVIOUS
  <2> QED BY <1>5, <2>1, <2>2 DEF OutTyped
<1> HIDE DEF r, all
<1>10. InOrder(r)
  <2> SUFFICES ASSUME NEW i \in 1..Len(r), NEW j \in 1..Len(r), i < j PROVE r[i] < r[j]
    BY DEF InOrder
  <2>1. i \in 1..Len(d) /\ r[i] = d[i] /\ d[i] \in 1..a
    BY <1>5, <1>7, <1>8
  <2>2. CASE j = Len(d) + 1
    BY <1>8, <2>1, <2>2
  <2>3. CASE j # Len(d) + 1
    <3>1. j \in 1..Len(d) /\ r[j] = d[j]
      <4>1. Len(d) \in Nat /\ j \in 1..Len(d) + 1
        BY <1>5, <1>8
      <4>2. j \in 1..Len(d)
        BY <2>3, <4>1
      <4> QED BY <1>8, <4>2
    <3>2. m + i \in 1..Len(q) /\ m + j \in 1..Len(q) /\ m + i < m + j
      BY <1>3, <1>5, <2>1, <3>1
    <3>3. q[m + i] < q[m + j]
      BY <1>2, <3>2 DEF InOrder
    <3> QED BY <1>5, <2>1, <3>1, <3>3
  <2> QED BY <2>2, <2>3
<1>11. Older(all, r)
  <2> SUFFICES ASSUME NEW i \in 1..Len(all), NEW j \in 1..Len(r) PROVE all[i] < r[j]
    BY DEF Older
  <2>1. all[i] \in 1..a
    BY <1>3
  <2>2. CASE j = Len(d) + 1
    BY <1>8, <2>1, <2>2
  <2>3. CASE j # Len(d) + 1
    <3>1. j \in 1..Len(d) /\ r[j] = d[j]
      <4>1. Len(d) \in Nat /\ j \in 1..Len(d) + 1
        BY <1>5, <1>8
      <4>2. j \in 1..Len(d)
        BY <2>3, <4>1
      <4> QED BY <1>8, <4>2
    <3>2. m + j \in 1..Len(q)
      BY <1>3, <1>5, <3>1
    <3>3. all[i] < q[m + j]
      BY <1>2, <3>2 DEF Older
    <3> QED BY <1>5, <3>1, <3>3
  <2> QED BY <2>2, <2>3
<1> QED BY <1>2, <1>6, <1>9, <1>10, <1>11 DEF OutInv, OutTyped, all

\* Numbers in a row.
LEMMA RowIs ==
  ASSUME NEW s \in Nat, NEW t \in Nat, s < t
  PROVE  Cardinality((s + 1)..t) = t - s /\ Max((s + 1)..t) = t /\ Min((s + 1)..t) = s + 1
<1> DEFINE R == (s + 1)..t
<1>1. Cardinality(R) = t - s
  <2>1. Cardinality(R) = IF s + 1 > t THEN 0 ELSE t - (s + 1) + 1
    BY FS_Interval
  <2> QED BY <2>1
<1>2. \E x \in R : \A y \in R : x >= y
  <2>1. t \in R /\ \A y \in R : t >= y
    OBVIOUS
  <2> QED BY <2>1
<1>3. Max(R) \in R /\ \A y \in R : Max(R) >= y
  BY <1>2 DEF Max
<1>4. \E x \in R : \A y \in R : x =< y
  <2>1. s + 1 \in R /\ \A y \in R : s + 1 =< y
    OBVIOUS
  <2> QED BY <2>1
<1>5. Min(R) \in R /\ \A y \in R : Min(R) =< y
  BY <1>4 DEF Min
<1>6. t \in R /\ s + 1 \in R /\ \A y \in R : y \in Nat /\ s + 1 <= y /\ y <= t
  OBVIOUS
<1> DEFINE M == Max(R)
           L == Min(R)
<1> HIDE DEF R, M, L
<1>7. M = t
  <2>1. M \in R /\ M >= t
    BY <1>3, <1>6 DEF M
  <2> QED BY <1>6, <2>1
<1>8. L = s + 1
  <2>1. L \in R /\ L =< s + 1
    BY <1>5, <1>6 DEF L
  <2> QED BY <1>6, <2>1
<1> QED BY <1>1, <1>7, <1>8 DEF R, M, L

\* Of an answer one byte of which is written, all are, in a row, or the rest is
\* what is left of the packet.
OneWhole(wr, tail, x) ==
  LET at == {i \in DOMAIN wr : wr[i] = x}
      owed == IF tail # <<>> /\ Head(tail) = x THEN Len(tail) ELSE 0
  IN at # {} => /\ Cardinality(at) + owed = AnswerLen
                /\ Max(at) - Min(at) + 1 = Cardinality(at)

LEMMA WrittenWhole ==
  ASSUME NEW a \in Nat, NEW q, NEW tail, NEW wr, OutInv(q, tail, wr, a), NEW x
  PROVE  OneWhole(wr, tail, x)
<1> DEFINE at == {i \in 1..Len(wr) : wr[i] = x}
           owed == IF tail # <<>> /\ Head(tail) = x THEN Len(tail) ELSE 0
<1> SUFFICES ASSUME at # {}
             PROVE  Cardinality(at) + owed = AnswerLen /\ Max(at) - Min(at) + 1 = Cardinality(at)
  <2>1. DOMAIN wr = 1..Len(wr)
    BY DEF OutInv, OutTyped
  <2> QED BY <2>1 DEF OneWhole
<1> DEFINE all == wr \o tail
<1>1. /\ tail \in Seq(1..a) /\ wr \in Seq(1..a)
      /\ Len(tail) < AnswerLen /\ InBlocks(all)
  BY Zenon DEF OutInv, OutTyped
<1>2. /\ AnswerLen \in Nat \ {0} /\ Len(wr) \in Nat /\ Len(tail) \in Nat
      /\ Len(all) = Len(wr) + Len(tail)
  BY <1>1, HandsetAssumption, ConcatProperties
<1>3. /\ \A i \in 1..Len(wr) : i \in 1..Len(all) /\ all[i] = wr[i]
      /\ tail # <<>> => /\ Len(wr) + 1 \in 1..Len(all) /\ all[Len(wr) + 1] = Head(tail)
                        /\ Len(all) \in 1..Len(all) /\ Len(tail) > 0
  <2>1. \A i \in 1..Len(wr) + Len(tail) :
          all[i] = IF i <= Len(wr) THEN wr[i] ELSE tail[i - Len(wr)]
    BY <1>1, ConcatProperties, Zenon
  <2>2. tail # <<>> => Len(tail) > 0 /\ Head(tail) = tail[1]
    BY <1>1
  <2> HIDE DEF all
  <2>3. ASSUME NEW i \in 1..Len(wr) PROVE i \in 1..Len(all) /\ all[i] = wr[i]
    BY <1>2, <2>1
  <2>4. ASSUME tail # <<>> PROVE all[Len(wr) + 1] = Head(tail)
    <3>1. Len(wr) + 1 \in 1..Len(wr) + Len(tail) /\ ~(Len(wr) + 1 <= Len(wr))
          /\ (Len(wr) + 1) - Len(wr) = 1
      BY <1>2, <2>2, <2>4
    <3> QED BY <2>1, <2>2, <2>4, <3>1
  <2> QED BY <1>2, <2>2, <2>3, <2>4
<1> HIDE DEF all
<1>4. PICK i \in 1..Len(wr) : wr[i] = x
  OBVIOUS
<1>5. PICK b \in Nat : Block(all, i, b)
  <2>1. i \in 1..Len(all)
    BY <1>3, <1>4
  <2> QED BY <1>1, <2>1 DEF InBlocks
<1>6. /\ b < i /\ i <= b + AnswerLen /\ b + AnswerLen <= Len(all) /\ i <= Len(wr)
      /\ \A j \in 1..Len(all) : all[j] = x <=> b < j /\ j <= b + AnswerLen
  BY <1>3, <1>4, <1>5 DEF Block
<1>7. \A j \in 1..Len(wr) : wr[j] = x <=> b < j /\ j <= b + AnswerLen
  BY <1>3, <1>6
<1> HIDE <1>4
<1>10. \A j : j \in at <=> j \in 1..Len(wr) /\ b < j /\ j <= b + AnswerLen
  BY <1>7
<1>11. owed = IF tail # <<>> /\ Head(tail) = x THEN Len(tail) ELSE 0
  OBVIOUS
<1> HIDE DEF at, owed
<1>8. CASE tail # <<>> /\ Head(tail) = x
  <2>1. Len(wr) + 1 <= b + AnswerLen
    BY <1>3, <1>6, <1>8
  <2>2. PICK e \in Nat : Block(all, Len(all), e)
    BY <1>1, <1>3, <1>8 DEF InBlocks
  <2>3. e + AnswerLen = Len(all) /\ e < Len(wr) + 1
    <3>1. Len(all) <= e + AnswerLen /\ e + AnswerLen <= Len(all)
      BY <2>2 DEF Block
    <3>2. Len(tail) < AnswerLen
      BY <1>1
    <3>3. e + AnswerLen = Len(wr) + Len(tail)
      BY <1>2, <3>1
    <3> QED BY <1>2, <3>2, <3>3
  <2>4. all[Len(wr) + 1] = all[Len(all)]
    BY <1>2, <1>3, <1>8, <2>2, <2>3 DEF Block
  <2>5. b + AnswerLen = Len(all)
    BY <1>2, <1>3, <1>6, <1>8, <2>4
  <2>6. at = (b + 1)..Len(wr)
    <3>1. ASSUME NEW j PROVE j \in at <=> j \in (b + 1)..Len(wr)
      <4>1. j \in at <=> j \in 1..Len(wr) /\ b < j /\ j <= b + AnswerLen
        BY <1>10
      <4> QED BY <1>2, <1>6, <2>1, <4>1
    <3> QED BY <3>1
  <2>7. owed = Len(tail) /\ b < Len(wr)
    BY <1>2, <1>6, <1>8, <1>11
  <2>8. Cardinality(at) = Len(wr) - b /\ Max(at) = Len(wr) /\ Min(at) = b + 1
    BY <1>2, <2>6, <2>7, RowIs
  <2>9. (Len(wr) - b) + Len(tail) = AnswerLen /\ Len(wr) - (b + 1) + 1 = Len(wr) - b
    BY <1>2, <2>5
  <2> QED BY <2>7, <2>8, <2>9
<1>9. CASE ~(tail # <<>> /\ Head(tail) = x)
  <2>1. b + AnswerLen <= Len(wr)
    <3>1. CASE tail = <<>>
      <4>1. Len(tail) = 0
        BY <3>1
      <4> QED BY <1>2, <1>6, <4>1
    <3>2. CASE tail # <<>>
      BY <1>2, <1>3, <1>6, <1>9, <3>2
    <3> QED BY <3>1, <3>2
  <2>2. at = (b + 1)..b + AnswerLen
    <3>1. ASSUME NEW j PROVE j \in at <=> j \in (b + 1)..b + AnswerLen
      <4>1. j \in at <=> j \in 1..Len(wr) /\ b < j /\ j <= b + AnswerLen
        BY <1>10
      <4> QED BY <1>2, <1>6, <2>1, <4>1
    <3> QED BY <3>1
  <2>3. owed = 0 /\ b < b + AnswerLen /\ b + AnswerLen \in Nat
    BY <1>2, <1>9, <1>11
  <2>4. /\ Cardinality(at) = (b + AnswerLen) - b
        /\ Max(at) = b + AnswerLen /\ Min(at) = b + 1
    <3> DEFINE t == b + AnswerLen
    <3>1. t \in Nat /\ b < t
      BY <2>3
    <3> HIDE DEF t
    <3>2. Cardinality((b + 1)..t) = t - b /\ Max((b + 1)..t) = t /\ Min((b + 1)..t) = b + 1
      BY <3>1, RowIs
    <3> QED BY <2>2, <3>2 DEF t
  <2> QED BY <1>2, <2>3, <2>4
<1> QED BY <1>8, <1>9

\* The handset's output: the answers given are numbered, and OutInv.
OutputInv == answers \in Nat /\ OutInv(hout, htail, written, answers)

LEMMA OutputInvIsWhole == OutputInv => AnswersWhole
<1>1. OutputInv => \A a \in 1..MaxAnswers : OneWhole(written, htail, a)
  BY WrittenWhole, Zenon DEF OutputInv
<1> QED BY <1>1, Zenon DEF AnswersWhole, OneWhole

\* The output runs, or with no handset there the FIFO is flushed.
LEMMA HandleOutputKeeps ==
  ASSUME NEW a \in Nat, NEW q, OutInv(q, htail, written, a), NEW there, HandleOutput(q, there)
  PROVE  OutInv(hout', htail', written', a)
<1>1. CASE ~there
  <2>1. hout' = <<>> /\ htail' = htail /\ written' = written
    BY <1>1, Zenon DEF HandleOutput
  <2>2. InOrder(<<>>) /\ Older(written \o htail, <<>>) /\ <<>> \in Seq(1..a)
    BY DEF InOrder, Older
  <2> QED BY <2>1, <2>2 DEF OutInv, OutTyped
<1>2. CASE there
  <2> DEFINE w == Written(<<q, htail, written, PeriodBytes>>)
  <2>1. hout' = w[1] /\ htail' = w[2] /\ written' = w[3]
    BY <1>2, Zenon DEF HandleOutput
  <2>2. OutInv(w[1], w[2], w[3], a)
    BY WriteKeeps, Zenon
  <2> QED BY <2>1, <2>2, Zenon
<1> QED BY <1>1, <1>2

LEMMA OutputInvStarts == HandsetInit => OutputInv
<1> SUFFICES ASSUME HandsetInit PROVE OutputInv
  OBVIOUS
<1>1. hout = <<>> /\ htail = <<>> /\ written = <<>> /\ answers = 0
  BY DEF HandsetInit
<1>2. /\ <<>> \in Seq(1..0) /\ Len(<<>>) < AnswerLen /\ <<>> \o <<>> = <<>>
      /\ InOrder(<<>>) /\ Older(<<>>, <<>>) /\ InBlocks(<<>>)
  BY HandsetAssumption DEF InOrder, Older, InBlocks
<1> QED BY <1>1, <1>2 DEF OutputInv, OutInv, OutTyped

LEMMA TelemetryKeepsOutput == OutputInv /\ SendTelemetryToTX => OutputInv'
<1> SUFFICES ASSUME OutputInv, SendTelemetryToTX PROVE OutputInv'
  OBVIOUS
<1>1. /\ answers' = answers + 1 /\ htail' = htail /\ written' = written
      /\ hout' = Queued(hout, answers + 1) \/ hout' = hout
  BY DEF SendTelemetryToTX
<1>2. answers \in Nat /\ OutInv(hout, htail, written, answers)
  BY DEF OutputInv
<1>3. OutInv(hout', htail, written, answers + 1)
  BY <1>1, <1>2, QueueKeeps, GivenMore
<1> QED BY <1>1, <1>2, <1>3 DEF OutputInv

LEMMA PacketKeepsOutput ==
  ASSUME OutputInv, NEW s, ProcessPacket(s)
  PROVE  OutputInv'
<1> DEFINE reply == Does(s[3]).reply /\ answers < MaxAnswers
           q == IF reply THEN Queued(hout, answers + 1) ELSE hout
           a == IF reply THEN answers + 1 ELSE answers
<1>1. answers \in Nat /\ OutInv(hout, htail, written, answers)
  BY DEF OutputInv
<1>2. answers' = a /\ HandleOutput(q, TRUE)
  BY DEF ProcessPacket
<1>3. a \in Nat /\ OutInv(q, htail, written, a)
  BY <1>1, QueueKeeps
<1> HIDE DEF a, q
<1>4. OutInv(hout', htail', written', a)
  BY <1>2, <1>3, HandleOutputKeeps, Zenon
<1> QED BY <1>2, <1>3, <1>4 DEF OutputInv

LEMMA InputKeepsOutput == OutputInv /\ HandleInput => OutputInv'
<1> SUFFICES ASSUME OutputInv, NEW s, NEW k, Parse(s, k) PROVE OutputInv'
  BY DEF HandleInput
<1>1. answers \in Nat /\ OutInv(hout, htail, written, answers)
  BY DEF OutputInv
<1>2. CASE hout' = hout /\ htail' = htail /\ written' = written /\ answers' = answers
  BY <1>1, <1>2 DEF OutputInv
<1>3. CASE HandleOutput(hout, connected) /\ answers' = answers
  <2>1. OutInv(hout', htail', written', answers)
    BY <1>1, <1>3, HandleOutputKeeps, Zenon
  <2> QED BY <1>1, <1>3, <2>1 DEF OutputInv
<1>4. CASE ProcessPacket(s)
  BY <1>4, PacketKeepsOutput, Zenon
<1>5. \/ hout' = hout /\ htail' = htail /\ written' = written /\ answers' = answers
      \/ HandleOutput(hout, connected) /\ answers' = answers
      \/ ProcessPacket(s)
  BY Zenon DEF Parse, outVars
<1> QED BY <1>2, <1>3, <1>4, <1>5, Zenon

LEMMA HandsetStepKeepsOutput == OutputInv /\ [HandsetNext]_handsetVars => OutputInv'
<1> SUFFICES ASSUME OutputInv, [HandsetNext]_handsetVars PROVE OutputInv'
  OBVIOUS
<1>1. CASE UNCHANGED <<hout, htail, written, answers>>
  BY <1>1 DEF OutputInv
<1>2. CASE SendTelemetryToTX
  BY <1>2, TelemetryKeepsOutput
<1>3. CASE HandleInput
  BY <1>3, InputKeepsOutput
<1>4. SendFrame => UNCHANGED <<hout, htail, written, answers>>
  BY DEF SendFrame, outVars
<1>5. LinkChange => UNCHANGED <<hout, htail, written, answers>>
  BY DEF LinkChange, outVars
<1>6. UNCHANGED handsetVars => UNCHANGED <<hout, htail, written, answers>>
  BY DEF handsetVars, outVars
<1> QED BY <1>1, <1>2, <1>3, <1>4, <1>5, <1>6 DEF HandsetNext

\* The handset never reads a torn answer: although the period cuts packets and newer
\* answers push waiting ones out of the FIFO, every answer begun is finished, its
\* bytes in a row (handleOutput, CRSFHandset_sendTelemetryToTX).
THEOREM AnswersAreWhole == HandsetSpec => []AnswersWhole
<1>1. HandsetInit => OutputInv
  BY OutputInvStarts
<1>2. OutputInv /\ [HandsetNext]_handsetVars => OutputInv'
  BY HandsetStepKeepsOutput
<1>3. OutputInv => AnswersWhole
  BY OutputInvIsWhole
<1> QED BY <1>1, <1>2, <1>3, PTL DEF HandsetSpec

(***************************************************************************)
(* The types of the serial parsers: their buffers never overflow. What a   *)
(* line holds is a sequence of bytes, damaged or not.                      *)
(***************************************************************************)
CanPart(S, s, m, n) == SubSeq(s, m + 1, n) \in Seq(S) /\ Len(SubSeq(s, m + 1, n)) = n - m
LEMMA PartTyped ==
  ASSUME NEW S, NEW s \in Seq(S), NEW m \in Nat, NEW n \in Nat, m <= n, n <= Len(s)
  PROVE  CanPart(S, s, m, n)
BY DEF CanPart

\* The first part, the part from the i-th element on, and a frame with one element out.
LEMMA FirstTyped ==
  ASSUME NEW S, NEW s \in Seq(S), NEW k \in 0..Len(s)
  PROVE  /\ SubSeq(s, 1, k) \in Seq(S) /\ Len(SubSeq(s, 1, k)) = k
         /\ SubSeq(s, k + 1, Len(s)) \in Seq(S) /\ Len(SubSeq(s, k + 1, Len(s))) = Len(s) - k
<1>1. CanPart(S, s, 0, k) /\ CanPart(S, s, k, Len(s))
  BY PartTyped
<1> QED BY <1>1 DEF CanPart

LEMMA LastTyped ==
  ASSUME NEW S, NEW s \in Seq(S), NEW i \in 1..Len(s)
  PROVE  SubSeq(s, i, Len(s)) \in Seq(S) /\ Len(SubSeq(s, i, Len(s))) <= Len(s)
<1>1. i - 1 \in 0..Len(s) /\ (i - 1) + 1 = i
  OBVIOUS
<1>2. SubSeq(s, (i - 1) + 1, Len(s)) \in Seq(S)
      /\ Len(SubSeq(s, (i - 1) + 1, Len(s))) = Len(s) - (i - 1)
  BY <1>1, FirstTyped
<1> QED BY <1>1, <1>2

LEMMA RemovedTyped ==
  ASSUME NEW S, NEW f \in Seq(S), NEW i \in 1..Len(f)
  PROVE  RemoveAt(f, i) \in Seq(S)
<1>1. i - 1 \in 0..Len(f) /\ i \in 0..Len(f)
  OBVIOUS
<1>2. SubSeq(f, 1, i - 1) \in Seq(S) /\ SubSeq(f, i + 1, Len(f)) \in Seq(S)
  BY <1>1, FirstTyped
<1> DEFINE a == SubSeq(f, 1, i - 1)
           b == SubSeq(f, i + 1, Len(f))
<1> HIDE DEF a, b
<1>3. a \in Seq(S) /\ b \in Seq(S)
  BY <1>2 DEF a, b
<1>4. a \o b \in Seq(S)
  BY <1>3
<1> QED BY <1>4 DEF RemoveAt, a, b

LEMMA ReplacedTyped ==
  ASSUME NEW S, NEW f \in Seq(S), NEW i \in 1..Len(f), NEW x \in S
  PROVE  ReplaceAt(f, i, x) \in Seq(S)
BY DEF ReplaceAt

\* The sums that a CRC is made of, from one byte to the next.
SumsOf(s, sum) ==
  /\ sum \in [0..Len(s) -> Nat] /\ sum[0] = 16 /\ Crc(s) = sum[Len(s)]
  /\ \A i \in 1..Len(s) : sum[i] = ByteValues * sum[i - 1] + s[i]

LEMMA CrcSums ==
  ASSUME NEW s \in Seq(Nat)
  PROVE  \E sum : SumsOf(s, sum)
<1> DEFINE N == Len(s)
           D == Nat \X Nat
           F == [w \in D |-> <<w[1] + 1, ByteValues * w[2] + IF w[1] + 1 <= N THEN s[w[1] + 1] ELSE 0>>]
           Is(l) == l = [i \in 0..N |-> IF i = 0 THEN 16 ELSE ByteValues * l[i - 1] + s[i]]
           sum == CHOOSE l : Is(l)
<1>1. N \in Nat /\ ByteValues \in Nat /\ \A i \in 1..N : s[i] \in Nat
  BY LineAssumption
<1>2. Crc(s) = sum[N]
  BY DEF Crc
<1> HIDE DEF N
<1>3. ASSUME NEW w \in D
      PROVE  /\ F[w] \in D /\ F[w][1] = w[1] + 1
             /\ w[1] + 1 <= N => F[w][2] = ByteValues * w[2] + s[w[1] + 1]
  <2>1. w[1] \in Nat /\ w[2] \in Nat
    OBVIOUS
  <2> DEFINE e == IF w[1] + 1 <= N THEN s[w[1] + 1] ELSE 0
  <2>2. e \in Nat
    <3>1. CASE w[1] + 1 <= N
      <4>1. w[1] + 1 \in 1..N
        BY <1>1, <2>1, <3>1
      <4> QED BY <1>1, <3>1, <4>1
    <3> QED BY <3>1
  <2>3. ByteValues * w[2] \in Nat
    BY <1>1, <2>1
  <2>4. F[w] = <<w[1] + 1, ByteValues * w[2] + e>>
    OBVIOUS
  <2>5. w[1] + 1 <= N => e = s[w[1] + 1]
    OBVIOUS
  <2> HIDE DEF e, F
  <2>6. ByteValues * w[2] + e \in Nat
    BY <2>2, <2>3
  <2> QED BY <2>1, <2>4, <2>5, <2>6
<1>4. F \in [D -> D]
  <2>1. F = [w \in D |-> F[w]]
    OBVIOUS
  <2> HIDE DEF F, D
  <2> QED BY <1>3, <2>1
<1>5. PICK g \in [0..N -> D] : g[0] = <<0, 16>> /\ \A v \in 1..N : g[v] = F[g[v - 1]]
  <2>1. <<0, 16>> \in D
    OBVIOUS
  <2> HIDE DEF F, D
  <2>2. CanIterate(D, F, <<0, 16>>, N)
    BY <1>1, <1>4, <2>1, Iterated
  <2> QED BY <2>2, Zenon DEF CanIterate
<1> HIDE DEF F
<1>6. \A v \in 0..N : g[v] \in D
  OBVIOUS
<1> DEFINE S == {v \in Nat : v <= N => g[v][1] = v}
<1>7. S = Nat
  <2>1. 0 \in S
    BY <1>5
  <2>2. ASSUME NEW n \in S PROVE n + 1 \in S
    <3> SUFFICES ASSUME n + 1 <= N PROVE g[n + 1][1] = n + 1
      OBVIOUS
    <3>1. n \in 0..N /\ n + 1 \in 1..N /\ (n + 1) - 1 = n
      BY <1>1
    <3>2. g[n + 1] = F[g[n]] /\ g[n] \in D
      BY <1>5, <1>6, <3>1
    <3>3. g[n][1] = n
      BY <1>1, <3>1
    <3> HIDE DEF D
    <3> QED BY <1>3, <3>2, <3>3
  <2>3. S \in SUBSET Nat
    OBVIOUS
  <2> HIDE DEF S
  <2> QED BY <2>1, <2>2, <2>3, Induction
<1>8. ASSUME NEW v \in 1..N PROVE g[v][2] = ByteValues * g[v - 1][2] + s[v]
  <2>1. v - 1 \in 0..N /\ v - 1 \in Nat /\ v - 1 <= N /\ (v - 1) + 1 = v /\ v <= N
    BY <1>1
  <2>2. g[v - 1][1] = v - 1
    BY <1>7, <2>1
  <2>3. g[v - 1] \in D /\ g[v] = F[g[v - 1]]
    BY <1>5, <1>6, <2>1
  <2> HIDE DEF D
  <2> QED BY <1>3, <2>1, <2>2, <2>3
<1> DEFINE h == [i \in 0..N |-> g[i][2]]
<1>9. h \in [0..N -> Nat] /\ h[0] = 16
  <2>1. \A i \in 0..N : g[i][2] \in Nat
    BY <1>6
  <2> QED BY <1>1, <1>5, <2>1
<1>10. \A i \in 1..N : h[i] = ByteValues * h[i - 1] + s[i]
  <2> SUFFICES ASSUME NEW i \in 1..N PROVE h[i] = ByteValues * h[i - 1] + s[i]
    OBVIOUS
  <2>1. i \in 0..N /\ i - 1 \in 0..N
    BY <1>1
  <2> QED BY <1>8, <2>1
<1> HIDE DEF h
<1>11. Is(h)
  <2>1. \A i \in 0..N : h[i] = IF i = 0 THEN 16 ELSE ByteValues * h[i - 1] + s[i]
    BY <1>1, <1>9, <1>10
  <2>2. h = [i \in 0..N |-> h[i]]
    BY <1>9
  <2> QED BY <2>1, <2>2
<1>12. Is(sum)
  <2> HIDE DEF Is
  <2> QED BY <1>11
<1> HIDE DEF sum
<1>13. \A i \in 0..N : sum[i] = IF i = 0 THEN 16 ELSE ByteValues * sum[i - 1] + s[i]
  BY <1>12
<1> DEFINE T == {i \in Nat : i <= N => sum[i] = h[i]}
<1>14. T = Nat
  <2>1. 0 \in T
    BY <1>1, <1>9, <1>13
  <2>2. ASSUME NEW n \in T PROVE n + 1 \in T
    <3> SUFFICES ASSUME n + 1 <= N PROVE sum[n + 1] = h[n + 1]
      OBVIOUS
    <3>1. n + 1 \in 0..N /\ n + 1 \in 1..N /\ n + 1 # 0 /\ (n + 1) - 1 = n /\ n <= N /\ n \in Nat
      BY <1>1
    <3>2. sum[n] = h[n]
      BY <3>1
    <3>3. sum[n + 1] = ByteValues * sum[n] + s[n + 1]
      BY <1>13, <3>1
    <3>4. h[n + 1] = ByteValues * h[n] + s[n + 1]
      BY <1>10, <3>1
    <3> QED BY <3>2, <3>3, <3>4
  <2>3. T \in SUBSET Nat
    OBVIOUS
  <2> HIDE DEF T
  <2> QED BY <2>1, <2>2, <2>3, Induction
<1>15. sum[N] = h[N]
  <2>1. N \in T
    <3> HIDE DEF T
    <3> QED BY <1>1, <1>14
  <2> QED BY <1>1, <2>1
<1> QED BY <1>1, <1>2, <1>9, <1>10, <1>15 DEF SumsOf, N

\* Products of numbers, for the CRC.
LEMMA Products ==
  ASSUME NEW a \in Nat, NEW b \in Nat, NEW l \in Nat, a <= b
  PROVE  l * a \in Nat /\ l * b \in Nat /\ l * a <= l * b
<1>1. l * a \in Nat /\ l * b \in Nat
  OBVIOUS
<1>2. CASE l * b < l * a
  BY <1>2, ProductOrder
<1> QED BY <1>1, <1>2

\* The CRC of a kind and a number.
LEMMA CrcTyped ==
  ASSUME NEW k \in Nat, NEW n \in Nat
  PROVE  Crc(<<k, n>>) = ByteValues * (ByteValues * 16 + k) + n /\ Crc(<<k, n>>) \in Nat
<1> DEFINE s == <<k, n>>
<1>1. s \in Seq(Nat) /\ Len(s) = 2 /\ s[1] = k /\ s[2] = n
  OBVIOUS
<1> HIDE DEF s
<1>2. PICK sum : SumsOf(s, sum)
  BY <1>1, CrcSums
<1>3. sum[0] = 16 /\ Crc(s) = sum[2] /\ \A i \in 1..2 : sum[i] = ByteValues * sum[i - 1] + s[i]
  BY <1>1, <1>2 DEF SumsOf
<1>4. 1 \in 1..2 /\ 2 \in 1..2 /\ 1 - 1 = 0 /\ 2 - 1 = 1
  OBVIOUS
<1>5. sum[1] = ByteValues * 16 + k
  BY <1>1, <1>3, <1>4
<1>6. sum[2] = ByteValues * sum[1] + n
  BY <1>1, <1>3, <1>4
<1>7. ByteValues \in Nat
  BY LineAssumption
<1>8. ByteValues * 16 + k \in Nat
  BY <1>7
<1>9. ByteValues * (ByteValues * 16 + k) + n \in Nat
  BY <1>7, <1>8
<1> QED BY <1>3, <1>5, <1>6, <1>9 DEF s

(***************************************************************************)
(* What a CRC that is right tells. Only the CRC of two bytes is as large   *)
(* as the CRCs that are sent: that of one is less, those of more are       *)
(* greater.                                                                *)
(***************************************************************************)
Square == ByteValues * ByteValues
Check(k, n) == 16 * Square + ByteValues * k + n

LEMMA Sizes ==
  /\ ByteValues \in Nat /\ ByteValues >= 8 /\ Square \in Nat /\ Square >= 8 * ByteValues
  /\ ByteValues * Square \in Nat /\ ByteValues * Square >= 8 * Square
<1>1. ByteValues \in Nat /\ ByteValues >= 8
  BY LineAssumption
<1>2. Square \in Nat /\ ByteValues * 8 <= Square
  BY <1>1, Products DEF Square
<1>3. Square * 8 <= Square * ByteValues /\ Square * 8 \in Nat /\ Square * ByteValues \in Nat
  BY <1>1, <1>2, Products
<1> QED BY <1>1, <1>2, <1>3

LEMMA CheckIs ==
  ASSUME NEW k \in 1..6, NEW n \in Nat, n < ByteValues
  PROVE  /\ Crc(<<k, n>>) = Check(k, n) /\ Check(k, n) \in Nat
         /\ 16 * Square <= Check(k, n) /\ Check(k, n) < 16 * Square + 7 * ByteValues
<1> DEFINE B == ByteValues
<1>1. B \in Nat /\ k \in Nat
  BY Sizes
<1>2. Crc(<<k, n>>) = B * (B * 16 + k) + n
  BY <1>1, CrcTyped
<1>3. B * (B * 16 + k) = B * (B * 16) + B * k
  BY <1>1
<1>4. B * (B * 16) = 16 * (B * B)
  BY <1>1
<1>5. B * k <= B * 6 /\ B * k \in Nat
  BY <1>1, Products
<1> DEFINE q == B * k
           r == B * (B * 16 + k)
           t == B * (B * 16)
<1>6. Crc(<<k, n>>) = r + n /\ r = t + q /\ t = 16 * Square /\ q <= 6 * B /\ q \in Nat
  BY <1>1, <1>2, <1>3, <1>4, <1>5 DEF Square
<1>7. Check(k, n) = 16 * Square + q + n
  BY DEF Check
<1> HIDE DEF q, r, t
<1> QED BY <1>6, <1>7, Sizes

\* Two frames have the same CRC only if they have the same kind and number.
LEMMA CheckTells ==
  ASSUME NEW j \in Nat, NEW k \in Nat, NEW m \in Nat, NEW n \in Nat, m < ByteValues, n < ByteValues,
         Check(j, m) = Check(k, n)
  PROVE  j = k /\ m = n
<1> DEFINE B == ByteValues
<1>1. B \in Nat /\ Square \in Nat
  BY Sizes
<1>2. B * j + m = B * k + n
  <2>1. B * j \in Nat /\ B * k \in Nat
    BY <1>1
  <2> DEFINE p == B * j
             q == B * k
  <2>2. 16 * Square + p + m = 16 * Square + q + n
    BY DEF Check
  <2> HIDE DEF p, q
  <2> QED BY <1>1, <2>1, <2>2 DEF p, q
<1>3. ASSUME NEW x \in Nat, NEW y \in Nat, NEW u \in Nat, NEW v \in Nat, u < B, v < B,
             B * x + u = B * y + v, x < y
      PROVE  FALSE
  <2>1. B * (x + 1) <= B * y
    BY <1>1, <1>3, Products
  <2>2. B * (x + 1) = B * x + B
    BY <1>1
  <2>3. B * x \in Nat /\ B * y \in Nat
    BY <1>1
  <2> QED BY <1>1, <1>3, <2>1, <2>2, <2>3
<1>4. ~(j < k)
  BY <1>2, <1>3
<1>5. ~(k < j)
  BY <1>2, <1>3
<1>6. j = k
  BY <1>4, <1>5
<1>7. B * j \in Nat
  BY <1>1
<1> QED BY <1>1, <1>2, <1>6, <1>7

\* The CRC of one byte, and of more than two.
LEMMA OtherCrcs ==
  ASSUME NEW s \in Seq(Nat)
  PROVE  /\ Len(s) = 1 => Crc(s) = 16 * ByteValues + s[1]
         /\ Len(s) = 2 => Crc(s) = ByteValues * (ByteValues * 16 + s[1]) + s[2]
         /\ Len(s) >= 3 => Crc(s) \in Nat /\ Crc(s) >= 16 * (ByteValues * Square)
<1> DEFINE B == ByteValues
           L == Len(s)
<1>1. PICK sum : SumsOf(s, sum)
  BY CrcSums
<1>2. /\ sum[0] = 16 /\ Crc(s) = sum[L] /\ \A i \in 1..L : sum[i] = B * sum[i - 1] + s[i]
      /\ \A i \in 0..L : sum[i] \in Nat
  BY <1>1 DEF SumsOf
<1>3. L \in Nat /\ \A i \in 1..L : s[i] \in Nat
  OBVIOUS
<1>4. B \in Nat /\ B >= 8 /\ Square \in Nat /\ B * Square \in Nat
  BY Sizes
<1> HIDE DEF L
<1>5. L >= 1 => sum[1] = 16 * B + s[1]
  <2> SUFFICES ASSUME L >= 1 PROVE sum[1] = 16 * B + s[1]
    OBVIOUS
  <2>1. 1 \in 1..L /\ 1 - 1 = 0
    BY <1>3
  <2> QED BY <1>2, <1>4, <2>1
<1>6. L >= 2 => sum[2] = B * sum[1] + s[2]
  <2> SUFFICES ASSUME L >= 2 PROVE sum[2] = B * sum[1] + s[2]
    OBVIOUS
  <2>1. 2 \in 1..L /\ 2 - 1 = 1
    BY <1>3
  <2> QED BY <1>2, <2>1
<1>7. L = 1 => Crc(s) = 16 * B + s[1]
  BY <1>2, <1>5
<1>8. L = 2 => Crc(s) = B * (B * 16 + s[1]) + s[2]
  <2> SUFFICES ASSUME L = 2 PROVE Crc(s) = B * (B * 16 + s[1]) + s[2]
    OBVIOUS
  <2>1. sum[1] = 16 * B + s[1] /\ sum[2] = B * sum[1] + s[2] /\ Crc(s) = sum[2]
    BY <1>2, <1>5, <1>6
  <2>2. 16 * B = B * 16
    BY <1>4
  <2> QED BY <2>1, <2>2
<1>9. ASSUME NEW i \in Nat, i >= 1, i <= L, NEW c \in Nat, sum[i - 1] >= c PROVE sum[i] >= B * c
  <2>1. i \in 1..L /\ i - 1 \in 0..L
    BY <1>3, <1>9
  <2>2. sum[i - 1] \in Nat /\ s[i] \in Nat /\ sum[i] = B * sum[i - 1] + s[i]
    BY <1>2, <1>3, <2>1
  <2>3. B * c <= B * sum[i - 1] /\ B * c \in Nat /\ B * sum[i - 1] \in Nat
    BY <1>4, <1>9, <2>2, Products
  <2> QED BY <2>2, <2>3
<1>10. ASSUME L >= 3 PROVE Crc(s) \in Nat /\ Crc(s) >= 16 * (B * Square)
  <2> DEFINE c == 16 * (B * Square)
             S == {i \in Nat : i + 3 <= L => sum[i + 3] >= c}
  <2>1. c \in Nat /\ B * (16 * Square) = c
    <3>1. B * (16 * Square) = 16 * (B * Square)
      BY <1>4
    <3> QED BY <1>4, <3>1
  <2>2. B * 16 = 16 * B /\ B * (16 * B) = 16 * Square
    BY <1>4 DEF Square
  <2>3. sum[1] >= 16 * B
    <3>1. 1 >= 1 /\ 1 <= L /\ sum[1 - 1] >= 16
      BY <1>2, <1>10, <1>3
    <3>2. sum[1] >= B * 16
      BY <1>9, <3>1
    <3> QED BY <2>2, <3>2
  <2>4. sum[2] >= 16 * Square
    <3>1. 2 >= 1 /\ 2 <= L /\ sum[2 - 1] >= 16 * B /\ 16 * B \in Nat
      BY <1>4, <1>10, <1>3, <2>3
    <3>2. sum[2] >= B * (16 * B)
      BY <1>9, <3>1
    <3> QED BY <2>2, <3>2
  <2>5. sum[3] >= c
    <3>1. 3 >= 1 /\ 3 <= L /\ sum[3 - 1] >= 16 * Square /\ 16 * Square \in Nat
      BY <1>4, <1>10, <1>3, <2>4
    <3>2. sum[3] >= B * (16 * Square)
      BY <1>9, <3>1
    <3> QED BY <2>1, <3>2
  <2> HIDE DEF c
  <2>6. S = Nat
    <3>1. 0 \in S
      BY <2>5
    <3>2. ASSUME NEW n \in S PROVE n + 1 \in S
      <4> SUFFICES ASSUME (n + 1) + 3 <= L PROVE sum[(n + 1) + 3] >= c
        OBVIOUS
      <4> DEFINE i == (n + 1) + 3
      <4>1. i \in Nat /\ i >= 1 /\ i <= L /\ i - 1 = n + 3 /\ n + 3 <= L /\ i \in 0..L
        BY <1>3
      <4>2. sum[i - 1] >= c
        BY <4>1
      <4> HIDE DEF i
      <4>3. sum[i] >= B * c
        BY <1>9, <2>1, <4>1, <4>2
      <4>4. c * 1 <= c * B
        BY <1>4, <2>1, Products
      <4>5. c * 1 = c /\ c * B = B * c /\ B * c \in Nat
        BY <1>4, <2>1
      <4>6. sum[i] \in Nat
        BY <1>2, <4>1
      <4> DEFINE e == B * c
      <4> HIDE DEF e
      <4>7. e >= c /\ sum[i] >= e /\ e \in Nat
        BY <4>3, <4>4, <4>5, Zenon DEF e
      <4>8. sum[i] >= c
        BY <2>1, <4>4, <4>5, <4>3, <4>6
      <4> QED BY <4>8 DEF i
    <3>3. S \in SUBSET Nat
      OBVIOUS
    <3> HIDE DEF S
    <3> QED BY <3>1, <3>2, <3>3, Induction
  <2>7. L - 3 \in S
    <3>1. L - 3 \in Nat
      BY <1>3, <1>10
    <3> HIDE DEF S
    <3> QED BY <2>6, <3>1
  <2>8. (L - 3) + 3 = L /\ L \in 0..L
    BY <1>3
  <2>9. sum[L] >= c
    BY <2>7, <2>8
  <2> QED BY <1>2, <2>8, <2>9 DEF c
<1> QED BY <1>7, <1>8, <1>10 DEF L

\* A frame as it is sent, and damaged.
LEMMA FrameTyped ==
  ASSUME NEW k \in Nat, NEW n \in Nat
  PROVE  /\ FrameOf(k, n) \in Seq(Nat) /\ Len(FrameOf(k, n)) = FrameLen
         /\ DamagedFrames(FrameOf(k, n)) \subseteq Seq(Nat)
<1>1. Crc(<<k, n>>) \in Nat
  BY CrcTyped
<1>2. FrameOf(k, n) \in Seq(Nat) /\ Len(FrameOf(k, n)) = FrameLen
  BY <1>1, LineAssumption DEF FrameOf, FrameLen
<1> DEFINE f == FrameOf(k, n)
<1> HIDE DEF f
<1>3. f \in Seq(Nat) /\ DOMAIN f = 1..Len(f)
  BY <1>2 DEF f
<1>4. \A i \in DOMAIN f : RemoveAt(f, i) \in Seq(Nat)
  BY <1>3, RemovedTyped
<1>5. \A i \in DOMAIN f : \A b \in Junk : ReplaceAt(f, i, b) \in Seq(Nat)
  BY <1>3, ReplacedTyped, LineAssumption
<1>6. DamagedFrames(f) \subseteq Seq(Nat)
  BY <1>4, <1>5 DEF DamagedFrames
<1> QED BY <1>2, <1>6 DEF f

\* A buffer moved on to a start byte, or emptied.
LEMMA AlignedTyped ==
  ASSUME NEW S, NEW s \in Seq(S), NEW i \in Nat \ {0}
  PROVE  /\ AlignedFrom(s, i) \in Seq(S) /\ Len(AlignedFrom(s, i)) <= Len(s)
         /\ ToHeader(s, i) \in Seq(S) /\ Len(ToHeader(s, i)) <= Len(s)
<1>1. ASSUME NEW J \in SUBSET (i..Len(s)), J # {}
      PROVE  SubSeq(s, Min(J), Len(s)) \in Seq(S) /\ Len(SubSeq(s, Min(J), Len(s))) <= Len(s)
  <2>1. J \in SUBSET Nat
    OBVIOUS
  <2>2. Min(J) \in J
    BY <1>1, <2>1, MinIn
  <2> DEFINE m == Min(J)
  <2> HIDE DEF m
  <2>3. m \in 1..Len(s)
    <3>1. m \in i..Len(s)
      BY <2>2 DEF m
    <3> QED BY <3>1
  <2>4. SubSeq(s, m, Len(s)) \in Seq(S) /\ Len(SubSeq(s, m, Len(s))) <= Len(s)
    BY <2>3, LastTyped
  <2> QED BY <2>4 DEF m
<1>2. <<>> \in Seq(S) /\ Len(<<>>) <= Len(s)
  OBVIOUS
<1>3. AlignedFrom(s, i) \in Seq(S) /\ Len(AlignedFrom(s, i)) <= Len(s)
  <2> DEFINE J == {j \in i..Len(s) : s[j] = Sync}
  <2>1. J \in SUBSET (i..Len(s))
    OBVIOUS
  <2>2. AlignedFrom(s, i) = IF J = {} THEN <<>> ELSE SubSeq(s, Min(J), Len(s))
    BY DEF AlignedFrom
  <2> HIDE DEF J
  <2> QED BY <1>1, <1>2, <2>1, <2>2
<1>4. ToHeader(s, i) \in Seq(S) /\ Len(ToHeader(s, i)) <= Len(s)
  <2> DEFINE J == {j \in i..Len(s) : s[j] = Header}
  <2>1. J \in SUBSET (i..Len(s))
    OBVIOUS
  <2>2. ToHeader(s, i) = IF J = {} THEN <<>> ELSE SubSeq(s, Min(J), Len(s))
    BY DEF ToHeader
  <2> HIDE DEF J
  <2> QED BY <1>1, <1>2, <2>1, <2>2
<1> QED BY <1>3, <1>4

\* What is left of a line of which k bytes are read into a buffer.
LEMMA ReadTyped ==
  ASSUME NEW S, NEW l \in Seq(S), NEW b \in Seq(S), NEW most \in Nat, Len(b) <= most,
         NEW k \in 0..Min({Len(l), most - Len(b)})
  PROVE  /\ SubSeq(l, k + 1, Len(l)) \in Seq(S)
         /\ b \o SubSeq(l, 1, k) \in Seq(S) /\ Len(b \o SubSeq(l, 1, k)) <= most
<1> DEFINE M == {Len(l), most - Len(b)}
<1>1. M \in SUBSET Nat /\ M # {} /\ Len(b) \in Nat /\ Len(l) \in Nat
  OBVIOUS
<1>2. Min(M) \in M /\ \A y \in M : Min(M) <= y
  <2> HIDE DEF M
  <2>1. PICK x \in M : \A y \in M : ~(y < x)
    BY <1>1, LeastNumber
  <2>2. \A y \in M : x <= y
    BY <1>1, <2>1
  <2> QED BY <2>2 DEF Min
<1>3. k \in 0..Len(l) /\ Len(b) + k <= most
  <2>1. Min(M) \in Nat /\ Min(M) <= Len(l) /\ Min(M) <= most - Len(b)
    BY <1>1, <1>2
  <2>2. k \in 0..Min(M)
    OBVIOUS
  <2> HIDE DEF M
  <2> QED BY <1>1, <2>1, <2>2
<1>4. SubSeq(l, 1, k) \in Seq(S) /\ Len(SubSeq(l, 1, k)) = k /\ SubSeq(l, k + 1, Len(l)) \in Seq(S)
  BY <1>3, FirstTyped
<1> DEFINE c == SubSeq(l, 1, k)
<1> HIDE DEF c
<1>5. c \in Seq(S) /\ Len(c) = k
  BY <1>4 DEF c
<1>6. b \o c \in Seq(S) /\ Len(b \o c) = Len(b) + k
  BY <1>5
<1> QED BY <1>1, <1>3, <1>4, <1>6 DEF c

LEMMA AppendTyped ==
  ASSUME NEW S, NEW s \in Seq(S), NEW x \in S
  PROVE  Append(s, x) \in Seq(S) /\ Len(Append(s, x)) = Len(s) + 1
OBVIOUS

\* What is left of s when its first m elements are gone.
Cut(s, m) == SubSeq(s, m + 1, Len(s))

LEMMA CutIs ==
  ASSUME NEW S, NEW s \in Seq(S), NEW m \in 0..Len(s)
  PROVE  /\ Cut(s, m) \in Seq(S) /\ Len(Cut(s, m)) = Len(s) - m
         /\ \A i \in 1..Len(s) - m : Cut(s, m)[i] = s[m + i]
BY DEF Cut

LEMMA Same ==
  ASSUME NEW S, NEW s \in Seq(S), NEW t \in Seq(S), Len(s) = Len(t),
         \A i \in 1..Len(s) : s[i] = t[i]
  PROVE  s = t
OBVIOUS

LEMMA JoinIs ==
  ASSUME NEW S, NEW s \in Seq(S), NEW t \in Seq(S)
  PROVE  /\ s \o t \in Seq(S) /\ Len(s \o t) = Len(s) + Len(t)
         /\ \A i \in 1..Len(s) : (s \o t)[i] = s[i]
         /\ \A i \in 1..Len(t) : (s \o t)[Len(s) + i] = t[i]
OBVIOUS

\* An element of two sequences joined is of the one or of the other.
LEMMA JoinAt ==
  ASSUME NEW S, NEW s \in Seq(S), NEW t \in Seq(S), NEW i \in 1..Len(s \o t)
  PROVE  \/ i \in 1..Len(s) /\ (s \o t)[i] = s[i]
         \/ i - Len(s) \in 1..Len(t) /\ (s \o t)[i] = t[i - Len(s)]
OBVIOUS

LEMMA CutJoined ==
  ASSUME NEW S, NEW s \in Seq(S), NEW t \in Seq(S), NEW m \in 0..Len(s)
  PROVE  Cut(s \o t, m) = Cut(s, m) \o t
<1> DEFINE u == s \o t
           c == Cut(s, m)
           x == Cut(u, m)
           y == c \o t
<1>1. u \in Seq(S) /\ Len(u) = Len(s) + Len(t) /\ Len(s) \in Nat /\ Len(t) \in Nat
  BY JoinIs
<1>2. m \in 0..Len(u)
  BY <1>1
<1>3. c \in Seq(S) /\ Len(c) = Len(s) - m /\ \A i \in 1..Len(s) - m : c[i] = s[m + i]
  BY CutIs
<1>4. \A i \in 1..Len(u) : \/ i \in 1..Len(s) /\ u[i] = s[i]
                           \/ i - Len(s) \in 1..Len(t) /\ u[i] = t[i - Len(s)]
  BY JoinAt
<1> HIDE DEF u, c
<1>5. x \in Seq(S) /\ Len(x) = Len(u) - m /\ \A i \in 1..Len(u) - m : x[i] = u[m + i]
  BY <1>1, <1>2, CutIs
<1>6. y \in Seq(S) /\ Len(y) = Len(c) + Len(t)
  BY <1>3, JoinIs
<1>7. \A i \in 1..Len(y) : \/ i \in 1..Len(c) /\ y[i] = c[i]
                           \/ i - Len(c) \in 1..Len(t) /\ y[i] = t[i - Len(c)]
  BY <1>3, JoinAt
<1> HIDE DEF x, y
<1>8. Len(x) = Len(y) /\ Len(y) \in Nat
  BY <1>1, <1>3, <1>5, <1>6
<1>9. ASSUME NEW i \in 1..Len(x) PROVE x[i] = y[i]
  <2>1. x[i] = u[m + i] /\ m + i \in 1..Len(u)
    BY <1>1, <1>2, <1>5
  <2>2. i \in 1..Len(y)
    BY <1>8
  <2>3. CASE i <= Len(s) - m
    <3>1. u[m + i] = s[m + i] /\ y[i] = c[i] /\ c[i] = s[m + i]
      BY <1>1, <1>3, <1>4, <1>7, <2>1, <2>2, <2>3
    <3> QED BY <2>1, <3>1
  <2>4. CASE i > Len(s) - m
    <3>1. u[m + i] = t[(m + i) - Len(s)] /\ y[i] = t[i - Len(c)]
      BY <1>1, <1>3, <1>4, <1>7, <2>1, <2>2, <2>4
    <3>2. (m + i) - Len(s) = i - Len(c)
      BY <1>1, <1>3
    <3> QED BY <2>1, <3>1, <3>2
  <2> QED BY <1>1, <2>3, <2>4
<1>10. x = y
  BY <1>5, <1>6, <1>8, <1>9, Same
<1> QED BY <1>10 DEF x, y, u, c

LEMMA CutTwice ==
  ASSUME NEW S, NEW s \in Seq(S), NEW m \in Nat, NEW n \in Nat, m + n <= Len(s)
  PROVE  Cut(Cut(s, m), n) = Cut(s, m + n)
<1> DEFINE c == Cut(s, m)
           x == Cut(c, n)
           y == Cut(s, m + n)
<1>1. m \in 0..Len(s) /\ m + n \in 0..Len(s) /\ Len(s) \in Nat
  OBVIOUS
<1>2. c \in Seq(S) /\ Len(c) = Len(s) - m /\ \A i \in 1..Len(s) - m : c[i] = s[m + i]
  BY <1>1, CutIs
<1>3. /\ y \in Seq(S) /\ Len(y) = Len(s) - (m + n)
      /\ \A i \in 1..Len(s) - (m + n) : y[i] = s[(m + n) + i]
  BY <1>1, CutIs
<1>4. n \in 0..Len(c)
  BY <1>1, <1>2
<1> HIDE DEF c
<1>5. x \in Seq(S) /\ Len(x) = Len(c) - n /\ \A i \in 1..Len(c) - n : x[i] = c[n + i]
  BY <1>2, <1>4, CutIs
<1> HIDE DEF x, y
<1>6. Len(x) = Len(y)
  BY <1>1, <1>2, <1>3, <1>5
<1>7. ASSUME NEW i \in 1..Len(x) PROVE x[i] = y[i]
  <2>1. x[i] = c[n + i] /\ n + i \in 1..Len(s) - m /\ i \in 1..Len(s) - (m + n)
    BY <1>1, <1>2, <1>5
  <2>2. c[n + i] = s[m + (n + i)] /\ y[i] = s[(m + n) + i] /\ m + (n + i) = (m + n) + i
    BY <1>1, <1>2, <1>3, <2>1
  <2> QED BY <2>1, <2>2
<1>8. x = y
  BY <1>3, <1>5, <1>6, <1>7, Same
<1> QED BY <1>8 DEF x, y, c

\* Moving on to a start byte drops bytes of which none is one.
LEMMA AlignedCut ==
  ASSUME NEW S, NEW s \in Seq(S), NEW i \in 1..Len(s) + 1
  PROVE  /\ \E m \in i - 1..Len(s) : AlignedFrom(s, i) = Cut(s, m) /\ \A j \in i..m : s[j] # Sync
         /\ \E m \in i - 1..Len(s) : ToHeader(s, i) = Cut(s, m) /\ \A j \in i..m : s[j] # Header
<1>1. Len(s) \in Nat /\ i \in Nat
  OBVIOUS
<1>2. ASSUME NEW b
      PROVE  \E m \in i - 1..Len(s) :
               /\ (LET J == {j \in i..Len(s) : s[j] = b} IN IF J = {} THEN <<>> ELSE SubSeq(s, Min(J), Len(s)))
                    = Cut(s, m)
               /\ \A j \in i..m : s[j] # b
  <2> DEFINE J == {j \in i..Len(s) : s[j] = b}
             r == IF J = {} THEN <<>> ELSE SubSeq(s, Min(J), Len(s))
  <2>1. CASE J = {}
    <3>1. r = <<>> /\ Len(s) \in 0..Len(s) /\ Len(s) \in i - 1..Len(s)
      BY <1>1, <2>1
    <3>2. Cut(s, Len(s)) \in Seq(S) /\ Len(Cut(s, Len(s))) = 0
      BY <1>1, <3>1, CutIs
    <3>3. Cut(s, Len(s)) = <<>>
      BY <3>2
    <3>4. \A j \in i..Len(s) : s[j] # b
      BY <2>1
    <3> QED BY <3>1, <3>3, <3>4
  <2>2. CASE J # {}
    <3>1. J \in SUBSET Nat
      BY <1>1
    <3> DEFINE x == Min(J)
    <3>2. x \in J /\ \A y \in J : x <= y
      BY <2>2, <3>1, MinIn
    <3>3. r = SubSeq(s, x, Len(s))
      BY <2>2
    <3> HIDE DEF x, r
    <3>4. x - 1 \in i - 1..Len(s) /\ (x - 1) + 1 = x
      BY <1>1, <3>2
    <3>5. r = Cut(s, x - 1)
      BY <3>3, <3>4 DEF Cut
    <3>6. \A j \in i..x - 1 : s[j] # b
      BY <1>1, <3>2
    <3> QED BY <3>4, <3>5, <3>6 DEF r
  <2> QED BY <2>1, <2>2
<1> QED BY <1>2 DEF AlignedFrom, ToHeader

LEMMA JoinJoined ==
  ASSUME NEW S, NEW a \in Seq(S), NEW b \in Seq(S), NEW c \in Seq(S)
  PROVE  (a \o b) \o c = a \o (b \o c)
OBVIOUS

(***************************************************************************)
(* The CRSF handset, with the invariant of its output.                     *)
(***************************************************************************)
InputTyped == hline \in Seq(Nat) /\ hbuf \in Seq(Nat)
HandsetInv == HandsetTypeOK /\ InputTyped /\ OutputInv

LEMMA FewerBytes ==
  ASSUME NEW q, NEW r, Len(q) \in Nat, Len(r) \in Nat, Len(r) <= Len(q)
  PROVE  OutBytes(r) <= OutBytes(q)
<1>1. AnswerLen \in Nat
  BY HandsetAssumption
<1>2. \A x, y, l \in Nat : x <= y => l * x <= l * y /\ l * x \in Nat /\ l * y \in Nat
  <2> SUFFICES ASSUME NEW x \in Nat, NEW y \in Nat, NEW l \in Nat, x <= y
               PROVE  l * x <= l * y /\ l * x \in Nat /\ l * y \in Nat
    OBVIOUS
  <2>1. CASE l * y < l * x
    <3>1. y < x
      BY <2>1, ProductOrder
    <3> QED BY <3>1
  <2>2. l * x \in Nat /\ l * y \in Nat
    OBVIOUS
  <2> QED BY <2>1, <2>2
<1> DEFINE x == Len(r)
           y == Len(q)
           u == AnswerLen * x
           v == AnswerLen * y
<1>3. u <= v /\ u \in Nat /\ v \in Nat /\ x <= y /\ x \in Nat /\ y \in Nat
  <2> HIDE DEF x, y
  <2>1. x <= y /\ x \in Nat /\ y \in Nat
    BY DEF x, y
  <2> QED BY <1>1, <1>2, <2>1
<1> HIDE DEF u, v
<1>4. u + x <= v + y
  BY <1>3
<1> QED BY <1>4 DEF OutBytes, u, v

\* A packet that is queued fits.
LEMMA QueuedFits ==
  ASSUME NEW S, NEW q \in Seq(S), NEW x \in S
  PROVE  Queued(q, x) \in Seq(S) /\ OutBytes(Queued(q, x)) <= OutSize
<1> DEFINE d(i) == SubSeq(q, i + 1, Len(q))
           R == {i \in 0..Len(q) : OutBytes(d(i)) + AnswerLen + 1 <= OutSize}
           m == Min(R)
<1>1. Len(q) \in R
  <2>1. d(Len(q)) = <<>>
    OBVIOUS
  <2>2. OutBytes(<<>>) = AnswerLen * 0 + 0
    BY DEF OutBytes
  <2>3. OutBytes(<<>>) + AnswerLen + 1 <= OutSize
    BY <2>2, HandsetAssumption
  <2>4. Len(q) \in 0..Len(q)
    OBVIOUS
  <2> HIDE DEF d
  <2> QED BY <2>1, <2>3, <2>4
<1>2. R \in SUBSET Nat /\ R # {}
  BY <1>1
<1>3. Queued(q, x) = Append(d(m), x)
  BY DEF Queued
<1> HIDE DEF R
<1>4. m \in R
  BY <1>2, MinIn
<1>5. m \in 0..Len(q) /\ OutBytes(d(m)) + AnswerLen + 1 <= OutSize
  <2> HIDE DEF m
  <2> QED BY <1>4 DEF R
<1> HIDE DEF m
<1>6. d(m) \in Seq(S)
  BY <1>5, FirstTyped
<1> DEFINE e == d(m)
<1> HIDE DEF d
<1>7. e \in Seq(S) /\ OutBytes(e) + AnswerLen + 1 <= OutSize /\ Len(e) \in Nat
  BY <1>5, <1>6
<1> HIDE DEF e
<1>8. Append(e, x) \in Seq(S) /\ Len(Append(e, x)) = Len(e) + 1
  BY <1>7
<1>9. OutBytes(Append(e, x)) = OutBytes(e) + AnswerLen + 1
  <2>1. AnswerLen \in Nat
    BY HandsetAssumption
  <2>2. \A l, n \in Nat : l * (n + 1) + (n + 1) = l * n + n + l + 1
    OBVIOUS
  <2>3. AnswerLen * (Len(e) + 1) + (Len(e) + 1) = AnswerLen * Len(e) + Len(e) + AnswerLen + 1
    BY <1>7, <2>1, <2>2
  <2> QED BY <1>8, <2>3 DEF OutBytes
<1> QED BY <1>3, <1>7, <1>8, <1>9 DEF e

\* The FIFO does not grow when the output runs.
LEMMA WriteTakes ==
  ASSUME NEW a \in Nat, NEW q, NEW tail, NEW wr, OutInv(q, tail, wr, a)
  PROVE  /\ Len(q) \in Nat /\ Len(Written(<<q, tail, wr, PeriodBytes>>)[1]) \in Nat
         /\ Len(Written(<<q, tail, wr, PeriodBytes>>)[1]) <= Len(q)
<1> DEFINE S == Seq(1..a)
           D == {w \in S \X S \X S \X Nat : Len(w[2]) < AnswerLen /\ Len(w[1]) <= Len(q)}
           x == <<q, tail, wr, PeriodBytes>>
<1>1. /\ q \in S /\ tail \in S /\ wr \in S /\ Len(tail) < AnswerLen /\ Len(q) \in Nat
      /\ PeriodBytes \in Nat \ {0}
  BY HandsetAssumption DEF OutInv, OutTyped
<1>2. ASSUME NEW r \in S, NEW t \in S, NEW v \in S, NEW k \in Nat \ {0},
             Len(t) < AnswerLen, Len(r) <= Len(q)
      PROVE  Piece(<<r, t, v, k>>) \in D
  <2>1. PieceMade(r, t, v, k, a)
    BY <1>2, PieceIs
  <2>2. PICK packet \in Seq(1..a), n \in Nat, r2 \in Seq(1..a) :
          /\ n <= Len(packet) /\ n <= k
          /\ Piece(<<r, t, v, k>>)
               = <<r2, SubSeq(packet, n + 1, Len(packet)), v \o SubSeq(packet, 1, n), k - n>>
          /\ Len(packet) - n < AnswerLen
          /\ r2 = r \/ (r # <<>> /\ r2 = Tail(r))
    BY <2>1, Zenon DEF PieceMade
  <2>3. n \in 0..Len(packet)
    BY <2>2
  <2> DEFINE b == SubSeq(packet, n + 1, Len(packet))
             c == SubSeq(packet, 1, n)
  <2>4. b \in S /\ c \in S /\ Len(b) < AnswerLen
    <3>1. SubSeq(packet, 1, n) \in Seq(1..a) /\ SubSeq(packet, n + 1, Len(packet)) \in Seq(1..a)
          /\ Len(SubSeq(packet, n + 1, Len(packet))) = Len(packet) - n
      BY <2>3, FirstTyped, Zenon
    <3>2. Len(packet) - n < AnswerLen
      BY <2>2
    <3> QED BY <3>1, <3>2
  <2>5. v \o c \in S
    <3> HIDE DEF c
    <3> QED BY <2>4
  <2>6. k - n \in Nat
    BY <2>2
  <2>7. Len(r2) <= Len(q)
    <3>1. r # <<>> => Len(Tail(r)) = Len(r) - 1
      OBVIOUS
    <3>2. Len(r) \in Nat
      OBVIOUS
    <3>3. r2 = r \/ (r # <<>> /\ r2 = Tail(r))
      BY <2>2, Zenon
    <3>4. Len(r) <= Len(q) /\ Len(q) \in Nat
      BY <1>1, <1>2
    <3>5. CASE r2 = r
      BY <3>4, <3>5
    <3>6. CASE r # <<>> /\ r2 = Tail(r)
      <4>1. Len(r2) = Len(r) - 1
        BY <3>1, <3>6
      <4> QED BY <3>2, <3>4, <4>1
    <3> QED BY <3>3, <3>5, <3>6
  <2>8. r2 \in S
    OBVIOUS
  <2> HIDE DEF b, c, S
  <2>9. \A g \in S, h \in S, i \in S, j \in Nat :
          Len(h) < AnswerLen /\ Len(g) <= Len(q) => <<g, h, i, j>> \in D
    OBVIOUS
  <2> HIDE DEF D
  <2>10. <<r2, b, v \o c, k - n>> \in D
    BY <2>4, <2>5, <2>6, <2>7, <2>8, <2>9, Zenon
  <2> QED BY <2>2, <2>10 DEF b, c
<1>3. Piece(x) \in D
  <2> HIDE DEF D, S
  <2> QED BY <1>1, <1>2
<1>4. ASSUME NEW u \in D, u[4] # 0, u[1] # <<>> PROVE Piece(u) \in D
  <2>1. /\ u = <<u[1], u[2], u[3], u[4]>> /\ u[4] \in Nat \ {0}
        /\ u[1] \in S /\ u[2] \in S /\ u[3] \in S /\ Len(u[2]) < AnswerLen /\ Len(u[1]) <= Len(q)
    <3> HIDE DEF S
    <3> QED BY <1>4
  <2>2. Piece(<<u[1], u[2], u[3], u[4]>>) \in D
    <3> HIDE DEF D, S
    <3> QED BY <1>2, <2>1
  <2> QED BY <2>1, <2>2
<1> HIDE DEF D
<1>5. Written(x) \in D
  BY <1>3, <1>4, LoopStays, Zenon
<1> HIDE DEF x
<1>6. Written(x)[1] \in S /\ Len(Written(x)[1]) <= Len(q)
  <2> HIDE DEF S
  <2> QED BY <1>5 DEF D
<1>7. Len(Written(x)[1]) \in Nat
  BY <1>6
<1> QED BY <1>1, <1>6, <1>7 DEF x

LEMMA OutputTakes ==
  ASSUME NEW a \in Nat, NEW q, OutInv(q, htail, written, a), NEW there, HandleOutput(q, there),
         OutBytes(q) <= OutSize
  PROVE  OutBytes(hout') <= OutSize
<1>1. CASE ~there
  <2>1. hout' = <<>> /\ Len(<<>>) = 0
    BY <1>1, Zenon DEF HandleOutput
  <2>2. OutBytes(<<>>) = AnswerLen * 0 + 0
    BY DEF OutBytes
  <2> QED BY <2>1, <2>2, HandsetAssumption
<1>2. CASE there
  <2> DEFINE r == Written(<<q, htail, written, PeriodBytes>>)[1]
  <2>1. hout' = r
    BY <1>2, Zenon DEF HandleOutput
  <2>2. Len(q) \in Nat /\ Len(r) \in Nat /\ Len(r) <= Len(q)
    BY WriteTakes
  <2> HIDE DEF r
  <2>3. OutBytes(r) <= OutBytes(q)
    BY <2>2, FewerBytes
  <2>4. OutBytes(r) \in Int /\ OutBytes(q) \in Int /\ OutSize \in Int
    BY <2>2, HandsetAssumption DEF OutBytes
  <2> QED BY <2>1, <2>3, <2>4
<1> QED BY <1>1, <1>2

\* What answers and pieces do to the FIFO and the number of answers.
OutFits == OutBytes(hout) <= OutSize /\ answers \in 0..MaxAnswers
LEMMA AnswersFit ==
  ASSUME HandsetInv, answers < MaxAnswers
  PROVE  OutBytes(Queued(hout, answers + 1)) <= OutSize /\ answers + 1 \in 0..MaxAnswers
<1>1. answers \in 0..MaxAnswers /\ MaxAnswers \in Nat /\ hout \in Seq(1..answers)
  BY HandsetAssumption DEF HandsetInv, HandsetTypeOK, OutputInv, OutInv, OutTyped
<1>2. hout \in Seq(1..answers + 1) /\ answers + 1 \in 1..answers + 1
  BY <1>1
<1>3. OutBytes(Queued(hout, answers + 1)) <= OutSize
  BY <1>2, QueuedFits
<1> QED BY <1>1, <1>3

LEMMA PacketFits ==
  ASSUME HandsetInv, NEW s, ProcessPacket(s)
  PROVE  OutFits' /\ connected' \in BOOLEAN
<1> DEFINE reply == Does(s[3]).reply /\ answers < MaxAnswers
           q == IF reply THEN Queued(hout, answers + 1) ELSE hout
           a == IF reply THEN answers + 1 ELSE answers
<1>1. OutInv(hout, htail, written, answers) /\ OutFits /\ answers \in Nat
  BY DEF HandsetInv, HandsetTypeOK, OutputInv, OutFits
<1>2. answers' = a /\ HandleOutput(q, TRUE) /\ connected' = TRUE
  BY DEF ProcessPacket
<1>3. a \in Nat /\ OutInv(q, htail, written, a)
  BY <1>1, QueueKeeps
<1>4. OutBytes(q) <= OutSize /\ a \in 0..MaxAnswers
  BY <1>1, AnswersFit DEF OutFits
<1> HIDE DEF a, q
<1>5. OutBytes(hout') <= OutSize
  BY <1>2, <1>3, <1>4, OutputTakes, Zenon
<1> QED BY <1>2, <1>4, <1>5 DEF OutFits

\* What a step of the handset puts on the line.
FrameSent(k, g) ==
  /\ hsent' = Append(hsent, k) /\ hstarts' = Append(hstarts, Len(hwire) + 1)
  /\ hline' = hline \o g /\ hwire' = hwire \o g
  /\ \/ g = FrameOf(k, Len(hsent) + 1) /\ damaged' = damaged
     \/ /\ g \in DamagedFrames(FrameOf(k, Len(hsent) + 1))
        /\ damaged' = damaged \cup {Len(hsent) + 1}
LEMMA FrameIsSent ==
  ASSUME SendFrame PROVE \E k \in HandsetKinds : \E g : FrameSent(k, g)
<1>1. PICK k \in HandsetKinds :
        LET n == Len(hsent) + 1
            f == FrameOf(k, n)
        IN /\ hsent' = Append(hsent, k) /\ hstarts' = Append(hstarts, Len(hwire) + 1)
           /\ \/ hline' = hline \o f /\ hwire' = hwire \o f /\ UNCHANGED damaged
              \/ /\ damaged' = damaged \cup {n}
                 /\ \E g \in DamagedFrames(f) : hline' = hline \o g /\ hwire' = hwire \o g
  BY DEF SendFrame
<1> DEFINE f == FrameOf(k, Len(hsent) + 1)
<1>2. CASE hline' = hline \o f /\ hwire' = hwire \o f /\ UNCHANGED damaged
  <2>1. FrameSent(k, f)
    BY <1>1, <1>2 DEF FrameSent
  <2> QED BY <2>1
<1>3. CASE /\ damaged' = damaged \cup {Len(hsent) + 1}
           /\ \E g \in DamagedFrames(f) : hline' = hline \o g /\ hwire' = hwire \o g
  <2>1. PICK g \in DamagedFrames(f) : hline' = hline \o g /\ hwire' = hwire \o g
    BY <1>3
  <2>2. FrameSent(k, g)
    BY <1>1, <1>3, <2>1 DEF FrameSent
  <2> QED BY <2>2
<1> QED BY <1>1, <1>2, <1>3

LEMMA HandsetSendStep == HandsetInv /\ SendFrame => HandsetTypeOK' /\ InputTyped'
<1> SUFFICES ASSUME HandsetInv, SendFrame PROVE HandsetTypeOK' /\ InputTyped'
  OBVIOUS
<1>0. PICK k \in HandsetKinds : \E g : FrameSent(k, g)
  BY FrameIsSent
<1>1. PICK g : FrameSent(k, g)
  BY <1>0
<1> DEFINE n == Len(hsent) + 1
           f == FrameOf(k, n)
<1>2. /\ hline \in Seq(Nat) /\ hsent \in Seq(HandsetKinds) /\ damaged \subseteq 1..Len(hsent)
      /\ Len(hsent) \in Nat
  BY DEF HandsetInv, InputTyped, HandsetTypeOK
<1>3. k \in Nat /\ n \in Nat
  BY <1>2, HandsetAssumption DEF Rc, Ping, Command, Msp
<1>4. g \in Seq(Nat)
  <2>1. g = f \/ g \in DamagedFrames(f)
    BY <1>1 DEF FrameSent
  <2> HIDE DEF n
  <2> QED BY <1>3, <2>1, FrameTyped
<1> HIDE DEF f
<1>6. /\ hsent' = Append(hsent, k) /\ hline' = hline \o g
      /\ damaged' = damaged \/ damaged' = damaged \cup {n}
  BY <1>1 DEF FrameSent
<1>7. hline' \in Seq(Nat)
  <2>1. hline \o g \in Seq(Nat)
    BY <1>2, <1>4, JoinIs
  <2> QED BY <1>6, <2>1, Zenon
<1>8. hsent' = Append(hsent, k) /\ hsent' \in Seq(HandsetKinds) /\ Len(hsent') = n
  <2>1. Append(hsent, k) \in Seq(HandsetKinds) /\ Len(Append(hsent, k)) = Len(hsent) + 1
    BY <1>2, AppendTyped
  <2>2. hsent' = Append(hsent, k)
    BY <1>6, Zenon
  <2> QED BY <2>1, <2>2, Zenon
<1>9. damaged' \subseteq DOMAIN hsent'
  <2>1. DOMAIN hsent' = 1..n
    BY <1>8
  <2>2. damaged \subseteq 1..n /\ n \in 1..n
    BY <1>2
  <2> HIDE DEF n
  <2> QED BY <1>6, <2>1, <2>2
<1>10. UNCHANGED <<hbuf, pingsOn, connected, hout, htail, answers>>
  BY DEF SendFrame, outVars
<1> QED BY <1>7, <1>8, <1>9, <1>10 DEF HandsetInv, InputTyped, HandsetTypeOK

LEMMA HandsetReadStep ==
  HandsetInv /\ HandleInput => HandsetTypeOK' /\ InputTyped'
<1> SUFFICES ASSUME HandsetInv, HandleInput PROVE HandsetTypeOK' /\ InputTyped'
  OBVIOUS
<1>1. PICK k \in 0..Min({Len(hline), MaxPacketLen - Len(hbuf)}) :
        /\ hline' = SubSeq(hline, k + 1, Len(hline))
        /\ Parse(AlignedFrom(hbuf \o SubSeq(hline, 1, k), 1), k)
  BY DEF HandleInput
<1>2. hline \in Seq(Nat) /\ hbuf \in Seq(Nat) /\ Len(hbuf) <= MaxPacketLen /\ MaxPacketLen \in Nat
  BY HandsetAssumption DEF HandsetInv, InputTyped, HandsetTypeOK
<1> DEFINE c == hbuf \o SubSeq(hline, 1, k)
           s == AlignedFrom(c, 1)
<1>3. hline' \in Seq(Nat) /\ c \in Seq(Nat) /\ Len(c) <= MaxPacketLen
  BY <1>1, <1>2, ReadTyped
<1> HIDE DEF c
<1>4. s \in Seq(Nat) /\ Len(s) <= Len(c)
  BY <1>3, AlignedTyped
<1>5. Parse(s, k)
  BY <1>1 DEF c
<1> HIDE DEF s
<1>6. Len(s) \in Nat /\ Len(s) <= MaxPacketLen
  BY <1>2, <1>3, <1>4
<1>7. hbuf' = s \/ hbuf' = AlignedFrom(s, 2)
        \/ (hbuf' = Skipped(s) /\ ~(Len(s) < 3) /\ ~BadLength(s) /\ ~(Len(s) < TotalLen(s)))
  BY <1>5, Zenon DEF Parse
<1>8. hbuf' \in Seq(Nat) /\ Len(hbuf') <= MaxPacketLen
  <2>1. CASE hbuf' = s
    BY <1>4, <1>6, <2>1
  <2>2. CASE hbuf' = AlignedFrom(s, 2)
    <3>1. AlignedFrom(s, 2) \in Seq(Nat) /\ Len(AlignedFrom(s, 2)) <= Len(s)
      BY <1>4, AlignedTyped
    <3>2. Len(AlignedFrom(s, 2)) \in Nat
      BY <3>1
    <3> QED BY <1>2, <1>6, <2>2, <3>1, <3>2
  <2>3. CASE hbuf' = Skipped(s) /\ ~(Len(s) < 3) /\ ~BadLength(s) /\ ~(Len(s) < TotalLen(s))
    <3>1. s[2] \in Nat
      <4>1. 2 \in 1..Len(s)
        BY <1>6, <2>3
      <4> QED BY <1>4, <4>1
    <3>2. TotalLen(s) \in 0..Len(s)
      BY <1>6, <2>3, <3>1 DEF TotalLen
    <3>3. Skipped(s) \in Seq(Nat) /\ Len(Skipped(s)) = Len(s) - TotalLen(s)
      BY <1>4, <3>2, FirstTyped DEF Skipped
    <3> QED BY <1>2, <1>6, <2>3, <3>2, <3>3
  <2> QED BY <1>7, <2>1, <2>2, <2>3
<1>9. \/ UNCHANGED <<connected, hout, answers>>
      \/ HandleOutput(hout, connected) /\ UNCHANGED <<connected, answers>>
      \/ ProcessPacket(s)
  BY <1>5, Zenon DEF Parse, outVars
<1>10. OutFits' /\ connected' \in BOOLEAN
  <2>1. OutInv(hout, htail, written, answers) /\ OutFits /\ answers \in Nat /\ connected \in BOOLEAN
    BY DEF HandsetInv, HandsetTypeOK, OutputInv, OutFits
  <2>2. CASE UNCHANGED <<connected, hout, answers>>
    BY <2>1, <2>2 DEF OutFits
  <2>3. CASE HandleOutput(hout, connected) /\ UNCHANGED <<connected, answers>>
    <3>1. OutBytes(hout) <= OutSize
      BY <2>1 DEF OutFits
    <3>2. OutBytes(hout') <= OutSize
      BY <2>1, <2>3, <3>1, OutputTakes, Zenon
    <3> QED BY <2>1, <2>3, <3>2 DEF OutFits
  <2>4. CASE ProcessPacket(s)
    BY <2>4, PacketFits
  <2> QED BY <1>9, <2>2, <2>3, <2>4
<1>11. UNCHANGED <<hsent, damaged, pingsOn>>
  BY DEF HandleInput
<1>12. Len(htail') < AnswerLen
  <2>1. OutputInv'
    BY InputKeepsOutput DEF HandsetInv
  <2> QED BY <2>1 DEF OutputInv, OutInv
<1> QED BY <1>3, <1>8, <1>10, <1>11, <1>12 DEF HandsetInv, InputTyped, HandsetTypeOK, OutFits

LEMMA HandsetInvStep == HandsetInv /\ [HandsetNext]_handsetVars => HandsetInv'
<1> SUFFICES ASSUME HandsetInv, [HandsetNext]_handsetVars PROVE HandsetInv'
  OBVIOUS
<1>1. OutputInv'
  BY HandsetStepKeepsOutput DEF HandsetInv
<1>2. CASE SendTelemetryToTX
  <2>1. /\ answers < MaxAnswers /\ answers' = answers + 1
        /\ hout' = Queued(hout, answers + 1) \/ hout' = hout
        /\ UNCHANGED <<hline, hbuf, hsent, damaged, pingsOn, connected, htail>>
    BY <1>2 DEF SendTelemetryToTX, inVars
  <2>2. OutBytes(hout') <= OutSize /\ answers' \in 0..MaxAnswers
    BY <2>1, AnswersFit DEF HandsetInv, HandsetTypeOK
  <2> QED BY <1>1, <2>1, <2>2 DEF HandsetInv, HandsetTypeOK, InputTyped
<1>3. CASE LinkChange
  BY <1>1, <1>3 DEF LinkChange, outVars, HandsetInv, HandsetTypeOK, InputTyped
<1>4. CASE UNCHANGED handsetVars
  BY <1>1, <1>4 DEF handsetVars, inVars, outVars, HandsetInv, HandsetTypeOK, InputTyped
<1>5. CASE SendFrame
  BY <1>1, <1>5, HandsetSendStep DEF HandsetInv
<1>6. CASE HandleInput
  BY <1>1, <1>6, HandsetReadStep DEF HandsetInv
<1> QED BY <1>2, <1>3, <1>4, <1>5, <1>6 DEF HandsetNext

LEMMA HandsetInvStart == HandsetInit => HandsetInv
<1> SUFFICES ASSUME HandsetInit PROVE HandsetInv
  OBVIOUS
<1>1. /\ hline = <<>> /\ hbuf = <<>> /\ hsent = <<>> /\ damaged = {} /\ pingsOn = FALSE
      /\ connected = FALSE /\ hout = <<>> /\ htail = <<>> /\ answers = 0
  BY DEF HandsetInit
<1>2. /\ Len(<<>>) = 0 /\ <<>> \in Seq(Nat) /\ <<>> \in Seq(HandsetKinds)
      /\ MaxPacketLen \in Nat /\ OutSize \in Nat /\ MaxAnswers \in Nat /\ AnswerLen \in Nat \ {0}
  BY HandsetAssumption
<1>3. OutBytes(hout) <= OutSize
  <2>1. OutBytes(<<>>) = AnswerLen * 0 + 0
    BY <1>2 DEF OutBytes
  <2> QED BY <1>1, <1>2, <2>1
<1>4. pingsOn \in BOOLEAN /\ connected \in BOOLEAN
  BY <1>1
<1>5. HandsetTypeOK
  BY <1>1, <1>2, <1>3, <1>4 DEF HandsetTypeOK
<1> QED BY <1>1, <1>2, <1>5, OutputInvStarts DEF HandsetInv, InputTyped

\* The CRSF handset's parse buffer never overflows, whatever length a damaged frame
\* claims, nor does the FIFO of answers (HandsetTypeOK).
THEOREM HandsetTyped == HandsetSpec => []HandsetTypeOK
<1>1. HandsetInv => HandsetTypeOK
  BY DEF HandsetInv
<1> QED BY <1>1, HandsetInvStart, HandsetInvStep, PTL DEF HandsetSpec

(***************************************************************************)
(* The receiver's parser.                                                  *)
(***************************************************************************)
\* The bytes of a frame in the buffer, in each state: the length byte holds it in bounds.
Shape(st, s) ==
  /\ s \in Seq(Nat)
  /\ \/ st = "idle" /\ s = <<>>
     \/ st = "length" /\ Len(s) = 1
     \/ st = "data" /\ Len(s) >= 2 /\ s[2] \in 2..MaxTelemetryLen - 2 /\ Len(s) < s[2] + 2
RoutFits(q) == q \in Seq(Nat) /\ Len(q) * (InfoLen + 1) <= SerialFifo
ParserInv ==
  /\ ParserTypeOK /\ Shape(tlmState, tlmBuf) /\ RoutFits(rout)
  /\ fcSent \in Seq(FcKinds) /\ fcLine \in Seq(Nat \X Nat)
  /\ \A i \in 1..Len(fcLine) : fcLine[i][2] \in 1..Len(fcSent)

LEMMA ShapeTyped ==
  ASSUME NEW st, NEW s, Shape(st, s)
  PROVE  st \in {"idle", "length", "data"} /\ Len(s) < MaxTelemetryLen
<1>1. MaxTelemetryLen \in Nat /\ MaxTelemetryLen >= 5
  BY ParserAssumption DEF FrameLen
<1> QED BY <1>1 DEF Shape

LEMMA RoutQueuedFits ==
  ASSUME RoutFits(rout), NEW p \in Nat
  PROVE  RoutFits(RoutQueued(p))
<1>1. Append(rout, p) \in Seq(Nat) /\ Len(Append(rout, p)) = Len(rout) + 1 /\ Len(rout) \in Nat
  BY DEF RoutFits
<1>2. SerialFifo \in Nat /\ InfoLen = 3 /\ Len(<<>>) = 0 /\ <<>> \in Seq(Nat)
  BY ParserAssumption DEF InfoLen
<1>3. CASE (Len(rout) + 1) * (InfoLen + 1) > SerialFifo
  BY <1>2, <1>3 DEF RoutQueued, RoutFits
<1>4. CASE ~((Len(rout) + 1) * (InfoLen + 1) > SerialFifo)
  BY <1>1, <1>2, <1>4 DEF RoutQueued, RoutFits
<1> QED BY <1>3, <1>4

\* A byte keeps the shape, and an answer the FIFO.
LEMMA HandleShape ==
  ASSUME NEW st, NEW s, Shape(st, s), RoutFits(rout), NEW b \in Nat, Handle(st, s, b)
  PROVE  Shape(tlmState', tlmBuf') /\ RoutFits(rout')
<1> DEFINE t == Append(s, b)
<1>1. /\ s \in Seq(Nat) /\ Len(s) \in Nat /\ t \in Seq(Nat) /\ Len(t) = Len(s) + 1
      /\ t[Len(t)] = b /\ \A i \in 1..Len(s) : t[i] = s[i]
  BY DEF Shape
<1>2. MaxTelemetryLen \in Nat
  BY ParserAssumption
<1>3. CASE st = "idle"
  <2>1. /\ tlmState' = IF b = Sync THEN "length" ELSE "idle"
        /\ tlmBuf' = IF b = Sync THEN <<b>> ELSE <<>>
        /\ rout' = rout
    BY <1>3 DEF Handle, Nothing
  <2>2. <<b>> \in Seq(Nat) /\ Len(<<b>>) = 1 /\ <<>> \in Seq(Nat)
    OBVIOUS
  <2>3. Shape("idle", <<>>) /\ Shape("length", <<b>>)
    BY <2>2 DEF Shape
  <2> QED BY <2>1, <2>3
<1>4. CASE st = "length"
  <2>1. /\ tlmState' = IF b < 2 \/ b > MaxTelemetryLen - 2 THEN "idle" ELSE "data"
        /\ tlmBuf' = IF b < 2 \/ b > MaxTelemetryLen - 2 THEN <<>> ELSE t
        /\ rout' = rout
    BY <1>4 DEF Handle, Nothing
  <2>2. Len(s) = 1
    BY <1>4 DEF Shape
  <2>3. Len(t) = 2 /\ t[2] = b
    BY <1>1, <2>2
  <2> HIDE DEF t
  <2>4. ~(b < 2 \/ b > MaxTelemetryLen - 2) => Shape("data", t)
    <3> SUFFICES ASSUME ~(b < 2 \/ b > MaxTelemetryLen - 2) PROVE Shape("data", t)
      OBVIOUS
    <3>1. b \in 2..MaxTelemetryLen - 2 /\ 2 < b + 2
      BY <1>2
    <3>2. t \in Seq(Nat) /\ Len(t) >= 2 /\ t[2] \in 2..MaxTelemetryLen - 2 /\ Len(t) < t[2] + 2
      <4>1. Len(t) = 2 /\ t[2] = b
        BY <2>3, Zenon
      <4>2. 2 >= 2 /\ Len(t) < b + 2
        BY <3>1, <4>1
      <4>3. t \in Seq(Nat)
        BY <1>1, Zenon
      <4> QED BY <3>1, <4>1, <4>2, <4>3, Zenon
    <3> QED BY <3>2, Zenon DEF Shape
  <2>5. Shape("idle", <<>>)
    BY DEF Shape
  <2> QED BY <2>1, <2>4, <2>5
<1>5. CASE st = "data"
  <2> DEFINE over == Len(t) = t[2] + 2
  <2>1. /\ tlmState' = IF over THEN "idle" ELSE "data"
        /\ tlmBuf' = IF over THEN <<>> ELSE t
        /\ (over /\ TakeFrame(t)) \/ rout' = rout
    BY <1>5 DEF Handle, Nothing
  <2>2. Len(s) >= 2 /\ s[2] \in 2..MaxTelemetryLen - 2 /\ Len(s) < s[2] + 2
    BY <1>5 DEF Shape
  <2>3. t[2] = s[2]
    BY <1>1, <2>2
  <2>4. ~over => Shape("data", t)
    <3> HIDE DEF t
    <3> QED BY <1>1, <1>2, <2>2, <2>3 DEF Shape
  <2>5. Shape("idle", <<>>)
    BY DEF Shape
  <2>6. RoutFits(rout')
    <3>1. CASE over /\ TakeFrame(t)
      <4>1. t[4] \in Nat
        <5> HIDE DEF t
        <5>1. 4 \in 1..Len(t)
          BY <1>1, <2>2, <2>3, <3>1
        <5> QED BY <1>1, <5>1
      <4>2. rout' = RoutQueued(t[4]) \/ rout' = rout
        BY <3>1 DEF TakeFrame
      <4> QED BY <4>1, <4>2, RoutQueuedFits
    <3>2. CASE rout' = rout
      BY <3>2
    <3> QED BY <2>1, <3>1, <3>2
  <2> QED BY <2>1, <2>4, <2>5, <2>6
<1> QED BY <1>3, <1>4, <1>5 DEF Shape

LEMMA FcSendStep == ParserInv /\ FcSend => ParserInv'
<1> SUFFICES ASSUME ParserInv, FcSend PROVE ParserInv'
  OBVIOUS
<1>1. PICK k \in FcKinds :
        LET n == Len(fcSent) + 1
            line(g) == fcLine \o [i \in DOMAIN g |-> <<g[i], n>>]
        IN /\ fcSent' = Append(fcSent, k)
           /\ \/ fcLine' = line(FrameOf(k, n)) /\ UNCHANGED fcDamaged
              \/ /\ fcDamaged' = fcDamaged \cup {n}
                 /\ \E g \in DamagedFrames(FrameOf(k, n)) : fcLine' = line(g)
  BY DEF FcSend
<1> DEFINE n == Len(fcSent) + 1
           line(g) == fcLine \o [i \in DOMAIN g |-> <<g[i], n>>]
<1>2. /\ fcSent \in Seq(FcKinds) /\ fcLine \in Seq(Nat \X Nat) /\ Len(fcSent) \in Nat
      /\ \A i \in 1..Len(fcLine) : fcLine[i][2] \in 1..Len(fcSent)
  BY DEF ParserInv
<1>3. k \in Nat /\ n \in Nat
  <2>1. FcKinds \subseteq {1, 2, 3, 4, 5, 6}
    BY ParserAssumption DEF Sensor, Heartbeat, Internal, BindCommand, ModelMatch, ReceiverPing,
                            Bootloader
  <2> QED BY <1>2, <2>1
<1>4. FrameOf(k, n) \in Seq(Nat) /\ \A g \in DamagedFrames(FrameOf(k, n)) : g \in Seq(Nat)
  <2> HIDE DEF n
  <2> QED BY <1>3, FrameTyped
<1>5. ASSUME NEW g \in Seq(Nat)
      PROVE  line(g) \in Seq(Nat \X Nat) /\ \A i \in 1..Len(line(g)) : line(g)[i][2] \in 1..n
  <2> DEFINE h == [i \in DOMAIN g |-> <<g[i], n>>]
  <2>1. h \in Seq(Nat \X Nat) /\ Len(h) = Len(g) /\ \A i \in 1..Len(h) : h[i][2] = n
    <3>1. DOMAIN g = 1..Len(g) /\ Len(g) \in Nat
      OBVIOUS
    <3> HIDE DEF n
    <3> QED BY <1>3, <3>1
  <2>2. n \in 1..n /\ \A x \in 1..Len(fcSent) : x \in 1..n
    BY <1>2
  <2> HIDE DEF h, n
  <2>3. /\ fcLine \o h \in Seq(Nat \X Nat) /\ Len(fcLine \o h) = Len(fcLine) + Len(h)
        /\ \A i \in 1..Len(fcLine) + Len(h) :
             (fcLine \o h)[i] = IF i <= Len(fcLine) THEN fcLine[i] ELSE h[i - Len(fcLine)]
    <3> DEFINE P == Nat \X Nat
    <3>1. fcLine \in Seq(P) /\ h \in Seq(P)
      BY <1>2, <2>1
    <3> HIDE DEF P
    <3>2. /\ fcLine \o h \in Seq(P) /\ Len(fcLine \o h) = Len(fcLine) + Len(h)
          /\ \A i \in 1..Len(fcLine) + Len(h) :
               (fcLine \o h)[i] = IF i <= Len(fcLine) THEN fcLine[i] ELSE h[i - Len(fcLine)]
      BY <3>1, ConcatProperties
    <3> QED BY <3>2 DEF P
  <2>4. ASSUME NEW i \in 1..Len(fcLine) + Len(h) PROVE (fcLine \o h)[i][2] \in 1..n
    <3>1. CASE i <= Len(fcLine)
      <4>1. i \in 1..Len(fcLine)
        BY <1>2, <3>1
      <4> QED BY <1>2, <2>2, <2>3, <3>1, <4>1
    <3>2. CASE ~(i <= Len(fcLine))
      <4>1. i - Len(fcLine) \in 1..Len(h)
        BY <1>2, <2>1, <3>2
      <4> QED BY <2>1, <2>2, <2>3, <3>2, <4>1
    <3> QED BY <3>1, <3>2
  <2> QED BY <2>3, <2>4 DEF h
<1>6. /\ fcSent' = Append(fcSent, k)
      /\ fcDamaged' = fcDamaged \/ fcDamaged' = fcDamaged \cup {n}
      /\ \E g \in Seq(Nat) : fcLine' = line(g)
  <2> HIDE DEF line
  <2>1. /\ fcSent' = Append(fcSent, k)
        /\ fcDamaged' = fcDamaged \/ fcDamaged' = fcDamaged \cup {n}
        /\ fcLine' = line(FrameOf(k, n)) \/ \E g \in DamagedFrames(FrameOf(k, n)) : fcLine' = line(g)
    BY <1>1, Zenon DEF line
  <2> QED BY <1>4, <2>1, Zenon
<1>7. PICK g \in Seq(Nat) : fcLine' = line(g)
  BY <1>6, Zenon
<1>8. Append(fcSent, k) \in Seq(FcKinds) /\ Len(Append(fcSent, k)) = n
  BY <1>2, AppendTyped
<1>9. fcSent' \in Seq(FcKinds) /\ Len(fcSent') = n
  <2>1. fcSent' = Append(fcSent, k)
    BY <1>6, Zenon
  <2> QED BY <1>8, <2>1, Zenon
<1>10. fcLine' \in Seq(Nat \X Nat) /\ \A i \in 1..Len(fcLine') : fcLine'[i][2] \in 1..Len(fcSent')
  <2> HIDE DEF line, n
  <2> QED BY <1>5, <1>7, <1>9
<1>11. DOMAIN fcSent' = 1..n /\ fcDamaged' \subseteq 1..n /\ clean \subseteq 1..n
  <2>1. DOMAIN fcSent = 1..Len(fcSent) /\ DOMAIN fcSent' = 1..n
    BY <1>2, <1>9
  <2>2. fcDamaged \subseteq 1..Len(fcSent) /\ clean \subseteq 1..Len(fcSent)
    BY <2>1 DEF ParserInv, ParserTypeOK
  <2>3. fcDamaged \subseteq 1..n /\ clean \subseteq 1..n /\ n \in 1..n
    BY <1>2, <2>2
  <2> HIDE DEF n, line
  <2> QED BY <1>6, <2>1, <2>3
<1>12. UNCHANGED <<tlmState, tlmBuf, sinceByte, clean, rout>>
  BY DEF FcSend
<1>13. ParserTypeOK'
  <2> HIDE DEF n, line
  <2> QED BY <1>11, <1>12 DEF ParserInv, ParserTypeOK
<1> QED BY <1>9, <1>10, <1>12, <1>13 DEF ParserInv

LEMMA ParserByteStep == ParserInv /\ HandleUARTin => ParserInv'
<1> SUFFICES ASSUME ParserInv, HandleUARTin PROVE ParserInv'
  OBVIOUS
<1> DEFINE b == Head(fcLine)[1]
           n == Head(fcLine)[2]
<1>1. /\ fcLine # <<>> /\ fcLine \in Seq(Nat \X Nat) /\ fcLine' = Tail(fcLine)
      /\ \A i \in 1..Len(fcLine) : fcLine[i][2] \in 1..Len(fcSent)
      /\ UNCHANGED <<fcSent, fcDamaged>> /\ sinceByte' = 0
  BY DEF HandleUARTin, ParserInv
<1>2. 1 \in 1..Len(fcLine) /\ Head(fcLine) = fcLine[1]
  BY <1>1
<1>3. b \in Nat /\ n \in 1..Len(fcSent)
  BY <1>1, <1>2
<1>4. Handle("idle", <<>>, b) \/ Handle(tlmState, tlmBuf, b)
  BY Zenon DEF HandleUARTin
<1>5. clean' = clean \cup {n} \/ clean' = clean \ {n} \/ clean' = clean
  BY Zenon DEF HandleUARTin
<1> HIDE DEF b, n
<1>6. Shape(tlmState', tlmBuf') /\ RoutFits(rout')
  <2>1. Shape("idle", <<>>) /\ Shape(tlmState, tlmBuf) /\ RoutFits(rout)
    BY DEF ParserInv, Shape
  <2> QED BY <1>3, <1>4, <2>1, HandleShape, Zenon
<1>7. /\ fcLine' \in Seq(Nat \X Nat)
      /\ \A i \in 1..Len(fcLine') : fcLine'[i][2] \in 1..Len(fcSent')
  <2>1. /\ Tail(fcLine) \in Seq(Nat \X Nat) /\ Len(Tail(fcLine)) = Len(fcLine) - 1
        /\ \A i \in 1..Len(Tail(fcLine)) : Tail(fcLine)[i] = fcLine[i + 1]
    BY <1>1
  <2>2. \A i \in 1..Len(Tail(fcLine)) : i + 1 \in 1..Len(fcLine)
    BY <1>1, <2>1
  <2> QED BY <1>1, <2>1, <2>2
<1>8. fcDamaged' \subseteq DOMAIN fcSent' /\ clean' \subseteq DOMAIN fcSent'
  <2>1. DOMAIN fcSent = 1..Len(fcSent) /\ fcSent' = fcSent /\ fcDamaged' = fcDamaged
    BY <1>1 DEF ParserInv
  <2>2. fcDamaged \subseteq DOMAIN fcSent /\ clean \subseteq DOMAIN fcSent
    BY DEF ParserInv, ParserTypeOK
  <2> QED BY <1>3, <1>5, <2>1, <2>2
<1>9. 0 \in 0..FrameTimeout + 1
  BY ParserAssumption
<1>10. ParserTypeOK'
  BY <1>1, <1>6, <1>8, <1>9, ShapeTyped DEF ParserTypeOK, RoutFits
<1> QED BY <1>1, <1>6, <1>7, <1>10 DEF ParserInv

LEMMA ParserStep == ParserInv /\ [ParserNext]_parserVars => ParserInv'
<1> SUFFICES ASSUME ParserInv, [ParserNext]_parserVars PROVE ParserInv'
  OBVIOUS
<1>1. CASE FcTick
  <2>1. sinceByte' \in 0..FrameTimeout + 1
    BY <1>1, ParserAssumption DEF FcTick, ParserInv, ParserTypeOK
  <2> QED BY <1>1, <2>1 DEF FcTick, ParserInv, ParserTypeOK
<1>2. CASE SendQueuedData
  <2>1. PICK k \in 1..Len(rout) : rout' = SubSeq(rout, k + 1, Len(rout))
    BY <1>2 DEF SendQueuedData
  <2>2. rout \in Seq(Nat) /\ Len(rout) * (InfoLen + 1) <= SerialFifo /\ k \in 0..Len(rout)
    BY DEF ParserInv, RoutFits
  <2>3. rout' \in Seq(Nat) /\ Len(rout') = Len(rout) - k
    BY <2>1, <2>2, FirstTyped
  <2>4. RoutFits(rout')
    <3>1. Len(rout) \in Nat /\ k \in Nat /\ k <= Len(rout) /\ InfoLen + 1 = 4 /\ SerialFifo \in Nat
      BY <2>2, ParserAssumption DEF InfoLen
    <3> QED BY <2>2, <2>3, <3>1 DEF RoutFits
  <2>5. UNCHANGED <<fcLine, tlmState, tlmBuf, sinceByte, fcSent, fcDamaged, clean>>
    BY <1>2 DEF SendQueuedData
  <2>6. ParserTypeOK'
    BY <2>4, <2>5 DEF ParserInv, ParserTypeOK, RoutFits
  <2> QED BY <2>4, <2>5, <2>6 DEF ParserInv
<1>3. CASE UNCHANGED parserVars
  BY <1>3 DEF parserVars, ParserInv, ParserTypeOK
<1> QED BY <1>1, <1>2, <1>3, FcSendStep, ParserByteStep DEF ParserNext

LEMMA ParserStart == ParserInit => ParserInv
<1> SUFFICES ASSUME ParserInit PROVE ParserInv
  OBVIOUS
<1>1. /\ fcLine = <<>> /\ tlmState = "idle" /\ tlmBuf = <<>> /\ sinceByte = 0
      /\ fcSent = <<>> /\ fcDamaged = {} /\ clean = {} /\ rout = <<>>
  BY DEF ParserInit
<1>2. Shape("idle", <<>>)
  BY DEF Shape
<1>3. RoutFits(<<>>)
  BY ParserAssumption DEF RoutFits, InfoLen
<1>4. 0 \in 0..FrameTimeout + 1
  BY ParserAssumption
<1>5. ParserTypeOK
  BY <1>1, <1>2, <1>3, <1>4, ShapeTyped DEF ParserTypeOK, RoutFits
<1>6. <<>> \in Seq(FcKinds) /\ <<>> \in Seq(Nat \X Nat) /\ Len(<<>>) = 0
  OBVIOUS
<1> QED BY <1>1, <1>2, <1>3, <1>5, <1>6 DEF ParserInv

\* The buffer of the receiver's parser never overflows, whatever length a damaged frame
\* claims, nor does the FIFO of its answers (ParserTypeOK).
THEOREM ParserTyped == ParserSpec => []ParserTypeOK
<1>1. ParserInv => ParserTypeOK
  BY DEF ParserInv
<1> QED BY <1>1, ParserStart, ParserStep, PTL DEF ParserSpec

\* A sequence with one element out.
LEMMA RemovedIs ==
  ASSUME NEW S, NEW f \in Seq(S), NEW i \in 1..Len(f)
  PROVE  /\ RemoveAt(f, i) \in Seq(S) /\ Len(RemoveAt(f, i)) = Len(f) - 1
         /\ \A x \in 1..Len(f) - 1 : RemoveAt(f, i)[x] = IF x < i THEN f[x] ELSE f[x + 1]
<1> DEFINE L == Len(f)
           g == RemoveAt(f, i)
           p == SubSeq(f, 1, i - 1)
           q == SubSeq(f, i + 1, L)
<1>1. L \in Nat /\ i - 1 \in Nat /\ i \in Nat /\ i <= L /\ i >= 1
  OBVIOUS
<1>2. /\ p \in Seq(S) /\ Len(p) = i - 1 /\ q \in Seq(S) /\ Len(q) = L - i
  <2>1. CanPart(S, f, 0, i - 1) /\ CanPart(S, f, i, L)
    BY <1>1, PartTyped
  <2> QED BY <1>1, <2>1 DEF CanPart
<1>3. (\A x \in 1..i - 1 : p[x] = f[x]) /\ (\A x \in 1..L - i : q[x] = f[i + x])
  BY <1>1
<1>4. g = p \o q
  BY DEF RemoveAt
<1> HIDE DEF p, q, g
<1>5. g \in Seq(S) /\ Len(g) = L - 1
  <2>1. p \o q \in Seq(S) /\ Len(p \o q) = Len(p) + Len(q)
    BY <1>2, JoinIs
  <2> QED BY <1>1, <1>2, <1>4, <2>1
<1>6. ASSUME NEW x \in 1..L - 1 PROVE g[x] = IF x < i THEN f[x] ELSE f[x + 1]
  <2>1. x \in 1..Len(p \o q)
    BY <1>4, <1>5
  <2>2. \/ x \in 1..i - 1 /\ g[x] = p[x]
        \/ x - (i - 1) \in 1..L - i /\ g[x] = q[x - (i - 1)]
    BY <1>2, <1>4, <2>1, JoinAt
  <2>3. CASE x \in 1..i - 1 /\ g[x] = p[x]
    BY <1>1, <1>3, <2>3
  <2>4. CASE x - (i - 1) \in 1..L - i /\ g[x] = q[x - (i - 1)]
    <3>1. i + (x - (i - 1)) = x + 1 /\ ~(x < i)
      BY <1>1, <2>4
    <3> QED BY <1>3, <2>4, <3>1
  <2> QED BY <2>2, <2>3, <2>4
<1> QED BY <1>5, <1>6 DEF g

IsReplaced(S, f, i, b, g) ==
  g \in Seq(S) /\ Len(g) = Len(f) /\ \A x \in 1..Len(f) : g[x] = IF x = i THEN b ELSE f[x]
LEMMA ReplacedIs ==
  ASSUME NEW S, NEW f \in Seq(S), NEW i \in 1..Len(f), NEW b \in S
  PROVE  IsReplaced(S, f, i, b, ReplaceAt(f, i, b))
BY DEF ReplaceAt, IsReplaced

(***************************************************************************)
(* The bytes of CRSF frames on their way, P, beside the kinds of those     *)
(* that are sent and the frames taken, got, records of R. Of a frame that  *)
(* is sent there is one CRC, among bytes that are none, in the order of    *)
(* the frames, and it is gone once the frame or a later one is taken.      *)
(***************************************************************************)
Small(b) == b \in 0..ByteValues - 1
CrcsKnown(P, sent) ==
  \A i \in 1..Len(P) : Small(P[i]) \/ \E n \in 1..Len(sent) : P[i] = Check(sent[n], n)
CrcsRise(P, sent) ==
  \A i, j \in 1..Len(P), m, n \in 1..Len(sent) :
    i < j /\ P[i] = Check(sent[m], m) /\ P[j] = Check(sent[n], n) => m < n
CrcsAfter(P, sent, got) ==
  \A i \in 1..Len(P), n \in 1..Len(sent), h \in 1..Len(got) :
    P[i] = Check(sent[n], n) => got[h].n < n
GotSent(sent, got) ==
  \A h \in 1..Len(got) : /\ got[h].n \in 1..Len(sent) /\ got[h].kind = sent[got[h].n]
                         /\ h > 1 => got[h - 1].n < got[h].n
Checked(P, sent, got, R) ==
  /\ P \in Seq(Nat) /\ sent \in Seq(1..6) /\ Len(sent) < ByteValues /\ got \in Seq(R)
  /\ CrcsKnown(P, sent) /\ CrcsRise(P, sent) /\ CrcsAfter(P, sent, got) /\ GotSent(sent, got)

LEMMA CheckedCut ==
  ASSUME NEW P, NEW sent, NEW got, NEW R, Checked(P, sent, got, R), NEW m \in 0..Len(P)
  PROVE  Checked(Cut(P, m), sent, got, R)
<1> DEFINE Q == Cut(P, m)
<1>1. P \in Seq(Nat) /\ Len(P) \in Nat
  BY DEF Checked
<1>2. Q \in Seq(Nat) /\ Len(Q) = Len(P) - m /\ \A i \in 1..Len(P) - m : Q[i] = P[m + i]
  BY <1>1, CutIs
<1> HIDE DEF Q
<1>3. \A i \in 1..Len(Q) : Q[i] = P[m + i] /\ m + i \in 1..Len(P)
  BY <1>1, <1>2
<1>4. \A i, j \in 1..Len(Q) : i < j => m + i < m + j
  BY <1>1, <1>2
<1>5. CrcsKnown(Q, sent)
  BY <1>3 DEF CrcsKnown, Checked
<1>6. CrcsRise(Q, sent)
  BY <1>3, <1>4 DEF CrcsRise, Checked
<1>7. CrcsAfter(Q, sent, got)
  BY <1>3 DEF CrcsAfter, Checked
<1> QED BY <1>2, <1>5, <1>6, <1>7 DEF Checked, Q

LEMMA CheckedFirst ==
  ASSUME NEW s \in Seq(Nat), NEW r \in Seq(Nat), NEW sent, NEW got, NEW R, Checked(s \o r, sent, got, R)
  PROVE  Checked(s, sent, got, R)
<1> DEFINE P == s \o r
<1>1. \A i \in 1..Len(s) : P[i] = s[i] /\ i \in 1..Len(P)
  BY JoinIs
<1> HIDE DEF P
<1>2. Checked(P, sent, got, R)
  BY DEF P
<1>3. CrcsKnown(s, sent)
  BY <1>1, <1>2 DEF CrcsKnown, Checked
<1>4. CrcsRise(s, sent)
  BY <1>1, <1>2 DEF CrcsRise, Checked
<1>5. CrcsAfter(s, sent, got)
  BY <1>1, <1>2 DEF CrcsAfter, Checked
<1> QED BY <1>2, <1>3, <1>4, <1>5 DEF Checked

\* The CRCs of the frames that are sent, and how large they are.
LEMMA CheckRange ==
  ASSUME NEW sent \in Seq(1..6), Len(sent) < ByteValues, NEW n \in 1..Len(sent)
  PROVE  /\ Check(sent[n], n) \in Nat /\ sent[n] \in 1..6 /\ n < ByteValues /\ ~Small(Check(sent[n], n))
         /\ 16 * Square <= Check(sent[n], n) /\ Check(sent[n], n) < 16 * Square + 7 * ByteValues
<1>1. sent[n] \in 1..6 /\ n \in Nat /\ n < ByteValues
  BY Sizes
<1> DEFINE c == Check(sent[n], n)
<1>2. c \in Nat /\ 16 * Square <= c /\ c < 16 * Square + 7 * ByteValues
  BY <1>1, CheckIs
<1> HIDE DEF c
<1>3. ~Small(c)
  BY <1>2, Sizes DEF Small
<1> QED BY <1>1, <1>2, <1>3 DEF c

LEMMA CheckSame ==
  ASSUME NEW sent \in Seq(1..6), Len(sent) < ByteValues, NEW m \in 1..Len(sent), NEW n \in 1..Len(sent),
         Check(sent[m], m) = Check(sent[n], n)
  PROVE  m = n
<1>1. sent[m] \in Nat /\ sent[n] \in Nat /\ m \in Nat /\ n \in Nat /\ m < ByteValues /\ n < ByteValues
  <2>1. sent[m] \in 1..6 /\ m < ByteValues /\ sent[n] \in 1..6 /\ n < ByteValues
    BY CheckRange
  <2>2. \A x \in 1..6 : x \in Nat
    OBVIOUS
  <2>3. m \in Nat /\ n \in Nat
    OBVIOUS
  <2> QED BY <2>1, <2>2, <2>3
<1> QED BY <1>1, CheckTells

\* A CRC that is right is that of a frame that was sent, and stands at its end.
LEMMA CrcTells ==
  ASSUME NEW P, NEW sent, NEW got, NEW R, Checked(P, sent, got, R), NEW t \in 4..Len(P),
         P[t] = Crc(SubSeq(P, 3, t - 1))
  PROVE  t = 5 /\ \E n \in 1..Len(sent) : P[3] = sent[n] /\ P[4] = n /\ P[5] = Check(sent[n], n)
<1> DEFINE d == SubSeq(P, 3, t - 1)
           B == ByteValues
<1>1. P \in Seq(Nat) /\ Len(P) \in Nat /\ t \in Nat /\ t >= 4 /\ t <= Len(P)
  BY DEF Checked
<1>2. d \in Seq(Nat) /\ Len(d) = t - 3 /\ \A i \in 1..t - 3 : d[i] = P[i + 2]
  <2>1. CanPart(Nat, P, 2, t - 1)
    BY <1>1, PartTyped
  <2>2. d \in Seq(Nat) /\ Len(d) = (t - 1) - 2
    BY <2>1 DEF CanPart
  <2>3. \A i \in 1..t - 3 : d[i] = P[i + 2]
    BY <1>1
  <2> QED BY <1>1, <2>2, <2>3
<1> HIDE DEF d
<1>3. P[t] = Crc(d)
  BY DEF d
<1>4. /\ sent \in Seq(1..6) /\ Len(sent) < B
      /\ \A i \in 1..Len(P) : Small(P[i]) \/ \E n \in 1..Len(sent) : P[i] = Check(sent[n], n)
  BY DEF Checked, CrcsKnown
<1>5. B \in Nat /\ B >= 8 /\ Square \in Nat /\ Square >= 8 * B /\ B * Square \in Nat /\ B * Square >= 8 * Square
  BY Sizes
<1>6. \A i \in 1..Len(P) : /\ P[i] \in Nat
                           /\ P[i] < B \/ (16 * Square <= P[i] /\ P[i] < 16 * Square + 7 * B)
  <2> SUFFICES ASSUME NEW i \in 1..Len(P)
               PROVE  P[i] \in Nat /\ (P[i] < B \/ (16 * Square <= P[i] /\ P[i] < 16 * Square + 7 * B))
    OBVIOUS
  <2>1. P[i] \in Nat
    BY <1>1
  <2>2. CASE Small(P[i])
    BY <1>5, <2>1, <2>2 DEF Small
  <2>3. CASE \E n \in 1..Len(sent) : P[i] = Check(sent[n], n)
    <3>1. PICK n \in 1..Len(sent) : P[i] = Check(sent[n], n)
      BY <2>3
    <3>2. 16 * Square <= Check(sent[n], n) /\ Check(sent[n], n) < 16 * Square + 7 * B
      BY <1>4, CheckRange
    <3> QED BY <2>1, <3>1, <3>2
  <2> QED BY <1>4, <2>2, <2>3
<1>7. t \in 1..Len(P) /\ 3 \in 1..Len(P) /\ (t >= 5 => 4 \in 1..Len(P))
  BY <1>1
<1>8. P[t] < 16 * Square + 7 * B /\ P[t] \in Nat
  BY <1>5, <1>6, <1>7
<1>9. t # 4
  <2> SUFFICES ASSUME t = 4 PROVE FALSE
    OBVIOUS
  <2>1. Len(d) = 1 /\ d[1] = P[3]
    BY <1>2
  <2>2. P[4] = 16 * B + P[3]
    BY <1>2, <1>3, <2>1, OtherCrcs
  <2>3. P[3] \in Nat /\ P[4] \in Nat /\ P[4] >= 16 * Square
    BY <1>5, <1>6, <1>7, <2>2
  <2>4. P[3] >= 16 * Square
    BY <1>5, <1>6, <1>7, <2>2, <2>3
  <2> QED BY <1>5, <1>8, <2>2, <2>3, <2>4
<1>10. ~(t >= 6)
  <2> SUFFICES ASSUME t >= 6 PROVE FALSE
    OBVIOUS
  <2>1. Len(d) >= 3
    BY <1>1, <1>2
  <2>2. Crc(d) >= 16 * (B * Square)
    BY <1>2, <2>1, OtherCrcs
  <2> DEFINE z == B * Square
  <2>3. z \in Nat /\ z >= 8 * Square /\ P[t] >= 16 * z
    BY <1>3, <1>5, <2>2
  <2> HIDE DEF z
  <2> QED BY <1>5, <1>8, <2>3
<1>11. t = 5
  BY <1>1, <1>9, <1>10
<1>12. Len(d) = 2 /\ d[1] = P[3] /\ d[2] = P[4] /\ P[3] \in Nat /\ P[4] \in Nat /\ 4 \in 1..Len(P)
  BY <1>2, <1>6, <1>7, <1>11
<1>13. P[5] = B * (B * 16 + P[3]) + P[4]
  BY <1>2, <1>3, <1>11, <1>12, OtherCrcs
<1>14. B * (B * 16 + P[3]) = 16 * Square + B * P[3]
  <2>1. B * (B * 16 + P[3]) = B * (B * 16) + B * P[3]
    BY <1>5, <1>12
  <2>2. B * (B * 16) = 16 * (B * B)
    BY <1>5
  <2> QED BY <2>1, <2>2 DEF Square
<1>15. B * P[3] \in Nat
  BY <1>5, <1>12
<1>16. P[5] = 16 * Square + B * P[3] + P[4]
  BY <1>13, <1>14
<1>17. P[5] = Check(P[3], P[4])
  BY <1>13, <1>14 DEF Check
<1>18. P[3] < B
  <2> SUFFICES ASSUME P[3] >= 16 * Square PROVE FALSE
    BY <1>6, <1>7
  <2>1. B * (16 * Square) <= B * P[3] /\ B * P[3] \in Nat
    BY <1>5, <1>12, Products
  <2>2. B * (16 * Square) = 16 * (B * Square)
    BY <1>5
  <2> DEFINE z == B * Square
             y == B * P[3]
  <2>3. P[5] = 16 * Square + y + P[4] /\ y \in Nat /\ y >= 16 * z /\ z \in Nat /\ z >= 8 * Square
    BY <1>5, <1>13, <1>14, <2>1, <2>2
  <2> HIDE DEF y, z
  <2> QED BY <1>5, <1>8, <1>11, <1>12, <2>3
<1>19. P[4] < B
  <2> SUFFICES ASSUME P[4] >= 16 * Square PROVE FALSE
    BY <1>6, <1>12
  <2> DEFINE y == B * P[3]
  <2>1. P[5] = 16 * Square + y + P[4] /\ y \in Nat
    BY <1>15, <1>16
  <2> HIDE DEF y
  <2> QED BY <1>5, <1>8, <1>11, <1>12, <2>1
<1>20. ~Small(P[5])
  <2> DEFINE y == B * P[3]
  <2>1. P[5] = 16 * Square + y + P[4] /\ y \in Nat
    BY <1>15, <1>16
  <2> HIDE DEF y
  <2> QED BY <1>5, <1>12, <2>1 DEF Small
<1>21. PICK n \in 1..Len(sent) : P[5] = Check(sent[n], n)
  BY <1>4, <1>7, <1>11, <1>20
<1>22. sent[n] \in Nat /\ n \in Nat /\ n < B
  <2>1. sent[n] \in 1..6 /\ n < B
    BY <1>4, CheckRange
  <2>2. \A x \in 1..6 : x \in Nat
    OBVIOUS
  <2> QED BY <1>4, <2>1, <2>2
<1>23. P[3] = sent[n] /\ P[4] = n
  <2>1. Check(P[3], P[4]) = Check(sent[n], n)
    BY <1>17, <1>21
  <2> QED BY <1>12, <1>18, <1>19, <1>22, <2>1, CheckTells
<1> QED BY <1>11, <1>21, <1>23

\* The frame in front is taken.
LEMMA CheckedTake ==
  ASSUME NEW P, NEW sent, NEW got, NEW R, Checked(P, sent, got, R), Len(P) >= 5,
         NEW n \in 1..Len(sent), P[5] = Check(sent[n], n),
         NEW rec \in R, rec.n = n, rec.kind = sent[n]
  PROVE  Checked(Cut(P, 5), sent, Append(got, rec), R)
<1> DEFINE Q == Cut(P, 5)
           G == Append(got, rec)
<1>1. P \in Seq(Nat) /\ Len(P) \in Nat /\ got \in Seq(R) /\ Len(got) \in Nat /\ sent \in Seq(1..6)
      /\ Len(sent) < ByteValues
  BY DEF Checked
<1>2. 5 \in 0..Len(P) /\ 5 \in 1..Len(P)
  BY <1>1
<1>3. Checked(Q, sent, got, R)
  BY <1>2, CheckedCut
<1>4. Q \in Seq(Nat) /\ Len(Q) = Len(P) - 5 /\ \A i \in 1..Len(P) - 5 : Q[i] = P[5 + i]
  BY <1>1, <1>2, CutIs
<1>5. G \in Seq(R) /\ Len(G) = Len(got) + 1 /\ G[Len(got) + 1] = rec /\ \A h \in 1..Len(got) : G[h] = got[h]
  BY <1>1
<1> HIDE DEF Q, G
<1>6. \A h \in 1..Len(G) : h \in 1..Len(got) \/ h = Len(got) + 1
  BY <1>1, <1>5
<1>7. CrcsAfter(Q, sent, G)
  <2> SUFFICES ASSUME NEW i \in 1..Len(Q), NEW m \in 1..Len(sent), NEW h \in 1..Len(G),
                      Q[i] = Check(sent[m], m)
               PROVE  G[h].n < m
    BY DEF CrcsAfter
  <2>1. CASE h \in 1..Len(got)
    BY <1>3, <1>5, <2>1 DEF Checked, CrcsAfter
  <2>2. CASE h = Len(got) + 1
    <3>1. 5 + i \in 1..Len(P) /\ 5 < 5 + i /\ Q[i] = P[5 + i]
      BY <1>1, <1>4
    <3>2. n < m
      BY <1>2, <3>1 DEF Checked, CrcsRise
    <3> QED BY <1>5, <2>2, <3>2
  <2> QED BY <1>6, <2>1, <2>2
<1>8. GotSent(sent, G)
  <2> SUFFICES ASSUME NEW h \in 1..Len(G)
               PROVE  /\ G[h].n \in 1..Len(sent) /\ G[h].kind = sent[G[h].n]
                      /\ h > 1 => G[h - 1].n < G[h].n
    BY DEF GotSent
  <2>1. CASE h \in 1..Len(got)
    <3>1. h > 1 => h - 1 \in 1..Len(got)
      BY <1>1, <2>1
    <3>2. /\ got[h].n \in 1..Len(sent) /\ got[h].kind = sent[got[h].n]
          /\ h > 1 => got[h - 1].n < got[h].n
      BY <2>1 DEF Checked, GotSent
    <3> QED BY <1>5, <2>1, <3>1, <3>2
  <2>2. CASE h = Len(got) + 1
    <3>1. h > 1 => h - 1 \in 1..Len(got)
      BY <1>1, <2>2
    <3>2. \A x \in 1..Len(got) : got[x].n < n
      BY <1>2 DEF Checked, CrcsAfter
    <3> QED BY <1>5, <2>2, <3>1, <3>2
  <2> QED BY <1>6, <2>1, <2>2
<1> QED BY <1>3, <1>5, <1>7, <1>8 DEF Checked, Q, G

\* A frame arrives, or what is left of it: its CRC can only be the last byte.
LEMMA CheckedArrives ==
  ASSUME NEW P, NEW sent, NEW got, NEW R, Checked(P, sent, got, R), NEW k \in 1..6,
         NEW N, N = Len(sent) + 1, N < ByteValues, NEW g \in Seq(Nat),
         \A i \in 1..Len(g) : Small(g[i]) \/ (g[i] = Check(k, N) /\ i = Len(g))
  PROVE  Checked(P \o g, Append(sent, k), got, R)
<1> DEFINE Q == P \o g
           more == Append(sent, k)
<1>1. /\ P \in Seq(Nat) /\ Len(P) \in Nat /\ got \in Seq(R) /\ Len(got) \in Nat
      /\ sent \in Seq(1..6) /\ Len(sent) \in Nat /\ N \in Nat /\ Len(sent) < ByteValues /\ Len(g) \in Nat
  BY DEF Checked
<1>2. Q \in Seq(Nat) /\ Len(Q) = Len(P) + Len(g)
  BY <1>1, JoinIs
<1>3. \A i \in 1..Len(Q) : \/ i \in 1..Len(P) /\ Q[i] = P[i]
                           \/ i - Len(P) \in 1..Len(g) /\ Q[i] = g[i - Len(P)]
  BY <1>1, JoinAt
<1>4. more \in Seq(1..6) /\ Len(more) = N /\ more[N] = k /\ \A n \in 1..Len(sent) : more[n] = sent[n]
  BY <1>1
<1> HIDE DEF Q, more
<1>5. \A n \in 1..N : (n \in 1..Len(sent) /\ more[n] = sent[n]) \/ n = N
  BY <1>1, <1>4
<1>6. \A n \in 1..N : ~Small(Check(more[n], n))
  BY <1>4, CheckRange
<1>7. \A m, n \in 1..N : Check(more[m], m) = Check(more[n], n) => m = n
  BY <1>4, CheckSame
<1>8. N \in 1..N /\ \A n \in 1..Len(sent) : n \in 1..N /\ n < N
  BY <1>1
\* What stands where.
<1>9. ASSUME NEW i \in 1..Len(Q), NEW n \in 1..N, Q[i] = Check(more[n], n)
      PROVE  \/ i \in 1..Len(P) /\ n \in 1..Len(sent) /\ P[i] = Check(sent[n], n)
             \/ i = Len(Q) /\ n = N
  <2>1. CASE i \in 1..Len(P) /\ Q[i] = P[i]
    <3>1. PICK m \in 1..Len(sent) : P[i] = Check(sent[m], m)
      BY <1>6, <1>9, <2>1 DEF Checked, CrcsKnown
    <3>2. m = n
      BY <1>4, <1>7, <1>8, <1>9, <2>1, <3>1
    <3> QED BY <2>1, <3>1, <3>2
  <2>2. CASE i - Len(P) \in 1..Len(g) /\ Q[i] = g[i - Len(P)]
    <3>1. g[i - Len(P)] = Check(k, N) /\ i - Len(P) = Len(g)
      BY <1>6, <1>9, <2>2
    <3>2. n = N
      BY <1>4, <1>7, <1>8, <1>9, <2>2, <3>1
    <3>3. i = Len(Q)
      BY <1>1, <1>2, <3>1
    <3> QED BY <3>2, <3>3
  <2> QED BY <1>3, <2>1, <2>2
<1>10. CrcsKnown(Q, more)
  <2> SUFFICES ASSUME NEW i \in 1..Len(Q), ~Small(Q[i])
               PROVE  \E n \in 1..Len(more) : Q[i] = Check(more[n], n)
    BY DEF CrcsKnown
  <2>1. CASE i \in 1..Len(P) /\ Q[i] = P[i]
    <3>1. PICK m \in 1..Len(sent) : P[i] = Check(sent[m], m)
      BY <2>1 DEF Checked, CrcsKnown
    <3> QED BY <1>4, <1>8, <2>1, <3>1
  <2>2. CASE i - Len(P) \in 1..Len(g) /\ Q[i] = g[i - Len(P)]
    BY <1>4, <1>8, <2>2
  <2> QED BY <1>3, <2>1, <2>2
<1>11. CrcsRise(Q, more)
  <2> SUFFICES ASSUME NEW i \in 1..Len(Q), NEW j \in 1..Len(Q), NEW m \in 1..N, NEW n \in 1..N,
                      i < j, Q[i] = Check(more[m], m), Q[j] = Check(more[n], n)
               PROVE  m < n
    BY <1>4 DEF CrcsRise
  <2>1. i \in 1..Len(P) /\ m \in 1..Len(sent) /\ P[i] = Check(sent[m], m)
    <3>1. i # Len(Q)
      BY <1>1, <1>2
    <3> QED BY <1>9, <3>1
  <2>2. CASE j \in 1..Len(P) /\ n \in 1..Len(sent) /\ P[j] = Check(sent[n], n)
    BY <2>1, <2>2 DEF Checked, CrcsRise
  <2>3. CASE n = N
    BY <1>8, <2>1, <2>3
  <2> QED BY <1>9, <2>2, <2>3
<1>12. \A h \in 1..Len(got) : got[h].n \in 1..Len(sent)
  BY DEF Checked, GotSent
<1>13. CrcsAfter(Q, more, got)
  <2> SUFFICES ASSUME NEW i \in 1..Len(Q), NEW n \in 1..N, NEW h \in 1..Len(got), Q[i] = Check(more[n], n)
               PROVE  got[h].n < n
    BY <1>4 DEF CrcsAfter
  <2>1. CASE i \in 1..Len(P) /\ n \in 1..Len(sent) /\ P[i] = Check(sent[n], n)
    BY <2>1 DEF Checked, CrcsAfter
  <2>2. CASE n = N
    BY <1>8, <1>12, <2>2
  <2> QED BY <1>9, <2>1, <2>2
<1>14. GotSent(more, got)
  <2> SUFFICES ASSUME NEW h \in 1..Len(got)
               PROVE  /\ got[h].n \in 1..Len(more) /\ got[h].kind = more[got[h].n]
                      /\ h > 1 => got[h - 1].n < got[h].n
    BY DEF GotSent
  <2>1. /\ got[h].n \in 1..Len(sent) /\ got[h].kind = sent[got[h].n]
        /\ h > 1 => got[h - 1].n < got[h].n
    BY DEF Checked, GotSent
  <2> QED BY <1>4, <1>8, <2>1
<1> QED BY <1>1, <1>2, <1>4, <1>10, <1>11, <1>13, <1>14 DEF Checked, Q, more

\* A frame, whole or damaged, has its CRC at its end or not at all.
LEMMA FrameBytes ==
  ASSUME NEW k \in 1..6, NEW n \in Nat, n < ByteValues
  PROVE  \A g \in {FrameOf(k, n)} \cup DamagedFrames(FrameOf(k, n)) :
           /\ g \in Seq(Nat) /\ Len(g) \in 4..5
           /\ \A i \in 1..Len(g) : Small(g[i]) \/ (g[i] = Check(k, n) /\ i = Len(g))
<1> DEFINE f == FrameOf(k, n)
           c == Check(k, n)
           Good(g) == /\ g \in Seq(Nat) /\ Len(g) \in 4..5
                      /\ \A i \in 1..Len(g) : Small(g[i]) \/ (g[i] = c /\ i = Len(g))
<1>1. f = <<Sync, 3, k, n, c>> /\ c \in Nat
  BY CheckIs DEF FrameOf
<1>2. Small(Sync) /\ Small(3) /\ Small(k) /\ Small(n) /\ \A b \in Junk : Small(b) /\ b \in Nat
  <2>1. ByteValues \in Nat /\ ByteValues >= 8 /\ Sync \in 0..ByteValues - 1 /\ Junk \subseteq 0..ByteValues - 1
    BY LineAssumption
  <2> QED BY <2>1 DEF Small
<1>3. Sync \in Nat
  BY LineAssumption
<1> HIDE DEF f, c
<1>4. /\ f \in Seq(Nat) /\ Len(f) = 5 /\ DOMAIN f = 1..5
      /\ f[1] = Sync /\ f[2] = 3 /\ f[3] = k /\ f[4] = n /\ f[5] = c
  BY <1>1, <1>3
<1>5. \A i \in 1..5 : (i # 5 /\ Small(f[i])) \/ (i = 5 /\ f[i] = c)
  BY <1>2, <1>4
<1>6. Good(f)
  BY <1>4, <1>5
<1>7. ASSUME NEW i \in 1..5, NEW b \in Junk PROVE Good(ReplaceAt(f, i, b))
  <2> DEFINE g == ReplaceAt(f, i, b)
  <2>1. g \in Seq(Nat) /\ Len(g) = 5 /\ \A x \in 1..5 : g[x] = IF x = i THEN b ELSE f[x]
    <3>1. i \in 1..Len(f) /\ b \in Nat /\ Len(f) = 5
      BY <1>2, <1>4
    <3>2. IsReplaced(Nat, f, i, b, g)
      BY <1>4, <3>1, ReplacedIs
    <3> HIDE DEF g
    <3> QED BY <3>1, <3>2 DEF IsReplaced
  <2> HIDE DEF g
  <2>2. Good(g)
    BY <1>2, <1>5, <2>1
  <2> QED BY <2>2 DEF g
<1>8. ASSUME NEW i \in 1..5 PROVE Good(RemoveAt(f, i))
  <2> DEFINE g == RemoveAt(f, i)
  <2>1. g \in Seq(Nat) /\ Len(g) = 4 /\ \A x \in 1..4 : g[x] = IF x < i THEN f[x] ELSE f[x + 1]
    <3>1. i \in 1..Len(f) /\ Len(f) = 5 /\ Len(f) - 1 = 4
      BY <1>4
    <3>2. /\ g \in Seq(Nat) /\ Len(g) = Len(f) - 1
          /\ \A x \in 1..Len(f) - 1 : g[x] = IF x < i THEN f[x] ELSE f[x + 1]
      BY <1>4, <3>1, RemovedIs
    <3> QED BY <3>1, <3>2
  <2> HIDE DEF g
  <2>2. ASSUME NEW x \in 1..4 PROVE Small(g[x]) \/ (g[x] = c /\ x = 4)
    <3>1. x \in 1..5 /\ x + 1 \in 1..5 /\ (x + 1 = 5 => x = 4) /\ x # 5
      OBVIOUS
    <3> QED BY <1>5, <2>1, <3>1
  <2>3. Good(g)
    BY <2>1, <2>2
  <2> QED BY <2>3 DEF g
<1>9. \A g \in DamagedFrames(f) : Good(g)
  <2> HIDE DEF Good
  <2> QED BY <1>4, <1>7, <1>8 DEF DamagedFrames
<1> QED BY <1>6, <1>9 DEF f, c

(***************************************************************************)
(* The receiver's parser takes what was sent. The bytes on their way are   *)
(* those of the buffer and then those of the line.                         *)
(***************************************************************************)
FcRecords == [n : Nat, kind : Nat, queued : BOOLEAN]
BytesOf(l) == [i \in 1..Len(l) |-> l[i][1]]
FcChecked == Checked(tlmBuf \o BytesOf(fcLine), fcSent, fcTaken, FcRecords)

LEMMA BytesTyped ==
  ASSUME NEW l \in Seq(Nat \X Nat)
  PROVE  BytesOf(l) \in Seq(Nat) /\ Len(BytesOf(l)) = Len(l) /\ \A i \in 1..Len(l) : BytesOf(l)[i] = l[i][1]
<1>1. \A i \in 1..Len(l) : l[i][1] \in Nat
  OBVIOUS
<1>2. Len(l) \in Nat
  OBVIOUS
<1> QED BY <1>1, <1>2 DEF BytesOf

LEMMA TailIs ==
  ASSUME NEW S, NEW l \in Seq(S), l # <<>>
  PROVE  /\ Tail(l) \in Seq(S) /\ Len(Tail(l)) = Len(l) - 1 /\ Head(l) = l[1] /\ 1 \in 1..Len(l)
         /\ \A i \in 1..Len(l) - 1 : Tail(l)[i] = l[i + 1]
OBVIOUS

\* A byte moves from the line to the buffer.
LEMMA ByteMoved ==
  ASSUME NEW l \in Seq(Nat \X Nat), l # <<>>, NEW s \in Seq(Nat)
  PROVE  s \o BytesOf(l) = Append(s, Head(l)[1]) \o BytesOf(Tail(l))
<1> DEFINE T == Tail(l)
           b == Head(l)[1]
           u == Append(s, b)
           X == BytesOf(l)
           Y == BytesOf(T)
           p == s \o X
           q == u \o Y
<1>1. /\ T \in Seq(Nat \X Nat) /\ Len(T) = Len(l) - 1 /\ Head(l) = l[1] /\ 1 \in 1..Len(l)
      /\ \A i \in 1..Len(l) - 1 : T[i] = l[i + 1]
  <2> DEFINE S == Nat \X Nat
  <2>1. l \in Seq(S)
    OBVIOUS
  <2> HIDE DEF S
  <2> QED BY <2>1, TailIs DEF S
<1>2. b = l[1][1] /\ b \in Nat /\ Len(l) \in Nat /\ Len(s) \in Nat
  BY <1>1
<1>3. u \in Seq(Nat) /\ Len(u) = Len(s) + 1 /\ u[Len(s) + 1] = b /\ \A i \in 1..Len(s) : u[i] = s[i]
  BY <1>2
<1>4. X \in Seq(Nat) /\ Len(X) = Len(l) /\ \A i \in 1..Len(l) : X[i] = l[i][1]
  BY BytesTyped
<1>5. Y \in Seq(Nat) /\ Len(Y) = Len(T) /\ \A i \in 1..Len(T) : Y[i] = T[i][1]
  BY <1>1, BytesTyped
<1> HIDE DEF u, X, Y, T, b
<1>6. p \in Seq(Nat) /\ Len(p) = Len(s) + Len(X) /\ q \in Seq(Nat) /\ Len(q) = Len(u) + Len(Y)
  BY <1>3, <1>4, <1>5, JoinIs
<1>7. \A i \in 1..Len(p) : \/ i \in 1..Len(s) /\ p[i] = s[i]
                           \/ i - Len(s) \in 1..Len(X) /\ p[i] = X[i - Len(s)]
  BY <1>4, JoinAt
<1>8. \A i \in 1..Len(q) : \/ i \in 1..Len(u) /\ q[i] = u[i]
                           \/ i - Len(u) \in 1..Len(Y) /\ q[i] = Y[i - Len(u)]
  BY <1>3, <1>5, JoinAt
<1> HIDE DEF p, q
<1>9. Len(p) = Len(q)
  BY <1>1, <1>2, <1>3, <1>4, <1>5, <1>6
<1>10. ASSUME NEW i \in 1..Len(p) PROVE p[i] = q[i]
  <2>1. i \in 1..Len(q) /\ i \in Nat
    BY <1>9
  <2>2. CASE i <= Len(s)
    <3>1. i \in 1..Len(s) /\ i \in 1..Len(u)
      BY <1>2, <1>3, <2>1, <2>2
    <3>2. ~(i - Len(s) >= 1)
      BY <1>2, <2>1, <2>2
    <3>3. ~(i - Len(u) >= 1)
      BY <1>2, <1>3, <2>1, <2>2
    <3>4. ~(i - Len(s) \in 1..Len(X)) /\ ~(i - Len(u) \in 1..Len(Y))
      BY <3>2, <3>3
    <3> QED BY <1>3, <1>7, <1>8, <2>1, <3>1, <3>4
  <2>3. CASE i = Len(s) + 1
    <3>1. ~(i \in 1..Len(s)) /\ ~(i - Len(u) \in 1..Len(Y)) /\ i - Len(s) = 1
      BY <1>2, <1>3, <2>3
    <3>2. p[i] = X[1] /\ q[i] = u[i]
      BY <1>7, <1>8, <2>1, <3>1
    <3> QED BY <1>1, <1>2, <1>3, <1>4, <2>3, <3>2
  <2>4. CASE i > Len(s) + 1
    <3>1. ~(i \in 1..Len(s)) /\ ~(i \in 1..Len(u)) /\ i - Len(s) = (i - Len(u)) + 1
      BY <1>2, <1>3, <2>1, <2>4
    <3>2. p[i] = X[i - Len(s)] /\ q[i] = Y[i - Len(u)] /\ i - Len(u) \in 1..Len(Y) /\ i - Len(s) \in 1..Len(X)
      BY <1>7, <1>8, <2>1, <3>1
    <3> DEFINE j == i - Len(u)
    <3>3. j \in 1..Len(T) /\ j \in 1..Len(l) - 1 /\ j + 1 \in 1..Len(l) /\ i - Len(s) = j + 1
      BY <1>1, <1>4, <1>5, <3>1, <3>2
    <3>4. Y[j] = T[j][1] /\ T[j] = l[j + 1] /\ X[j + 1] = l[j + 1][1]
      BY <1>1, <1>4, <1>5, <3>3
    <3> QED BY <3>2, <3>3, <3>4
  <2> QED BY <1>2, <2>1, <2>2, <2>3, <2>4
<1>11. p = q
  BY <1>6, <1>9, <1>10, Same
<1> QED BY <1>11 DEF p, q, u, X, Y, T, b

\* A byte b in state st with s in the buffer and r still on the line.
LEMMA HandleChecks ==
  ASSUME NEW st, NEW s, Shape(st, s), NEW b \in Nat, NEW r \in Seq(Nat), Handle(st, s, b),
         Checked(Append(s, b) \o r, fcSent, fcTaken, FcRecords)
  PROVE  Checked(tlmBuf' \o r, fcSent, fcTaken', FcRecords)
<1> DEFINE t == Append(s, b)
           P == t \o r
<1>1. /\ s \in Seq(Nat) /\ Len(s) \in Nat /\ t \in Seq(Nat) /\ Len(t) = Len(s) + 1 /\ t[Len(t)] = b
      /\ \A i \in 1..Len(s) : t[i] = s[i]
  BY DEF Shape
<1> HIDE DEF t
<1>2. Checked(P, fcSent, fcTaken, FcRecords)
  BY DEF t
<1>3. /\ P \in Seq(Nat) /\ Len(P) = Len(t) + Len(r) /\ Len(r) \in Nat
      /\ \A i \in 1..Len(t) : P[i] = t[i]
  <2>1. /\ t \o r \in Seq(Nat) /\ Len(t \o r) = Len(t) + Len(r)
        /\ \A i \in 1..Len(t) : (t \o r)[i] = t[i]
    BY <1>1, JoinIs
  <2>2. Len(r) \in Nat
    OBVIOUS
  <2> QED BY <2>1, <2>2
\* The buffer is dropped.
<1>4. <<>> \in Seq(Nat) /\ <<>> \o r = r
  OBVIOUS
<1>5. Checked(<<>> \o r, fcSent, fcTaken, FcRecords)
  <2>1. Len(t) \in 0..Len(t) /\ Len(t) \in 0..Len(P)
    BY <1>1, <1>3
  <2>2. Cut(P, Len(t)) = Cut(t, Len(t)) \o r
    BY <1>1, <2>1, CutJoined
  <2>3. Cut(t, Len(t)) \in Seq(Nat) /\ Len(Cut(t, Len(t))) = Len(t) - Len(t)
    BY <1>1, <2>1, CutIs
  <2>4. Len(Cut(t, Len(t))) = 0
    <3>1. Len(t) \in Nat
      BY <1>1
    <3> QED BY <2>3, <3>1
  <2>6. Cut(t, Len(t)) = <<>>
    BY <2>3, <2>4
  <2>5. Checked(Cut(P, Len(t)), fcSent, fcTaken, FcRecords)
    BY <1>2, <2>1, CheckedCut
  <2> QED BY <2>2, <2>5, <2>6
<1>6. CASE st = "idle"
  <2>1. s = <<>>
    BY <1>6 DEF Shape
  <2>2. t = <<b>>
    BY <2>1 DEF t
  <2>3. fcTaken' = fcTaken /\ (tlmBuf' = t \/ tlmBuf' = <<>>)
    BY <1>6, <2>2 DEF Handle, Nothing
  <2> QED BY <1>2, <1>5, <2>3
<1>7. CASE st = "length"
  <2>1. fcTaken' = fcTaken /\ (tlmBuf' = t \/ tlmBuf' = <<>>)
    BY <1>7 DEF Handle, Nothing, t
  <2> QED BY <1>2, <1>5, <2>1
<1>8. CASE st = "data"
  <2> DEFINE over == Len(t) = t[2] + 2
             right == b = Crc(SubSeq(t, 3, Len(t) - 1))
  <2>1. /\ tlmBuf' = IF over THEN <<>> ELSE t
        /\ IF over /\ right THEN TakeFrame(t) ELSE fcTaken' = fcTaken
    BY <1>8 DEF Handle, Nothing, t
  <2>2. CASE ~over
    BY <1>2, <2>1, <2>2
  <2>3. CASE over /\ ~right
    BY <1>5, <2>1, <2>3
  <2>4. CASE over /\ right
    <3>1. Len(s) >= 2 /\ s[2] \in 2..MaxTelemetryLen - 2 /\ MaxTelemetryLen \in Nat
      BY <1>8, ParserAssumption DEF Shape
    <3>2. t[2] = s[2]
      BY <1>1, <3>1
    <3>3. Len(t) \in 4..Len(t)
      BY <1>1, <2>4, <3>1, <3>2
    <3>4. Checked(t, fcSent, fcTaken, FcRecords)
      BY <1>1, <1>2, CheckedFirst
    <3>5. t[Len(t)] = Crc(SubSeq(t, 3, Len(t) - 1))
      BY <1>1, <2>4
    <3>6. Len(t) = 5 /\ \E n \in 1..Len(fcSent) : t[3] = fcSent[n] /\ t[4] = n /\ t[5] = Check(fcSent[n], n)
      BY <3>3, <3>4, <3>5, CrcTells
    <3>7. PICK n \in 1..Len(fcSent) : t[3] = fcSent[n] /\ t[4] = n /\ t[5] = Check(fcSent[n], n)
      BY <3>6
    <3> DEFINE rec == [n |-> t[4], kind |-> t[3], queued |-> t[3] # Heartbeat /\ t[3] \notin Internal]
    <3>8. fcTaken' = Append(fcTaken, rec) /\ tlmBuf' = <<>>
      BY <2>1, <2>4 DEF TakeFrame
    <3>9. rec \in FcRecords /\ rec.n = n /\ rec.kind = fcSent[n]
      <4>1. t[3] \in Nat /\ t[4] \in Nat
        <5>1. 3 \in 1..Len(t) /\ 4 \in 1..Len(t)
          BY <3>6
        <5> QED BY <1>1, <5>1
      <4> QED BY <3>7, <4>1 DEF FcRecords
    <3> HIDE DEF rec
    <3>10. Len(P) >= 5 /\ P[5] = Check(fcSent[n], n)
      BY <1>3, <3>6, <3>7
    <3>11. Checked(Cut(P, 5), fcSent, Append(fcTaken, rec), FcRecords)
      BY <1>2, <3>9, <3>10, CheckedTake
    <3>12. Cut(P, 5) = <<>> \o r
      <4>1. 5 \in 0..Len(t)
        BY <3>6
      <4>2. Cut(P, 5) = Cut(t, 5) \o r
        BY <1>1, <4>1, CutJoined
      <4>3. Cut(t, 5) \in Seq(Nat) /\ Len(Cut(t, 5)) = Len(t) - 5
        BY <1>1, <4>1, CutIs
      <4>4. Len(Cut(t, 5)) = 0
        BY <3>6, <4>3
      <4>5. Cut(t, 5) = <<>>
        BY <4>3, <4>4
      <4> QED BY <4>2, <4>5
    <3> QED BY <3>8, <3>11, <3>12
  <2> QED BY <2>2, <2>3, <2>4
<1> QED BY <1>6, <1>7, <1>8 DEF Shape

LEMMA ByteChecks == ParserInv /\ FcChecked /\ HandleUARTin => FcChecked'
<1> SUFFICES ASSUME ParserInv, FcChecked, HandleUARTin PROVE FcChecked'
  OBVIOUS
<1> DEFINE b == Head(fcLine)[1]
           r == BytesOf(Tail(fcLine))
<1>1. /\ fcLine # <<>> /\ fcLine \in Seq(Nat \X Nat) /\ fcLine' = Tail(fcLine) /\ fcSent' = fcSent
      /\ Shape(tlmState, tlmBuf) /\ tlmBuf \in Seq(Nat)
  BY DEF HandleUARTin, ParserInv, Shape
<1>2. b \in Nat /\ Tail(fcLine) \in Seq(Nat \X Nat)
  BY <1>1
<1>3. r \in Seq(Nat)
  BY <1>2, BytesTyped
<1>4. Handle("idle", <<>>, b) \/ Handle(tlmState, tlmBuf, b)
  BY Zenon DEF HandleUARTin
<1>5. tlmBuf \o BytesOf(fcLine) = Append(tlmBuf, b) \o r
  BY <1>1, ByteMoved
<1> HIDE DEF b, r
<1>6. Checked(Append(tlmBuf, b) \o r, fcSent, fcTaken, FcRecords)
  BY <1>5 DEF FcChecked
<1>7. CASE Handle(tlmState, tlmBuf, b)
  BY <1>1, <1>2, <1>3, <1>6, <1>7, HandleChecks DEF FcChecked, r
<1>8. CASE Handle("idle", <<>>, b)
  <2> DEFINE t == Append(tlmBuf, b)
             e == Append(<<>>, b)
             m == Len(tlmBuf)
  <2>1. /\ t \in Seq(Nat) /\ Len(t) = m + 1 /\ m \in Nat /\ t[m + 1] = b
        /\ e \in Seq(Nat) /\ Len(e) = 1 /\ e[1] = b
    BY <1>1, <1>2
  <2> HIDE DEF t, e, m
  <2>2. m \in 0..Len(t)
    BY <2>1
  <2>3. Cut(t, m) \in Seq(Nat) /\ Len(Cut(t, m)) = 1 /\ Cut(t, m)[1] = b
    <3>1. /\ Cut(t, m) \in Seq(Nat) /\ Len(Cut(t, m)) = Len(t) - m
          /\ \A i \in 1..Len(t) - m : Cut(t, m)[i] = t[m + i]
      BY <2>1, <2>2, CutIs
    <3>2. Len(t) - m = 1 /\ 1 \in 1..1
      BY <2>1
    <3> QED BY <2>1, <3>1, <3>2
  <2>4. Cut(t, m) = e
    <3>1. \A i \in 1..Len(Cut(t, m)) : Cut(t, m)[i] = e[i]
      BY <2>1, <2>3
    <3> QED BY <2>1, <2>3, <3>1, Same
  <2>5. Cut(t \o r, m) = e \o r
    BY <1>3, <2>1, <2>2, <2>4, CutJoined
  <2>6. m \in 0..Len(t \o r)
    <3>1. Len(t \o r) = Len(t) + Len(r)
      BY <1>3, <2>1, JoinIs
    <3>2. Len(r) \in Nat
      BY <1>3
    <3> QED BY <2>1, <3>1, <3>2
  <2>7. Checked(e \o r, fcSent, fcTaken, FcRecords)
    BY <1>6, <2>5, <2>6, CheckedCut DEF t
  <2>8. Shape("idle", <<>>)
    BY DEF Shape
  <2>9. Checked(tlmBuf' \o r, fcSent, fcTaken', FcRecords)
    BY <1>2, <1>3, <1>8, <2>7, <2>8, HandleChecks DEF e
  <2> QED BY <1>1, <2>9 DEF FcChecked, r
<1> QED BY <1>4, <1>7, <1>8

\* What the line is after a frame, of which g is left, is sent.
FcArrives(g, k, n) ==
  /\ fcSent' = Append(fcSent, k) /\ k \in FcKinds /\ n = Len(fcSent) + 1 /\ n < ByteValues
  /\ fcLine' = fcLine \o [i \in 1..Len(g) |-> <<g[i], n>>]
  /\ \/ g = FrameOf(k, n) /\ fcDamaged' = fcDamaged
     \/ g \in DamagedFrames(FrameOf(k, n)) /\ fcDamaged' = fcDamaged \cup {n}

LEMMA KindsKnown == FcKinds \subseteq 1..6 /\ HandsetKinds \subseteq 1..6
BY ParserAssumption, HandsetAssumption
   DEF Sensor, Heartbeat, Internal, BindCommand, ModelMatch, ReceiverPing, Bootloader, Rc, Ping, Command, Msp

LEMMA FcSends ==
  ASSUME ParserInv, FcSend
  PROVE  /\ UNCHANGED <<tlmState, tlmBuf, sinceByte, fcTaken, clean, fcLast>>
         /\ \E g, k, n : FcArrives(g, k, n)
<1>1. PICK k \in FcKinds :
        LET n == Len(fcSent) + 1
            line(g) == fcLine \o [i \in DOMAIN g |-> <<g[i], n>>]
        IN /\ fcSent' = Append(fcSent, k)
           /\ \/ fcLine' = line(FrameOf(k, n)) /\ UNCHANGED fcDamaged
              \/ /\ fcDamaged' = fcDamaged \cup {n}
                 /\ \E g \in DamagedFrames(FrameOf(k, n)) : fcLine' = line(g)
  BY DEF FcSend
<1> DEFINE n == Len(fcSent) + 1
           line(g) == fcLine \o [i \in DOMAIN g |-> <<g[i], n>>]
<1>2. n \in Nat /\ n < ByteValues
  <2>1. Len(fcSent) \in Nat /\ Len(fcSent) < MaxFcFrames
    BY DEF ParserInv, FcSend
  <2> QED BY <2>1, ParserAssumption, Sizes
<1>3. k \in 1..6
  BY KindsKnown
<1>4. \A g \in {FrameOf(k, n)} \cup DamagedFrames(FrameOf(k, n)) : DOMAIN g = 1..Len(g)
  <2> HIDE DEF n
  <2>1. \A g \in {FrameOf(k, n)} \cup DamagedFrames(FrameOf(k, n)) : g \in Seq(Nat)
    BY <1>2, <1>3, FrameBytes
  <2> QED BY <2>1
<1>5. ASSUME NEW g \in {FrameOf(k, n)} \cup DamagedFrames(FrameOf(k, n))
      PROVE  line(g) = fcLine \o [i \in 1..Len(g) |-> <<g[i], n>>]
  <2>1. DOMAIN g = 1..Len(g)
    BY <1>4
  <2> HIDE DEF n
  <2> QED BY <2>1
<1> HIDE DEF line
<1>6. /\ fcSent' = Append(fcSent, k)
      /\ \/ fcLine' = line(FrameOf(k, n)) /\ fcDamaged' = fcDamaged
         \/ /\ fcDamaged' = fcDamaged \cup {n}
            /\ \E g \in DamagedFrames(FrameOf(k, n)) : fcLine' = line(g)
  BY <1>1, Zenon DEF line
<1> HIDE DEF n
<1>7. CASE fcLine' = line(FrameOf(k, n)) /\ fcDamaged' = fcDamaged
  <2>1. FcArrives(FrameOf(k, n), k, n)
    BY <1>2, <1>5, <1>6, <1>7 DEF FcArrives, n
  <2> QED BY <2>1 DEF FcSend
<1>8. ASSUME NEW g \in DamagedFrames(FrameOf(k, n)), fcLine' = line(g), fcDamaged' = fcDamaged \cup {n}
      PROVE  /\ UNCHANGED <<tlmState, tlmBuf, sinceByte, fcTaken, clean, fcLast>>
             /\ \E h, j, m : FcArrives(h, j, m)
  <2>1. FcArrives(g, k, n)
    BY <1>2, <1>5, <1>6, <1>8 DEF FcArrives, n
  <2> QED BY <2>1 DEF FcSend
<1> QED BY <1>6, <1>7, <1>8

\* A good frame f, number n, on its way: it has yet to come, or r bytes of it have.
Comes(l, f, n) ==
  \E p \in 1..Len(l) : /\ p + 4 <= Len(l) /\ \A i \in 1..5 : l[p + i - 1] = <<f[i], n>>
                       /\ \A j \in 1..Len(l) : l[j][2] = n => p <= j /\ j <= p + 4
RestOf(l, f, n, r) ==
  /\ r <= Len(l) /\ \A i \in 1..r : l[i] = <<f[5 - r + i], n>>
  /\ \A j \in 1..Len(l) : j > r => l[j][2] # n
Begun(st, s, f, r) ==
  /\ st = (IF r = 4 THEN "length" ELSE "data")
  /\ s \in Seq(Nat) /\ Len(s) = 5 - r /\ \A i \in 1..5 - r : s[i] = f[i]
HasTaken(n) == \E i \in 1..Len(fcTaken) : fcTaken[i].n = n
FrameWay(n) ==
  LET f == FrameOf(fcSent[n], n)
  IN /\ n > fcLast => Comes(fcLine, f, n)
     /\ n = fcLast => \E r \in 0..4 : /\ RestOf(fcLine, f, n, r)
                                      /\ n \in clean => IF r = 0 THEN HasTaken(n)
                                                        ELSE Begun(tlmState, tlmBuf, f, r)
     /\ n < fcLast /\ n \in clean => HasTaken(n)
FcNumbers ==
  /\ fcLast \in 0..Len(fcSent) /\ \A n \in clean : n <= fcLast
  /\ \A i \in 1..Len(fcLine) : fcLast <= fcLine[i][2]
  /\ \A i, j \in 1..Len(fcLine) : i < j => fcLine[i][2] <= fcLine[j][2]
FcStream == FcNumbers /\ \A n \in 1..Len(fcSent) : n \notin fcDamaged => FrameWay(n)
ParserResyncInv == ParserInv /\ FcChecked /\ FcStream

\* The bytes of a frame, and its CRC.
IsFrame(f, n) ==
  /\ f \in Seq(Nat) /\ Len(f) = 5 /\ f[1] = Sync /\ f[2] = 3 /\ f[4] = n
  /\ f[5] = Crc(<<f[3], f[4]>>)
LEMMA FrameIs ==
  ASSUME NEW k \in 1..6, NEW n \in Nat, n < ByteValues
  PROVE  IsFrame(FrameOf(k, n), n)
<1>1. Crc(<<k, n>>) = Check(k, n) /\ Check(k, n) \in Nat
  BY CheckIs
<1>2. Sync \in Nat
  BY LineAssumption
<1> DEFINE c == Crc(<<k, n>>)
<1>3. c \in Nat /\ FrameOf(k, n) = <<Sync, 3, k, n, c>>
  BY <1>1 DEF FrameOf
<1> HIDE DEF c
<1>4. c = Crc(<<k, n>>)
  BY DEF c
<1> QED BY <1>2, <1>3, <1>4 DEF IsFrame

LEMMA ElementIs ==
  ASSUME NEW S, NEW s \in Seq(S), NEW i \in 1..Len(s)
  PROVE  s[i] \in S
OBVIOUS

LEMMA AppendIs ==
  ASSUME NEW S, NEW s \in Seq(S), NEW b \in S
  PROVE  /\ Append(s, b) \in Seq(S) /\ Len(Append(s, b)) = Len(s) + 1
         /\ Append(s, b)[Len(s) + 1] = b /\ \A i \in 1..Len(s) : Append(s, b)[i] = s[i]
OBVIOUS

LEMMA ComesOn ==
  ASSUME NEW l \in Seq(Nat \X Nat), l # <<>>, NEW f, NEW n, Comes(l, f, n), Head(l)[2] # n
  PROVE  Comes(Tail(l), f, n)
<1> DEFINE t == Tail(l)
<1>1. /\ Len(l) \in Nat /\ Len(t) = Len(l) - 1 /\ Head(l) = l[1] /\ 1 \in 1..Len(l)
      /\ \A i \in 1..Len(l) - 1 : t[i] = l[i + 1]
  OBVIOUS
<1> HIDE DEF t
<1>2. PICK p \in 1..Len(l) : /\ p + 4 <= Len(l) /\ \A i \in 1..5 : l[p + i - 1] = <<f[i], n>>
                             /\ \A j \in 1..Len(l) : l[j][2] = n => p <= j /\ j <= p + 4
  BY DEF Comes
<1>3. p # 1
  <2> SUFFICES ASSUME p = 1 PROVE FALSE
    OBVIOUS
  <2>1. 1 \in 1..5 /\ p + 1 - 1 = 1
    OBVIOUS
  <2>2. l[1] = <<f[1], n>>
    BY <1>2, <2>1
  <2> QED BY <1>1, <2>2
<1> DEFINE q == p - 1
<1>4. q \in 1..Len(t) /\ q + 4 <= Len(t) /\ q \in Nat
  BY <1>1, <1>2, <1>3
<1>5. ASSUME NEW i \in 1..5 PROVE t[q + i - 1] = <<f[i], n>>
  <2>1. p \in Nat /\ q = p - 1
    BY <1>1
  <2> HIDE DEF q
  <2>2. (q + i - 1) + 1 = p + i - 1 /\ q + i - 1 <= q + 4 /\ q + i - 1 >= 1
    BY <1>4, <2>1
  <2>3. q + i - 1 \in 1..Len(l) - 1
    BY <1>1, <1>4, <2>2
  <2>4. l[p + i - 1] = <<f[i], n>>
    BY <1>2
  <2>5. t[q + i - 1] = l[(q + i - 1) + 1]
    BY <1>1, <2>3
  <2> QED BY <2>2, <2>4, <2>5
<1>6. ASSUME NEW j \in 1..Len(t), t[j][2] = n PROVE q <= j /\ j <= q + 4
  <2>1. j \in 1..Len(l) - 1 /\ j + 1 \in 1..Len(l)
    BY <1>1
  <2>2. p <= j + 1 /\ j + 1 <= p + 4
    BY <1>1, <1>2, <1>6, <2>1
  <2> QED BY <2>1, <2>2
<1> HIDE DEF q
<1> QED BY <1>4, <1>5, <1>6 DEF Comes, t

LEMMA ComesStarts ==
  ASSUME NEW l \in Seq(Nat \X Nat), l # <<>>, NEW f, NEW n, Comes(l, f, n), Head(l)[2] = n
  PROVE  Head(l)[1] = f[1] /\ RestOf(Tail(l), f, n, 4)
<1> DEFINE t == Tail(l)
<1>1. /\ Len(l) \in Nat /\ Len(t) = Len(l) - 1 /\ Head(l) = l[1] /\ 1 \in 1..Len(l)
      /\ \A i \in 1..Len(l) - 1 : t[i] = l[i + 1]
  OBVIOUS
<1> HIDE DEF t
<1>2. PICK p \in 1..Len(l) : /\ p + 4 <= Len(l) /\ \A i \in 1..5 : l[p + i - 1] = <<f[i], n>>
                             /\ \A j \in 1..Len(l) : l[j][2] = n => p <= j /\ j <= p + 4
  BY DEF Comes
<1>3. p = 1
  BY <1>1, <1>2
<1>4. ASSUME NEW i \in 1..5 PROVE l[i] = <<f[i], n>>
  <2>1. p + i - 1 = i
    BY <1>3
  <2>2. l[p + i - 1] = <<f[i], n>>
    BY <1>2
  <2> QED BY <2>1, <2>2
<1>5. 4 <= Len(t)
  BY <1>1, <1>2, <1>3
<1>6. ASSUME NEW i \in 1..4 PROVE t[i] = <<f[5 - 4 + i], n>>
  <2>1. i \in 1..Len(l) - 1 /\ i + 1 \in 1..5 /\ 5 - 4 + i = i + 1
    BY <1>1, <1>5
  <2> QED BY <1>1, <1>4, <2>1
<1>7. ASSUME NEW j \in 1..Len(t), j > 4 PROVE t[j][2] # n
  <2>1. j \in 1..Len(l) - 1 /\ j + 1 \in 1..Len(l) /\ ~(j + 1 <= p + 4)
    BY <1>1, <1>3, <1>7
  <2> QED BY <1>1, <1>2, <2>1
<1>8. Head(l)[1] = f[1]
  BY <1>1, <1>4
<1>9. RestOf(t, f, n, 4)
  BY <1>5, <1>6, <1>7 DEF RestOf
<1> QED BY <1>8, <1>9 DEF t

LEMMA RestOn ==
  ASSUME NEW l \in Seq(Nat \X Nat), l # <<>>, NEW f, NEW n, NEW r \in 0..4, RestOf(l, f, n, r), Head(l)[2] = n
  PROVE  r >= 1 /\ Head(l)[1] = f[6 - r] /\ RestOf(Tail(l), f, n, r - 1)
<1> DEFINE t == Tail(l)
<1>1. /\ Len(l) \in Nat /\ Len(t) = Len(l) - 1 /\ Head(l) = l[1] /\ 1 \in 1..Len(l)
      /\ \A i \in 1..Len(l) - 1 : t[i] = l[i + 1]
  OBVIOUS
<1> HIDE DEF t
<1>2. /\ r <= Len(l) /\ \A i \in 1..r : l[i] = <<f[5 - r + i], n>>
      /\ \A j \in 1..Len(l) : j > r => l[j][2] # n
  BY DEF RestOf
<1>3. r >= 1
  BY <1>1, <1>2
<1>4. l[1] = <<f[6 - r], n>>
  <2>1. 1 \in 1..r /\ 5 - r + 1 = 6 - r
    BY <1>3
  <2> QED BY <1>2, <2>1
<1>5. ASSUME NEW i \in 1..r - 1 PROVE t[i] = <<f[5 - (r - 1) + i], n>>
  <2>1. i \in 1..Len(l) - 1 /\ i + 1 \in 1..r /\ 5 - (r - 1) + i = 5 - r + (i + 1)
    BY <1>1, <1>2, <1>3
  <2> QED BY <1>1, <1>2, <2>1
<1>6. ASSUME NEW j \in 1..Len(t), j > r - 1 PROVE t[j][2] # n
  <2>1. j \in 1..Len(l) - 1 /\ j + 1 \in 1..Len(l) /\ j + 1 > r
    BY <1>1, <1>6
  <2> QED BY <1>1, <1>2, <2>1
<1>7. r - 1 <= Len(t)
  BY <1>1, <1>2
<1>8. RestOf(t, f, n, r - 1)
  BY <1>5, <1>6, <1>7 DEF RestOf
<1> QED BY <1>1, <1>3, <1>4, <1>8 DEF t

LEMMA RestGone ==
  ASSUME NEW l \in Seq(Nat \X Nat), l # <<>>, NEW f, NEW n, NEW r \in 0..4, RestOf(l, f, n, r), Head(l)[2] # n
  PROVE  r = 0 /\ RestOf(Tail(l), f, n, 0)
<1> DEFINE t == Tail(l)
<1>1. /\ Len(l) \in Nat /\ Len(t) = Len(l) - 1 /\ Head(l) = l[1] /\ 1 \in 1..Len(l)
      /\ \A i \in 1..Len(l) - 1 : t[i] = l[i + 1]
  OBVIOUS
<1> HIDE DEF t
<1>2. /\ \A i \in 1..r : l[i] = <<f[5 - r + i], n>>
      /\ \A j \in 1..Len(l) : j > r => l[j][2] # n
  BY DEF RestOf
<1>3. r = 0
  <2> SUFFICES ASSUME r >= 1 PROVE FALSE
    OBVIOUS
  <2>1. 1 \in 1..r
    OBVIOUS
  <2> QED BY <1>1, <1>2, <2>1
<1>4. ASSUME NEW j \in 1..Len(t) PROVE t[j][2] # n
  <2>1. j \in 1..Len(l) - 1 /\ j + 1 \in 1..Len(l) /\ j + 1 > r
    BY <1>1, <1>3
  <2> QED BY <1>1, <1>2, <2>1
<1>5. RestOf(t, f, n, 0)
  BY <1>1, <1>4 DEF RestOf
<1> QED BY <1>3, <1>5 DEF t

\* Entries of other numbers arrive, and those of a new one.
LEMMA MoreComes ==
  ASSUME NEW l \in Seq(Nat \X Nat), NEW x \in Seq(Nat \X Nat), NEW n, \A j \in 1..Len(x) : x[j][2] # n, NEW f
  PROVE  /\ Comes(l, f, n) => Comes(l \o x, f, n)
         /\ \A r \in 0..4 : RestOf(l, f, n, r) => RestOf(l \o x, f, n, r)
<1> DEFINE y == l \o x
<1>1. Len(l) \in Nat /\ Len(x) \in Nat /\ Len(y) = Len(l) + Len(x)
  OBVIOUS
<1>2. \A i \in 1..Len(l) : y[i] = l[i] /\ i \in 1..Len(y)
  BY <1>1
<1>3. \A i \in 1..Len(y) : (i \in 1..Len(l) /\ y[i] = l[i]) \/ (i - Len(l) \in 1..Len(x) /\ y[i] = x[i - Len(l)])
  <2> SUFFICES ASSUME NEW i \in 1..Len(y)
               PROVE  \/ i \in 1..Len(l) /\ y[i] = l[i]
                      \/ i - Len(l) \in 1..Len(x) /\ y[i] = x[i - Len(l)]
    OBVIOUS
  <2> DEFINE S == Nat \X Nat
  <2>1. l \in Seq(S) /\ x \in Seq(S)
    OBVIOUS
  <2> HIDE DEF S
  <2> QED BY <2>1, JoinAt
<1> HIDE DEF y
<1>4. \A j \in 1..Len(y) : y[j][2] = n => j \in 1..Len(l) /\ l[j][2] = n
  BY <1>3
<1>5. ASSUME Comes(l, f, n) PROVE Comes(y, f, n)
  <2>1. PICK p \in 1..Len(l) : /\ p + 4 <= Len(l) /\ \A i \in 1..5 : l[p + i - 1] = <<f[i], n>>
                               /\ \A j \in 1..Len(l) : l[j][2] = n => p <= j /\ j <= p + 4
    BY <1>5 DEF Comes
  <2>5. p \in Nat /\ p >= 1 /\ Len(y) \in Nat /\ Len(l) <= Len(y)
    BY <1>1
  <2>6. p + 4 <= Len(l)
    BY <2>1
  <2>2. p \in 1..Len(y) /\ p + 4 <= Len(y)
    BY <1>1, <2>5, <2>6
  <2>3. \A i \in 1..5 : p + i - 1 \in 1..Len(l)
    BY <1>1, <2>5, <2>6
  <2>4. \A i \in 1..5 : y[p + i - 1] = <<f[i], n>>
    BY <1>2, <2>1, <2>3
  <2> QED BY <1>4, <2>1, <2>2, <2>4 DEF Comes
<1>6. ASSUME NEW r \in 0..4, RestOf(l, f, n, r) PROVE RestOf(y, f, n, r)
  <2>1. /\ r <= Len(l) /\ \A i \in 1..r : l[i] = <<f[5 - r + i], n>>
        /\ \A j \in 1..Len(l) : j > r => l[j][2] # n
    BY <1>6 DEF RestOf
  <2>2. r <= Len(y) /\ \A i \in 1..r : i \in 1..Len(l)
    BY <1>1, <2>1
  <2> QED BY <1>2, <1>4, <2>1, <2>2 DEF RestOf
<1> QED BY <1>5, <1>6 DEF y

Entries(g, n) == [i \in 1..Len(g) |-> <<g[i], n>>]
LEMMA EntriesAre ==
  ASSUME NEW g \in Seq(Nat), NEW n \in Nat
  PROVE  /\ Entries(g, n) \in Seq(Nat \X Nat) /\ Len(Entries(g, n)) = Len(g)
         /\ \A i \in 1..Len(g) : Entries(g, n)[i] = <<g[i], n>>
<1>1. Len(g) \in Nat /\ \A i \in 1..Len(g) : g[i] \in Nat
  OBVIOUS
<1> QED BY <1>1 DEF Entries

LEMMA NewComes ==
  ASSUME NEW l \in Seq(Nat \X Nat), NEW f \in Seq(Nat), Len(f) = 5, NEW n \in Nat,
         \A j \in 1..Len(l) : l[j][2] # n
  PROVE  Comes(l \o Entries(f, n), f, n)
<1> DEFINE S == Nat \X Nat
           x == Entries(f, n)
           y == l \o x
           p == Len(l) + 1
<1>1. x \in Seq(S) /\ Len(x) = 5 /\ \A i \in 1..5 : x[i] = <<f[i], n>>
  BY EntriesAre
<1>2. l \in Seq(S) /\ Len(l) \in Nat
  OBVIOUS
<1> HIDE DEF x, S
<1>3. Len(y) = Len(l) + Len(x) /\ \A i \in 1..Len(x) : y[Len(l) + i] = x[i]
  <2> HIDE DEF y, p
  <2>1. l \in Seq(S) /\ x \in Seq(S)
    BY <1>1, <1>2
  <2>2. /\ l \o x \in Seq(S) /\ Len(l \o x) = Len(l) + Len(x)
        /\ \A i \in 1..Len(l) : (l \o x)[i] = l[i]
        /\ \A i \in 1..Len(x) : (l \o x)[Len(l) + i] = x[i]
    BY <2>1, JoinIs
  <2> QED BY <2>2 DEF y
<1>4. \A i \in 1..Len(y) : (i \in 1..Len(l) /\ y[i] = l[i]) \/ (i - Len(l) \in 1..Len(x) /\ y[i] = x[i - Len(l)])
  BY <1>1, <1>2, JoinAt
<1> HIDE DEF y
<1>5. p \in 1..Len(y) /\ p + 4 <= Len(y)
  BY <1>1, <1>2, <1>3
<1>6. ASSUME NEW i \in 1..5 PROVE y[p + i - 1] = <<f[i], n>>
  <2>1. p + i - 1 = Len(l) + i
    BY <1>2
  <2> QED BY <1>1, <1>3, <2>1
<1>7. ASSUME NEW j \in 1..Len(y), y[j][2] = n PROVE p <= j /\ j <= p + 4
  <2>1. ~(j \in 1..Len(l) /\ y[j] = l[j])
    BY <1>7
  <2>2. j - Len(l) \in 1..5
    BY <1>1, <1>4, <2>1
  <2>3. j \in Int
    OBVIOUS
  <2> QED BY <1>2, <2>2, <2>3
<1> HIDE DEF p
<1>8. Comes(y, f, n)
  BY <1>5, <1>6, <1>7 DEF Comes
<1> QED BY <1>8 DEF y, x

\* The bytes of a good frame, to a parser that is idle, has some of them, all but one.
LEMMA HandleBegins ==
  ASSUME NEW s, NEW f, IsFrame(f, f[4]), Handle("idle", s, f[1])
  PROVE  Begun(tlmState', tlmBuf', f, 4)
<1>1. f[1] = Sync /\ Sync \in Nat
  BY LineAssumption DEF IsFrame
<1>2. tlmState' = "length" /\ tlmBuf' = <<Sync>>
  BY <1>1 DEF Handle
<1>3. <<Sync>> \in Seq(Nat) /\ Len(<<Sync>>) = 1 /\ <<Sync>>[1] = Sync
  <2>1. \A b \in Nat : <<b>> \in Seq(Nat) /\ Len(<<b>>) = 1 /\ <<b>>[1] = b
    OBVIOUS
  <2> QED BY <1>1, <2>1
<1>4. 5 - 4 = 1 /\ \A i \in 1..1 : i = 1
  OBVIOUS
<1> QED BY <1>1, <1>2, <1>3, <1>4 DEF Begun

LEMMA HandleGoesOn ==
  ASSUME NEW st, NEW s, NEW f, IsFrame(f, f[4]), NEW r \in 2..4, Begun(st, s, f, r), Handle(st, s, f[6 - r])
  PROVE  Begun(tlmState', tlmBuf', f, r - 1)
<1> DEFINE b == f[6 - r]
           t == Append(s, b)
<1> HIDE DEF b
<1>1. f \in Seq(Nat) /\ Len(f) = 5 /\ f[2] = 3 /\ 6 - r \in 1..Len(f)
  BY DEF IsFrame
<1>2. s \in Seq(Nat) /\ Len(s) = 5 - r /\ \A i \in 1..5 - r : s[i] = f[i]
  BY DEF Begun
<1>3. b \in Nat
  <2> DEFINE j == 6 - r
  <2>1. f \in Seq(Nat) /\ j \in 1..Len(f)
    BY <1>1
  <2> HIDE DEF j
  <2>2. f[j] \in Nat
    BY <2>1, ElementIs
  <2> QED BY <2>2 DEF b, j
<1>4. t \in Seq(Nat) /\ Len(t) = 6 - r /\ t[6 - r] = b /\ \A i \in 1..5 - r : t[i] = f[i]
  <2>1. /\ t \in Seq(Nat) /\ Len(t) = Len(s) + 1
        /\ t[Len(s) + 1] = b /\ \A i \in 1..Len(s) : t[i] = s[i]
    BY <1>2, <1>3, AppendIs
  <2>2. Len(s) = 5 - r /\ Len(s) + 1 = 6 - r
    BY <1>2
  <2> QED BY <1>2, <2>1, <2>2
<1> HIDE DEF t
<1>5. \A i \in 1..6 - r : t[i] = f[i]
  <2>1. \A i \in 1..6 - r : i \in 1..5 - r \/ i = 6 - r
    OBVIOUS
  <2> QED BY <1>4, <2>1 DEF b
<1>6. tlmState' = "data" /\ tlmBuf' = t
  <2>1. CASE r = 4
    <3>1. st = "length" /\ b = 3
      BY <1>1, <2>1 DEF Begun, b
    <3>2. ~(b < 2 \/ b > MaxTelemetryLen - 2)
      BY <3>1, ParserAssumption DEF FrameLen
    <3>3. Handle("length", s, b)
      BY <3>1 DEF b
    <3> QED BY <3>2, <3>3 DEF Handle, t
  <2>2. CASE r # 4
    <3>1. st = "data"
      BY <2>2 DEF Begun
    <3>2. 2 \in 1..6 - r
      BY <2>2
    <3>3. t[2] = 3 /\ Len(t) # t[2] + 2
      BY <1>1, <1>4, <1>5, <3>2
    <3>4. Handle("data", s, b)
      BY <3>1 DEF b
    <3> QED BY <3>3, <3>4 DEF Handle, t
  <2> QED BY <2>1, <2>2
<1>7. 5 - (r - 1) = 6 - r /\ r - 1 # 4
  OBVIOUS
<1> QED BY <1>4, <1>5, <1>6, <1>7 DEF Begun

LEMMA HandleEnds ==
  ASSUME NEW st, NEW s, NEW f, IsFrame(f, f[4]), Begun(st, s, f, 1), Handle(st, s, f[5]), fcTaken \in Seq(FcRecords)
  PROVE  \E i \in 1..Len(fcTaken') : fcTaken'[i].n = f[4]
<1> DEFINE b == f[5]
           t == Append(s, b)
<1>1. f \in Seq(Nat) /\ Len(f) = 5 /\ f[2] = 3 /\ b = Crc(<<f[3], f[4]>>) /\ b \in Nat
      /\ f[3] \in Nat /\ f[4] \in Nat
  <2>1. f \in Seq(Nat) /\ Len(f) = 5 /\ f[2] = 3 /\ f[5] = Crc(<<f[3], f[4]>>)
    BY DEF IsFrame
  <2>2. \A i \in 1..Len(f) : f[i] \in Nat
    BY <2>1, ElementIs
  <2>3. 3 \in 1..Len(f) /\ 4 \in 1..Len(f) /\ 5 \in 1..Len(f)
    BY <2>1
  <2> QED BY <2>1, <2>2, <2>3
<1>2. st = "data" /\ s \in Seq(Nat) /\ Len(s) = 4 /\ \A i \in 1..4 : s[i] = f[i]
  BY DEF Begun
<1>3. s[2] = f[2] /\ s[3] = f[3] /\ s[4] = f[4]
  BY <1>2
<1>4. t \in Seq(Nat) /\ Len(t) = 5 /\ t[2] = 3 /\ t[3] = f[3] /\ t[4] = f[4]
  <2> HIDE DEF b
  <2>4. s \in Seq(Nat) /\ b \in Nat
    BY <1>1, <1>2
  <2>1. /\ t \in Seq(Nat) /\ Len(t) = Len(s) + 1
        /\ t[Len(s) + 1] = b /\ \A i \in 1..Len(s) : t[i] = s[i]
    BY <2>4, AppendIs
  <2> HIDE DEF t
  <2>2. Len(s) = 4 /\ 2 \in 1..4 /\ 3 \in 1..4 /\ 4 \in 1..4 /\ Len(s) + 1 = 5
    BY <1>2
  <2>3. \A i \in 1..4 : t[i] = s[i]
    BY <2>1, <2>2
  <2> QED BY <1>1, <1>3, <2>1, <2>2, <2>3
<1>5. SubSeq(t, 3, 4) = <<f[3], f[4]>>
  <2>1. /\ SubSeq(t, 3, 4) \in Seq(Nat) /\ Len(SubSeq(t, 3, 4)) = 2
        /\ SubSeq(t, 3, 4)[1] = t[3] /\ SubSeq(t, 3, 4)[2] = t[4]
    <3> HIDE DEF t
    <3>1. CanPart(Nat, t, 2, 4)
      <4>1. t \in Seq(Nat) /\ 4 <= Len(t)
        BY <1>4
      <4> QED BY <4>1, PartTyped
    <3>2. SubSeq(t, 3, 4) \in Seq(Nat) /\ Len(SubSeq(t, 3, 4)) = 2
      BY <3>1 DEF CanPart
    <3>3. \A i \in 1..2 : SubSeq(t, 3, 4)[i] = t[2 + i]
      BY <1>4
    <3> QED BY <3>2, <3>3
  <2> DEFINE u == SubSeq(t, 3, 4)
             v == <<f[3], f[4]>>
  <2>2. v \in Seq(Nat) /\ Len(v) = 2 /\ v[1] = f[3] /\ v[2] = f[4]
    BY <1>1
  <2>3. u \in Seq(Nat) /\ Len(u) = 2 /\ u[1] = f[3] /\ u[2] = f[4]
    BY <1>4, <2>1
  <2> HIDE DEF u, v
  <2>4. \A i \in 1..Len(u) : u[i] = v[i]
    <3>1. \A i \in 1..2 : i = 1 \/ i = 2
      OBVIOUS
    <3> QED BY <2>2, <2>3, <3>1
  <2>5. u = v
    BY <2>2, <2>3, <2>4, Same
  <2> QED BY <2>5 DEF u, v
<1>6. Len(t) = t[2] + 2 /\ Len(t) - 1 = 4
  BY <1>4
<1>7. b = Crc(SubSeq(t, 3, Len(t) - 1))
  BY <1>1, <1>5, <1>6
<1>8. TakeFrame(t)
  <2> HIDE DEF b
  <2> QED BY <1>2, <1>6, <1>7 DEF Handle, b
<1> DEFINE rec == [n |-> t[4], kind |-> t[3], queued |-> t[3] # Heartbeat /\ t[3] \notin Internal]
<1>9. fcTaken' = Append(fcTaken, rec)
  BY <1>8 DEF TakeFrame
<1>10. rec \in FcRecords /\ rec.n = f[4]
  BY <1>1, <1>4 DEF FcRecords
<1> HIDE DEF rec
<1>11. Len(fcTaken) + 1 \in 1..Len(fcTaken') /\ fcTaken'[Len(fcTaken) + 1] = rec
  BY <1>9, <1>10
<1> QED BY <1>10, <1>11

\* What is taken stays taken.
LEMMA HandleKeeps ==
  ASSUME NEW st, NEW s, Shape(st, s), NEW b \in Nat, Handle(st, s, b), fcTaken \in Seq(FcRecords),
         NEW n, HasTaken(n)
  PROVE  \E i \in 1..Len(fcTaken') : fcTaken'[i].n = n
<1>1. fcTaken' = fcTaken \/ \E r : fcTaken' = Append(fcTaken, r)
  <2> DEFINE t == Append(s, b)
             over == Len(t) = t[2] + 2
             right == b = Crc(SubSeq(t, 3, Len(t) - 1))
  <2>1. CASE st = "data"
    <3>1. IF over /\ right THEN TakeFrame(t) ELSE fcTaken' = fcTaken
      BY <2>1 DEF Handle, Nothing
    <3>2. CASE TakeFrame(t)
      <4> HIDE DEF t
      <4> QED BY <3>2 DEF TakeFrame
    <3> QED BY <3>1, <3>2
  <2>2. CASE st \in {"idle", "length"}
    BY <2>2 DEF Handle, Nothing
  <2> QED BY <2>1, <2>2 DEF Shape
<1>2. PICK i \in 1..Len(fcTaken) : fcTaken[i].n = n
  BY DEF HasTaken
<1>3. CASE \E r : fcTaken' = Append(fcTaken, r)
  <2>1. PICK r : fcTaken' = Append(fcTaken, r)
    BY <1>3
  <2>2. Len(fcTaken) \in Nat
    OBVIOUS
  <2>3. Len(fcTaken') = Len(fcTaken) + 1 /\ fcTaken'[i] = fcTaken[i]
    BY <2>1, <1>2
  <2> QED BY <1>2, <2>2, <2>3
<1> QED BY <1>1, <1>2, <1>3

LEMMA ByteStreams == ParserResyncInv /\ HandleUARTin => FcStream'
<1> SUFFICES ASSUME ParserResyncInv, HandleUARTin PROVE FcStream'
  OBVIOUS
<1> DEFINE l == fcLine
           b == Head(fcLine)[1]
           n == Head(fcLine)[2]
           t == Tail(fcLine)
           N == Len(fcSent)
<1>1. /\ l # <<>> /\ l \in Seq(Nat \X Nat) /\ fcLine' = t /\ fcSent' = fcSent /\ fcDamaged' = fcDamaged
      /\ Shape(tlmState, tlmBuf) /\ fcLast' = n
  BY DEF HandleUARTin, ParserResyncInv, ParserInv
<1>2. /\ Len(l) \in Nat /\ Len(t) = Len(l) - 1 /\ Head(l) = l[1] /\ 1 \in 1..Len(l)
      /\ \A i \in 1..Len(l) - 1 : t[i] = l[i + 1]
  BY <1>1
<1>3. b \in Nat /\ n \in 1..N /\ N \in Nat
  <2>1. l[1] \in Nat \X Nat /\ l[1][2] \in 1..N
    BY <1>1, <1>2 DEF ParserResyncInv, ParserInv
  <2>2. fcSent \in Seq(FcKinds)
    BY DEF ParserResyncInv, ParserInv
  <2> QED BY <1>2, <2>1, <2>2
<1>4. IF TimedOut THEN Handle("idle", <<>>, b) ELSE Handle(tlmState, tlmBuf, b)
  BY Zenon DEF HandleUARTin
<1>5. clean' = IF n # fcLast
               THEN IF tlmState = "idle" \/ sinceByte > FrameTimeout THEN clean \cup {n} ELSE clean
               ELSE IF sinceByte > FrameTimeout THEN clean \ {n} ELSE clean
  BY Zenon DEF HandleUARTin
<1>6. FcNumbers /\ fcTaken \in Seq(FcRecords) /\ Len(fcSent) < ByteValues /\ fcSent \in Seq(1..6)
  BY DEF ParserResyncInv, FcStream, FcChecked, Checked
<1>7. \A m \in 1..N : IsFrame(FrameOf(fcSent[m], m), m)
  <2> SUFFICES ASSUME NEW m \in 1..N PROVE IsFrame(FrameOf(fcSent[m], m), m)
    OBVIOUS
  <2>1. fcSent[m] \in 1..6 /\ m < ByteValues /\ m \in Nat
    BY <1>3, <1>6, CheckRange
  <2> QED BY <2>1, FrameIs
<1>8. \A m \in 1..N : m \notin fcDamaged => FrameWay(m)
  BY DEF ParserResyncInv, FcStream
<1> HIDE DEF b, n, t, l, N
<1>9. fcLast <= n /\ fcLast \in 0..N /\ fcLast \in Nat /\ n \in Nat /\ Head(l) = <<b, n>>
  <2>1. fcLast <= l[1][2]
    BY <1>2, <1>6 DEF FcNumbers, l
  <2>2. l[1][2] = n /\ fcLast \in 0..N
    BY <1>2, <1>6 DEF FcNumbers, n, l, N
  <2>3. l[1] \in Nat \X Nat
    BY <1>1, <1>2, ElementIs
  <2>4. l[1] = <<b, n>>
    BY <1>2, <2>3 DEF b, n, l
  <2> QED BY <1>2, <1>3, <2>1, <2>2, <2>4
<1>10. FcNumbers'
  <2>1. \A i \in 1..Len(t) : t[i] = l[i + 1] /\ i + 1 \in 1..Len(l) /\ 1 < i + 1
    BY <1>2
  <2>2. \A i, j \in 1..Len(l) : i < j => l[i][2] <= l[j][2]
    BY <1>6 DEF FcNumbers, l
  <2>3. \A i \in 1..Len(t) : n <= t[i][2]
    BY <1>2, <2>1, <2>2 DEF n, l
  <2>4. \A i, j \in 1..Len(t) : i < j => i + 1 < j + 1
    OBVIOUS
  <2>5. \A i, j \in 1..Len(t) : i < j => t[i][2] <= t[j][2]
    BY <2>1, <2>2, <2>4
  <2>6. \A m \in clean' : m <= n
    <3>1. \A m \in clean : m <= n
      <4> SUFFICES ASSUME NEW m \in clean PROVE m <= n
        OBVIOUS
      <4>1. m <= fcLast
        BY <1>6 DEF FcNumbers
      <4>2. m \in Nat
        BY DEF ParserResyncInv, ParserInv, ParserTypeOK
      <4> QED BY <1>9, <4>1, <4>2
    <3>2. \A m \in clean' : m \in clean \/ m = n
      BY <1>5
    <3> QED BY <1>9, <3>1, <3>2
  <2>7. n \in 0..N
    BY <1>3
  <2> QED BY <1>1, <2>3, <2>5, <2>6, <2>7 DEF FcNumbers, N
<1>11. ASSUME NEW m, HasTaken(m) PROVE HasTaken(m)'
  <2>1. Shape("idle", <<>>)
    BY DEF Shape
  <2>2. Handle("idle", <<>>, b) \/ Handle(tlmState, tlmBuf, b)
    BY <1>4
  <2>3. \E i \in 1..Len(fcTaken') : fcTaken'[i].n = m
    BY <1>1, <1>3, <1>6, <1>11, <2>1, <2>2, HandleKeeps
  <2> QED BY <2>3 DEF HasTaken
<1>12. ASSUME NEW m \in 1..N, m \notin fcDamaged PROVE FrameWay(m)'
  <2> DEFINE f == FrameOf(fcSent[m], m)
  <2>1. IsFrame(f, m) /\ f[4] = m /\ IsFrame(f, f[4])
    BY <1>7 DEF IsFrame
  <2>2. /\ m > fcLast => Comes(l, f, m)
        /\ m = fcLast => \E r \in 0..4 : /\ RestOf(l, f, m, r)
                                         /\ m \in clean => IF r = 0 THEN HasTaken(m)
                                                           ELSE Begun(tlmState, tlmBuf, f, r)
        /\ m < fcLast /\ m \in clean => HasTaken(m)
    BY <1>8, <1>12 DEF FrameWay, l
  <2>3. FrameOf(fcSent[m], m)' = f
    BY <1>1
  <2> HIDE DEF f
  <2>4. SUFFICES /\ m > n => Comes(t, f, m)
                 /\ m = n => \E r \in 0..4 : /\ RestOf(t, f, m, r)
                                             /\ m \in clean' => IF r = 0 THEN HasTaken(m)'
                                                                ELSE Begun(tlmState', tlmBuf', f, r)
                 /\ m < n /\ m \in clean' => HasTaken(m)'
    BY <1>1, <2>3 DEF FrameWay, f
  <2>5. Head(l)[1] = b /\ Head(l)[2] = n /\ m \in Nat
    BY <1>9
  <2>6. CASE m > n
    <3>1. Comes(l, f, m) /\ m # n
      BY <1>9, <2>2, <2>5, <2>6
    <3>2. Comes(t, f, m)
      BY <1>1, <2>5, <3>1, ComesOn DEF t, l
    <3> QED BY <1>9, <2>5, <2>6, <3>2
  <2>7. CASE m < n /\ m > fcLast
    <3>1. Comes(l, f, m)
      BY <2>2, <2>7
    <3>2. PICK p \in 1..Len(l) : p + 4 <= Len(l) /\ \A i \in 1..5 : l[p + i - 1] = <<f[i], m>>
      BY <3>1 DEF Comes
    <3>3. l[p][2] = m
      <4>1. p + 1 - 1 = p /\ 1 \in 1..5
        BY <1>2
      <4> QED BY <3>2, <4>1
    <3>4. l[1][2] = n /\ p # 1
      BY <1>2, <1>9, <2>5, <2>7, <3>3
    <3>5. 1 < p
      BY <1>2, <3>4
    <3>6. n <= m
      BY <1>2, <1>6, <3>3, <3>4, <3>5 DEF FcNumbers, l
    <3> QED BY <1>9, <2>5, <2>7, <3>6
  <2>8. CASE m < n /\ m = fcLast
    <3>1. PICK r \in 0..4 : /\ RestOf(l, f, m, r)
                            /\ m \in clean => IF r = 0 THEN HasTaken(m) ELSE Begun(tlmState, tlmBuf, f, r)
      BY <2>2, <2>8
    <3>2. m # n
      BY <1>9, <2>5, <2>8
    <3>3. r = 0
      BY <1>1, <2>5, <3>1, <3>2, RestGone
    <3>4. m \in clean' => HasTaken(m)'
      BY <1>5, <1>11, <3>1, <3>2, <3>3
    <3> QED BY <1>9, <2>5, <2>8, <3>4
  <2>9. CASE m < n /\ m < fcLast
    <3>1. m \in clean' => m \in clean
      BY <1>5, <1>9, <2>5, <2>9
    <3>2. m \in clean' => HasTaken(m)'
      BY <1>11, <2>2, <2>9, <3>1
    <3> QED BY <1>9, <2>5, <2>9, <3>2
  <2>10. CASE m = n /\ m > fcLast
    <3>1. Comes(l, f, m)
      BY <2>2, <2>10
    <3>2. b = f[1] /\ RestOf(t, f, m, 4)
      BY <1>1, <2>5, <2>10, <3>1, ComesStarts DEF t, l
    <3>3. ASSUME m \in clean' PROVE Begun(tlmState', tlmBuf', f, 4)
      <4>1. m \notin clean
        BY <1>6, <1>9, <2>5, <2>10 DEF FcNumbers
      <4>2. tlmState = "idle" \/ sinceByte > FrameTimeout
        BY <1>5, <1>9, <2>10, <3>3, <4>1
      <4>3. \E s : Handle("idle", s, b)
        <5>1. CASE TimedOut
          BY <1>4, <5>1
        <5>2. CASE ~TimedOut
          <6>1. tlmState = "idle"
            BY <4>2, <5>2 DEF TimedOut
          <6>2. Handle(tlmState, tlmBuf, b)
            BY <1>4, <5>2
          <6>3. Handle("idle", tlmBuf, b)
            BY <6>1, <6>2
          <6> QED BY <6>3
        <5> QED BY <5>1, <5>2
      <4> QED BY <2>1, <3>2, <4>3, HandleBegins
    <3>4. 4 \in 0..4 /\ 4 # 0
      OBVIOUS
    <3> QED BY <1>9, <2>5, <2>10, <3>2, <3>3, <3>4
  <2>11. CASE m = n /\ m = fcLast
    <3>1. PICK r \in 0..4 : /\ RestOf(l, f, m, r)
                            /\ m \in clean => IF r = 0 THEN HasTaken(m) ELSE Begun(tlmState, tlmBuf, f, r)
      BY <2>2, <2>11
    <3>2. r >= 1 /\ b = f[6 - r] /\ RestOf(t, f, m, r - 1)
      BY <1>1, <2>5, <2>11, <3>1, RestOn DEF t, l
    <3>3. ASSUME m \in clean' PROVE IF r - 1 = 0 THEN HasTaken(m)' ELSE Begun(tlmState', tlmBuf', f, r - 1)
      <4>1. m \in clean /\ ~(sinceByte > FrameTimeout)
        BY <1>5, <2>11, <3>3
      <4>2. Handle(tlmState, tlmBuf, b)
        BY <1>4, <4>1 DEF TimedOut
      <4>3. Begun(tlmState, tlmBuf, f, r)
        BY <3>1, <3>2, <4>1
      <4>4. CASE r = 1
        <5>1. b = f[5] /\ Begun(tlmState, tlmBuf, f, 1)
          BY <3>2, <4>3, <4>4
        <5>2. \E i \in 1..Len(fcTaken') : fcTaken'[i].n = m
          BY <1>6, <2>1, <4>2, <5>1, HandleEnds
        <5> QED BY <4>4, <5>2 DEF HasTaken
      <4>5. CASE r # 1
        <5>1. r \in 2..4 /\ r - 1 # 0
          BY <3>2, <4>5
        <5>2. Handle(tlmState, tlmBuf, f[6 - r])
          BY <3>2, <4>2
        <5>3. Begun(tlmState', tlmBuf', f, r - 1)
          BY <2>1, <4>3, <5>1, <5>2, HandleGoesOn
        <5> QED BY <5>1, <5>3
      <4> QED BY <4>4, <4>5
    <3>4. r - 1 \in 0..4
      BY <3>2
    <3> QED BY <1>9, <2>5, <2>11, <3>2, <3>3, <3>4
  <2> QED BY <1>9, <2>5, <2>6, <2>7, <2>8, <2>9, <2>10, <2>11
<1>13. fcSent' = fcSent /\ fcDamaged' = fcDamaged
  BY <1>1
<1> QED BY <1>10, <1>12, <1>13 DEF FcStream, N

LEMMA SendStreams == ParserResyncInv /\ FcSend => FcChecked' /\ FcStream'
<1> SUFFICES ASSUME ParserResyncInv, FcSend PROVE FcChecked' /\ FcStream'
  OBVIOUS
<1>1. ParserInv
  BY DEF ParserResyncInv
<1>2. UNCHANGED <<tlmState, tlmBuf, sinceByte, fcTaken, clean, fcLast>> /\ \E g, k, n : FcArrives(g, k, n)
  BY <1>1, FcSends
<1>3. PICK g, k, n : FcArrives(g, k, n)
  BY <1>2
<1>4. /\ fcSent' = Append(fcSent, k) /\ n = Len(fcSent) + 1 /\ n < ByteValues
      /\ fcLine' = fcLine \o Entries(g, n)
      /\ \/ g = FrameOf(k, n) /\ fcDamaged' = fcDamaged
         \/ g \in DamagedFrames(FrameOf(k, n)) /\ fcDamaged' = fcDamaged \cup {n}
  BY <1>3 DEF FcArrives, Entries
<1>5. /\ fcSent \in Seq(1..6) /\ Len(fcSent) \in Nat /\ n \in Nat /\ k \in 1..6
      /\ fcLine \in Seq(Nat \X Nat) /\ tlmBuf \in Seq(Nat) /\ FcNumbers
      /\ Checked(tlmBuf \o BytesOf(fcLine), fcSent, fcTaken, FcRecords)
  <2>1. fcSent \in Seq(1..6) /\ fcLine \in Seq(Nat \X Nat) /\ tlmBuf \in Seq(Nat)
    BY DEF ParserResyncInv, ParserInv, FcChecked, Checked, Shape
  <2>2. k \in 1..6
    BY <1>3, KindsKnown DEF FcArrives
  <2> QED BY <1>4, <2>1, <2>2 DEF ParserResyncInv, FcStream, FcChecked
<1>6. /\ g \in Seq(Nat) /\ Len(g) \in 4..5
      /\ \A i \in 1..Len(g) : Small(g[i]) \/ (g[i] = Check(k, n) /\ i = Len(g))
  BY <1>4, <1>5, FrameBytes
<1> DEFINE x == Entries(g, n)
           y == fcLine \o x
           N == Len(fcSent)
<1>7. x \in Seq(Nat \X Nat) /\ Len(x) = Len(g) /\ \A i \in 1..Len(g) : x[i] = <<g[i], n>>
  BY <1>5, <1>6, EntriesAre
<1> HIDE DEF x
<1>8. /\ y \in Seq(Nat \X Nat) /\ Len(y) = Len(fcLine) + Len(x)
      /\ \A i \in 1..Len(y) : \/ i \in 1..Len(fcLine) /\ y[i] = fcLine[i]
                              \/ i - Len(fcLine) \in 1..Len(x) /\ y[i] = x[i - Len(fcLine)]
  <2> DEFINE S == Nat \X Nat
  <2>1. fcLine \in Seq(S) /\ x \in Seq(S)
    BY <1>5, <1>7
  <2> HIDE DEF S, y
  <2>2. fcLine \o x \in Seq(S) /\ Len(fcLine \o x) = Len(fcLine) + Len(x)
    BY <2>1, JoinIs
  <2>3. \A i \in 1..Len(fcLine \o x) : \/ i \in 1..Len(fcLine) /\ (fcLine \o x)[i] = fcLine[i]
                                       \/ i - Len(fcLine) \in 1..Len(x) /\ (fcLine \o x)[i] = x[i - Len(fcLine)]
    BY <2>1, JoinAt
  <2> QED BY <2>2, <2>3 DEF y, S
<1> HIDE DEF y
<1>9. fcLine' = y
  BY <1>4 DEF y, x
<1>10. Len(fcLine) \in Nat /\ Len(g) \in Nat
  BY <1>5, <1>6
\* The bytes.
<1>11. BytesOf(y) = BytesOf(fcLine) \o g
  <2> DEFINE X == BytesOf(fcLine)
             Y == BytesOf(y)
             z == X \o g
  <2>1. X \in Seq(Nat) /\ Len(X) = Len(fcLine) /\ \A i \in 1..Len(fcLine) : X[i] = fcLine[i][1]
    BY <1>5, BytesTyped
  <2>2. Y \in Seq(Nat) /\ Len(Y) = Len(y) /\ \A i \in 1..Len(y) : Y[i] = y[i][1]
    BY <1>8, BytesTyped
  <2> HIDE DEF X, Y
  <2>3. /\ z \in Seq(Nat) /\ Len(z) = Len(X) + Len(g)
        /\ \A i \in 1..Len(X) : z[i] = X[i]
        /\ \A i \in 1..Len(g) : z[Len(X) + i] = g[i]
    <3>1. X \in Seq(Nat) /\ g \in Seq(Nat)
      BY <1>6, <2>1
    <3> QED BY <3>1, JoinIs
  <2> HIDE DEF z
  <2>4. Len(Y) = Len(z)
    BY <1>7, <1>8, <2>1, <2>2, <2>3
  <2>5. ASSUME NEW i \in 1..Len(Y) PROVE Y[i] = z[i]
    <3>1. i \in 1..Len(y)
      BY <2>2
    <3>2. CASE i \in 1..Len(fcLine) /\ y[i] = fcLine[i]
      BY <2>1, <2>2, <2>3, <3>1, <3>2
    <3>3. CASE i - Len(fcLine) \in 1..Len(x) /\ y[i] = x[i - Len(fcLine)]
      <4> DEFINE j == i - Len(fcLine)
      <4>1. j \in 1..Len(g) /\ i = Len(X) + j
        BY <1>7, <1>10, <2>1, <3>3
      <4>3. y[i] = x[j]
        BY <3>3
      <4> HIDE DEF j
      <4>2. y[i][1] = g[j]
        BY <1>7, <4>1, <4>3
      <4> QED BY <2>2, <2>3, <3>1, <4>1, <4>2
    <3> QED BY <1>8, <3>1, <3>2, <3>3
  <2>6. Y = z
    BY <2>2, <2>3, <2>4, <2>5, Same
  <2> QED BY <2>6 DEF X, Y, z
<1>12. FcChecked'
  <2> DEFINE X == BytesOf(fcLine)
             s == tlmBuf
  <2>1. X \in Seq(Nat)
    BY <1>5, BytesTyped
  <2>2. Checked((s \o X) \o g, Append(fcSent, k), fcTaken, FcRecords)
    BY <1>4, <1>5, <1>6, CheckedArrives
  <2> HIDE DEF X
  <2>3. (s \o X) \o g = s \o (X \o g)
    BY <1>5, <1>6, <2>1, JoinJoined
  <2>4. Checked(s \o (X \o g), Append(fcSent, k), fcTaken, FcRecords)
    BY <2>2, <2>3
  <2>5. BytesOf(fcLine)' = X \o g
    BY <1>9, <1>11 DEF X, BytesOf
  <2>6. tlmBuf' = s /\ fcTaken' = fcTaken
    BY <1>2
  <2> QED BY <1>4, <2>4, <2>5, <2>6 DEF FcChecked
\* The numbers.
<1>13. \A i \in 1..Len(fcLine) : fcLine[i][2] \in 1..N
  BY DEF ParserResyncInv, ParserInv
<1>14. \A i \in 1..Len(y) : \/ i \in 1..Len(fcLine) /\ y[i] = fcLine[i] /\ y[i][2] \in 1..N
                            \/ ~(i <= Len(fcLine)) /\ y[i][2] = n
  <2> SUFFICES ASSUME NEW i \in 1..Len(y)
               PROVE  \/ i \in 1..Len(fcLine) /\ y[i] = fcLine[i] /\ y[i][2] \in 1..N
                      \/ ~(i <= Len(fcLine)) /\ y[i][2] = n
    OBVIOUS
  <2>1. CASE i \in 1..Len(fcLine) /\ y[i] = fcLine[i]
    BY <1>13, <2>1
  <2>2. CASE i - Len(fcLine) \in 1..Len(x) /\ y[i] = x[i - Len(fcLine)]
    <3> DEFINE j == i - Len(fcLine)
    <3>1. j \in 1..Len(g)
      BY <1>7, <2>2
    <3>2. y[i][2] = n
      BY <1>7, <2>2, <3>1
    <3>3. ~(i <= Len(fcLine))
      BY <1>10, <2>2
    <3> QED BY <3>2, <3>3
  <2> QED BY <1>8, <2>1, <2>2
<1>15. fcLast \in 0..N /\ N \in Nat /\ n = N + 1
  BY <1>4, <1>5 DEF FcNumbers
<1> HIDE DEF N
<1>16. FcNumbers'
  <2>1. \A i \in 1..Len(y) : fcLast <= y[i][2]
    <3> SUFFICES ASSUME NEW i \in 1..Len(y) PROVE fcLast <= y[i][2]
      OBVIOUS
    <3>1. CASE i \in 1..Len(fcLine) /\ y[i] = fcLine[i]
      BY <1>5, <3>1 DEF FcNumbers
    <3>2. CASE y[i][2] = n
      BY <1>15, <3>2
    <3> QED BY <1>14, <3>1, <3>2
  <2>2. \A i, j \in 1..Len(y) : i < j => y[i][2] <= y[j][2]
    <3> SUFFICES ASSUME NEW i \in 1..Len(y), NEW j \in 1..Len(y), i < j PROVE y[i][2] <= y[j][2]
      OBVIOUS
    <3>1. CASE j \in 1..Len(fcLine) /\ y[j] = fcLine[j]
      <4>1. i <= Len(fcLine) /\ i \in 1..Len(fcLine)
        BY <1>10, <3>1
      <4>2. y[i] = fcLine[i]
        BY <1>14, <4>1
      <4> QED BY <1>5, <3>1, <4>1, <4>2 DEF FcNumbers
    <3>2. CASE y[j][2] = n
      <4>1. y[i][2] <= n
        BY <1>14, <1>15
      <4> QED BY <3>2, <4>1
    <3> QED BY <1>14, <3>1, <3>2
  <2>3. fcLast' = fcLast /\ clean' = clean /\ \A m \in clean : m <= fcLast
    BY <1>2, <1>5 DEF FcNumbers
  <2>4. Len(fcSent') = n /\ fcLast \in 0..n
    BY <1>4, <1>5, <1>15
  <2> QED BY <1>9, <2>1, <2>2, <2>3, <2>4 DEF FcNumbers
\* The frames.
<1>17. ASSUME NEW m \in 1..n, m \notin fcDamaged' PROVE FrameWay(m)'
  <2> DEFINE f == FrameOf(fcSent'[m], m)
  <2>1. SUFFICES /\ m > fcLast => Comes(y, f, m)
                 /\ m = fcLast => \E r \in 0..4 : /\ RestOf(y, f, m, r)
                                                  /\ m \in clean => IF r = 0 THEN HasTaken(m)
                                                                    ELSE Begun(tlmState, tlmBuf, f, r)
                 /\ m < fcLast /\ m \in clean => HasTaken(m)
    BY <1>2, <1>9 DEF FrameWay, HasTaken
  <2>2. CASE m \in 1..N
    <3>1. fcSent'[m] = fcSent[m]
      BY <1>4, <1>5, <2>2 DEF N
    <3>2. FrameWay(m)
      BY <1>4, <1>17, <2>2 DEF ParserResyncInv, FcStream, N
    <3>3. /\ m > fcLast => Comes(fcLine, f, m)
          /\ m = fcLast => \E r \in 0..4 : /\ RestOf(fcLine, f, m, r)
                                           /\ m \in clean => IF r = 0 THEN HasTaken(m)
                                                             ELSE Begun(tlmState, tlmBuf, f, r)
          /\ m < fcLast /\ m \in clean => HasTaken(m)
      BY <3>1, <3>2 DEF FrameWay
    <3> HIDE DEF f
    <3>4. \A j \in 1..Len(x) : x[j][2] # m
      BY <1>7, <1>15, <2>2
    <3>5. /\ Comes(fcLine, f, m) => Comes(y, f, m)
          /\ \A r \in 0..4 : RestOf(fcLine, f, m, r) => RestOf(y, f, m, r)
      BY <1>5, <1>7, <3>4, MoreComes DEF y
    <3> QED BY <3>3, <3>5
  <2>3. CASE m = n
    <3>1. ~(m = fcLast) /\ ~(m < fcLast)
      BY <1>15, <2>3
    <3>2. fcSent'[n] = k
      BY <1>4, <1>5
    <3>3. g = FrameOf(k, n)
      BY <1>4, <1>17, <2>3
    <3>4. f = g
      BY <2>3, <3>2, <3>3
    <3>5. Len(g) = 5
      BY <3>3, <1>5, FrameTyped DEF FrameLen
    <3>6. \A j \in 1..Len(fcLine) : fcLine[j][2] # n
      BY <1>13, <1>15 DEF N
    <3> HIDE DEF f
    <3>7. Comes(y, g, n)
      BY <1>5, <1>6, <3>5, <3>6, NewComes DEF y, x
    <3> QED BY <2>3, <3>1, <3>4, <3>7
  <2> QED BY <1>15, <2>2, <2>3
<1>18. Len(fcSent') = n
  BY <1>4, <1>5
<1> QED BY <1>12, <1>16, <1>17, <1>18 DEF FcStream

LEMMA ParserResyncStep == ParserResyncInv /\ [ParserNext]_parserVars => ParserResyncInv'
<1> SUFFICES ASSUME ParserResyncInv, [ParserNext]_parserVars PROVE ParserResyncInv'
  OBVIOUS
<1>1. ParserInv'
  BY ParserStep DEF ParserResyncInv
<1>2. CASE FcSend
  BY <1>1, <1>2, SendStreams DEF ParserResyncInv
<1>3. CASE HandleUARTin
  BY <1>1, <1>3, ByteChecks, ByteStreams DEF ParserResyncInv
<1>4. CASE UNCHANGED <<fcLine, tlmState, tlmBuf, fcSent, fcDamaged, fcTaken, clean, fcLast>>
  <2>1. FcChecked' /\ FcNumbers'
    BY <1>4 DEF ParserResyncInv, FcStream, FcChecked, FcNumbers, BytesOf
  <2>2. \A n : FrameWay(n) => FrameWay(n)'
    BY <1>4 DEF FrameWay, HasTaken
  <2> QED BY <1>1, <1>4, <2>1, <2>2 DEF ParserResyncInv, FcStream
<1> QED BY <1>2, <1>3, <1>4 DEF ParserNext, FcTick, SendQueuedData, parserVars

LEMMA ParserResyncStart == ParserInit => ParserResyncInv
<1> SUFFICES ASSUME ParserInit PROVE ParserResyncInv
  OBVIOUS
<1>1. /\ fcLine = <<>> /\ tlmBuf = <<>> /\ fcSent = <<>> /\ clean = {} /\ fcTaken = <<>> /\ fcLast = 0
  BY DEF ParserInit
<1>2. /\ <<>> \in Seq(Nat) /\ <<>> \in Seq(1..6) /\ <<>> \in Seq(FcRecords) /\ <<>> \in Seq(Nat \X Nat)
      /\ Len(<<>>) = 0 /\ <<>> \o <<>> = <<>>
  OBVIOUS
<1>3. BytesOf(<<>>) \in Seq(Nat) /\ Len(BytesOf(<<>>)) = 0
  BY <1>2, BytesTyped
<1>4. <<>> \o BytesOf(<<>>) = <<>>
  <2>1. BytesOf(<<>>) = <<>>
    BY <1>3
  <2> QED BY <1>2, <2>1
<1>5. Checked(<<>>, <<>>, <<>>, FcRecords)
  <2>1. 0 < ByteValues
    BY Sizes
  <2> QED BY <1>2, <2>1 DEF Checked, CrcsKnown, CrcsRise, CrcsAfter, GotSent
<1>6. FcChecked
  BY <1>1, <1>4, <1>5 DEF FcChecked
<1>7. FcStream
  BY <1>1, <1>2 DEF FcStream, FcNumbers
<1> QED BY <1>6, <1>7, ParserStart DEF ParserResyncInv

LEMMA ParserInvResyncs == ParserResyncInv => ParserResyncs
<1> SUFFICES ASSUME ParserResyncInv PROVE ParserResyncs
  OBVIOUS
<1>1. /\ fcSent \in Seq(1..6) /\ fcTaken \in Seq(FcRecords) /\ fcLine \in Seq(Nat \X Nat)
      /\ clean \subseteq DOMAIN fcSent /\ GotSent(fcSent, fcTaken)
  BY DEF ParserResyncInv, ParserInv, ParserTypeOK, FcChecked, Checked
<1>2. DOMAIN fcSent = 1..Len(fcSent) /\ DOMAIN fcTaken = 1..Len(fcTaken) /\ DOMAIN fcLine = 1..Len(fcLine)
  BY <1>1
<1>3. ASSUME NEW n \in clean \ fcDamaged, Over(n) PROVE \E i \in DOMAIN fcTaken : fcTaken[i].n = n
  <2> DEFINE f == FrameOf(fcSent[n], n)
  <2>1. n \in 1..Len(fcSent) /\ n \notin fcDamaged
    BY <1>1, <1>2
  <2>2. FrameWay(n)
    BY <2>1 DEF ParserResyncInv, FcStream
  <2>3. CASE fcLast > n
    <3>1. n < fcLast
      BY <2>1, <2>3 DEF ParserResyncInv, FcStream, FcNumbers
    <3> QED BY <1>2, <2>2, <3>1 DEF FrameWay, HasTaken
  <2>4. CASE fcLast = n /\ \A i \in DOMAIN fcLine : fcLine[i][2] # n
    <3>1. PICK r \in 0..4 : RestOf(fcLine, f, n, r) /\ (r = 0 => HasTaken(n))
      BY <2>2, <2>4 DEF FrameWay
    <3> HIDE DEF f
    <3>2. r = 0
      <4> SUFFICES ASSUME r >= 1 PROVE FALSE
        OBVIOUS
      <4>1. 1 \in 1..r /\ 1 \in 1..Len(fcLine)
        BY <1>1, <3>1 DEF RestOf
      <4>2. fcLine[1] = <<f[5 - r + 1], n>>
        BY <3>1, <4>1 DEF RestOf
      <4> QED BY <1>2, <2>4, <4>1, <4>2
    <3> QED BY <1>2, <3>1, <3>2 DEF HasTaken
  <2> QED BY <1>3, <2>3, <2>4 DEF Over
<1>4. \A i \in DOMAIN fcTaken : /\ fcTaken[i].n \in DOMAIN fcSent
                                /\ fcTaken[i].kind = fcSent[fcTaken[i].n]
                                /\ i > 1 => fcTaken[i - 1].n < fcTaken[i].n
  BY <1>1, <1>2 DEF GotSent
<1> QED BY <1>3, <1>4 DEF ParserResyncs

\* A frame from the flight controller that finds the receiver's parser idle, or comes
\* after a pause, is taken unless the line damages it, whatever came before; what is
\* taken was sent, with its kind, in order, each frame once (ParserResyncs).
THEOREM ParserResynced == ParserSpec => []ParserResyncs
BY ParserResyncStart, ParserResyncStep, ParserInvResyncs, PTL DEF ParserSpec

(***************************************************************************)
(* The handset's parser keeps to the frames. P are the bytes it is not     *)
(* past yet, the end of all those that arrived, W. A good frame stands     *)
(* whole in W, and its CRC nowhere else, so that it is handled where it    *)
(* stands or not at all; passed over it is only by a length that was read  *)
(* in front of it, and none is in front of it that belongs to a frame      *)
(* that was handled.                                                       *)
(***************************************************************************)
HasGot(got, n) == \E h \in 1..Len(got) : got[h].n = n
HandsetRecords ==
  [n : Nat, kind : Nat,
   does : [channels : BOOLEAN, forward : BOOLEAN, reply : BOOLEAN, command : BOOLEAN]]
StandsAt(W, p, k, n) ==
  /\ p \in Nat \ {0} /\ p + 4 <= Len(W)
  /\ W[p] = Sync /\ W[p + 1] = 3 /\ W[p + 2] = k /\ W[p + 3] = n /\ W[p + 4] = Check(k, n)
OnlyAt(W, p, k, n) == \A i \in 1..Len(W) : W[i] = Check(k, n) => i = p + 4
Stand(W, starts, sent, bad) ==
  /\ W \in Seq(Nat) /\ starts \in Seq(Nat) /\ Len(starts) = Len(sent) /\ CrcsKnown(W, sent)
  /\ Len(sent) = 0 => Len(W) = 0
  /\ \A n \in 1..Len(sent) : n = 1 => starts[n] = 1
  /\ \A n \in 1..Len(sent) : n \notin bad =>
       /\ StandsAt(W, starts[n], sent[n], n) /\ OnlyAt(W, starts[n], sent[n], n)
       /\ IF n = Len(sent) THEN Len(W) = starts[n] + 4 ELSE starts[n + 1] = starts[n] + 5
Reaches(W, q, p) ==
  W[q] = Sync /\ W[q + 1] + 2 \in 4..MaxPacketLen /\ q + W[q + 1] + 2 > p
Excuse(W, starts, bad, got, n) ==
  /\ n > 1 /\ (n - 1 \in bad \/ ~HasGot(got, n - 1))
  /\ \E q \in 1..starts[n] - 1 : Reaches(W, q, starts[n])
Met(past, W, starts, sent, bad, got) ==
  \A n \in 1..Len(sent) : n \notin bad =>
    /\ HasGot(got, n) => starts[n] + 4 <= past
    /\ starts[n] <= past => HasGot(got, n) \/ Excuse(W, starts, bad, got, n)
HandsetStream(P, W, starts, sent, bad, got) ==
  /\ Checked(P, sent, got, HandsetRecords) /\ bad \subseteq 1..Len(sent)
  /\ Len(P) <= Len(W) /\ P = Cut(W, Len(W) - Len(P))
  /\ Stand(W, starts, sent, bad) /\ Met(Len(W) - Len(P), W, starts, sent, bad, got)

\* Where the bytes are.
LEMMA StreamIs ==
  ASSUME NEW P, NEW W, NEW starts, NEW sent, NEW bad, NEW got,
         HandsetStream(P, W, starts, sent, bad, got)
  PROVE  /\ P \in Seq(Nat) /\ W \in Seq(Nat) /\ Len(P) \in Nat /\ Len(W) \in Nat
         /\ Len(W) - Len(P) \in 0..Len(W) /\ Len(sent) \in Nat
         /\ sent \in Seq(1..6) /\ Len(sent) < ByteValues /\ got \in Seq(HandsetRecords)
         /\ \A i \in 1..Len(P) : P[i] = W[Len(W) - Len(P) + i]
         /\ \A n \in 1..Len(sent) : starts[n] \in Nat /\ n \in Nat
<1>1. /\ P \in Seq(Nat) /\ W \in Seq(Nat) /\ sent \in Seq(1..6) /\ Len(P) <= Len(W)
      /\ P = Cut(W, Len(W) - Len(P)) /\ starts \in Seq(Nat) /\ Len(starts) = Len(sent)
      /\ Len(sent) < ByteValues /\ got \in Seq(HandsetRecords)
  BY DEF HandsetStream, Checked, Stand
<1>2. Len(P) \in Nat /\ Len(W) \in Nat /\ Len(sent) \in Nat
  BY <1>1
<1>3. Len(W) - Len(P) \in 0..Len(W)
  BY <1>1, <1>2
<1>4. \A n \in 1..Len(sent) : starts[n] \in Nat /\ n \in Nat
  BY <1>1, <1>2
<1> DEFINE past == Len(W) - Len(P)
<1>5. \A i \in 1..Len(W) - past : Cut(W, past)[i] = W[past + i]
  BY <1>1, <1>3, CutIs
<1>6. Len(W) - past = Len(P)
  BY <1>2
<1>7. \A i \in 1..Len(P) : P[i] = W[past + i]
  BY <1>1, <1>5, <1>6
<1> QED BY <1>1, <1>2, <1>3, <1>4, <1>7

\* The first m bytes go: the good frames that began there are handled, or excused.
LEMMA HandsetDrops ==
  ASSUME NEW P, NEW W, NEW starts, NEW sent, NEW bad, NEW got,
         HandsetStream(P, W, starts, sent, bad, got), NEW m \in 0..Len(P), NEW more,
         Checked(Cut(P, m), sent, more, HandsetRecords),
         \A n : HasGot(got, n) => HasGot(more, n),
         \A n \in 1..Len(sent) : n \notin bad /\ HasGot(more, n) =>
           HasGot(got, n) \/ (starts[n] = Len(W) - Len(P) + 1 /\ m >= 5),
         \A n \in 1..Len(sent), i \in 1..m : n \notin bad /\ starts[n] = Len(W) - Len(P) + i =>
           HasGot(more, n) \/ Excuse(W, starts, bad, more, n)
  PROVE  HandsetStream(Cut(P, m), W, starts, sent, bad, more)
<1> DEFINE Q == Cut(P, m)
           past == Len(W) - Len(P)
<1>1. /\ P \in Seq(Nat) /\ W \in Seq(Nat) /\ Len(P) \in Nat /\ Len(W) \in Nat
      /\ past \in 0..Len(W) /\ Len(sent) \in Nat
      /\ \A n \in 1..Len(sent) : starts[n] \in Nat /\ n \in Nat
  BY StreamIs
<1>2. m \in Nat /\ m <= Len(P) /\ past \in Nat /\ past + m <= Len(W)
  BY <1>1
<1>3. Len(Q) = Len(P) - m /\ Len(W) - Len(Q) = past + m /\ Len(Q) <= Len(W)
  <2>1. Len(Q) = Len(P) - m
    BY <1>1, CutIs
  <2> QED BY <1>1, <1>2, <2>1
<1>4. Q = Cut(W, past + m)
  <2>1. P = Cut(W, past)
    BY DEF HandsetStream
  <2>2. Cut(Cut(W, past), m) = Cut(W, past + m)
    BY <1>1, <1>2, CutTwice
  <2> QED BY <2>1, <2>2
<1>5. ASSUME NEW n \in 1..Len(sent), n \notin bad
      PROVE  /\ HasGot(more, n) => starts[n] + 4 <= past + m
             /\ starts[n] <= past + m => HasGot(more, n) \/ Excuse(W, starts, bad, more, n)
  <2>1. /\ HasGot(got, n) => starts[n] + 4 <= past
        /\ starts[n] <= past => HasGot(got, n) \/ Excuse(W, starts, bad, got, n)
    BY <1>5 DEF HandsetStream, Met
  <2>2. HasGot(more, n) => HasGot(got, n) \/ (starts[n] = past + 1 /\ m >= 5)
    BY <1>5
  <2>3. starts[n] \in Nat
    BY <1>1
  <2>4. HasGot(more, n) => starts[n] + 4 <= past + m
    BY <1>2, <2>1, <2>2, <2>3
  <2>5. CASE starts[n] <= past
    <3>1. CASE HasGot(got, n)
      BY <2>4, <3>1
    <3>2. CASE Excuse(W, starts, bad, got, n)
      <4>1. n > 1 /\ (n - 1 \in bad \/ ~HasGot(got, n - 1))
            /\ \E q \in 1..starts[n] - 1 : Reaches(W, q, starts[n])
        BY <3>2 DEF Excuse
      <4>2. ASSUME n - 1 \notin bad, HasGot(more, n - 1) PROVE FALSE
        <5>1. n - 1 \in 1..Len(sent) /\ n - 1 # Len(sent) /\ (n - 1) + 1 = n
          BY <1>1, <4>1
        <5>2. starts[n - 1] = past + 1
          <6> HIDE DEF past
          <6> QED BY <4>1, <4>2, <5>1 DEF past
        <5>3. starts[n] = starts[n - 1] + 5
          <6>1. /\ \A x \in 1..Len(sent) : x \notin bad =>
                     IF x = Len(sent) THEN Len(W) = starts[x] + 4 ELSE starts[x + 1] = starts[x] + 5
            BY DEF HandsetStream, Stand
          <6> QED BY <4>2, <5>1, <6>1
        <5> QED BY <1>2, <2>5, <5>2, <5>3
      <4> QED BY <2>4, <4>1, <4>2 DEF Excuse
    <3> QED BY <2>1, <2>5, <3>1, <3>2
  <2>6. CASE ~(starts[n] <= past)
    <3>1. ASSUME starts[n] <= past + m
          PROVE  HasGot(more, n) \/ Excuse(W, starts, bad, more, n)
      <4>1. starts[n] - past \in 1..m /\ starts[n] = past + (starts[n] - past)
        BY <1>2, <2>3, <2>6, <3>1
      <4> QED BY <1>5, <4>1
    <3> QED BY <2>4, <3>1
  <2> QED BY <2>4, <2>5, <2>6
<1>6. Met(past + m, W, starts, sent, bad, more)
  <2> HIDE DEF past
  <2> QED BY <1>5 DEF Met
<1> HIDE DEF Q, past
<1>7. Checked(Q, sent, more, HandsetRecords) /\ bad \subseteq 1..Len(sent) /\ Stand(W, starts, sent, bad)
  BY DEF Q, HandsetStream
<1> QED BY <1>3, <1>4, <1>6, <1>7 DEF HandsetStream, Q

LEMMA HandsetLeaves ==
  ASSUME NEW P, NEW W, NEW starts, NEW sent, NEW bad, NEW got,
         HandsetStream(P, W, starts, sent, bad, got), NEW m \in 0..Len(P),
         \A n \in 1..Len(sent), i \in 1..m : n \notin bad /\ starts[n] = Len(W) - Len(P) + i =>
           Excuse(W, starts, bad, got, n)
  PROVE  HandsetStream(Cut(P, m), W, starts, sent, bad, got)
<1>1. Checked(P, sent, got, HandsetRecords)
  BY DEF HandsetStream
<1>2. Checked(Cut(P, m), sent, got, HandsetRecords)
  BY <1>1, CheckedCut
<1> QED BY <1>2, HandsetDrops

\* A good frame that begins at the i-th byte.
LEMMA FrameBegins ==
  ASSUME NEW P, NEW W, NEW starts, NEW sent, NEW bad, NEW got,
         HandsetStream(P, W, starts, sent, bad, got), NEW n \in 1..Len(sent), n \notin bad,
         NEW i \in 1..Len(P), starts[n] = Len(W) - Len(P) + i
  PROVE  /\ i + 4 <= Len(P) /\ P[i] = Sync /\ P[i + 1] = 3 /\ P[i + 2] = sent[n] /\ P[i + 3] = n
         /\ P[i + 4] = Check(sent[n], n)
<1> DEFINE past == Len(W) - Len(P)
           p == starts[n]
<1>1. Len(P) \in Nat /\ Len(W) \in Nat /\ past \in Nat /\ i \in Nat /\ i >= 1
  <2>1. Len(P) \in Nat /\ Len(W) \in Nat /\ past \in 0..Len(W)
    BY StreamIs
  <2> QED BY <2>1
<1>2. \A j \in 1..Len(P) : P[j] = W[past + j]
  BY StreamIs
<1>3. StandsAt(W, p, sent[n], n)
  BY DEF HandsetStream, Stand
<1>4. p = past + i /\ p + 4 <= Len(W)
  BY <1>3 DEF StandsAt
<1>5. Len(W) - past = Len(P)
  BY <1>1
<1> HIDE DEF p, past
<1>6. i + 4 <= Len(P)
  BY <1>1, <1>4, <1>5
<1>7. \A x \in 0..4 : i + x \in 1..Len(P) /\ past + (i + x) = p + x
  BY <1>1, <1>4, <1>6
<1>8. \A x \in 0..4 : P[i + x] = W[p + x]
  BY <1>2, <1>7
<1>9. P[i] = W[p]
  BY <1>1, <1>2, <1>4
<1>10. P[i + 1] = W[p + 1] /\ P[i + 2] = W[p + 2] /\ P[i + 3] = W[p + 3] /\ P[i + 4] = W[p + 4]
  BY <1>8
<1> QED BY <1>3, <1>6, <1>9, <1>10 DEF StandsAt

\* Bytes that are no start go, and the front one with them if no frame begins there.
LEMMA HandsetAligns ==
  ASSUME NEW P, NEW W, NEW starts, NEW sent, NEW bad, NEW got,
         HandsetStream(P, W, starts, sent, bad, got), NEW m \in 0..Len(P),
         NEW x \in 1..2, \A i \in x..m : P[i] # Sync, x = 2 => P[2] # 3
  PROVE  HandsetStream(Cut(P, m), W, starts, sent, bad, got)
<1>1. Len(P) \in Nat
  BY StreamIs
<1>2. ASSUME NEW n \in 1..Len(sent), NEW i \in 1..m, n \notin bad, starts[n] = Len(W) - Len(P) + i
      PROVE  FALSE
  <2>1. i \in 1..Len(P)
    BY <1>1
  <2>2. P[i] = Sync /\ P[i + 1] = 3
    BY <1>2, <2>1, FrameBegins
  <2>3. ~(i \in x..m)
    BY <2>2
  <2>4. x = 2 /\ i = 1
    BY <2>3
  <2> QED BY <2>2, <2>4
<1> QED BY <1>2, HandsetLeaves

\* A length reaches into a good frame behind it: that one is excused.
LEMMA ReachedExcused ==
  ASSUME NEW P, NEW W, NEW starts, NEW sent, NEW bad, NEW got,
         HandsetStream(P, W, starts, sent, bad, got), NEW T \in 4..MaxPacketLen, T <= Len(P),
         P[1] = Sync, T = P[2] + 2, NEW more,
         \A n \in 1..Len(sent) : n \notin bad /\ HasGot(more, n) =>
           HasGot(got, n) \/ (starts[n] = Len(W) - Len(P) + 1 /\ T = 5),
         NEW n \in 1..Len(sent), n \notin bad, NEW i \in 2..T, starts[n] = Len(W) - Len(P) + i
  PROVE  Excuse(W, starts, bad, more, n)
<1> DEFINE past == Len(W) - Len(P)
           q == past + 1
<1>0. P \in Seq(Nat) /\ \A j \in 1..Len(P) : P[j] = W[past + j]
  BY StreamIs
<1>1. /\ Len(P) \in Nat /\ Len(W) \in Nat /\ past \in 0..Len(W) /\ Len(sent) \in Nat
      /\ \A j \in 1..Len(sent) : starts[j] \in Nat
  BY StreamIs
<1>2. past \in Nat /\ i \in Nat /\ T \in Nat /\ T >= 4 /\ MaxPacketLen \in Nat /\ n \in Nat
  <2>1. MaxPacketLen \in Nat
    BY HandsetAssumption
  <2> QED BY <1>1, <2>1
<1>3. 1 \in 1..Len(P) /\ 2 \in 1..Len(P) /\ past + 2 = q + 1
  <2>1. Len(P) \in Nat /\ T <= Len(P) /\ past \in Nat
    BY <1>1, <1>2
  <2> QED BY <1>2, <2>1
<1>4. W[q] = Sync /\ W[q + 1] + 2 = T /\ W[q + 1] \in Nat
  <2>1. P[1] = W[past + 1] /\ P[2] = W[past + 2]
    BY <1>0, <1>3
  <2>2. P[2] \in Nat
    BY <1>0, <1>3, ElementIs
  <2> QED BY <1>3, <2>1, <2>2
<1>5. q \in 1..starts[n] - 1 /\ q + T > starts[n]
  BY <1>1, <1>2
<1>6. Reaches(W, q, starts[n])
  <2>1. q \in Nat
    BY <1>2
  <2> HIDE DEF past, q
  <2>2. q + W[q + 1] + 2 = q + T
    BY <1>4, <2>1
  <2> QED BY <1>4, <1>5, <2>2 DEF Reaches
<1>7. n > 1
  <2>1. n = 1 => starts[n] = 1
    BY DEF HandsetStream, Stand
  <2>2. starts[n] # 1
    BY <1>2
  <2> QED BY <1>1, <2>1, <2>2
<1>8. ASSUME n - 1 \notin bad, HasGot(more, n - 1) PROVE FALSE
  <2>1. n - 1 \in 1..Len(sent) /\ n - 1 # Len(sent) /\ (n - 1) + 1 = n
    <3>1. n \in Nat /\ n > 1 /\ n <= Len(sent) /\ Len(sent) \in Nat
      BY <1>1, <1>7
    <3> QED BY <3>1
  <2>2. starts[n] = starts[n - 1] + 5
    <3>1. /\ \A x \in 1..Len(sent) : x \notin bad =>
               IF x = Len(sent) THEN Len(W) = starts[x] + 4 ELSE starts[x + 1] = starts[x] + 5
      BY DEF HandsetStream, Stand
    <3> QED BY <1>8, <2>1, <3>1
  <2>3. HasGot(got, n - 1) => starts[n - 1] + 4 <= past
    BY <1>8, <2>1 DEF HandsetStream, Met
  <2>4. HasGot(got, n - 1) \/ (starts[n - 1] = past + 1 /\ T = 5)
    BY <1>8, <2>1
  <2>5. starts[n - 1] \in Nat /\ starts[n] \in Nat
    BY <1>1, <2>1
  <2>6. starts[n] = past + i
    OBVIOUS
  <2>7. CASE HasGot(got, n - 1)
    BY <1>2, <2>2, <2>3, <2>5, <2>6, <2>7
  <2>8. CASE starts[n - 1] = past + 1 /\ T = 5
    BY <1>2, <2>2, <2>5, <2>6, <2>8
  <2> QED BY <2>4, <2>7, <2>8
<1> QED BY <1>5, <1>6, <1>7, <1>8 DEF Excuse

\* A packet that is none is skipped, as long as it says it is.
LEMMA HandsetSkips ==
  ASSUME NEW P, NEW W, NEW starts, NEW sent, NEW bad, NEW got,
         HandsetStream(P, W, starts, sent, bad, got), NEW T \in 4..MaxPacketLen, T <= Len(P),
         P[1] = Sync, T = P[2] + 2,
         \A n \in 1..Len(sent) : n \notin bad => starts[n] # Len(W) - Len(P) + 1
  PROVE  HandsetStream(Cut(P, T), W, starts, sent, bad, got)
<1>1. Len(P) \in Nat /\ T \in Nat /\ T \in 0..Len(P)
  <2>1. Len(P) \in Nat /\ MaxPacketLen \in Nat
    BY StreamIs, HandsetAssumption
  <2> QED BY <2>1
<1>2. ASSUME NEW n \in 1..Len(sent), NEW i \in 1..T, n \notin bad, starts[n] = Len(W) - Len(P) + i
      PROVE  Excuse(W, starts, bad, got, n)
  <2>1. i # 1
    BY <1>2
  <2>2. i \in 2..T
    BY <1>1, <2>1
  <2> QED BY <1>2, <2>2, ReachedExcused
<1> QED BY <1>1, <1>2, HandsetLeaves

\* The frame in front is taken.
LEMMA HandsetTakes ==
  ASSUME NEW P, NEW W, NEW starts, NEW sent, NEW bad, NEW got,
         HandsetStream(P, W, starts, sent, bad, got), Len(P) >= 5, P[1] = Sync,
         NEW n \in 1..Len(sent), P[2] = 3, P[3] = sent[n], P[4] = n, P[5] = Check(sent[n], n),
         NEW rec \in HandsetRecords, rec.n = n, rec.kind = sent[n]
  PROVE  HandsetStream(Cut(P, 5), W, starts, sent, bad, Append(got, rec))
<1> DEFINE more == Append(got, rec)
           past == Len(W) - Len(P)
<1>1. /\ Checked(P, sent, got, HandsetRecords) /\ got \in Seq(HandsetRecords) /\ Len(got) \in Nat
      /\ sent \in Seq(1..6) /\ Len(sent) < ByteValues /\ Len(P) \in Nat
  <2>1. Checked(P, sent, got, HandsetRecords)
    BY DEF HandsetStream
  <2>2. /\ got \in Seq(HandsetRecords) /\ sent \in Seq(1..6) /\ Len(sent) < ByteValues
        /\ Len(P) \in Nat
    BY StreamIs
  <2> QED BY <2>1, <2>2
<1>0. Len(W) \in Nat /\ past \in 0..Len(W) /\ starts[n] \in Nat
  BY StreamIs
<1>14. \A i \in 1..Len(P) : P[i] = W[past + i]
  BY StreamIs
<1>2. Checked(Cut(P, 5), sent, more, HandsetRecords)
  BY <1>1, CheckedTake
<1>3. /\ Len(more) = Len(got) + 1 /\ more[Len(got) + 1] = rec
      /\ \A h \in 1..Len(got) : more[h] = got[h]
  BY <1>1, AppendIs
<1> HIDE DEF more
<1>4. /\ Len(got) + 1 \in 1..Len(more) /\ \A h \in 1..Len(got) : h \in 1..Len(more)
      /\ \A h \in 1..Len(more) : h \in 1..Len(got) \/ h = Len(got) + 1
  BY <1>1, <1>3
<1>5. HasGot(more, n)
  BY <1>3, <1>4 DEF HasGot
<1>6. \A j : HasGot(got, j) => HasGot(more, j)
  BY <1>3, <1>4 DEF HasGot
<1>7. \A j : HasGot(more, j) => HasGot(got, j) \/ j = n
  BY <1>3, <1>4 DEF HasGot
<1>8. 5 \in 0..Len(P) /\ 5 \in 1..Len(P) /\ past \in Nat /\ past + 5 \in 1..Len(W)
  BY <1>0, <1>1
\* A good frame with this number begins here.
<1>9. ASSUME n \notin bad PROVE starts[n] = past + 1
  <2>1. OnlyAt(W, starts[n], sent[n], n)
    BY <1>9 DEF HandsetStream, Stand
  <2>2. W[past + 5] = Check(sent[n], n)
    <3> HIDE DEF past
    <3> QED BY <1>8, <1>14
  <2>3. past + 5 = starts[n] + 4
    BY <1>8, <2>1, <2>2 DEF OnlyAt
  <2> HIDE DEF past
  <2> QED BY <1>0, <1>8, <2>3
<1>10. ASSUME NEW j \in 1..Len(sent), j \notin bad, HasGot(more, j)
       PROVE  HasGot(got, j) \/ (starts[j] = past + 1 /\ 5 = 5)
  BY <1>7, <1>9, <1>10
<1>11. ASSUME NEW j \in 1..Len(sent), NEW i \in 1..5, j \notin bad, starts[j] = past + i
       PROVE  HasGot(more, j) \/ Excuse(W, starts, bad, more, j)
  <2>1. CASE i = 1
    <3>1. P[5] = Check(sent[j], j)
      <4>1. 1 \in 1..Len(P) /\ 1 + 4 = 5
        BY <1>8
      <4>2. P[1 + 4] = Check(sent[j], j)
        BY <1>11, <2>1, <4>1, FrameBegins
      <4> QED BY <4>1, <4>2
    <3>2. j = n
      BY <1>1, <3>1, CheckSame
    <3> QED BY <1>5, <3>2
  <2>2. CASE i # 1
    <3>1. i \in 2..5 /\ 5 \in 4..MaxPacketLen /\ 5 <= Len(P) /\ 5 = P[2] + 2
      <4>1. MaxPacketLen \in Nat /\ MaxPacketLen >= 5
        BY HandsetAssumption DEF FrameLen
      <4> QED BY <1>1, <2>2, <4>1
    <3>2. Excuse(W, starts, bad, more, j)
      BY <1>10, <1>11, <3>1, ReachedExcused
    <3> QED BY <3>2
  <2> QED BY <2>1, <2>2
<1>12. 5 >= 5
  OBVIOUS
<1>13. HandsetStream(Cut(P, 5), W, starts, sent, bad, more)
  BY <1>2, <1>6, <1>8, <1>10, <1>11, <1>12, HandsetDrops
<1> QED BY <1>13 DEF more

\* A frame arrives, whole or damaged.
LEMMA HandsetArrives ==
  ASSUME NEW P, NEW W, NEW starts, NEW sent, NEW bad, NEW got,
         HandsetStream(P, W, starts, sent, bad, got), NEW k \in 1..6,
         NEW N, N = Len(sent) + 1, N < ByteValues, NEW g, NEW worse,
         \/ g = FrameOf(k, N) /\ worse = bad
         \/ g \in DamagedFrames(FrameOf(k, N)) /\ worse = bad \cup {N}
  PROVE  HandsetStream(P \o g, W \o g, Append(starts, Len(W) + 1), Append(sent, k), worse, got)
<1> DEFINE Q == P \o g
           V == W \o g
           more == Append(sent, k)
           places == Append(starts, Len(W) + 1)
           past == Len(W) - Len(P)
<1>1. /\ P \in Seq(Nat) /\ W \in Seq(Nat) /\ Len(P) \in Nat /\ Len(W) \in Nat
      /\ past \in 0..Len(W) /\ Len(sent) \in Nat /\ N \in Nat
      /\ sent \in Seq(1..6) /\ Len(sent) < ByteValues /\ got \in Seq(HandsetRecords)
      /\ \A n \in 1..Len(sent) : starts[n] \in Nat /\ n \in Nat
  BY StreamIs
<1>2. /\ Checked(P, sent, got, HandsetRecords) /\ bad \subseteq 1..Len(sent) /\ P = Cut(W, past)
      /\ Stand(W, starts, sent, bad) /\ Met(past, W, starts, sent, bad, got)
  BY DEF HandsetStream
<1>3. starts \in Seq(Nat) /\ Len(starts) = Len(sent) /\ CrcsKnown(W, sent)
  BY <1>2 DEF Stand
<1>4. /\ g \in Seq(Nat) /\ Len(g) \in 4..5
      /\ \A i \in 1..Len(g) : Small(g[i]) \/ (g[i] = Check(k, N) /\ i = Len(g))
  BY <1>1, FrameBytes
<1>5. Checked(Q, more, got, HandsetRecords)
  BY <1>1, <1>2, <1>4, CheckedArrives
<1>6. /\ more \in Seq(1..6) /\ Len(more) = N /\ more[N] = k
      /\ \A n \in 1..Len(sent) : more[n] = sent[n]
  <2>1. /\ more \in Seq(1..6) /\ Len(more) = Len(sent) + 1 /\ more[Len(sent) + 1] = k
        /\ \A n \in 1..Len(sent) : more[n] = sent[n]
    BY <1>1, AppendIs
  <2> QED BY <2>1
<1>7. /\ places \in Seq(Nat) /\ Len(places) = N /\ places[N] = Len(W) + 1
      /\ \A n \in 1..Len(sent) : places[n] = starts[n]
  <2>1. Len(W) + 1 \in Nat
    BY <1>1
  <2>2. /\ places \in Seq(Nat) /\ Len(places) = Len(starts) + 1 /\ places[Len(starts) + 1] = Len(W) + 1
        /\ \A n \in 1..Len(starts) : places[n] = starts[n]
    BY <1>3, <2>1, AppendIs
  <2> QED BY <1>3, <2>2
<1>8. /\ V \in Seq(Nat) /\ Len(V) = Len(W) + Len(g) /\ Len(Q) = Len(P) + Len(g)
      /\ \A i \in 1..Len(W) : V[i] = W[i]
      /\ \A i \in 1..Len(g) : V[Len(W) + i] = g[i]
      /\ \A i \in 1..Len(V) : \/ i \in 1..Len(W) /\ V[i] = W[i]
                              \/ i - Len(W) \in 1..Len(g) /\ V[i] = g[i - Len(W)]
  BY <1>1, <1>4, JoinIs, JoinAt
<1>9. Q = Cut(V, past)
  BY <1>1, <1>2, <1>4, CutJoined
<1> HIDE DEF Q, V, more, places, past
<1>10. Len(Q) <= Len(V) /\ Len(V) - Len(Q) = past /\ Len(g) \in Nat
  BY <1>1, <1>4, <1>8 DEF past
<1>11. /\ \A n \in 1..N : (n \in 1..Len(sent) /\ n # N) \/ n = N
       /\ N \in 1..N /\ N \notin bad /\ \A n \in 1..Len(sent) : n \in 1..N /\ n # N
  BY <1>1, <1>2
<1>12. /\ worse \subseteq 1..N /\ \A n \in 1..Len(sent) : n \in worse <=> n \in bad
       /\ bad \subseteq worse /\ (N \notin worse => g = FrameOf(k, N))
  <2>1. (g = FrameOf(k, N) /\ worse = bad) \/ worse = bad \cup {N}
    OBVIOUS
  <2>2. 1..Len(sent) \subseteq 1..N
    BY <1>1
  <2> QED BY <1>2, <1>11, <2>1, <2>2
<1>13. \A n \in 1..N : ~Small(Check(more[n], n))
  <2>1. Len(more) < ByteValues
    BY <1>6
  <2> QED BY <1>6, <2>1, CheckRange
<1>14. \A m, n \in 1..N : Check(more[m], m) = Check(more[n], n) => m = n
  <2>1. Len(more) < ByteValues
    BY <1>6
  <2> QED BY <1>6, <2>1, CheckSame
\* Where the CRCs are.
<1>15. ASSUME NEW i \in 1..Len(V), NEW n \in 1..N, V[i] = Check(more[n], n)
       PROVE  IF n = N THEN i = Len(V) ELSE i \in 1..Len(W) /\ V[i] = W[i]
  <2>1. CASE i \in 1..Len(W) /\ V[i] = W[i]
    <3>1. PICK m \in 1..Len(sent) : W[i] = Check(sent[m], m)
      BY <1>3, <1>13, <1>15, <2>1 DEF CrcsKnown
    <3>2. m = n
      BY <1>6, <1>11, <1>14, <1>15, <2>1, <3>1
    <3>3. n # N
      BY <1>11, <3>1, <3>2
    <3> QED BY <2>1, <3>3
  <2>2. CASE i - Len(W) \in 1..Len(g) /\ V[i] = g[i - Len(W)]
    <3>1. g[i - Len(W)] = Check(k, N) /\ i - Len(W) = Len(g)
      BY <1>4, <1>13, <1>15, <2>2
    <3>2. n = N
      BY <1>6, <1>11, <1>14, <1>15, <2>2, <3>1
    <3>3. i = Len(V)
      BY <1>1, <1>8, <1>10, <3>1
    <3> QED BY <3>2, <3>3
  <2> QED BY <1>8, <2>1, <2>2
<1>16. CrcsKnown(V, more)
  <2> SUFFICES ASSUME NEW i \in 1..Len(V), ~Small(V[i])
               PROVE  \E n \in 1..Len(more) : V[i] = Check(more[n], n)
    BY DEF CrcsKnown
  <2>1. CASE i \in 1..Len(W) /\ V[i] = W[i]
    <3>1. PICK m \in 1..Len(sent) : W[i] = Check(sent[m], m)
      BY <1>3, <2>1 DEF CrcsKnown
    <3> QED BY <1>6, <1>11, <2>1, <3>1
  <2>2. CASE i - Len(W) \in 1..Len(g) /\ V[i] = g[i - Len(W)]
    BY <1>4, <1>6, <1>11, <2>2
  <2> QED BY <1>8, <2>1, <2>2
\* The frames that stand, the new one among them.
<1>17. ASSUME NEW n \in 1..Len(sent), n \notin bad
       PROVE  /\ StandsAt(V, places[n], more[n], n) /\ OnlyAt(V, places[n], more[n], n)
              /\ starts[n] + 4 <= Len(W)
              /\ places[n + 1] = places[n] + 5
  <2>1. StandsAt(W, starts[n], sent[n], n) /\ OnlyAt(W, starts[n], sent[n], n)
        /\ IF n = Len(sent) THEN Len(W) = starts[n] + 4 ELSE starts[n + 1] = starts[n] + 5
    BY <1>2, <1>17 DEF Stand
  <2> DEFINE p == starts[n]
  <2>2. p \in Nat \ {0} /\ p + 4 <= Len(W)
    BY <2>1 DEF StandsAt
  <2>3. places[n] = p /\ more[n] = sent[n]
    BY <1>6, <1>7
  <2> HIDE DEF p
  <2>4. /\ p \in 1..Len(W) /\ p + 1 \in 1..Len(W) /\ p + 2 \in 1..Len(W) /\ p + 3 \in 1..Len(W)
        /\ p + 4 \in 1..Len(W)
    BY <1>1, <2>2
  <2>5. /\ V[p] = W[p] /\ V[p + 1] = W[p + 1] /\ V[p + 2] = W[p + 2] /\ V[p + 3] = W[p + 3]
        /\ V[p + 4] = W[p + 4]
    BY <1>8, <2>4
  <2>6. p + 4 <= Len(V)
    BY <1>1, <1>8, <1>10, <2>2
  <2>7. StandsAt(V, p, sent[n], n)
    BY <2>1, <2>2, <2>5, <2>6 DEF StandsAt, p
  <2>8. OnlyAt(V, p, sent[n], n)
    <3> SUFFICES ASSUME NEW i \in 1..Len(V), V[i] = Check(sent[n], n) PROVE i = p + 4
      BY DEF OnlyAt
    <3>1. i \in 1..Len(W) /\ V[i] = W[i]
      BY <1>11, <1>15, <2>3
    <3> QED BY <2>1, <3>1 DEF OnlyAt, p
  <2>9. places[n + 1] = p + 5
    <3>1. CASE n = Len(sent)
      <4>1. n + 1 = N /\ Len(W) + 1 = p + 5
        BY <1>1, <2>1, <2>2, <3>1 DEF p
      <4> QED BY <1>7, <4>1
    <3>2. CASE n # Len(sent)
      <4>1. n + 1 \in 1..Len(sent)
        BY <1>1, <3>2
      <4> QED BY <1>7, <2>1, <3>2, <4>1 DEF p
    <3> QED BY <3>1, <3>2
  <2>10. starts[n] + 4 <= Len(W)
    BY <2>2 DEF p
  <2> QED BY <2>3, <2>7, <2>8, <2>9, <2>10
<1>18. ASSUME N \notin worse
       PROVE  /\ StandsAt(V, places[N], more[N], N) /\ OnlyAt(V, places[N], more[N], N)
              /\ Len(V) = places[N] + 4
  <2>1. g = FrameOf(k, N)
    BY <1>12, <1>18
  <2>2. /\ Len(g) = 5 /\ g[1] = Sync /\ g[2] = 3 /\ g[3] = k /\ g[4] = N /\ g[5] = Check(k, N)
    <3>1. Crc(<<k, N>>) = Check(k, N)
      BY <1>1, CheckIs
    <3> QED BY <2>1, <3>1 DEF FrameOf
  <2> DEFINE p == Len(W) + 1
  <2>3. p \in Nat \ {0} /\ Len(V) = p + 4 /\ p + 4 <= Len(V)
    <3>1. Len(W) \in Nat /\ Len(V) = Len(W) + 5
      BY <1>1, <1>8, <2>2
    <3> QED BY <3>1
  <2>4. /\ V[Len(W) + 1] = g[1] /\ V[Len(W) + 2] = g[2] /\ V[Len(W) + 3] = g[3]
        /\ V[Len(W) + 4] = g[4] /\ V[Len(W) + 5] = g[5]
    BY <1>8, <2>2
  <2>5. p + 1 = Len(W) + 2 /\ p + 2 = Len(W) + 3 /\ p + 3 = Len(W) + 4 /\ p + 4 = Len(W) + 5
    BY <1>1
  <2>6. places[N] = p /\ more[N] = k
    BY <1>6, <1>7
  <2>7. /\ V[p] = Sync /\ V[p + 1] = 3 /\ V[p + 2] = k /\ V[p + 3] = N /\ V[p + 4] = Check(k, N)
    BY <2>2, <2>4, <2>5
  <2> HIDE DEF p
  <2>8. StandsAt(V, p, k, N)
    BY <2>3, <2>7 DEF StandsAt
  <2>9. OnlyAt(V, p, k, N)
    BY <1>11, <1>15, <2>3, <2>6 DEF OnlyAt
  <2> QED BY <2>3, <2>6, <2>8, <2>9
<1>19. Stand(V, places, more, worse)
  <2>1. \A n \in 1..Len(more) : n = 1 => places[n] = 1
    <3> SUFFICES ASSUME 1 \in 1..Len(more) PROVE places[1] = 1
      OBVIOUS
    <3>1. CASE 1 \in 1..Len(sent)
      BY <1>2, <1>7, <3>1 DEF Stand
    <3>2. CASE 1 \notin 1..Len(sent)
      <4>1. Len(sent) = 0 /\ N = 1
        BY <1>1, <3>2
      <4>2. Len(W) = 0
        BY <1>2, <4>1 DEF Stand
      <4> QED BY <1>7, <4>1, <4>2
    <3> QED BY <3>1, <3>2
  <2>2. ASSUME NEW n \in 1..Len(more), n \notin worse
        PROVE  /\ StandsAt(V, places[n], more[n], n) /\ OnlyAt(V, places[n], more[n], n)
               /\ IF n = Len(more) THEN Len(V) = places[n] + 4 ELSE places[n + 1] = places[n] + 5
    <3>1. CASE n \in 1..Len(sent) /\ n # N
      BY <1>6, <1>12, <1>17, <2>2, <3>1
    <3>2. CASE n = N
      BY <1>6, <1>18, <2>2, <3>2
    <3> QED BY <1>6, <1>11, <3>1, <3>2
  <2> QED BY <1>6, <1>7, <1>8, <1>16, <2>1, <2>2 DEF Stand
<1>20. Met(past, V, places, more, worse, got)
  <2> SUFFICES ASSUME NEW n \in 1..N, n \notin worse
               PROVE  /\ HasGot(got, n) => places[n] + 4 <= past
                      /\ places[n] <= past => HasGot(got, n) \/ Excuse(V, places, worse, got, n)
    BY <1>6 DEF Met
  <2>1. CASE n = N
    <3>1. ~HasGot(got, n)
      BY <1>2, <1>11, <2>1 DEF Checked, GotSent, HasGot
    <3>2. ~(places[n] <= past)
      BY <1>1, <1>7, <2>1 DEF past
    <3> QED BY <3>1, <3>2
  <2>2. CASE n \in 1..Len(sent) /\ n # N
    <3>1. n \notin bad
      BY <1>12, <2>2
    <3>2. /\ HasGot(got, n) => starts[n] + 4 <= past
          /\ starts[n] <= past => HasGot(got, n) \/ Excuse(W, starts, bad, got, n)
      BY <1>2, <2>2, <3>1 DEF Met
    <3>3. places[n] = starts[n] /\ starts[n] \in Nat /\ starts[n] + 4 <= Len(W)
      BY <1>1, <1>7, <1>17, <2>2, <3>1
    <3>4. ASSUME Excuse(W, starts, bad, got, n)
          PROVE  Excuse(V, places, worse, got, n)
      <4>1. /\ n > 1 /\ (n - 1 \in bad \/ ~HasGot(got, n - 1))
            /\ \E q \in 1..starts[n] - 1 : Reaches(W, q, starts[n])
        BY <3>4 DEF Excuse
      <4>2. PICK q \in 1..starts[n] - 1 : Reaches(W, q, starts[n])
        BY <4>1
      <4>3. q \in 1..Len(W) /\ q + 1 \in 1..Len(W)
        <5>1. q \in Nat /\ q >= 1 /\ q + 1 <= starts[n]
          BY <3>3
        <5>2. Len(W) \in Nat
          BY <1>1
        <5> QED BY <3>3, <5>1, <5>2
      <4>4. Reaches(V, q, starts[n])
        BY <1>8, <4>2, <4>3 DEF Reaches
      <4> QED BY <1>12, <3>3, <4>1, <4>4 DEF Excuse
    <3> QED BY <3>2, <3>3, <3>4
  <2> QED BY <1>11, <2>1, <2>2
<1>21. worse \subseteq 1..Len(more)
  BY <1>6, <1>12
<1>22. HandsetStream(Q, V, places, more, worse, got)
  BY <1>5, <1>9, <1>10, <1>19, <1>20, <1>21 DEF HandsetStream
<1> QED BY <1>22 DEF Q, V, more, places

LEMMA MostIs == MaxPacketLen \in Nat /\ MaxPacketLen >= 5
BY HandsetAssumption DEF FrameLen

HandsetResyncInv ==
  /\ HandsetInv /\ Len(hbuf) < MaxPacketLen
  /\ HandsetStream(hbuf \o hline, hwire, hstarts, hsent, damaged, handled)

LEMMA HandsetResyncSend == HandsetResyncInv /\ SendFrame => HandsetResyncInv'
<1> SUFFICES ASSUME HandsetResyncInv, SendFrame PROVE HandsetResyncInv'
  OBVIOUS
<1> DEFINE N == Len(hsent) + 1
<1>0. PICK k \in HandsetKinds : \E g : FrameSent(k, g)
  BY FrameIsSent
<1>1. PICK g : FrameSent(k, g)
  BY <1>0
<1>2. /\ hline' = hline \o g /\ hwire' = hwire \o g
      /\ hsent' = Append(hsent, k) /\ hstarts' = Append(hstarts, Len(hwire) + 1)
      /\ \/ g = FrameOf(k, N) /\ damaged' = damaged
         \/ g \in DamagedFrames(FrameOf(k, N)) /\ damaged' = damaged \cup {N}
  BY <1>1 DEF FrameSent
<1>3. hbuf' = hbuf /\ handled' = handled
  BY DEF SendFrame
<1>4. k \in 1..6
  BY KindsKnown
<1>5. N < ByteValues /\ N \in Nat
  <2>1. Len(hsent) \in Nat /\ Len(hsent) < MaxHandsetFrames /\ MaxHandsetFrames \in Nat
        /\ MaxHandsetFrames < ByteValues
    BY HandsetAssumption DEF HandsetResyncInv, HandsetInv, HandsetTypeOK, SendFrame
  <2>2. ByteValues \in Nat
    BY Sizes
  <2> QED BY <2>1, <2>2
<1> DEFINE P == hbuf \o hline
<1>6. HandsetStream(P, hwire, hstarts, hsent, damaged, handled)
  BY DEF HandsetResyncInv
<1> HIDE DEF P
<1>7. N = Len(hsent) + 1
  OBVIOUS
<1> HIDE DEF N
<1>8. HandsetStream(P \o g, hwire \o g, Append(hstarts, Len(hwire) + 1), Append(hsent, k), damaged',
                    handled)
  BY <1>2, <1>4, <1>5, <1>6, <1>7, HandsetArrives
<1>9. P \o g = hbuf \o (hline \o g)
  <2>1. hbuf \in Seq(Nat) /\ hline \in Seq(Nat)
    BY DEF HandsetResyncInv, HandsetInv, InputTyped
  <2>2. g \in Seq(Nat)
    BY <1>2, <1>4, <1>5, FrameBytes
  <2>3. (hbuf \o hline) \o g = hbuf \o (hline \o g)
    BY <2>1, <2>2, JoinJoined
  <2> QED BY <2>3 DEF P
<1>10. HandsetInv'
  BY HandsetInvStep DEF HandsetNext, HandsetResyncInv
<1> QED BY <1>2, <1>3, <1>8, <1>9, <1>10 DEF HandsetResyncInv

\* The bytes from a start byte on, if there are any, begin with one.
LEMMA AlignedStarts ==
  ASSUME NEW S, NEW s \in Seq(S), AlignedFrom(s, 1) # <<>>
  PROVE  AlignedFrom(s, 1)[1] = Sync
<1> DEFINE J == {j \in 1..Len(s) : s[j] = Sync}
           x == Min(J)
<1>1. J # {} /\ J \in SUBSET Nat
  BY DEF AlignedFrom
<1>2. x \in J
  BY <1>1, MinIn
<1>3. AlignedFrom(s, 1) = SubSeq(s, x, Len(s))
  BY <1>1 DEF AlignedFrom
<1>4. x \in 1..Len(s) /\ s[x] = Sync /\ Len(s) \in Nat
  BY <1>2
<1> HIDE DEF x, J
<1>5. SubSeq(s, x, Len(s))[1] = s[x]
  BY <1>4
<1> QED BY <1>3, <1>4, <1>5

\* One turn of the parser, with the bytes s, aligned, and r still on the line.
LEMMA ParseKeeps ==
  ASSUME NEW s \in Seq(Nat), NEW r \in Seq(Nat), NEW k, Parse(s, k), s # <<>> => s[1] = Sync,
         HandsetStream(s \o r, hwire, hstarts, hsent, damaged, handled)
  PROVE  HandsetStream(hbuf' \o r, hwire, hstarts, hsent, damaged, handled')
<1> DEFINE P == s \o r
           T == TotalLen(s)
<1>1. /\ P \in Seq(Nat) /\ Len(P) = Len(s) + Len(r) /\ Len(s) \in Nat /\ Len(r) \in Nat
      /\ \A i \in 1..Len(s) : P[i] = s[i]
  <2>1. /\ P \in Seq(Nat) /\ Len(P) = Len(s) + Len(r)
        /\ \A i \in 1..Len(s) : P[i] = s[i]
    BY JoinIs
  <2>2. Len(s) \in Nat /\ Len(r) \in Nat
    OBVIOUS
  <2> QED BY <2>1, <2>2
<1>2. HandsetStream(P, hwire, hstarts, hsent, damaged, handled)
  OBVIOUS
<1>3. \A m \in 0..Len(s) : Cut(P, m) = Cut(s, m) \o r /\ m \in 0..Len(P)
  <2>1. \A m \in 0..Len(s) : Cut(P, m) = Cut(s, m) \o r
    BY CutJoined
  <2> HIDE DEF P
  <2> QED BY <1>1, <2>1
<1> HIDE DEF P
<1>4. CASE hbuf' = s /\ handled' = handled
  BY <1>2, <1>4 DEF P
<1> SUFFICES ASSUME ~(hbuf' = s /\ handled' = handled)
             PROVE  HandsetStream(hbuf' \o r, hwire, hstarts, hsent, damaged, handled')
  BY <1>4
<1>5. /\ Len(s) >= 3
      /\ \/ BadLength(s) /\ hbuf' = AlignedFrom(s, 2) /\ handled' = handled
         \/ /\ ~BadLength(s) /\ ~(Len(s) < T) /\ hbuf' = Skipped(s)
            /\ IF CrcGood(s) THEN ProcessPacket(s) ELSE handled' = handled
  BY <1>1 DEF Parse
<1>6. /\ 1 \in 1..Len(s) /\ 2 \in 1..Len(s) /\ 3 \in 1..Len(s) /\ s[2] \in Nat
      /\ P[1] = s[1] /\ P[2] = s[2] /\ P[3] = s[3] /\ s[1] = Sync
  <2>1. 1 \in 1..Len(s) /\ 2 \in 1..Len(s) /\ 3 \in 1..Len(s)
    BY <1>1, <1>5
  <2>2. s[2] \in Nat
    BY <2>1, ElementIs
  <2> QED BY <1>1, <2>1, <2>2
<1>7. T = s[2] + 2 /\ T \in Nat
  BY <1>6 DEF TotalLen
<1> HIDE DEF T
<1>8. CASE BadLength(s) /\ hbuf' = AlignedFrom(s, 2) /\ handled' = handled
  <2>1. 2 \in 1..Len(s) + 1 /\ 2 - 1 = 1
    BY <1>1, <1>5
  <2>2. PICK m \in 1..Len(s) : AlignedFrom(s, 2) = Cut(s, m) /\ \A j \in 2..m : s[j] # Sync
    BY <2>1, AlignedCut
  <2>3. m \in 0..Len(s) /\ \A j \in 2..m : j \in 1..Len(s)
    BY <1>1
  <2>4. P[2] # 3
    BY <1>6, <1>7, <1>8, MostIs DEF BadLength, T
  <2>5. \A j \in 2..m : P[j] # Sync
    BY <1>1, <2>2, <2>3
  <2>6. HandsetStream(Cut(P, m), hwire, hstarts, hsent, damaged, handled)
    <3>1. m \in 0..Len(P) /\ 2 \in 1..2
      BY <1>3, <2>3
    <3> QED BY <1>2, <2>4, <2>5, <3>1, HandsetAligns
  <2> QED BY <1>3, <1>8, <2>2, <2>3, <2>6
<1>9. CASE /\ ~BadLength(s) /\ ~(Len(s) < T) /\ hbuf' = Skipped(s)
           /\ IF CrcGood(s) THEN ProcessPacket(s) ELSE handled' = handled
  <2>1. T >= 4 /\ T <= MaxPacketLen /\ T \in 1..Len(s) /\ T \in 4..Len(s) /\ T \in 0..Len(s)
    <3>1. ~(T < 4) /\ ~(T > MaxPacketLen)
      BY <1>9 DEF BadLength, T
    <3>2. ~(Len(s) < T)
      BY <1>9
    <3>3. T \in Nat /\ MaxPacketLen \in Nat /\ Len(s) \in Nat
      BY <1>1, <1>7, MostIs
    <3>4. T >= 4 /\ T <= Len(s) /\ T <= MaxPacketLen
      BY <3>1, <3>2, <3>3
    <3> QED BY <3>3, <3>4
  <2>2. hbuf' = Cut(s, T)
    BY <1>9 DEF Skipped, Cut, T
  <2>3. Cut(P, T) = hbuf' \o r /\ T \in 1..Len(P) /\ T \in 4..Len(P)
    <3>1. Cut(P, T) = Cut(s, T) \o r
      BY <1>3, <2>1
    <3>2. Len(s) <= Len(P) /\ Len(P) \in Nat
      BY <1>1
    <3> QED BY <1>1, <2>1, <2>2, <3>1, <3>2
  <2>4. P[T] = s[T]
    BY <1>1, <2>1
  <2>5. SubSeq(P, 3, T - 1) = SubSeq(s, 3, T - 1)
    <3> DEFINE u == SubSeq(P, 3, T - 1)
               v == SubSeq(s, 3, T - 1)
    <3>1. CanPart(Nat, P, 2, T - 1) /\ CanPart(Nat, s, 2, T - 1)
      <4>1. 2 \in Nat /\ T - 1 \in Nat /\ 2 <= T - 1 /\ T - 1 <= Len(P) /\ T - 1 <= Len(s)
        BY <1>1, <2>1
      <4> QED BY <1>1, <4>1, PartTyped
    <3>2. u \in Seq(Nat) /\ v \in Seq(Nat) /\ Len(u) = (T - 1) - 2 /\ Len(v) = (T - 1) - 2
      BY <3>1 DEF CanPart
    <3>3. \A i \in 1..T - 3 : u[i] = P[i + 2] /\ v[i] = s[i + 2] /\ i + 2 \in 1..Len(s)
      <4>1. T \in Nat /\ T <= Len(s) /\ T <= Len(P) /\ Len(P) \in Nat
        BY <1>1, <2>1, <2>3
      <4>2. \A i \in 1..T - 3 : u[i] = P[i + 2]
        BY <1>1, <4>1
      <4>3. \A i \in 1..T - 3 : v[i] = s[i + 2]
        BY <1>1, <4>1
      <4>4. \A i \in 1..T - 3 : i + 2 \in 1..Len(s)
        BY <1>1, <4>1
      <4> QED BY <4>2, <4>3, <4>4
    <3>4. (T - 1) - 2 = T - 3
      BY <2>1
    <3> HIDE DEF u, v
    <3>5. \A i \in 1..Len(u) : u[i] = v[i]
      BY <1>1, <3>2, <3>3, <3>4
    <3>6. u = v
      BY <3>2, <3>5, Same
    <3> QED BY <3>6 DEF u, v
  <2>6. CrcGood(s) <=> P[T] = Crc(SubSeq(P, 3, T - 1))
    BY <2>4, <2>5 DEF CrcGood, T
  <2>7. Checked(P, hsent, handled, HandsetRecords)
    BY <1>2 DEF HandsetStream
  <2>8. CASE CrcGood(s)
    <3>1. T = 5 /\ \E n \in 1..Len(hsent) : P[3] = hsent[n] /\ P[4] = n /\ P[5] = Check(hsent[n], n)
      BY <2>3, <2>6, <2>7, <2>8, CrcTells
    <3>2. PICK n \in 1..Len(hsent) : P[3] = hsent[n] /\ P[4] = n /\ P[5] = Check(hsent[n], n)
      BY <3>1
    <3>3. P[2] = 3 /\ Len(P) >= 5
      <4>1. s[2] + 2 = 5 /\ 5 \in 1..Len(P)
        BY <1>7, <2>3, <3>1
      <4> QED BY <1>6, <4>1
    <3>4. s[3] = hsent[n] /\ s[4] = n
      <4>1. 4 \in 1..Len(s)
        BY <2>1
      <4> QED BY <1>1, <1>6, <3>2, <4>1
    <3> DEFINE rec == [n |-> s[4], kind |-> s[3], does |-> Does(s[3])]
    <3>5. handled' = Append(handled, rec)
      BY <1>9, <2>8 DEF ProcessPacket
    <3>6. rec \in HandsetRecords /\ rec.n = n /\ rec.kind = hsent[n]
      <4>1. hsent[n] \in Nat /\ n \in Nat
        <5>1. hsent \in Seq(1..6)
          BY <2>7 DEF Checked
        <5>2. hsent[n] \in 1..6
          BY <5>1, ElementIs
        <5> QED BY <5>2
      <4> QED BY <3>4, <4>1 DEF HandsetRecords, Does
    <3> HIDE DEF rec
    <3>7. HandsetStream(Cut(P, 5), hwire, hstarts, hsent, damaged, Append(handled, rec))
      BY <1>2, <1>6, <3>2, <3>3, <3>6, HandsetTakes
    <3> QED BY <2>3, <3>1, <3>5, <3>7
  <2>9. CASE ~CrcGood(s)
    <3>1. handled' = handled
      BY <1>9, <2>9
    <3>2. ASSUME NEW n \in 1..Len(hsent), n \notin damaged, hstarts[n] = Len(hwire) - Len(P) + 1
          PROVE  FALSE
      <4>1. P[2] = 3 /\ P[3] = hsent[n] /\ P[4] = n /\ P[5] = Check(hsent[n], n)
        <5>1. 1 + 1 = 2 /\ 1 + 2 = 3 /\ 1 + 3 = 4 /\ 1 + 4 = 5 /\ 1 \in 1..Len(P)
          BY <1>1, <1>6
        <5>2. P[1 + 1] = 3 /\ P[1 + 2] = hsent[n] /\ P[1 + 3] = n /\ P[1 + 4] = Check(hsent[n], n)
          BY <1>2, <3>2, <5>1, FrameBegins
        <5> QED BY <5>1, <5>2
      <4>2. T = 5 /\ 5 \in 1..Len(P)
        BY <1>6, <1>7, <2>3, <4>1
      <4>3. hsent[n] \in 1..6 /\ n \in Nat /\ n < ByteValues
        <5>1. hsent \in Seq(1..6) /\ Len(hsent) < ByteValues
          BY <2>7 DEF Checked
        <5> QED BY <5>1, CheckRange
      <4>4. Crc(<<hsent[n], n>>) = Check(hsent[n], n)
        BY <4>3, CheckIs
      <4>5. SubSeq(P, 3, 4) = <<hsent[n], n>>
        <5> DEFINE u == SubSeq(P, 3, 4)
                   v == <<hsent[n], n>>
        <5>1. CanPart(Nat, P, 2, 4)
          <6>1. 4 <= Len(P)
            BY <4>2
          <6> QED BY <1>1, <6>1, PartTyped
        <5>2. u \in Seq(Nat) /\ Len(u) = 2
          BY <5>1 DEF CanPart
        <5>3. u[1] = P[3] /\ u[2] = P[4]
          BY <1>1, <4>2
        <5>4. hsent[n] \in Nat
          BY <4>3
        <5>5. v \in Seq(Nat) /\ Len(v) = 2 /\ v[1] = hsent[n] /\ v[2] = n
          BY <4>3, <5>4
        <5> HIDE DEF u, v
        <5>6. \A i \in 1..Len(u) : u[i] = v[i]
          <6>1. \A i \in 1..2 : i = 1 \/ i = 2
            OBVIOUS
          <6> QED BY <4>1, <5>2, <5>3, <5>5, <6>1
        <5>7. u = v
          BY <5>2, <5>5, <5>6, Same
        <5> QED BY <5>7 DEF u, v
      <4>6. P[T] = Crc(SubSeq(P, 3, T - 1))
        <5>1. T - 1 = 4
          BY <4>2
        <5> QED BY <4>1, <4>2, <4>4, <4>5, <5>1
      <4> QED BY <2>6, <2>9, <4>6
    <3>3. T \in 4..MaxPacketLen /\ T <= Len(P) /\ P[1] = Sync /\ T = P[2] + 2
      <4>1. MaxPacketLen \in Nat /\ Len(P) \in Nat
        BY <1>1, MostIs
      <4> QED BY <1>6, <1>7, <2>1, <2>3, <4>1
    <3>4. HandsetStream(Cut(P, T), hwire, hstarts, hsent, damaged, handled)
      BY <1>2, <3>2, <3>3, HandsetSkips
    <3> QED BY <2>3, <3>1, <3>4
  <2> QED BY <2>8, <2>9
<1> QED BY <1>5, <1>8, <1>9

\* A turn of the parser leaves room in a buffer that may be full.
LEMMA ParseLeavesRoom ==
  ASSUME NEW s \in Seq(Nat), Len(s) <= MaxPacketLen, NEW k, Parse(s, k)
  PROVE  Len(hbuf') < MaxPacketLen
<1>1. Len(s) \in Nat /\ MaxPacketLen \in Nat /\ MaxPacketLen >= 5
  BY MostIs
<1>2. CASE Len(s) < 3
  BY <1>1, <1>2 DEF Parse
<1>3. CASE ~(Len(s) < 3)
  <2>1. 2 \in 1..Len(s) + 1 /\ 2 - 1 = 1 /\ 2 \in 1..Len(s)
    BY <1>1, <1>3
  <2>2. TotalLen(s) \in Nat
    <3>1. s[2] \in Nat
      BY <2>1, ElementIs
    <3> QED BY <3>1 DEF TotalLen
  <2>3. CASE BadLength(s)
    <3>1. hbuf' = AlignedFrom(s, 2)
      BY <1>3, <2>3 DEF Parse
    <3>2. PICK m \in 1..Len(s) : AlignedFrom(s, 2) = Cut(s, m)
      BY <2>1, AlignedCut
    <3>3. Len(Cut(s, m)) = Len(s) - m
      BY <1>1, CutIs
    <3> QED BY <1>1, <3>1, <3>2, <3>3
  <2>4. CASE ~BadLength(s) /\ Len(s) < TotalLen(s)
    <3>1. hbuf' = s
      BY <1>3, <2>4 DEF Parse
    <3> QED BY <1>1, <2>2, <2>4, <3>1 DEF BadLength
  <2>5. CASE ~BadLength(s) /\ ~(Len(s) < TotalLen(s))
    <3>1. hbuf' = Cut(s, TotalLen(s))
      BY <1>3, <2>5 DEF Parse, Skipped, Cut
    <3>2. TotalLen(s) \in 0..Len(s) /\ TotalLen(s) >= 4
      BY <1>1, <2>2, <2>5 DEF BadLength
    <3>3. Len(Cut(s, TotalLen(s))) = Len(s) - TotalLen(s)
      BY <3>2, CutIs
    <3> QED BY <1>1, <3>1, <3>2, <3>3
  <2> QED BY <2>3, <2>4, <2>5
<1> QED BY <1>2, <1>3

LEMMA HandsetResyncRead == HandsetResyncInv /\ HandleInput => HandsetResyncInv'
<1> SUFFICES ASSUME HandsetResyncInv, HandleInput PROVE HandsetResyncInv'
  OBVIOUS
<1> DEFINE most == MaxPacketLen
<1>1. HandsetInv'
  BY HandsetInvStep DEF HandsetNext, HandsetResyncInv
<1>2. /\ hbuf \in Seq(Nat) /\ hline \in Seq(Nat) /\ Len(hbuf) <= most /\ most \in Nat
      /\ Len(hbuf) \in Nat /\ Len(hline) \in Nat
      /\ HandsetStream(hbuf \o hline, hwire, hstarts, hsent, damaged, handled)
      /\ hsent' = hsent /\ damaged' = damaged /\ hwire' = hwire /\ hstarts' = hstarts
  <2>1. hbuf \in Seq(Nat) /\ hline \in Seq(Nat) /\ Len(hbuf) <= most
    BY DEF HandsetResyncInv, HandsetInv, InputTyped, HandsetTypeOK
  <2> QED BY <2>1, MostIs DEF HandsetResyncInv, HandleInput
<1>3. PICK k \in 0..Min({Len(hline), most - Len(hbuf)}) :
        /\ hline' = SubSeq(hline, k + 1, Len(hline))
        /\ Parse(AlignedFrom(hbuf \o SubSeq(hline, 1, k), 1), k)
  BY DEF HandleInput
<1> DEFINE s == hbuf \o SubSeq(hline, 1, k)
           a == AlignedFrom(s, 1)
           r == SubSeq(hline, k + 1, Len(hline))
<1>4. hline' = r /\ Parse(a, k)
  BY <1>3
<1> HIDE DEF most
<1>5. r \in Seq(Nat) /\ s \in Seq(Nat)
  BY <1>2, ReadTyped
<1>6. s \o r = hbuf \o hline
  <2>1. k \in 0..Len(hline)
    <3> DEFINE M == {Len(hline), most - Len(hbuf)}
    <3>1. M \in SUBSET Nat /\ M # {} /\ Len(hline) \in M
      BY <1>2
    <3>2. Min(M) \in M /\ Min(M) <= Len(hline)
      <4> HIDE DEF M
      <4> QED BY <3>1, MinIn
    <3>3. Min(M) \in Nat
      BY <3>1, <3>2
    <3> HIDE DEF M
    <3>4. k \in 0..Min(M)
      BY DEF M
    <3> QED BY <1>2, <3>2, <3>3, <3>4
  <2>2. CanCut(Nat, hbuf, hline, k)
    BY <1>2, <2>1, CutAndJoined
  <2> QED BY <2>2 DEF CanCut
<1> HIDE DEF r, s
<1>7. PICK m \in 0..Len(s) : a = Cut(s, m) /\ \A j \in 1..m : s[j] # Sync
  <2>1. 1 \in 1..Len(s) + 1 /\ 1 - 1 = 0
    BY <1>5
  <2> QED BY <1>5, <2>1, AlignedCut
<1>8. a # <<>> => a[1] = Sync
  BY <1>5, AlignedStarts
<1>9. /\ s \o r \in Seq(Nat) /\ Len(s \o r) = Len(s) + Len(r) /\ Len(s) \in Nat /\ Len(r) \in Nat
      /\ \A i \in 1..Len(s) : (s \o r)[i] = s[i]
  <2>1. /\ s \o r \in Seq(Nat) /\ Len(s \o r) = Len(s) + Len(r)
        /\ \A i \in 1..Len(s) : (s \o r)[i] = s[i]
    BY <1>5, JoinIs
  <2> QED BY <1>5, <2>1
<1>10. HandsetStream(Cut(s \o r, m), hwire, hstarts, hsent, damaged, handled)
  <2> DEFINE P == s \o r
  <2>1. m \in 0..Len(P) /\ \A j \in 1..m : P[j] # Sync
    BY <1>7, <1>9
  <2>2. HandsetStream(P, hwire, hstarts, hsent, damaged, handled)
    BY <1>2, <1>6
  <2> HIDE DEF P
  <2>3. 1 \in 1..2 /\ ~(1 = 2)
    OBVIOUS
  <2>4. HandsetStream(Cut(P, m), hwire, hstarts, hsent, damaged, handled)
    BY <2>1, <2>2, <2>3, HandsetAligns
  <2> QED BY <2>4 DEF P
<1>11. Cut(s \o r, m) = a \o r
  BY <1>5, <1>7, CutJoined
<1>12. a \in Seq(Nat)
  BY <1>5, <1>7, CutIs
<1> HIDE DEF a
<1>13. HandsetStream(hbuf' \o r, hwire, hstarts, hsent, damaged, handled')
  BY <1>4, <1>5, <1>8, <1>10, <1>11, <1>12, ParseKeeps
<1>14. Len(s) <= MaxPacketLen
  <2>1. Len(hbuf \o SubSeq(hline, 1, k)) <= MaxPacketLen
    BY <1>2, ReadTyped DEF most
  <2> QED BY <2>1 DEF s
<1>15. Len(a) <= MaxPacketLen
  <2>1. Len(a) = Len(s) - m
    BY <1>5, <1>7, CutIs
  <2> QED BY <1>9, <1>14, <2>1, MostIs
<1>16. Len(hbuf') < MaxPacketLen
  BY <1>4, <1>12, <1>15, ParseLeavesRoom
<1> QED BY <1>1, <1>2, <1>4, <1>13, <1>16 DEF HandsetResyncInv

LEMMA HandsetResyncStep == HandsetResyncInv /\ [HandsetNext]_handsetVars => HandsetResyncInv'
<1> SUFFICES ASSUME HandsetResyncInv, [HandsetNext]_handsetVars PROVE HandsetResyncInv'
  OBVIOUS
<1>1. CASE UNCHANGED <<hbuf, hline, hwire, hstarts, hsent, damaged, handled>>
  <2>1. HandsetInv'
    BY HandsetInvStep DEF HandsetResyncInv
  <2> QED BY <1>1, <2>1 DEF HandsetResyncInv
<1>2. CASE LinkChange \/ SendTelemetryToTX \/ UNCHANGED handsetVars
  BY <1>1, <1>2 DEF LinkChange, SendTelemetryToTX, handsetVars, inVars
<1> QED BY <1>2, HandsetResyncSend, HandsetResyncRead DEF HandsetNext

LEMMA HandsetResyncStart == HandsetInit => HandsetResyncInv
<1> SUFFICES ASSUME HandsetInit PROVE HandsetResyncInv
  OBVIOUS
<1>1. /\ hline = <<>> /\ hbuf = <<>> /\ hsent = <<>> /\ damaged = {} /\ handled = <<>>
      /\ hwire = <<>> /\ hstarts = <<>>
  BY DEF HandsetInit
<1>2. /\ <<>> \in Seq(Nat) /\ <<>> \in Seq(1..6) /\ <<>> \in Seq(HandsetRecords)
      /\ Len(<<>>) = 0 /\ <<>> \o <<>> = <<>> /\ 1..0 = {}
  OBVIOUS
<1>3. Checked(<<>>, <<>>, <<>>, HandsetRecords)
  <2>1. 0 < ByteValues
    BY Sizes
  <2> QED BY <1>2, <2>1 DEF Checked, CrcsKnown, CrcsRise, CrcsAfter, GotSent
<1>4. Stand(<<>>, <<>>, <<>>, {})
  BY <1>2 DEF Stand, CrcsKnown
<1>5. Cut(<<>>, 0) = <<>>
  BY <1>2 DEF Cut
<1>6. HandsetStream(<<>>, <<>>, <<>>, <<>>, {}, <<>>)
  BY <1>2, <1>3, <1>4, <1>5 DEF HandsetStream, Met
<1>7. Len(hbuf) < MaxPacketLen
  BY <1>1, <1>2, MostIs
<1> QED BY <1>1, <1>2, <1>6, <1>7, HandsetInvStart DEF HandsetResyncInv

LEMMA HandsetInvResyncs == HandsetResyncInv => HandsetResyncs
<1> SUFFICES ASSUME HandsetResyncInv PROVE HandsetResyncs
  OBVIOUS
<1> DEFINE P == hbuf \o hline
<1>1. HandsetStream(P, hwire, hstarts, hsent, damaged, handled)
  BY DEF HandsetResyncInv
<1>2. /\ hsent \in Seq(1..6) /\ handled \in Seq(HandsetRecords) /\ GotSent(hsent, handled)
      /\ Met(Len(hwire) - Len(P), hwire, hstarts, hsent, damaged, handled)
      /\ Len(hwire) \in Nat
  BY <1>1, StreamIs DEF HandsetStream, Checked
<1>3. Len(P) = Len(hbuf) + Len(hline) /\ Len(hbuf) \in Nat /\ Len(hline) \in Nat
  <2>1. hbuf \in Seq(Nat) /\ hline \in Seq(Nat)
    BY DEF HandsetResyncInv, HandsetInv, InputTyped
  <2>2. Len(hbuf \o hline) = Len(hbuf) + Len(hline)
    BY <2>1, JoinIs
  <2> QED BY <2>1, <2>2
<1>4. HandsetPast = Len(hwire) - Len(P)
  BY <1>2, <1>3 DEF HandsetPast, HandsetRead
<1> HIDE DEF P
<1>5. DOMAIN hsent = 1..Len(hsent) /\ DOMAIN handled = 1..Len(handled)
  BY <1>2
<1>6. \A n : Handles(n) <=> HasGot(handled, n)
  BY <1>5 DEF Handles, HasGot
<1>7. ASSUME NEW n \in DOMAIN hsent \ damaged, hstarts[n] <= HandsetPast
      PROVE  Handles(n) \/ (n > 1 /\ (n - 1 \in damaged \/ ~Handles(n - 1)) /\ Straddled(n))
  <2>1. HasGot(handled, n) \/ Excuse(hwire, hstarts, damaged, handled, n)
    BY <1>2, <1>4, <1>5, <1>7 DEF Met
  <2>2. (\E q \in 1..hstarts[n] - 1 : Reaches(hwire, q, hstarts[n])) => Straddled(n)
    BY DEF Reaches, Straddled
  <2> QED BY <1>6, <2>1, <2>2 DEF Excuse
<1>8. \A i \in DOMAIN handled : /\ handled[i].n \in DOMAIN hsent
                                /\ handled[i].kind = hsent[handled[i].n]
                                /\ i > 1 => handled[i - 1].n < handled[i].n
  BY <1>2, <1>5 DEF GotSent
<1> QED BY <1>7, <1>8 DEF HandsetResyncs, HandsetResyncInv

\* The transmitter's parser never sits on a full buffer, whatever length a damaged
\* frame claims, and a good frame is handled once it is past its beginning, unless the
\* frame before was damaged or passed over and a false length reaches into it; what it
\* handles was sent, with its kind, in order, each frame once (HandsetResyncs).
THEOREM HandsetResynced == HandsetSpec => []HandsetResyncs
BY HandsetResyncStart, HandsetResyncStep, HandsetInvResyncs, PTL DEF HandsetSpec

(***************************************************************************)
(* SBUS: the types. Every turn of the loop over the buffer makes it        *)
(* shorter, and the loop ends with less than a frame in it.                *)
(***************************************************************************)
SbusInv ==
  /\ SbusTypeOK
  /\ sline \in Seq(Nat) /\ sbuf \in Seq(Nat) /\ swire \in Seq(Nat) /\ sstarts \in Seq(Nat)

LEMMA SbusFrameIs ==
  ASSUME NEW c \in SbusContents, NEW footer \in Footers
  PROVE  LET f == SbusFrame(c, footer)
         IN /\ f \in Seq(Nat) /\ Len(f) = SbusFrameLen /\ f[1] = Header
            /\ f[SbusFrameLen] = footer /\ SbusDamaged(f) \subseteq Seq(Nat)
<1> DEFINE L == SbusFrameLen
           h == <<Header>> \o c
           f == SbusFrame(c, footer)
<1>1. L \in Nat /\ L > 3 /\ c \in Seq(Nat) /\ Len(c) = L - 2 /\ Header \in Nat /\ footer \in Nat
  BY SbusAssumption
<1>2. <<Header>> \in Seq(Nat) /\ Len(<<Header>>) = 1 /\ <<Header>>[1] = Header
      /\ <<footer>> \in Seq(Nat) /\ Len(<<footer>>) = 1 /\ <<footer>>[1] = footer
  BY <1>1
<1>3. h \in Seq(Nat) /\ Len(h) = L - 1 /\ h[1] = Header
  <2>1. h \in Seq(Nat) /\ Len(h) = 1 + (L - 2) /\ \A i \in 1..1 : h[i] = <<Header>>[i]
    BY <1>1, <1>2, JoinIs
  <2> QED BY <1>1, <1>2, <2>1
<1> HIDE DEF h
<1>4. f = h \o <<footer>>
  BY DEF SbusFrame, h
<1> HIDE DEF f
<1>5. f \in Seq(Nat) /\ Len(f) = L /\ f[1] = Header /\ f[L] = footer
  <2>1. /\ f \in Seq(Nat) /\ Len(f) = (L - 1) + 1
        /\ \A i \in 1..L - 1 : f[i] = h[i]
        /\ \A i \in 1..1 : f[(L - 1) + i] = <<footer>>[i]
    <3> DEFINE d == <<footer>>
    <3>1. d \in Seq(Nat) /\ Len(d) = 1
      BY <1>2
    <3> HIDE DEF d
    <3> DEFINE S == Nat
    <3>4. h \in Seq(S) /\ d \in Seq(S)
      BY <1>3, <3>1
    <3> HIDE DEF L, f, S
    <3>5. /\ h \o d \in Seq(S) /\ Len(h \o d) = Len(h) + Len(d)
          /\ \A i \in 1..Len(h) : (h \o d)[i] = h[i]
          /\ \A i \in 1..Len(d) : (h \o d)[Len(h) + i] = d[i]
      BY <3>4, JoinIs
    <3>2. /\ h \o d \in Seq(Nat) /\ Len(h \o d) = Len(h) + Len(d)
          /\ \A i \in 1..Len(h) : (h \o d)[i] = h[i]
          /\ \A i \in 1..Len(d) : (h \o d)[Len(h) + i] = d[i]
      BY <3>5 DEF S
    <3>3. f = h \o d
      BY <1>4 DEF d
    <3> QED BY <1>1, <1>3, <3>1, <3>2, <3>3 DEF d
  <2>2. 1 \in 1..L - 1 /\ (L - 1) + 1 = L /\ 1 \in 1..1
    BY <1>1
  <2>3. f[1] = h[1] /\ f[(L - 1) + 1] = <<footer>>[1]
    BY <2>1, <2>2
  <2> QED BY <1>1, <1>2, <1>3, <2>1, <2>2, <2>3
<1>6. SbusDamaged(f) \subseteq Seq(Nat)
  <2>1. DOMAIN f = 1..Len(f)
    BY <1>5
  <2>2. \A i \in DOMAIN f : RemoveAt(f, i) \in Seq(Nat)
    BY <1>5, <2>1, RemovedTyped
  <2>3. \A i \in DOMAIN f : \A b \in SbusJunk : ReplaceAt(f, i, b) \in Seq(Nat)
    BY <1>5, <2>1, ReplacedTyped, SbusAssumption
  <2> QED BY <2>2, <2>3 DEF SbusDamaged
<1> QED BY <1>5, <1>6 DEF f

\* What is sent: g is what is left of a frame.
CanSend(g) ==
  /\ sline' = sline \o g /\ swire' = swire \o g /\ sstarts' = Append(sstarts, Len(swire) + 1)
  /\ \/ sdamaged' = sdamaged /\ Len(g) = SbusFrameLen /\ g[1] = Header /\ g[SbusFrameLen] \in Footers
     \/ sdamaged' = sdamaged \cup {Len(sstarts) + 1}
LEMMA SbusSendIs == SbusInv /\ SbusSend => \E g \in Seq(Nat) : CanSend(g)
<1> SUFFICES ASSUME SbusInv, SbusSend PROVE \E g \in Seq(Nat) : CanSend(g)
  OBVIOUS
<1>1. sstarts' = Append(sstarts, Len(swire) + 1) /\ Len(sstarts') = Len(sstarts) + 1
  <2>1. sstarts' = Append(sstarts, Len(swire) + 1)
    BY DEF SbusSend
  <2>2. Len(swire) + 1 \in Nat /\ sstarts \in Seq(Nat)
    BY DEF SbusInv
  <2> QED BY <2>1, <2>2, AppendTyped
<1>2. PICK c \in SbusContents, footer \in Footers :
        LET f == SbusFrame(c, footer)
        IN \/ sline' = sline \o f /\ swire' = swire \o f /\ UNCHANGED sdamaged
           \/ /\ sdamaged' = sdamaged \cup {Len(sstarts')}
              /\ \E g \in SbusDamaged(f) : sline' = sline \o g /\ swire' = swire \o g
  BY DEF SbusSend
<1> DEFINE f == SbusFrame(c, footer)
<1>3. /\ f \in Seq(Nat) /\ Len(f) = SbusFrameLen /\ f[1] = Header /\ f[SbusFrameLen] = footer
      /\ SbusDamaged(f) \subseteq Seq(Nat)
  BY SbusFrameIs
<1>4. CASE sline' = sline \o f /\ swire' = swire \o f /\ UNCHANGED sdamaged
  BY <1>1, <1>3, <1>4 DEF CanSend
<1>5. CASE /\ sdamaged' = sdamaged \cup {Len(sstarts')}
           /\ \E g \in SbusDamaged(f) : sline' = sline \o g /\ swire' = swire \o g
  <2>1. PICK g \in SbusDamaged(f) : sline' = sline \o g /\ swire' = swire \o g
    BY <1>5
  <2>2. g \in Seq(Nat)
    BY <1>3
  <2>3. CanSend(g)
    BY <1>1, <1>5, <2>1 DEF CanSend
  <2> QED BY <2>2, <2>3
<1> QED BY <1>2, <1>4, <1>5

\* The loop over the buffer stays in every set it begins in and its turn does not leave.
Turns(l, s, D) ==
  /\ l[0] = <<s, <<>>>> /\ TakenFrom(s) = l[2 * SbusFrameLen]
  /\ \A v \in 0..2 * SbusFrameLen : l[v] \in D
  /\ \A v \in 1..2 * SbusFrameLen :
       l[v] = IF Len(l[v - 1][1]) >= SbusFrameLen THEN TakeOne(l[v - 1]) ELSE l[v - 1]
LEMMA SbusLoopStays ==
  ASSUME NEW D, NEW s, <<s, <<>>>> \in D,
         \A u \in D : Len(u[1]) >= SbusFrameLen => TakeOne(u) \in D
  PROVE  TakenFrom(s) \in D /\ \E l : Turns(l, s, D)
<1> DEFINE N == 2 * SbusFrameLen
           x == <<s, <<>>>>
           Turn(u) == IF Len(u[1]) >= SbusFrameLen THEN TakeOne(u) ELSE u
           F == [u \in D |-> Turn(u)]
           Is(l) == l = [v \in 0..N |-> IF v = 0 THEN x ELSE Turn(l[v - 1])]
           loop == CHOOSE l : Is(l)
<1>1. N \in Nat
  BY SbusAssumption
<1>2. F \in [D -> D]
  OBVIOUS
<1>3. x \in D
  OBVIOUS
<1>4. TakenFrom(s) = loop[N]
  BY DEF TakenFrom
<1> HIDE DEF N, x
<1>5. PICK g \in [0..N -> D] : g[0] = x /\ \A v \in 1..N : g[v] = F[g[v - 1]]
  <2> HIDE DEF F
  <2>1. CanIterate(D, F, x, N)
    BY <1>1, <1>2, <1>3, Iterated, Zenon
  <2> QED BY <2>1 DEF CanIterate
<1>6. \A v \in 1..N : g[v] = Turn(g[v - 1])
  <2> SUFFICES ASSUME NEW v \in 1..N PROVE g[v] = Turn(g[v - 1])
    OBVIOUS
  <2>1. v - 1 \in 0..N
    BY <1>1
  <2>2. g[v - 1] \in D
    BY <2>1
  <2> QED BY <1>5, <2>2
<1>7. Is(g)
  <2> HIDE DEF Turn
  <2>1. \A v \in 0..N : g[v] = IF v = 0 THEN x ELSE Turn(g[v - 1])
    BY <1>1, <1>5, <1>6
  <2> QED BY <2>1
<1>8. Is(loop)
  <2> HIDE DEF Is
  <2> QED BY <1>7
<1>9. \A v \in 0..N : loop[v] = IF v = 0 THEN x ELSE Turn(loop[v - 1])
  <2> HIDE DEF loop
  <2> QED BY <1>8
<1> HIDE DEF loop
<1> DEFINE R == {n \in Nat : n <= N => loop[n] \in D}
<1>10. 0 \in R
  BY <1>1, <1>3, <1>9
<1>11. ASSUME NEW n \in R PROVE n + 1 \in R
  <2> SUFFICES ASSUME n + 1 <= N PROVE loop[n + 1] \in D
    OBVIOUS
  <2>1. n \in Nat /\ n <= N /\ n + 1 \in 0..N /\ n + 1 # 0 /\ (n + 1) - 1 = n
    BY <1>1
  <2>2. loop[n] \in D
    BY <2>1
  <2>3. loop[n + 1] = Turn(loop[n])
    BY <1>9, <2>1
  <2> QED BY <2>2, <2>3
<1>12. R = Nat
  <2> HIDE DEF R
  <2>1. R \in SUBSET Nat
    BY DEF R
  <2> QED BY <1>10, <1>11, <2>1, Induction
<1>13. \A v \in 0..N : loop[v] \in D
  BY <1>1, <1>12
<1>14. loop[0] = x
  BY <1>1, <1>9
<1>15. ASSUME NEW v \in 1..N PROVE loop[v] = Turn(loop[v - 1])
  <2>1. v \in 0..N /\ v # 0
    BY <1>1
  <2> HIDE DEF Turn
  <2> QED BY <1>9, <2>1
<1>16. Turns(loop, s, D)
  BY <1>4, <1>13, <1>14, <1>15, Zenon DEF Turns, N, x
<1>17. N \in 0..N
  BY <1>1
<1> QED BY <1>4, <1>13, <1>16, <1>17

\* Every turn makes the buffer shorter, and the loop ends with less than a frame in it.
LEMMA SbusLoopEnds ==
  ASSUME NEW D, NEW s, <<s, <<>>>> \in D, Len(s) <= 2 * SbusFrameLen,
         \A u \in D : /\ Len(u[1]) \in Nat
                      /\ Len(u[1]) >= SbusFrameLen =>
                           TakeOne(u) \in D /\ Len(TakeOne(u)[1]) < Len(u[1])
  PROVE  TakenFrom(s) \in D /\ Len(TakenFrom(s)[1]) < SbusFrameLen
<1> DEFINE L == SbusFrameLen
           N == 2 * L
<1>1. TakenFrom(s) \in D /\ \E l : Turns(l, s, D)
  BY SbusLoopStays
<1>2. PICK l : Turns(l, s, D)
  BY <1>1
<1>3. /\ l[0] = <<s, <<>>>> /\ TakenFrom(s) = l[N] /\ \A v \in 0..N : l[v] \in D
      /\ \A v \in 1..N : l[v] = IF Len(l[v - 1][1]) >= L THEN TakeOne(l[v - 1]) ELSE l[v - 1]
  BY <1>2 DEF Turns
<1>4. L \in Nat /\ N \in Nat /\ L > 3
  BY SbusAssumption
<1> DEFINE len(v) == Len(l[v][1])
           R == {v \in Nat : v <= N => len(v) < L \/ len(v) + v <= N}
<1>5. \A v \in 0..N : len(v) \in Nat
  BY <1>3
<1>6. ASSUME NEW v \in 1..N PROVE len(v) < len(v - 1) \/ (len(v - 1) < L /\ len(v) = len(v - 1))
  <2>1. v - 1 \in 0..N
    BY <1>4
  <2>2. l[v - 1] \in D
    BY <1>3, <2>1
  <2>3. CASE len(v - 1) >= L
    <3>1. l[v] = TakeOne(l[v - 1])
      BY <1>3, <2>3
    <3> QED BY <2>2, <2>3, <3>1
  <2>4. CASE ~(len(v - 1) >= L)
    <3>1. l[v] = l[v - 1]
      BY <1>3, <2>4
    <3> QED BY <1>4, <1>5, <2>1, <2>4, <3>1
  <2> QED BY <2>3, <2>4
<1>7. 0 \in R
  <2>1. len(0) = Len(s) /\ 0 \in 0..N
    BY <1>3, <1>4
  <2> HIDE DEF len
  <2>2. len(0) \in Nat /\ len(0) <= N
    BY <1>5, <2>1
  <2> QED BY <1>4, <2>2
<1> HIDE DEF len
<1>8. ASSUME NEW n \in R PROVE n + 1 \in R
  <2> SUFFICES ASSUME n + 1 <= N PROVE len(n + 1) < L \/ len(n + 1) + (n + 1) <= N
    OBVIOUS
  <2>1. n \in Nat /\ n <= N /\ n \in 0..N /\ n + 1 \in 0..N /\ n + 1 \in 1..N /\ (n + 1) - 1 = n
    BY <1>4
  <2>2. len(n) < L \/ len(n) + n <= N
    BY <2>1
  <2>3. len(n) \in Nat /\ len(n + 1) \in Nat
    BY <1>5, <2>1
  <2>4. len(n + 1) < len(n) \/ (len(n) < L /\ len(n + 1) = len(n))
    BY <1>6, <2>1
  <2> QED BY <1>4, <2>1, <2>2, <2>3, <2>4
<1>9. R = Nat
  <2>1. R \in SUBSET Nat
    OBVIOUS
  <2> HIDE DEF R
  <2> QED BY <1>7, <1>8, <2>1, Induction
<1>10. len(N) < L \/ len(N) + N <= N
  BY <1>4, <1>9
<1>11. len(N) \in Nat
  BY <1>4, <1>5
<1>12. len(N) < L
  BY <1>4, <1>10, <1>11
<1> QED BY <1>1, <1>3, <1>12 DEF len

\* What the loop leaves in the buffer.
LEMMA TakenTyped ==
  ASSUME NEW S, NEW s \in Seq(S), NEW most \in Nat, Len(s) <= most
  PROVE  TakenFrom(s)[1] \in Seq(S) /\ Len(TakenFrom(s)[1]) <= most
<1> DEFINE Q == Seq(S)
           T == Seq(Nat \X Q)
           D == {u \in Q \X T : Len(u[1]) <= most}
<1>1. <<s, <<>>>> \in D
  <2> HIDE DEF Q
  <2>1. <<>> \in T /\ s \in Q
    BY DEF Q
  <2> HIDE DEF T
  <2> QED BY <2>1
<1>2. ASSUME NEW u \in D, Len(u[1]) >= SbusFrameLen PROVE TakeOne(u) \in D
  <2>1. u[1] \in Q /\ u[2] \in T /\ Len(u[1]) <= most /\ Len(u[1]) \in Nat
    OBVIOUS
  <2> DEFINE p == u[1]
             a == SubSeq(p, SbusFrameLen + 1, Len(p))
             b == SubSeq(p, 1, SbusFrameLen)
             e == <<Len(p), b>>
  <2>2. p \in Seq(S) /\ Len(p) \in Nat /\ SbusFrameLen \in 0..Len(p) /\ SbusFrameLen > 3
    BY <1>2, <2>1, SbusAssumption
  <2> HIDE DEF p
  <2>3. a \in Seq(S) /\ Len(a) <= Len(p) /\ b \in Seq(S)
    <3>1. a \in Seq(S) /\ Len(a) = Len(p) - SbusFrameLen /\ b \in Seq(S)
      BY <2>2, FirstTyped
    <3> HIDE DEF a, b
    <3> QED BY <2>2, <3>1
  <2> HIDE DEF a, b
  <2>5. ToHeader(a, 1) \in Seq(S) /\ Len(ToHeader(a, 1)) <= Len(a)
    BY <2>3, AlignedTyped
  <2>6. ToHeader(p, 2) \in Seq(S) /\ Len(ToHeader(p, 2)) <= Len(p)
    BY <2>2, AlignedTyped
  <2>7. Append(u[2], e) \in T
    <3>1. e \in Nat \X Q
      BY <2>2, <2>3
    <3> HIDE DEF Q, e
    <3> QED BY <2>1, <3>1, AppendTyped
  <2>8. Len(p) <= most
    BY <2>1 DEF p
  <2>9. Len(ToHeader(a, 1)) <= most /\ Len(ToHeader(p, 2)) <= most
    <3>1. Len(a) \in Nat /\ Len(ToHeader(a, 1)) \in Nat /\ Len(ToHeader(p, 2)) \in Nat
      BY <2>3, <2>5, <2>6
    <3> QED BY <2>2, <2>3, <2>5, <2>6, <2>8, <3>1
  <2> HIDE DEF e
  <2>10. TakeOne(u) = <<ToHeader(a, 1), Append(u[2], e)>> \/ TakeOne(u) = <<ToHeader(p, 2), u[2]>>
    BY Zenon DEF TakeOne, a, b, p, e
  <2>11. ToHeader(a, 1) \in Q /\ ToHeader(p, 2) \in Q
    BY <2>5, <2>6
  <2>12. \A x \in Q, y \in T : Len(x) <= most => <<x, y>> \in D
    <3> HIDE DEF Q, T
    <3> QED OBVIOUS
  <2> HIDE DEF Q, T, D
  <2>13. <<ToHeader(a, 1), Append(u[2], e)>> \in D
    BY <2>7, <2>9, <2>11, <2>12, Zenon
  <2>14. <<ToHeader(p, 2), u[2]>> \in D
    BY <2>1, <2>9, <2>11, <2>12, Zenon
  <2> QED BY <2>10, <2>13, <2>14, Zenon
<1> HIDE DEF D
<1>3. TakenFrom(s) \in D
  BY <1>1, <1>2, SbusLoopStays
<1> QED BY <1>3 DEF D

LEMMA SbusSendStep == SbusInv /\ SbusSend => SbusInv'
<1> SUFFICES ASSUME SbusInv, SbusSend PROVE SbusInv'
  OBVIOUS
<1>1. PICK g \in Seq(Nat) : CanSend(g)
  BY SbusSendIs
<1>2. /\ sline \in Seq(Nat) /\ swire \in Seq(Nat) /\ sstarts \in Seq(Nat) /\ sbuf \in Seq(Nat)
      /\ sdamaged \subseteq DOMAIN sstarts
  BY DEF SbusInv, SbusTypeOK
<1>3. sline' \in Seq(Nat) /\ swire' \in Seq(Nat)
  BY <1>1, <1>2 DEF CanSend
<1>4. /\ sstarts' \in Seq(Nat) /\ Len(sstarts') = Len(sstarts) + 1 /\ Len(sstarts) \in Nat
      /\ DOMAIN sstarts' = 1..Len(sstarts') /\ DOMAIN sstarts = 1..Len(sstarts)
  <2>1. Len(swire) + 1 \in Nat
    BY <1>2
  <2>2. sstarts' \in Seq(Nat) /\ Len(sstarts') = Len(sstarts) + 1
    BY <1>1, <1>2, <2>1, AppendTyped DEF CanSend
  <2> QED BY <1>2, <2>2
<1>5. Len(sstarts') \in 0..MaxSbusFrames
  BY <1>4, SbusAssumption DEF SbusSend
<1>6. sdamaged' \subseteq DOMAIN sstarts'
  <2>1. sdamaged' = sdamaged \/ sdamaged' = sdamaged \cup {Len(sstarts) + 1}
    BY <1>1 DEF CanSend
  <2>2. \A x : x \in DOMAIN sstarts \/ x = Len(sstarts) + 1 => x \in DOMAIN sstarts'
    BY <1>4
  <2> QED BY <1>2, <2>1, <2>2
<1>7. UNCHANGED <<sbuf, taken, sinceGood, sconnected>>
  BY DEF SbusSend
<1> QED BY <1>2, <1>3, <1>4, <1>5, <1>6, <1>7 DEF SbusInv, SbusTypeOK

LEMMA SbusReadStep == SbusInv /\ SbusHandleInput => SbusInv'
<1> SUFFICES ASSUME SbusInv, SbusHandleInput PROVE SbusInv'
  OBVIOUS
<1> DEFINE S == Nat
           most == 2 * SbusFrameLen
<1>1. /\ sline \in Seq(S) /\ sbuf \in Seq(S) /\ Len(sbuf) <= most /\ most \in Nat /\ Len(sbuf) \in Nat
      /\ sinceGood \in 0..SbusTimeout + 1 /\ sconnected \in BOOLEAN /\ SbusTimeout \in Nat
  BY SbusAssumption DEF SbusInv, SbusTypeOK
<1>2. PICK k \in 0..Min({Len(sline), most - Len(sbuf)}) :
        LET s == IF Len(sbuf) < most THEN sbuf \o SubSeq(sline, 1, k) ELSE ToHeader(sbuf, 2)
            w == TakenFrom(ToHeader(s, 1))
        IN /\ sline' = SubSeq(sline, k + 1, Len(sline))
           /\ sbuf' = w[1]
           /\ sinceGood' = IF w[2] # <<>> THEN 0 ELSE sinceGood
           /\ sconnected' = \/ w[2] # <<>>
                            \/ sconnected /\ sinceGood <= SbusTimeout
  BY DEF SbusHandleInput
<1> DEFINE s == IF Len(sbuf) < most THEN sbuf \o SubSeq(sline, 1, k) ELSE ToHeader(sbuf, 2)
           w == TakenFrom(ToHeader(s, 1))
<1>3. /\ sline' = SubSeq(sline, k + 1, Len(sline)) /\ sbuf' = w[1]
      /\ sinceGood' = IF w[2] # <<>> THEN 0 ELSE sinceGood
      /\ sconnected' = \/ w[2] # <<>>
                       \/ sconnected /\ sinceGood <= SbusTimeout
  BY <1>2
<1> HIDE DEF S, most
<1>4. /\ SubSeq(sline, k + 1, Len(sline)) \in Seq(S)
      /\ sbuf \o SubSeq(sline, 1, k) \in Seq(S) /\ Len(sbuf \o SubSeq(sline, 1, k)) <= most
  <2>1. k \in 0..Min({Len(sline), most - Len(sbuf)})
    BY <1>2 DEF most
  <2> QED BY <1>1, <2>1, ReadTyped
<1>5. ToHeader(sbuf, 2) \in Seq(S) /\ Len(ToHeader(sbuf, 2)) <= Len(sbuf)
  BY <1>1, AlignedTyped
<1>6. s \in Seq(S) /\ Len(s) <= most
  <2> DEFINE a == sbuf \o SubSeq(sline, 1, k)
             b == ToHeader(sbuf, 2)
  <2>1. /\ a \in Seq(S) /\ Len(a) <= most /\ b \in Seq(S) /\ Len(b) <= Len(sbuf)
    BY <1>4, <1>5
  <2>2. s = a \/ s = b
    OBVIOUS
  <2> HIDE DEF a, b, s
  <2>3. Len(b) \in Nat
    BY <2>1
  <2> QED BY <1>1, <2>1, <2>2, <2>3
<1> HIDE DEF s
<1>7. ToHeader(s, 1) \in Seq(S) /\ Len(ToHeader(s, 1)) <= most
  <2>1. ToHeader(s, 1) \in Seq(S) /\ Len(ToHeader(s, 1)) <= Len(s)
    BY <1>6, AlignedTyped
  <2>2. Len(ToHeader(s, 1)) \in Nat /\ Len(s) \in Nat
    BY <1>6, <2>1
  <2> QED BY <1>1, <1>6, <2>1, <2>2
<1>8. sbuf' \in Seq(S) /\ Len(sbuf') <= most
  BY <1>1, <1>3, <1>7, TakenTyped
<1>9. sinceGood' \in 0..SbusTimeout + 1 /\ sconnected' \in BOOLEAN
  <2> HIDE DEF w
  <2>1. sinceGood' = 0 \/ sinceGood' = sinceGood
    BY <1>3
  <2>2. 0 \in 0..SbusTimeout + 1
    BY <1>1
  <2>3. sinceGood' \in 0..SbusTimeout + 1
    BY <1>1, <2>1, <2>2
  <2>4. sconnected' \in BOOLEAN
    BY <1>1, <1>3, Zenon
  <2> QED BY <2>3, <2>4
<1>10. UNCHANGED <<swire, sstarts, sdamaged>>
  BY DEF SbusHandleInput
<1> QED BY <1>3, <1>4, <1>8, <1>9, <1>10 DEF SbusInv, SbusTypeOK, S, most

LEMMA SbusStep == SbusInv /\ [SbusNext]_sbusVars => SbusInv'
<1> SUFFICES ASSUME SbusInv, [SbusNext]_sbusVars PROVE SbusInv'
  OBVIOUS
<1>1. CASE SbusTick
  BY <1>1, SbusAssumption DEF SbusTick, SbusInv, SbusTypeOK
<1>2. CASE UNCHANGED sbusVars
  BY <1>2 DEF sbusVars, SbusInv, SbusTypeOK
<1> QED BY <1>1, <1>2, SbusSendStep, SbusReadStep DEF SbusNext

LEMMA SbusStart == SbusInit => SbusInv
<1> SUFFICES ASSUME SbusInit PROVE SbusInv
  OBVIOUS
<1>1. <<>> \in Seq(Nat) /\ Len(<<>>) = 0
  OBVIOUS
<1>2. /\ sline = <<>> /\ sbuf = <<>> /\ swire = <<>> /\ sstarts = <<>> /\ sdamaged = {} /\ sinceGood = 0
      /\ sconnected = FALSE
  BY DEF SbusInit
<1>3. 0 <= 2 * SbusFrameLen /\ 0 \in 0..MaxSbusFrames /\ 0 \in 0..SbusTimeout + 1
  BY SbusAssumption
<1>4. sconnected \in BOOLEAN
  BY <1>2
<1> QED BY <1>1, <1>2, <1>3, <1>4 DEF SbusInv, SbusTypeOK

\* The SBUS parser's buffer never overflows, whatever the line damages (SbusTypeOK).
THEOREM SbusTyped == SbusSpec => []SbusTypeOK
<1>1. SbusInv => SbusTypeOK
  BY DEF SbusInv
<1> QED BY <1>1, SbusStart, SbusStep, PTL DEF SbusSpec

(***************************************************************************)
(* The SBUS parser keeps to the frames. P are the bytes it is not past     *)
(* yet, the end of all those that arrived, W; T are the frames it took. A  *)
(* good frame that begins before P was taken, or passed over with one that *)
(* begins inside the frame before it. That one was damaged or passed over  *)
(* itself: what is taken ends where the next frame begins.                 *)
(***************************************************************************)
WasTaken(T, p) == \E i \in 1..Len(T) : T[i].at = p
LooksLike(W, q) == W[q] = Header /\ W[q + SbusFrameLen - 1] \in Footers
SbusTakenTypes == [at : Nat, frame : Seq(Nat)]
SbusStand(W, starts, bad) ==
  /\ W \in Seq(Nat) /\ starts \in Seq(Nat)
  /\ Len(starts) = 0 => Len(W) = 0
  /\ \A n \in 1..Len(starts) : n = 1 => starts[n] = 1
  /\ \A n \in 1..Len(starts) : n \notin bad =>
       /\ starts[n] \in Nat \ {0} /\ starts[n] + SbusFrameLen - 1 <= Len(W) /\ LooksLike(W, starts[n])
       /\ IF n = Len(starts) THEN Len(W) = starts[n] + SbusFrameLen - 1
          ELSE starts[n + 1] = starts[n] + SbusFrameLen
TookWell(T, past, W) ==
  \A i \in 1..Len(T) :
    /\ T[i].at \in Nat \ {0} /\ T[i].at + SbusFrameLen - 1 <= past
    /\ T[i].frame = SubSeq(W, T[i].at, T[i].at + SbusFrameLen - 1)
    /\ i > 1 => T[i - 1].at + SbusFrameLen <= T[i].at
SbusExcuse(W, starts, bad, T, n) ==
  /\ n > 1 /\ (n - 1 \in bad \/ ~WasTaken(T, starts[n - 1]))
  /\ \E q \in 1..starts[n] - 1 : q + SbusFrameLen > starts[n] /\ LooksLike(W, q)
SbusMet(past, W, starts, bad, T) ==
  \A n \in 1..Len(starts) : n \notin bad /\ starts[n] <= past =>
    WasTaken(T, starts[n]) \/ SbusExcuse(W, starts, bad, T, n)
SbusStream(P, W, starts, bad, T) ==
  /\ P \in Seq(Nat) /\ T \in Seq(SbusTakenTypes) /\ bad \subseteq 1..Len(starts)
  /\ Len(P) <= Len(W) /\ P = Cut(W, Len(W) - Len(P))
  /\ SbusStand(W, starts, bad) /\ TookWell(T, Len(W) - Len(P), W)
  /\ SbusMet(Len(W) - Len(P), W, starts, bad, T)

\* Where the bytes are.
LEMMA SbusStreamIs ==
  ASSUME NEW P, NEW W, NEW starts, NEW bad, NEW T, SbusStream(P, W, starts, bad, T)
  PROVE  /\ P \in Seq(Nat) /\ W \in Seq(Nat) /\ Len(P) \in Nat /\ Len(W) \in Nat
         /\ Len(W) - Len(P) \in 0..Len(W) /\ Len(starts) \in Nat /\ starts \in Seq(Nat)
         /\ T \in Seq(SbusTakenTypes) /\ Len(T) \in Nat /\ SbusFrameLen \in Nat /\ SbusFrameLen > 3
         /\ \A i \in 1..Len(P) : P[i] = W[Len(W) - Len(P) + i]
         /\ \A n \in 1..Len(starts) : starts[n] \in Nat /\ n \in Nat
<1>1. /\ P \in Seq(Nat) /\ W \in Seq(Nat) /\ Len(P) <= Len(W) /\ P = Cut(W, Len(W) - Len(P))
      /\ starts \in Seq(Nat) /\ T \in Seq(SbusTakenTypes)
  BY DEF SbusStream, SbusStand
<1>2. Len(P) \in Nat /\ Len(W) \in Nat /\ Len(starts) \in Nat /\ Len(T) \in Nat
  BY <1>1
<1>3. Len(W) - Len(P) \in 0..Len(W)
  BY <1>1, <1>2
<1>4. \A n \in 1..Len(starts) : starts[n] \in Nat /\ n \in Nat
  BY <1>1, <1>2
<1> DEFINE past == Len(W) - Len(P)
<1>5. \A i \in 1..Len(W) - past : Cut(W, past)[i] = W[past + i]
  BY <1>1, <1>3, CutIs
<1>6. Len(W) - past = Len(P)
  BY <1>2
<1>7. \A i \in 1..Len(P) : P[i] = W[past + i]
  BY <1>1, <1>5, <1>6
<1> QED BY <1>1, <1>2, <1>3, <1>4, <1>7, SbusAssumption

\* The first m bytes go: the good frames that began there are taken, or excused.
LEMMA SbusDrops ==
  ASSUME NEW P, NEW W, NEW starts, NEW bad, NEW T, SbusStream(P, W, starts, bad, T),
         NEW m \in 0..Len(P), NEW more \in Seq(SbusTakenTypes),
         TookWell(more, Len(W) - Len(P) + m, W),
         \A p : WasTaken(T, p) => WasTaken(more, p),
         \A p : WasTaken(more, p) => WasTaken(T, p) \/ p = Len(W) - Len(P) + 1,
         \A n \in 1..Len(starts), i \in 1..m : n \notin bad /\ starts[n] = Len(W) - Len(P) + i =>
           WasTaken(more, starts[n]) \/ SbusExcuse(W, starts, bad, more, n)
  PROVE  SbusStream(Cut(P, m), W, starts, bad, more)
<1> DEFINE Q == Cut(P, m)
           past == Len(W) - Len(P)
<1>1. /\ P \in Seq(Nat) /\ W \in Seq(Nat) /\ Len(P) \in Nat /\ Len(W) \in Nat
      /\ past \in 0..Len(W) /\ Len(starts) \in Nat /\ SbusFrameLen \in Nat /\ SbusFrameLen > 3
      /\ \A n \in 1..Len(starts) : starts[n] \in Nat /\ n \in Nat
  BY SbusStreamIs
<1>2. m \in Nat /\ m <= Len(P) /\ past \in Nat /\ past + m <= Len(W)
  BY <1>1
<1>3. Q \in Seq(Nat) /\ Len(Q) = Len(P) - m /\ Len(W) - Len(Q) = past + m /\ Len(Q) <= Len(W)
  <2>1. Q \in Seq(Nat) /\ Len(Q) = Len(P) - m
    BY <1>1, CutIs
  <2> QED BY <1>1, <1>2, <2>1
<1>4. Q = Cut(W, past + m)
  <2>1. P = Cut(W, past)
    BY DEF SbusStream
  <2>2. Cut(Cut(W, past), m) = Cut(W, past + m)
    BY <1>1, <1>2, CutTwice
  <2> QED BY <2>1, <2>2
<1>5. ASSUME NEW n \in 1..Len(starts), n \notin bad, starts[n] <= past + m
      PROVE  WasTaken(more, starts[n]) \/ SbusExcuse(W, starts, bad, more, n)
  <2>1. starts[n] \in Nat
    BY <1>1
  <2>2. CASE starts[n] <= past
    <3>1. WasTaken(T, starts[n]) \/ SbusExcuse(W, starts, bad, T, n)
      BY <1>5, <2>2 DEF SbusStream, SbusMet
    <3>2. CASE SbusExcuse(W, starts, bad, T, n)
      <4>1. /\ n > 1 /\ (n - 1 \in bad \/ ~WasTaken(T, starts[n - 1]))
            /\ \E q \in 1..starts[n] - 1 : q + SbusFrameLen > starts[n] /\ LooksLike(W, q)
        BY <3>2 DEF SbusExcuse
      <4>2. ASSUME n - 1 \notin bad, WasTaken(more, starts[n - 1]) PROVE FALSE
        <5>1. n - 1 \in 1..Len(starts) /\ n - 1 # Len(starts) /\ (n - 1) + 1 = n
          BY <1>1, <4>1
        <5>2. starts[n - 1] = past + 1
          <6> HIDE DEF past
          <6> QED BY <4>1, <4>2 DEF past
        <5>3. starts[n] = starts[n - 1] + SbusFrameLen
          <6>1. \A x \in 1..Len(starts) : x \notin bad =>
                  IF x = Len(starts) THEN Len(W) = starts[x] + SbusFrameLen - 1
                  ELSE starts[x + 1] = starts[x] + SbusFrameLen
            BY DEF SbusStream, SbusStand
          <6> QED BY <4>2, <5>1, <6>1
        <5> QED BY <1>1, <1>2, <2>2, <5>2, <5>3
      <4> QED BY <4>1, <4>2 DEF SbusExcuse
    <3> QED BY <3>1, <3>2
  <2>3. CASE ~(starts[n] <= past)
    <3>1. starts[n] - past \in 1..m /\ starts[n] = past + (starts[n] - past)
      BY <1>2, <1>5, <2>1, <2>3
    <3> QED BY <1>5, <3>1
  <2> QED BY <2>2, <2>3
<1>6. SbusMet(past + m, W, starts, bad, more)
  <2> HIDE DEF past
  <2> QED BY <1>5 DEF SbusMet
<1>7. TookWell(more, past + m, W)
  OBVIOUS
<1> HIDE DEF Q, past
<1>8. bad \subseteq 1..Len(starts) /\ SbusStand(W, starts, bad)
  BY DEF SbusStream
<1> QED BY <1>3, <1>4, <1>6, <1>7, <1>8 DEF SbusStream, Q

LEMMA SbusLeaves ==
  ASSUME NEW P, NEW W, NEW starts, NEW bad, NEW T, SbusStream(P, W, starts, bad, T),
         NEW m \in 0..Len(P),
         \A n \in 1..Len(starts), i \in 1..m : n \notin bad => starts[n] # Len(W) - Len(P) + i
  PROVE  SbusStream(Cut(P, m), W, starts, bad, T)
<1> DEFINE past == Len(W) - Len(P)
<1>1. T \in Seq(SbusTakenTypes) /\ TookWell(T, past, W)
  BY DEF SbusStream
<1>2. Len(P) \in Nat /\ Len(W) \in Nat /\ past \in 0..Len(W) /\ SbusFrameLen \in Nat
  BY SbusStreamIs
<1>3. TookWell(T, past + m, W)
  <2>1. past \in Nat /\ m \in Nat
    BY <1>2
  <2>2. \A a \in Nat : a + SbusFrameLen - 1 <= past => a + SbusFrameLen - 1 <= past + m
    BY <1>2, <2>1
  <2> HIDE DEF past
  <2> QED BY <1>1, <2>2 DEF TookWell
<1> QED BY <1>1, <1>3, SbusDrops

\* A good frame that begins at the i-th byte.
LEMMA SbusBegins ==
  ASSUME NEW P, NEW W, NEW starts, NEW bad, NEW T, SbusStream(P, W, starts, bad, T),
         NEW n \in 1..Len(starts), n \notin bad, NEW i \in 1..Len(P), starts[n] = Len(W) - Len(P) + i
  PROVE  /\ i + SbusFrameLen - 1 <= Len(P) /\ P[i] = Header /\ P[i + SbusFrameLen - 1] \in Footers
<1> DEFINE past == Len(W) - Len(P)
           p == starts[n]
           L == SbusFrameLen
<1>1. Len(P) \in Nat /\ Len(W) \in Nat /\ past \in 0..Len(W) /\ L \in Nat /\ L > 3
  BY SbusStreamIs
<1>2. \A j \in 1..Len(P) : P[j] = W[past + j]
  BY SbusStreamIs
<1>3. p + L - 1 <= Len(W) /\ W[p] = Header /\ W[p + L - 1] \in Footers
  BY DEF SbusStream, SbusStand, LooksLike
<1>4. p = past + i /\ past \in Nat /\ i \in Nat /\ i >= 1 /\ Len(W) - past = Len(P)
  BY <1>1
<1> HIDE DEF p, past
<1>5. i + L - 1 <= Len(P)
  BY <1>1, <1>3, <1>4
<1>6. i + L - 1 \in 1..Len(P) /\ past + (i + L - 1) = p + L - 1
  BY <1>1, <1>4, <1>5
<1> QED BY <1>2, <1>3, <1>4, <1>5, <1>6

\* Bytes that are no header go, and the front one with them if no frame is there.
LEMMA SbusAligns ==
  ASSUME NEW P, NEW W, NEW starts, NEW bad, NEW T, SbusStream(P, W, starts, bad, T),
         NEW m \in 0..Len(P), NEW x \in 1..2, \A i \in x..m : P[i] # Header,
         x = 2 => ~FrameThere(P)
  PROVE  SbusStream(Cut(P, m), W, starts, bad, T)
<1>1. Len(P) \in Nat /\ SbusFrameLen \in Nat
  BY SbusStreamIs
<1>2. ASSUME NEW n \in 1..Len(starts), NEW i \in 1..m, n \notin bad, starts[n] = Len(W) - Len(P) + i
      PROVE  FALSE
  <2>1. i \in 1..Len(P)
    BY <1>1
  <2>2. P[i] = Header /\ P[i + SbusFrameLen - 1] \in Footers
    BY <1>2, <2>1, SbusBegins
  <2>3. ~(i \in x..m)
    BY <2>2
  <2>4. x = 2 /\ i = 1
    BY <2>3
  <2>5. 1 + SbusFrameLen - 1 = SbusFrameLen
    BY <1>1
  <2> QED BY <2>2, <2>4, <2>5 DEF FrameThere
<1> QED BY <1>2, SbusLeaves

\* A part of what is left is a part of it all.
LEMMA PartOfCut ==
  ASSUME NEW W \in Seq(Nat), NEW past \in 0..Len(W), NEW L \in Nat, L <= Len(W) - past, L > 3
  PROVE  SubSeq(Cut(W, past), 1, L) = SubSeq(W, past + 1, past + L) /\ SubSeq(W, past + 1, past + L) \in Seq(Nat)
<1> DEFINE P == Cut(W, past)
           x == SubSeq(P, 1, L)
           y == SubSeq(W, past + 1, past + L)
<1>1. Len(W) \in Nat /\ past \in Nat /\ past + L \in Nat /\ past + L <= Len(W)
  OBVIOUS
<1>2. P \in Seq(Nat) /\ Len(P) = Len(W) - past /\ \A i \in 1..Len(W) - past : P[i] = W[past + i]
  BY CutIs
<1> HIDE DEF P
<1>3. x \in Seq(Nat) /\ Len(x) = L
  <2>1. L \in 0..Len(P)
    BY <1>1, <1>2
  <2> QED BY <1>2, <2>1, FirstTyped
<1>4. y \in Seq(Nat) /\ Len(y) = L
  <2>1. CanPart(Nat, W, past, past + L)
    BY <1>1, PartTyped
  <2> QED BY <1>1, <2>1 DEF CanPart
<1>5. \A i \in 1..L : x[i] = P[i] /\ y[i] = W[past + i]
  BY <1>1, <1>2
<1> HIDE DEF x, y
<1>6. ASSUME NEW i \in 1..Len(x) PROVE x[i] = y[i]
  <2>1. i \in 1..L /\ i \in 1..Len(W) - past
    BY <1>1, <1>3
  <2> QED BY <1>2, <1>5, <2>1
<1>7. x = y
  BY <1>3, <1>4, <1>6, Same
<1> QED BY <1>4, <1>7 DEF x, y, P

\* The frame in front is taken. A frame that begins inside it is excused.
LEMMA SbusTakesFront ==
  ASSUME NEW P, NEW W, NEW starts, NEW bad, NEW T, SbusStream(P, W, starts, bad, T),
         Len(P) >= SbusFrameLen, FrameThere(P),
         NEW rec, rec = [at |-> Len(W) - Len(P) + 1, frame |-> SubSeq(P, 1, SbusFrameLen)]
  PROVE  SbusStream(Cut(P, SbusFrameLen), W, starts, bad, Append(T, rec))
<1> DEFINE more == Append(T, rec)
           past == Len(W) - Len(P)
           L == SbusFrameLen
           q == past + 1
<1>1. /\ P \in Seq(Nat) /\ W \in Seq(Nat) /\ Len(P) \in Nat /\ Len(W) \in Nat
      /\ past \in 0..Len(W) /\ L \in Nat /\ L > 3
  BY SbusStreamIs
<1>2. /\ Len(starts) \in Nat /\ T \in Seq(SbusTakenTypes) /\ Len(T) \in Nat
      /\ \A n \in 1..Len(starts) : starts[n] \in Nat /\ n \in Nat
  BY SbusStreamIs
<1>3. \A i \in 1..Len(P) : P[i] = W[past + i]
  BY SbusStreamIs
<1>0. past \in Nat /\ L \in Nat /\ L > 3
  BY <1>1
<1>4. past \in Nat /\ q \in Nat \ {0} /\ past + L = q + L - 1 /\ L <= Len(W) - past
  BY <1>1
<1>5. rec.at = q /\ rec.frame = SubSeq(W, q, q + L - 1) /\ rec \in SbusTakenTypes
  <2>1. P = Cut(W, past)
    BY DEF SbusStream
  <2>2. SubSeq(P, 1, L) = SubSeq(W, past + 1, past + L) /\ SubSeq(W, past + 1, past + L) \in Seq(Nat)
    <3>1. W \in Seq(Nat) /\ past \in 0..Len(W) /\ L \in Nat /\ L > 3 /\ L <= Len(W) - past
      BY <1>1, <1>4
    <3> HIDE DEF past, L
    <3> QED BY <2>1, <3>1, PartOfCut
  <2>3. q \in Nat
    BY <1>4
  <2> HIDE DEF past, q
  <2>4. SubSeq(P, 1, L) = SubSeq(W, q, q + L - 1) /\ SubSeq(P, 1, L) \in Seq(Nat)
    BY <1>4, <2>2 DEF q
  <2>5. rec = [at |-> q, frame |-> SubSeq(P, 1, L)]
    BY DEF q, past
  <2> QED BY <2>3, <2>4, <2>5 DEF SbusTakenTypes
<1>6. /\ more \in Seq(SbusTakenTypes) /\ Len(more) = Len(T) + 1 /\ more[Len(T) + 1] = rec
      /\ \A i \in 1..Len(T) : more[i] = T[i]
  BY <1>2, <1>5, AppendIs
<1> HIDE DEF more
<1>7. \A i \in 1..Len(more) : \/ i \in 1..Len(T) /\ more[i] = T[i]
                              \/ i = Len(T) + 1 /\ more[i] = rec
  BY <1>2, <1>6
<1>8. Len(T) + 1 \in 1..Len(more) /\ \A i \in 1..Len(T) : i \in 1..Len(more)
  BY <1>2, <1>6
<1>9. \A p : WasTaken(more, p) <=> WasTaken(T, p) \/ p = q
  BY <1>5, <1>6, <1>7, <1>8 DEF WasTaken
<1>10. TookWell(more, past + L, W)
  <2>1. TookWell(T, past, W)
    BY DEF SbusStream
  <2> HIDE DEF past, q
  <2>2. ASSUME NEW i \in 1..Len(more)
        PROVE  /\ more[i].at \in Nat \ {0} /\ more[i].at + L - 1 <= past + L
               /\ more[i].frame = SubSeq(W, more[i].at, more[i].at + L - 1)
               /\ i > 1 => more[i - 1].at + L <= more[i].at
    <3>1. CASE i \in 1..Len(T) /\ more[i] = T[i]
      <4>1. /\ T[i].at \in Nat \ {0} /\ T[i].at + L - 1 <= past
            /\ T[i].frame = SubSeq(W, T[i].at, T[i].at + L - 1)
            /\ i > 1 => T[i - 1].at + L <= T[i].at
        BY <2>1, <3>1 DEF TookWell
      <4>2. T[i].at + L - 1 <= past + L
        BY <1>0, <4>1
      <4>3. i > 1 => i - 1 \in 1..Len(T)
        BY <1>2, <3>1
      <4>4. i > 1 => more[i - 1] = T[i - 1]
        BY <1>6, <4>3
      <4> QED BY <3>1, <4>1, <4>2, <4>4
    <3>2. CASE i = Len(T) + 1 /\ more[i] = rec
      <4>1. ASSUME i > 1 PROVE more[i - 1].at + L <= q
        <5>1. i - 1 \in 1..Len(T)
          BY <1>2, <3>2, <4>1
        <5>2. more[i - 1] = T[i - 1] /\ T[i - 1].at \in Nat /\ T[i - 1].at + L - 1 <= past
          BY <1>6, <2>1, <5>1 DEF TookWell
        <5>3. q = past + 1
          BY DEF q
        <5> QED BY <1>0, <5>2, <5>3
      <4>2. q + L - 1 <= past + L
        BY <1>1, <1>4
      <4> QED BY <1>4, <1>5, <3>2, <4>1, <4>2
    <3> QED BY <1>7, <3>1, <3>2
  <2> QED BY <2>2 DEF TookWell
<1>11. LooksLike(W, q)
  <2>1. 1 \in 1..Len(P) /\ L \in 1..Len(P) /\ past + L = q + L - 1
    BY <1>1, <1>4
  <2>2. P[1] = W[q] /\ P[L] = W[q + L - 1]
    BY <1>3, <2>1
  <2> QED BY <2>2 DEF FrameThere, LooksLike
<1>12. ASSUME NEW n \in 1..Len(starts), NEW i \in 1..L, n \notin bad, starts[n] = past + i
       PROVE  WasTaken(more, starts[n]) \/ SbusExcuse(W, starts, bad, more, n)
  <2>1. CASE i = 1
    BY <1>9, <1>12, <2>1
  <2>2. CASE i # 1
    <3>1. starts[n] \in Nat /\ n \in Nat /\ i \in Nat /\ i >= 2 /\ i <= L
      BY <1>1, <1>2, <2>2
    <3>2. q \in 1..starts[n] - 1 /\ q + L > starts[n]
      BY <1>1, <1>4, <1>12, <3>1
    <3>3. n > 1
      <4>1. n = 1 => starts[n] = 1
        BY DEF SbusStream, SbusStand
      <4>2. starts[n] # 1
        BY <1>4, <1>12, <3>1
      <4> QED BY <3>1, <4>1, <4>2
    <3>4. ASSUME n - 1 \notin bad, WasTaken(more, starts[n - 1]) PROVE FALSE
      <4>1. n - 1 \in 1..Len(starts) /\ n - 1 # Len(starts) /\ (n - 1) + 1 = n
        BY <1>2, <3>1, <3>3
      <4>2. starts[n] = starts[n - 1] + L
        <5>1. \A x \in 1..Len(starts) : x \notin bad =>
                IF x = Len(starts) THEN Len(W) = starts[x] + L - 1 ELSE starts[x + 1] = starts[x] + L
          BY DEF SbusStream, SbusStand
        <5> QED BY <3>4, <4>1, <5>1
      <4>3. starts[n - 1] \in Nat
        BY <1>2, <4>1
      <4>8. starts[n] = past + i /\ i \in Nat /\ i >= 2 /\ i <= L /\ q = past + 1
        BY <1>12, <3>1
      <4>7. past \in Nat /\ L \in Nat
        BY <1>0
      <4> HIDE DEF q, past, L
      <4>4. starts[n - 1] # q
        BY <4>2, <4>3, <4>7, <4>8
      <4>5. PICK j \in 1..Len(T) : T[j].at = starts[n - 1]
        BY <1>9, <3>4, <4>4 DEF WasTaken
      <4>6. starts[n - 1] + L - 1 <= past
        BY <4>5 DEF SbusStream, TookWell, past, L
      <4> QED BY <4>2, <4>3, <4>6, <4>7, <4>8
    <3> QED BY <1>11, <3>2, <3>3, <3>4 DEF SbusExcuse
  <2> QED BY <2>1, <2>2
<1>13. L \in 0..Len(P)
  BY <1>1
<1> HIDE DEF L
<1>14. SbusStream(Cut(P, L), W, starts, bad, more)
  <2>1. \A p : WasTaken(T, p) => WasTaken(more, p)
    BY <1>9
  <2>2. \A p : WasTaken(more, p) => WasTaken(T, p) \/ p = Len(W) - Len(P) + 1
    BY <1>9
  <2> QED BY <1>6, <1>10, <1>12, <1>13, <2>1, <2>2, SbusDrops
<1> QED BY <1>14 DEF more, L

\* A frame arrives, whole or not: g is what is left of it.
LEMMA SbusArrives ==
  ASSUME NEW P, NEW W, NEW starts, NEW bad, NEW T, SbusStream(P, W, starts, bad, T),
         NEW g \in Seq(Nat), NEW worse,
         \/ worse = bad /\ Len(g) = SbusFrameLen /\ g[1] = Header /\ g[SbusFrameLen] \in Footers
         \/ worse = bad \cup {Len(starts) + 1}
  PROVE  SbusStream(P \o g, W \o g, Append(starts, Len(W) + 1), worse, T)
<1> DEFINE Q == P \o g
           V == W \o g
           places == Append(starts, Len(W) + 1)
           past == Len(W) - Len(P)
           L == SbusFrameLen
           N == Len(starts) + 1
<1>1. /\ P \in Seq(Nat) /\ W \in Seq(Nat) /\ Len(P) \in Nat /\ Len(W) \in Nat
      /\ past \in 0..Len(W) /\ L \in Nat /\ L > 3 /\ Len(starts) \in Nat /\ starts \in Seq(Nat)
      /\ \A n \in 1..Len(starts) : starts[n] \in Nat /\ n \in Nat
  BY SbusStreamIs
<1>2. /\ P = Cut(W, past) /\ SbusStand(W, starts, bad) /\ TookWell(T, past, W)
      /\ SbusMet(past, W, starts, bad, T) /\ bad \subseteq 1..Len(starts) /\ T \in Seq(SbusTakenTypes)
  BY DEF SbusStream
<1>3. /\ Q \in Seq(Nat) /\ V \in Seq(Nat) /\ Len(g) \in Nat
      /\ Len(Q) = Len(P) + Len(g) /\ Len(V) = Len(W) + Len(g)
      /\ (\A i \in 1..Len(W) : V[i] = W[i]) /\ \A i \in 1..Len(g) : V[Len(W) + i] = g[i]
  <2> DEFINE S == Nat
  <2>1. P \in Seq(S) /\ W \in Seq(S) /\ g \in Seq(S)
    BY <1>1
  <2> HIDE DEF S
  <2>2. Q \in Seq(S) /\ Len(Q) = Len(P) + Len(g)
    BY <2>1, JoinIs
  <2>3. /\ V \in Seq(S) /\ Len(V) = Len(W) + Len(g)
        /\ (\A i \in 1..Len(W) : V[i] = W[i]) /\ \A i \in 1..Len(g) : V[Len(W) + i] = g[i]
    BY <2>1, JoinIs
  <2> QED BY <2>1, <2>2, <2>3 DEF S
<1>4. Len(V) - Len(Q) = past /\ Len(Q) <= Len(V)
  BY <1>1, <1>3
<1>5. Q = Cut(V, past)
  <2> DEFINE S == Nat
  <2>1. W \in Seq(S) /\ g \in Seq(S)
    BY <1>1
  <2> HIDE DEF S
  <2>2. Cut(W \o g, past) = Cut(W, past) \o g
    BY <1>1, <2>1, CutJoined
  <2> QED BY <1>2, <2>2
<1>6. /\ places \in Seq(Nat) /\ Len(places) = N /\ places[N] = Len(W) + 1
      /\ \A n \in 1..Len(starts) : places[n] = starts[n]
  <2>1. Len(W) + 1 \in Nat
    BY <1>1
  <2> QED BY <1>1, <2>1, AppendIs
<1> HIDE DEF Q, V, places
<1>7. \A n \in 1..N : n \in 1..Len(starts) \/ n = N
  BY <1>1
<1>8. ASSUME NEW q \in Nat \ {0}, q + L - 1 <= Len(W) PROVE LooksLike(V, q) <=> LooksLike(W, q)
  <2>1. q \in 1..Len(W) /\ q + L - 1 \in 1..Len(W)
    BY <1>1, <1>8
  <2> QED BY <1>3, <2>1 DEF LooksLike
<1>9. SbusStand(V, places, worse)
  <2>1. \A n \in 1..Len(places) : n = 1 => places[n] = 1
    <3>1. ASSUME Len(starts) = 0 PROVE places[N] = 1
      BY <1>2, <1>6, <3>1 DEF SbusStand
    <3>2. ASSUME Len(starts) # 0 PROVE 1 \in 1..Len(starts) /\ places[1] = 1
      <4>1. 1 \in 1..Len(starts)
        BY <1>1, <3>2
      <4> QED BY <1>2, <1>6, <4>1 DEF SbusStand
    <3>3. Len(starts) = 0 => N = 1
      OBVIOUS
    <3> QED BY <3>1, <3>2, <3>3
  <2>2. ASSUME NEW n \in 1..Len(starts), n \notin worse
        PROVE  /\ places[n] \in Nat \ {0} /\ places[n] + L - 1 <= Len(V) /\ LooksLike(V, places[n])
               /\ n # N /\ places[n + 1] = places[n] + L
    <3>1. n \notin bad /\ n \in Nat /\ n # N /\ places[n] = starts[n]
      BY <1>1, <1>6, <2>2
    <3>2. /\ starts[n] \in Nat \ {0} /\ starts[n] + L - 1 <= Len(W) /\ LooksLike(W, starts[n])
          /\ IF n = Len(starts) THEN Len(W) = starts[n] + L - 1 ELSE starts[n + 1] = starts[n] + L
      BY <1>2, <3>1 DEF SbusStand
    <3>3. LooksLike(V, starts[n])
      BY <1>8, <3>2
    <3>4. places[n + 1] = places[n] + L
      <4>1. CASE n = Len(starts)
        <5>1. places[n + 1] = Len(W) + 1
          BY <1>6, <4>1
        <5>2. Len(W) \in Nat /\ L \in Nat /\ starts[n] \in Nat /\ Len(W) = starts[n] + L - 1
          BY <1>1, <3>2, <4>1
        <5>3. Len(W) + 1 = starts[n] + L
          BY <5>2
        <5> QED BY <3>1, <5>1, <5>3
      <4>2. CASE n # Len(starts)
        <5>1. n + 1 \in 1..Len(starts)
          BY <1>1, <4>2
        <5> QED BY <1>6, <3>1, <3>2, <4>2, <5>1
      <4> QED BY <4>1, <4>2
    <3>5. starts[n] + L - 1 <= Len(V)
      <4>1. Len(V) = Len(W) + Len(g) /\ Len(g) \in Nat /\ Len(W) \in Nat /\ L \in Nat
        BY <1>1, <1>3
      <4> QED BY <3>2, <4>1
    <3> QED BY <3>1, <3>2, <3>3, <3>4, <3>5
  <2>3. ASSUME N \notin worse
        PROVE  /\ places[N] \in Nat \ {0} /\ places[N] + L - 1 <= Len(V) /\ LooksLike(V, places[N])
               /\ Len(V) = places[N] + L - 1
    <3>1. Len(g) = L /\ g[1] = Header /\ g[L] \in Footers
      BY <2>3
    <3>2. places[N] = Len(W) + 1 /\ Len(V) = Len(W) + L
      BY <1>3, <1>6, <3>1
    <3>3. 1 \in 1..Len(g) /\ L \in 1..Len(g) /\ (Len(W) + 1) + L - 1 = Len(W) + L
      BY <1>1, <3>1
    <3>4. V[Len(W) + 1] = Header /\ V[Len(W) + L] \in Footers
      BY <1>3, <3>1, <3>3
    <3>5. LooksLike(V, Len(W) + 1)
      BY <3>3, <3>4 DEF LooksLike
    <3> QED BY <1>1, <3>2, <3>3, <3>5
  <2>4. Len(places) # 0
    BY <1>1, <1>6
  <2> HIDE DEF L, N
  <2>5. ASSUME NEW n \in 1..Len(places), n \notin worse
        PROVE  /\ places[n] \in Nat \ {0} /\ places[n] + L - 1 <= Len(V) /\ LooksLike(V, places[n])
               /\ IF n = Len(places) THEN Len(V) = places[n] + L - 1 ELSE places[n + 1] = places[n] + L
    BY <1>6, <1>7, <2>2, <2>3, <2>5
  <2> QED BY <1>3, <1>6, <2>1, <2>4, <2>5 DEF SbusStand, L
<1>10. TookWell(T, past, V)
  <2> SUFFICES ASSUME NEW i \in 1..Len(T)
               PROVE  /\ T[i].at \in Nat \ {0} /\ T[i].at + L - 1 <= past
                      /\ T[i].frame = SubSeq(V, T[i].at, T[i].at + L - 1)
                      /\ i > 1 => T[i - 1].at + L <= T[i].at
    BY DEF TookWell
  <2>1. /\ T[i].at \in Nat \ {0} /\ T[i].at + L - 1 <= past
        /\ T[i].frame = SubSeq(W, T[i].at, T[i].at + L - 1)
        /\ i > 1 => T[i - 1].at + L <= T[i].at
    BY <1>2 DEF TookWell
  <2> DEFINE a == T[i].at - 1
             b == T[i].at + L - 1
             x == SubSeq(V, a + 1, b)
             y == SubSeq(W, a + 1, b)
  <2>2. a \in Nat /\ b \in Nat /\ a <= b /\ b <= Len(W) /\ b <= Len(V) /\ a + 1 = T[i].at
    <3>1. Len(V) = Len(W) + Len(g) /\ Len(g) \in Nat /\ Len(W) \in Nat /\ L \in Nat /\ L > 3 /\ past <= Len(W)
          /\ past \in Nat
      BY <1>1, <1>3
    <3> DEFINE p == T[i].at
    <3>2. p \in Nat /\ p # 0 /\ p + L - 1 <= past /\ a = p - 1 /\ b = p + L - 1
      BY <2>1
    <3> HIDE DEF p, a, b, past, L
    <3>3. a \in Nat /\ b \in Nat /\ a <= b /\ b <= past /\ a + 1 = p
      BY <3>1, <3>2
    <3>4. b <= Len(W) /\ b <= Len(V)
      BY <3>1, <3>3
    <3> QED BY <3>3, <3>4 DEF p
  <2> HIDE DEF a, b
  <2>3. x \in Seq(Nat) /\ Len(x) = b - a /\ y \in Seq(Nat) /\ Len(y) = b - a
    <3>1. CanPart(Nat, W, a, b) /\ CanPart(Nat, V, a, b)
      BY <1>1, <1>3, <2>2, PartTyped
    <3> QED BY <3>1 DEF CanPart
  <2>4. \A j \in 1..b - a : x[j] = V[a + j] /\ y[j] = W[a + j]
    <3>1. V \in Seq(Nat) /\ W \in Seq(Nat)
      BY <1>1, <1>3
    <3> QED BY <2>2, <3>1
  <2>5. \A j \in 1..b - a : a + j \in 1..Len(W)
    BY <1>1, <2>2
  <2> HIDE DEF x, y
  <2>6. \A j \in 1..Len(x) : x[j] = y[j]
    BY <1>3, <2>3, <2>4, <2>5
  <2>7. x = y
    BY <2>3, <2>6, Same
  <2>8. SubSeq(V, T[i].at, T[i].at + L - 1) = SubSeq(W, T[i].at, T[i].at + L - 1)
    BY <2>2, <2>7 DEF x, y, b
  <2> QED BY <2>1, <2>8
<1>11. SbusMet(past, V, places, worse, T)
  <2> SUFFICES ASSUME NEW n \in 1..Len(places), n \notin worse, places[n] <= past
               PROVE  WasTaken(T, places[n]) \/ SbusExcuse(V, places, worse, T, n)
    BY DEF SbusMet
  <2>1. n \in 1..Len(starts) /\ places[n] = starts[n]
    <3>1. n # N
      BY <1>1, <1>6
    <3>2. n \in 1..Len(starts)
      BY <1>6, <1>7, <3>1
    <3> QED BY <1>6, <3>2
  <2>2. n \notin bad
    OBVIOUS
  <2>3. WasTaken(T, starts[n]) \/ SbusExcuse(W, starts, bad, T, n)
    BY <1>2, <2>1, <2>2 DEF SbusMet
  <2>4. CASE SbusExcuse(W, starts, bad, T, n)
    <3>1. /\ n > 1 /\ (n - 1 \in bad \/ ~WasTaken(T, starts[n - 1]))
          /\ \E q \in 1..starts[n] - 1 : q + L > starts[n] /\ LooksLike(W, q)
      BY <2>4 DEF SbusExcuse
    <3>2. PICK q \in 1..starts[n] - 1 : q + L > starts[n] /\ LooksLike(W, q)
      BY <3>1
    <3>3. starts[n] \in Nat /\ starts[n] + L - 1 <= Len(W) /\ q \in Nat \ {0} /\ q + L - 1 <= Len(W)
      <4>1. starts[n] \in Nat /\ starts[n] + L - 1 <= Len(W)
        BY <1>2, <2>1, <2>2 DEF SbusStand
      <4>2. L \in Nat /\ q \in 1..starts[n] - 1 /\ Len(W) \in Nat
        BY <1>1
      <4> QED BY <4>1, <4>2
    <3>4. LooksLike(V, q)
      BY <1>8, <3>2, <3>3
    <3>5. n - 1 \in 1..Len(starts)
      BY <1>1, <2>1, <3>1
    <3>6. places[n - 1] = starts[n - 1] /\ (n - 1 \in bad => n - 1 \in worse)
      BY <1>6, <3>5
    <3> QED BY <2>1, <3>1, <3>2, <3>4, <3>6 DEF SbusExcuse
  <2> QED BY <2>1, <2>3, <2>4
<1>12. worse \subseteq 1..Len(places)
  <2>1. \A x \in 1..Len(starts) : x \in 1..N
    BY <1>1
  <2>2. N \in 1..N
    BY <1>1
  <2> HIDE DEF N
  <2>3. worse = bad \/ worse = bad \cup {N}
    BY DEF N
  <2> QED BY <1>2, <1>6, <2>1, <2>2, <2>3
<1> HIDE DEF past
<1> QED BY <1>2, <1>3, <1>4, <1>5, <1>9, <1>10, <1>11, <1>12 DEF SbusStream, Q, V, places

\* The loop over the buffer p with r still on the line.
LEMMA SbusLoopKeeps ==
  ASSUME NEW p \in Seq(Nat), Len(p) <= 2 * SbusFrameLen, NEW r \in Seq(Nat), NEW W, NEW starts, NEW bad,
         NEW T, SbusStream(p \o r, W, starts, bad, T)
  PROVE  /\ SbusStream(TakenFrom(p)[1] \o r, W, starts, bad,
                       T \o Noted(TakenFrom(p)[2], Len(W) - Len(r) + 1))
         /\ Len(TakenFrom(p)[1]) < SbusFrameLen
<1> DEFINE Q == Seq(Nat)
           K == Seq(Int \X Q)
           L == SbusFrameLen
           e == Len(W) - Len(r) + 1
           D == {u \in Q \X K : SbusStream(u[1] \o r, W, starts, bad, T \o Noted(u[2], e))}
<1>0. Len(W) \in Nat /\ Len(r) \in Nat /\ e \in Int /\ T \in Seq(SbusTakenTypes) /\ L \in Nat /\ L > 3
  <2>1. Len(W) \in Nat /\ T \in Seq(SbusTakenTypes) /\ L \in Nat /\ L > 3
    BY SbusStreamIs
  <2> QED BY <2>1
<1>1. ASSUME NEW t \in K, NEW x \in Int \X Q
      PROVE  /\ Append(t, x) \in K
             /\ [at |-> e - x[1], frame |-> x[2]] \in SbusTakenTypes =>
                  T \o Noted(Append(t, x), e)
                    = Append(T \o Noted(t, e), [at |-> e - x[1], frame |-> x[2]])
  <2> DEFINE S == Int \X Q
             rec == [at |-> e - x[1], frame |-> x[2]]
             note(z) == [at |-> e - z[1], frame |-> z[2]]
             Z == [at : Int, frame : Q]
             a == Append(t, x)
             na == Noted(a, e)
             nt == Noted(t, e)
  <2>1. \A z \in S : note(z) \in Z
    BY <1>0
  <2>2. t \in Seq(S) /\ x \in S
    OBVIOUS
  <2> HIDE DEF S, Z, Q, e
  <2>3. a \in Seq(S) /\ Len(a) = Len(t) + 1 /\ a[Len(t) + 1] = x /\ (\A i \in 1..Len(t) : a[i] = t[i])
        /\ DOMAIN a = 1..Len(a) /\ DOMAIN t = 1..Len(t) /\ Len(t) \in Nat
    BY <2>2
  <2> HIDE DEF a
  <2>4. na \in Seq(Z) /\ Len(na) = Len(a) /\ (\A i \in 1..Len(a) : na[i] = note(a[i]))
    <3>1. na = [i \in 1..Len(a) |-> note(a[i])]
      BY <2>3 DEF Noted
    <3>2. \A i \in 1..Len(a) : note(a[i]) \in Z
      BY <2>1, <2>3
    <3>3. Len(a) \in Nat
      BY <2>3
    <3> HIDE DEF note, na
    <3> QED BY <3>1, <3>2, <3>3
  <2>5. nt \in Seq(Z) /\ Len(nt) = Len(t) /\ (\A i \in 1..Len(t) : nt[i] = note(t[i]))
    <3>1. nt = [i \in 1..Len(t) |-> note(t[i])]
      BY <2>3 DEF Noted
    <3>2. \A i \in 1..Len(t) : note(t[i]) \in Z
      BY <2>1, <2>2
    <3>3. Len(t) \in Nat
      BY <2>3
    <3> HIDE DEF note, nt
    <3> QED BY <3>1, <3>2, <3>3
  <2>6. rec = note(x) /\ rec \in Z
    BY <2>1, <2>2
  <2> HIDE DEF note, rec, na, nt
  <2>7. na = Append(nt, rec)
    <3> DEFINE y == Append(nt, rec)
    <3>1. /\ y \in Seq(Z) /\ Len(y) = Len(nt) + 1 /\ y[Len(nt) + 1] = rec
          /\ \A i \in 1..Len(nt) : y[i] = nt[i]
      BY <2>5, <2>6, AppendIs
    <3> HIDE DEF y
    <3>2. ASSUME NEW i \in 1..Len(na) PROVE na[i] = y[i]
      <4>1. i \in 1..Len(t) \/ i = Len(t) + 1
        BY <2>3, <2>4
      <4>2. i \in 1..Len(a) /\ na[i] = note(a[i])
        BY <2>4
      <4> QED BY <2>3, <2>5, <2>6, <3>1, <4>1, <4>2
    <3>3. na = y
      BY <2>3, <2>4, <2>5, <3>1, <3>2, Same
    <3> QED BY <3>3 DEF y
  <2>8. ASSUME rec \in SbusTakenTypes PROVE T \o na = Append(T \o nt, rec)
    <3> DEFINE Y == SbusTakenTypes \cup Z
    <3>1. T \in Seq(Y) /\ nt \in Seq(Y) /\ rec \in Y
      BY <1>0, <2>5, <2>6
    <3> HIDE DEF Y
    <3>2. T \o Append(nt, rec) = Append(T \o nt, rec)
      BY <3>1
    <3> QED BY <2>7, <3>2
  <2>9. Append(t, x) \in K
    BY <2>3 DEF a, S
  <2> QED BY <2>8, <2>9 DEF rec, na, nt, a
<1>2. <<p, <<>>>> \in D
  <2>1. T \o Noted(<<>>, e) = T
    <3>1. Noted(<<>>, e) = <<>>
      BY DEF Noted
    <3> DEFINE Z == SbusTakenTypes
    <3> HIDE DEF Z
    <3>2. T \in Seq(Z)
      BY <1>0 DEF Z
    <3> QED BY <3>1, <3>2
  <2>2. p \in Q /\ <<>> \in K
    OBVIOUS
  <2> HIDE DEF Q, K, e
  <2> QED BY <2>1, <2>2
<1>3. ASSUME NEW u \in D
      PROVE  /\ Len(u[1]) \in Nat
             /\ Len(u[1]) >= L => TakeOne(u) \in D /\ Len(TakeOne(u)[1]) < Len(u[1])
  <2> DEFINE b == u[1]
             t == u[2]
             P == b \o r
             V == T \o Noted(t, e)
  <2>1. b \in Q /\ t \in K /\ SbusStream(P, W, starts, bad, V)
    OBVIOUS
  <2>2. b \in Seq(Nat) /\ Len(b) \in Nat /\ P \in Seq(Nat) /\ Len(P) = Len(b) + Len(r)
        /\ \A i \in 1..Len(b) : P[i] = b[i]
    <3> DEFINE S == Nat
    <3>1. b \in Seq(S) /\ r \in Seq(S)
      BY <2>1
    <3> HIDE DEF S, b
    <3>2. P \in Seq(S) /\ Len(P) = Len(b) + Len(r) /\ \A i \in 1..Len(b) : P[i] = b[i]
      BY <3>1, JoinIs
    <3> QED BY <3>1, <3>2 DEF S
  <2> SUFFICES ASSUME Len(b) >= L PROVE TakeOne(u) \in D /\ Len(TakeOne(u)[1]) < Len(b)
    BY <2>2
  <2>3. \A x \in Q, y \in K : SbusStream(x \o r, W, starts, bad, T \o Noted(y, e)) => <<x, y>> \in D
    <3> HIDE DEF Q, K, e
    <3> QED OBVIOUS
  <2>4. u = <<b, t>>
    OBVIOUS
  <2> HIDE DEF b, t, D, P, V, e
  <2>5. CASE FrameThere(b)
    <3> DEFINE c == Cut(b, L)
               g == SubSeq(b, 1, L)
               a == ToHeader(c, 1)
               x == <<Len(b), g>>
               rec == [at |-> e - x[1], frame |-> x[2]]
    <3>1. L \in 0..Len(b) /\ L \in 0..Len(P) /\ Len(P) >= L
      BY <1>0, <2>2
    <3>2. c \in Seq(Nat) /\ Len(c) = Len(b) - L
      BY <2>2, <3>1, CutIs
    <3>3. FrameThere(P)
      <4>1. 1 \in 1..Len(b) /\ L \in 1..Len(b)
        BY <1>0, <2>2
      <4> QED BY <2>2, <2>5, <4>1 DEF FrameThere
    <3>4. g = SubSeq(P, 1, L) /\ g \in Seq(Nat)
      <4> DEFINE h == SubSeq(P, 1, L)
      <4>2. g \in Seq(Nat) /\ h \in Seq(Nat) /\ Len(g) = L /\ Len(h) = L
        BY <2>2, <3>1, FirstTyped
      <4>3. \A i \in 1..L : g[i] = b[i] /\ h[i] = P[i]
        BY <2>2, <3>1
      <4>4. \A i \in 1..L : i \in 1..Len(b)
        BY <2>2, <3>1
      <4> HIDE DEF g, h
      <4>5. \A i \in 1..Len(g) : g[i] = h[i]
        BY <2>2, <4>2, <4>3, <4>4
      <4> QED BY <4>2, <4>5, Same DEF h
    <3>5. Cut(P, L) = c \o r
      BY <2>2, <3>1, CutJoined DEF P
    <3> HIDE DEF g, c
    <3>6. rec = [at |-> Len(W) - Len(P) + 1, frame |-> SubSeq(P, 1, L)] /\ x \in Int \X Q
      <4>1. e - Len(b) = Len(W) - Len(P) + 1
        BY <1>0, <2>2 DEF e
      <4>2. x \in Int \X Q
        <5>1. Len(b) \in Int /\ g \in Q
          BY <2>2, <3>4
        <5> HIDE DEF Q
        <5> QED BY <5>1
      <4>3. x[1] = Len(b) /\ x[2] = g
        OBVIOUS
      <4> HIDE DEF x
      <4> QED BY <3>4, <4>1, <4>2, <4>3
    <3>7. SbusStream(c \o r, W, starts, bad, Append(V, rec))
      <4> HIDE DEF rec
      <4> QED BY <2>1, <3>1, <3>3, <3>5, <3>6, SbusTakesFront
    <3>8. rec \in SbusTakenTypes
      <4>1. Len(W) - Len(P) \in 0..Len(W) /\ Len(W) \in Nat
        BY <2>1, SbusStreamIs
      <4>2. Len(W) - Len(P) + 1 \in Nat
        BY <4>1
      <4> HIDE DEF rec
      <4> QED BY <3>4, <3>6, <4>2 DEF SbusTakenTypes
    <3>9. T \o Noted(Append(t, x), e) = Append(V, rec) /\ Append(t, x) \in K
      <4> HIDE DEF x, K, Q
      <4>1. t \in K /\ x \in Int \X Q
        BY <2>1, <3>6
      <4> QED BY <1>1, <3>8, <4>1 DEF V
    <3>10. PICK m \in 0..Len(c) : a = Cut(c, m) /\ \A j \in 1..m : c[j] # Header
      <4>1. 1 \in 1..Len(c) + 1 /\ 1 - 1 = 0
        BY <3>2
      <4> QED BY <3>2, <4>1, AlignedCut
    <3> DEFINE z == c \o r
    <3>11. z \in Seq(Nat) /\ Len(z) = Len(c) + Len(r) /\ Len(c) \in Nat
           /\ \A i \in 1..Len(c) : z[i] = c[i]
      <4> DEFINE S == Nat
      <4>1. c \in Seq(S) /\ r \in Seq(S) /\ Len(c) \in Nat
        BY <3>2
      <4> HIDE DEF S
      <4>2. z \in Seq(S) /\ Len(z) = Len(c) + Len(r) /\ \A i \in 1..Len(c) : z[i] = c[i]
        BY <4>1, JoinIs
      <4> QED BY <4>1, <4>2 DEF S
    <3> HIDE DEF z, rec, x
    <3>12. m \in 0..Len(z) /\ \A j \in 1..m : z[j] # Header
      <4>1. m \in 0..Len(z)
        BY <1>0, <3>10, <3>11
      <4>2. \A j \in 1..m : j \in 1..Len(c)
        BY <3>10, <3>11
      <4> QED BY <3>10, <3>11, <4>1, <4>2
    <3>13. SbusStream(Cut(z, m), W, starts, bad, Append(V, rec))
      <4>1. SbusStream(z, W, starts, bad, Append(V, rec))
        BY <3>7 DEF z
      <4> QED BY <3>12, <4>1, SbusAligns
    <3>14. Cut(z, m) = a \o r
      BY <3>2, <3>10, CutJoined DEF z
    <3>15. a \in Seq(Nat) /\ Len(a) = Len(c) - m
      BY <3>2, <3>10, CutIs
    <3>16. TakeOne(u) = <<a, Append(t, x)>>
      BY <2>4, <2>5, Zenon DEF TakeOne, c, g, x, Cut, b, t
    <3> HIDE DEF a, K
    <3>17. <<a, Append(t, x)>> \in D
      BY <2>3, <3>9, <3>13, <3>14, <3>15
    <3>18. Len(a) < Len(b)
      BY <1>0, <2>2, <3>2, <3>10, <3>15
    <3> QED BY <3>16, <3>17, <3>18
  <2>6. CASE ~FrameThere(b)
    <3> DEFINE a == ToHeader(b, 2)
    <3>1. PICK m \in 1..Len(b) : a = Cut(b, m) /\ \A j \in 2..m : b[j] # Header
      <4>1. 2 \in 1..Len(b) + 1 /\ 2 - 1 = 1
        BY <1>0, <2>2
      <4> QED BY <2>2, <4>1, AlignedCut
    <3>2. m \in 0..Len(b) /\ m \in 0..Len(P) /\ m \in Nat /\ m >= 1
      BY <1>0, <2>2
    <3>3. ~FrameThere(P)
      <4>1. 1 \in 1..Len(b) /\ L \in 1..Len(b)
        BY <1>0, <2>2
      <4> QED BY <2>2, <2>6, <4>1 DEF FrameThere
    <3>4. \A j \in 2..m : P[j] # Header
      <4>1. \A j \in 2..m : j \in 1..Len(b)
        BY <2>2, <3>2
      <4> QED BY <2>2, <3>1, <4>1
    <3>5. SbusStream(Cut(P, m), W, starts, bad, V)
      BY <2>1, <3>2, <3>3, <3>4, SbusAligns
    <3>6. Cut(P, m) = a \o r
      BY <2>2, <3>1, <3>2, CutJoined DEF P
    <3>7. a \in Seq(Nat) /\ Len(a) = Len(b) - m
      BY <2>2, <3>1, <3>2, CutIs
    <3>8. TakeOne(u) = <<a, t>>
      BY <2>4, <2>6, Zenon DEF TakeOne, b, t
    <3> HIDE DEF a
    <3>9. <<a, t>> \in D
      BY <2>1, <2>3, <3>5, <3>6, <3>7 DEF V
    <3>10. Len(a) < Len(b)
      BY <2>2, <3>2, <3>7
    <3> QED BY <3>8, <3>9, <3>10
  <2> QED BY <2>5, <2>6
<1> HIDE DEF D, e
<1>4. TakenFrom(p) \in D /\ Len(TakenFrom(p)[1]) < L
  BY <1>2, <1>3, SbusLoopEnds
<1> QED BY <1>4 DEF D, e

SbusResyncInv ==
  /\ SbusInv /\ Len(sbuf) < SbusFrameLen
  /\ SbusStream(sbuf \o sline, swire, sstarts, sdamaged, taken)

LEMMA SbusSendKeeps == SbusResyncInv /\ SbusSend => SbusResyncInv'
<1> SUFFICES ASSUME SbusResyncInv, SbusSend PROVE SbusResyncInv'
  OBVIOUS
<1>1. SbusInv'
  BY SbusSendStep DEF SbusResyncInv
<1>2. PICK g \in Seq(Nat) : CanSend(g)
  BY SbusSendIs DEF SbusResyncInv
<1>3. sbuf' = sbuf /\ taken' = taken
  BY DEF SbusSend
<1> DEFINE P == sbuf \o sline
           worse == sdamaged'
<1>4. SbusStream(P, swire, sstarts, sdamaged, taken)
  BY DEF SbusResyncInv
<1>5. P \o g = sbuf \o sline'
  <2> DEFINE S == Nat
  <2>1. sbuf \in Seq(S) /\ sline \in Seq(S) /\ g \in Seq(S)
    BY DEF SbusResyncInv, SbusInv
  <2> HIDE DEF S
  <2>2. (sbuf \o sline) \o g = sbuf \o (sline \o g)
    BY <2>1, JoinJoined
  <2> QED BY <1>2, <2>2 DEF CanSend
<1>6. \/ worse = sdamaged /\ Len(g) = SbusFrameLen /\ g[1] = Header /\ g[SbusFrameLen] \in Footers
      \/ worse = sdamaged \cup {Len(sstarts) + 1}
  BY <1>2 DEF CanSend
<1> HIDE DEF P, worse
<1>7. SbusStream(P \o g, swire \o g, Append(sstarts, Len(swire) + 1), worse, taken)
  BY <1>4, <1>6, SbusArrives
<1>8. swire' = swire \o g /\ sstarts' = Append(sstarts, Len(swire) + 1)
  BY <1>2 DEF CanSend
<1>9. Len(sbuf') < SbusFrameLen
  BY <1>3 DEF SbusResyncInv
<1>10. SbusStream(sbuf \o sline', swire', sstarts', sdamaged', taken)
  BY <1>5, <1>7, <1>8, Zenon DEF worse
<1> QED BY <1>1, <1>3, <1>9, <1>10 DEF SbusResyncInv

LEMMA SbusReadKeeps == SbusResyncInv /\ SbusHandleInput => SbusResyncInv'
<1> SUFFICES ASSUME SbusResyncInv, SbusHandleInput PROVE SbusResyncInv'
  OBVIOUS
<1> DEFINE L == SbusFrameLen
           most == 2 * L
<1>1. SbusInv'
  BY SbusReadStep DEF SbusResyncInv
<1>2. /\ sbuf \in Seq(Nat) /\ sline \in Seq(Nat) /\ Len(sbuf) < L /\ L \in Nat /\ L > 3 /\ most \in Nat
      /\ Len(sbuf) \in Nat /\ Len(sline) \in Nat /\ Len(sbuf) < most
  <2>1. sbuf \in Seq(Nat) /\ sline \in Seq(Nat) /\ Len(sbuf) < L /\ L \in Nat /\ L > 3
        /\ Len(sbuf) \in Nat /\ Len(sline) \in Nat
    BY SbusAssumption DEF SbusResyncInv, SbusInv
  <2> QED BY <2>1
<1>3. SbusStream(sbuf \o sline, swire, sstarts, sdamaged, taken) /\ UNCHANGED <<swire, sstarts, sdamaged>>
  BY DEF SbusResyncInv, SbusHandleInput
<1>4. PICK k \in 0..Min({Len(sline), most - Len(sbuf)}) :
        LET s == sbuf \o SubSeq(sline, 1, k)
            w == TakenFrom(ToHeader(s, 1))
        IN /\ sline' = SubSeq(sline, k + 1, Len(sline))
           /\ sbuf' = w[1]
           /\ taken' = taken \o Noted(w[2], SbusRead + k + 1)
  BY <1>2 DEF SbusHandleInput
<1> DEFINE s == sbuf \o SubSeq(sline, 1, k)
           a == ToHeader(s, 1)
           r == SubSeq(sline, k + 1, Len(sline))
           e == SbusRead + k + 1
<1>5. /\ sline' = r /\ sbuf' = TakenFrom(a)[1] /\ taken' = taken \o Noted(TakenFrom(a)[2], e)
  BY <1>4
<1> HIDE DEF most
<1>6. k \in 0..Len(sline) /\ r \in Seq(Nat) /\ s \in Seq(Nat) /\ Len(s) <= most
  <2>1. k \in 0..Min({Len(sline), most - Len(sbuf)}) /\ Len(sbuf) <= most
    BY <1>2
  <2>2. k \in 0..Len(sline)
    <3> DEFINE M == {Len(sline), most - Len(sbuf)}
    <3>1. M \in SUBSET Nat /\ M # {} /\ Len(sline) \in M
      BY <1>2
    <3>2. Min(M) \in M /\ Min(M) <= Len(sline)
      <4> HIDE DEF M
      <4> QED BY <3>1, MinIn
    <3>3. Min(M) \in Nat
      BY <3>1, <3>2
    <3> HIDE DEF M
    <3>4. k \in 0..Min(M)
      BY DEF M
    <3> QED BY <1>2, <3>2, <3>3, <3>4
  <2>3. r \in Seq(Nat) /\ s \in Seq(Nat) /\ Len(s) <= most
    <3> DEFINE S == Nat
    <3>1. sline \in Seq(S) /\ sbuf \in Seq(S)
      BY <1>2
    <3> HIDE DEF S
    <3>2. r \in Seq(S) /\ s \in Seq(S) /\ Len(s) <= most
      BY <1>2, <2>1, <3>1, ReadTyped
    <3> QED BY <3>2 DEF S
  <2> QED BY <2>2, <2>3
<1>7. s \o r = sbuf \o sline /\ Len(r) = Len(sline) - k
  <2>1. CanCut(Nat, sbuf, sline, k)
    BY <1>2, <1>6, CutAndJoined
  <2> QED BY <2>1 DEF CanCut
<1>8. e = Len(swire) - Len(r) + 1
  <2>1. Len(swire) \in Nat
    BY DEF SbusResyncInv, SbusInv
  <2>2. k \in Nat /\ Len(r) = Len(sline) - k
    BY <1>2, <1>6, <1>7
  <2> HIDE DEF r
  <2> QED BY <1>2, <2>1, <2>2 DEF SbusRead
<1> HIDE DEF r, s, e
<1>9. PICK m \in 0..Len(s) : a = Cut(s, m) /\ \A j \in 1..m : s[j] # Header
  <2>1. 1 \in 1..Len(s) + 1 /\ 1 - 1 = 0
    BY <1>6
  <2> QED BY <1>6, <2>1, AlignedCut
<1> DEFINE P == s \o r
<1>10. /\ P \in Seq(Nat) /\ Len(P) = Len(s) + Len(r) /\ Len(s) \in Nat /\ Len(r) \in Nat
       /\ \A i \in 1..Len(s) : P[i] = s[i]
  <2> DEFINE S == Nat
  <2>1. s \in Seq(S) /\ r \in Seq(S) /\ Len(s) \in Nat /\ Len(r) \in Nat
    BY <1>6
  <2> HIDE DEF S
  <2>2. P \in Seq(S) /\ Len(P) = Len(s) + Len(r) /\ \A i \in 1..Len(s) : P[i] = s[i]
    BY <2>1, JoinIs
  <2> QED BY <2>1, <2>2 DEF S
<1>11. SbusStream(P, swire, sstarts, sdamaged, taken)
  BY <1>3, <1>7
<1>12. Cut(P, m) = a \o r
  BY <1>6, <1>9, CutJoined
<1> HIDE DEF P
<1>13. SbusStream(Cut(P, m), swire, sstarts, sdamaged, taken)
  <2>1. m \in 0..Len(P)
    BY <1>9, <1>10
  <2>2. \A j \in 1..m : j \in 1..Len(s)
    BY <1>9, <1>10
  <2>3. \A j \in 1..m : P[j] # Header
    BY <1>9, <1>10, <2>2
  <2> QED BY <1>11, <2>1, <2>3, SbusAligns
<1>14. a \in Seq(Nat) /\ Len(a) <= most
  <2>1. a \in Seq(Nat) /\ Len(a) = Len(s) - m
    BY <1>6, <1>9, CutIs
  <2>2. Len(s) \in Nat /\ m \in Nat /\ most \in Nat
    BY <1>2, <1>9, <1>10
  <2> QED BY <1>6, <2>1, <2>2
<1> HIDE DEF a
<1>15. /\ SbusStream(TakenFrom(a)[1] \o r, swire, sstarts, sdamaged, taken \o Noted(TakenFrom(a)[2], e))
       /\ Len(TakenFrom(a)[1]) < L
  <2>1. SbusStream(a \o r, swire, sstarts, sdamaged, taken)
    BY <1>12, <1>13
  <2> QED BY <1>6, <1>8, <1>14, <2>1, SbusLoopKeeps DEF most
<1> QED BY <1>1, <1>3, <1>5, <1>15 DEF SbusResyncInv

LEMMA SbusResyncStep == SbusResyncInv /\ [SbusNext]_sbusVars => SbusResyncInv'
<1> SUFFICES ASSUME SbusResyncInv, [SbusNext]_sbusVars PROVE SbusResyncInv'
  OBVIOUS
<1>1. SbusInv'
  BY SbusStep DEF SbusResyncInv
<1>2. CASE SbusTick
  BY <1>1, <1>2 DEF SbusTick, SbusResyncInv
<1>3. CASE UNCHANGED sbusVars
  BY <1>1, <1>3 DEF sbusVars, SbusResyncInv
<1> QED BY <1>2, <1>3, SbusSendKeeps, SbusReadKeeps DEF SbusNext

LEMMA SbusResyncStart == SbusInit => SbusResyncInv
<1> SUFFICES ASSUME SbusInit PROVE SbusResyncInv
  OBVIOUS
<1>1. SbusInv
  BY SbusStart
<1>2. sline = <<>> /\ sbuf = <<>> /\ swire = <<>> /\ sstarts = <<>> /\ sdamaged = {} /\ taken = <<>>
  BY DEF SbusInit
<1>3. <<>> \o <<>> = <<>> /\ <<>> \in Seq(Nat) /\ Len(<<>>) = 0 /\ Cut(<<>>, 0) = <<>>
  BY DEF Cut
<1>4. <<>> \in Seq(SbusTakenTypes)
  OBVIOUS
<1>5. SbusStream(<<>>, <<>>, <<>>, {}, <<>>)
  BY <1>3, <1>4 DEF SbusStream, SbusStand, TookWell, SbusMet
<1>6. Len(sbuf) < SbusFrameLen
  BY <1>2, <1>3, SbusAssumption
<1> QED BY <1>1, <1>2, <1>3, <1>5, <1>6 DEF SbusResyncInv

LEMMA SbusInvResyncs == SbusResyncInv => SbusResyncs
<1> SUFFICES ASSUME SbusResyncInv PROVE SbusResyncs
  OBVIOUS
<1> DEFINE P == sbuf \o sline
           past == Len(swire) - Len(P)
           L == SbusFrameLen
<1>1. /\ TookWell(taken, past, swire) /\ SbusMet(past, swire, sstarts, sdamaged, taken)
      /\ taken \in Seq(SbusTakenTypes) /\ sstarts \in Seq(Nat) /\ swire \in Seq(Nat)
  BY DEF SbusResyncInv, SbusStream, SbusStand
<1>2. Len(P) = Len(sbuf) + Len(sline) /\ Len(sbuf) \in Nat /\ Len(sline) \in Nat /\ Len(sbuf) < L
      /\ Len(swire) \in Nat /\ L \in Nat
  <2> DEFINE S == Nat
  <2>1. sbuf \in Seq(S) /\ sline \in Seq(S) /\ Len(sbuf) < L /\ L \in Nat /\ Len(swire) \in Nat
    BY SbusAssumption DEF SbusResyncInv, SbusInv
  <2> HIDE DEF S
  <2> QED BY <2>1, JoinIs
<1>3. SbusRead = past + Len(sbuf)
  BY <1>2 DEF SbusRead
<1>4. DOMAIN sstarts = 1..Len(sstarts) /\ DOMAIN taken = 1..Len(taken)
  BY <1>1
<1>5. \A n : SbusTakes(n) <=> WasTaken(taken, sstarts[n])
  BY <1>4 DEF SbusTakes, WasTaken
<1>6. ASSUME NEW n \in DOMAIN sstarts \ sdamaged, sstarts[n] + L - 1 <= SbusRead
      PROVE  SbusTakes(n) \/ (n > 1 /\ (n - 1 \in sdamaged \/ ~SbusTakes(n - 1)) /\ SbusStraddled(n))
  <2>1. past \in Int /\ sstarts[n] \in Nat
    BY <1>1, <1>2
  <2> HIDE DEF past
  <2>2. sstarts[n] <= past
    BY <1>2, <1>3, <1>6, <2>1
  <2>3. WasTaken(taken, sstarts[n]) \/ SbusExcuse(swire, sstarts, sdamaged, taken, n)
    BY <1>1, <1>4, <2>2 DEF SbusMet
  <2>4. (\E q \in 1..sstarts[n] - 1 : q + L > sstarts[n] /\ LooksLike(swire, q)) => SbusStraddled(n)
    BY DEF SbusStraddled, LooksLike
  <2> QED BY <1>5, <2>3, <2>4 DEF SbusExcuse
<1>7. \A i \in DOMAIN taken :
        /\ taken[i].frame = SubSeq(swire, taken[i].at, taken[i].at + L - 1)
        /\ i > 1 => taken[i - 1].at + L <= taken[i].at
  BY <1>1, <1>4 DEF TookWell
<1> QED BY <1>6, <1>7 DEF SbusResyncs

\* The SBUS parser never leaves the frames by itself, whatever bytes they hold: a good
\* frame that is read to its end is taken, unless the one before was damaged or passed
\* over and something across its beginning looks like a frame; what is taken is of the
\* line, in order, no byte in two frames (SbusResyncs).
THEOREM SbusResynced == SbusSpec => []SbusResyncs
BY SbusResyncStart, SbusResyncStep, SbusInvResyncs, PTL DEF SbusSpec

=============================================================================
