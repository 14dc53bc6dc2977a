-------------------------- MODULE Stubborn_proofs --------------------------
(***************************************************************************)
(* What each operator on the two records of the stubborn transport         *)
(* returns, and that it returns a well-typed record, for every message     *)
(* list and chunk size. Both users of the transport rest on these lemmas:  *)
(* StubbornLink_proofs and Air_proofs.                                     *)
(***************************************************************************)
EXTENDS Stubborn, TLAPS

USE DEF Messages, Bit, Flip

\* The constants of a message that has been loaded.
LEMMA MessageFacts ==
  ASSUME NEW i \in 1..Len(Body)
  PROVE  /\ Body[i] \in Bodies
         /\ Length[i] \in Nat \ {0}
         /\ Length[i] <= BufLen
         /\ Length[i] < MaxPackageIndex
  BY BodyAssumption, BufferAssumption

-----------------------------------------------------------------------------
(* The sender *)

\* The message a sender holds while it has something to send.
LEMMA SendingMessage ==
  ASSUME NEW s \in Senders, s.state \in Sending => s.msg > 0 /\ s.off < Length[s.msg],
         s.state \in Sending
  PROVE  /\ s.msg \in 1..Len(Body)
         /\ Length[s.msg] \in Nat
         /\ Length[s.msg] - s.off \in Nat \ {0}
<1>1. s.msg \in 1..Len(Body)
  BY BodyAssumption DEF Senders
<1>2. Length[s.msg] \in Nat
  BY <1>1, MessageFacts
<1> QED BY <1>1, <1>2 DEF Senders

\* SetDataToTransmit, field by field.
LEMMA SetDataFields ==
  ASSUME NEW s \in Senders, NEW m
  PROVE  SetDataToTransmit(s, m) =
           [state |-> IF s.state = "IDLE" THEN "SEND_PENDING" ELSE "RESYNC_THEN_SEND",
            off |-> 0, last |-> s.last, pkg |-> 1, exp |-> s.exp, wait |-> 0, msg |-> m]
<1> DEFINE st == IF s.state = "IDLE" THEN "SEND_PENDING" ELSE "RESYNC_THEN_SEND"
<1>1. SetDataToTransmit(s, m) =
        [s EXCEPT !.msg = m, !.off = 0, !.pkg = 1, !.wait = 0, !.state = st]
  BY DEF SetDataToTransmit
<1> HIDE DEF st
<1>2. SetDataToTransmit(s, m) =
        [state |-> st, off |-> 0, last |-> s.last, pkg |-> 1, exp |-> s.exp,
         wait |-> 0, msg |-> m]
  BY <1>1 DEF Senders
<1> QED BY <1>2 DEF st

\* GetCurrentPayload, field by field.
LEMMA GetPayloadFields ==
  ASSUME NEW s \in Senders, NEW maxLen
  PROVE  AfterGetPayload(s, maxLen) =
           [state |-> IF s.state = "SEND_PENDING" THEN "SENDING" ELSE s.state,
            off |-> s.off, last |-> ChunkSize(s, maxLen), pkg |-> s.pkg,
            exp |-> s.exp, wait |-> s.wait, msg |-> s.msg]
<1> DEFINE st == IF s.state = "SEND_PENDING" THEN "SENDING" ELSE s.state
<1>1. AfterGetPayload(s, maxLen) =
        [s EXCEPT !.last = ChunkSize(s, maxLen), !.state = st]
  BY DEF AfterGetPayload
<1> HIDE DEF st
<1>2. AfterGetPayload(s, maxLen) =
        [state |-> st, off |-> s.off, last |-> ChunkSize(s, maxLen), pkg |-> s.pkg,
         exp |-> s.exp, wait |-> s.wait, msg |-> s.msg]
  BY <1>1 DEF Senders
<1> QED BY <1>2 DEF st

\* A confirmed chunk, field by field.
LEMMA ChunkConfirmedFields ==
  ASSUME NEW s \in Senders
  PROVE  ChunkConfirmed(s) =
           [state |-> IF s.off + s.last < Length[s.msg] THEN "SENDING"
                      ELSE IF s.pkg = 1 THEN "WAIT_UNTIL_NEXT_CONFIRM"
                      ELSE "IDLE",
            off |-> s.off + s.last, last |-> s.last, pkg |-> s.pkg + 1,
            exp |-> 1 - s.exp, wait |-> 0, msg |-> s.msg]
<1> DEFINE st == IF s.off + s.last < Length[s.msg] THEN "SENDING"
                 ELSE IF s.pkg = 1 THEN "WAIT_UNTIL_NEXT_CONFIRM" ELSE "IDLE"
           off == s.off + s.last
           pkg == s.pkg + 1
           exp == 1 - s.exp
<1>1. ChunkConfirmed(s) =
        [s EXCEPT !.off = off, !.pkg = pkg, !.exp = exp, !.wait = 0, !.state = st]
  BY DEF ChunkConfirmed
<1> HIDE DEF st, off, pkg, exp
<1>2. ChunkConfirmed(s) =
        [state |-> st, off |-> off, last |-> s.last, pkg |-> pkg,
         exp |-> exp, wait |-> 0, msg |-> s.msg]
  BY <1>1 DEF Senders
<1> QED BY <1>2 DEF st, off, pkg, exp

\* A missed confirm, field by field.
LEMMA MissedConfirmFields ==
  ASSUME NEW s \in Senders, NEW v \in Bit
  PROVE  MissedConfirm(s, v) =
           [state |-> IF s.wait + 1 > MaxWait THEN "RESYNC" ELSE s.state,
            off |-> s.off, last |-> s.last, pkg |-> s.pkg,
            exp |-> IF s.wait + 1 > MaxWait THEN 1 - v ELSE s.exp,
            wait |-> s.wait + 1, msg |-> s.msg]
  BY DEF MissedConfirm, Senders

\* ConfirmCurrentPayload in each of its cases.
LEMMA ConfirmCases ==
  ASSUME NEW s \in Senders, NEW v \in Bit, s.state # "RESYNC_THEN_SEND"
  PROVE  /\ s.state = "SENDING" /\ v = s.exp =>
              ConfirmCurrentPayload(s, v) = ChunkConfirmed(s)
         /\ s.state \in {"RESYNC", "WAIT_UNTIL_NEXT_CONFIRM"} /\ v = s.exp =>
              ConfirmCurrentPayload(s, v) =
                [state |-> "IDLE", off |-> s.off, last |-> s.last, pkg |-> s.pkg,
                 exp |-> 1 - v, wait |-> s.wait, msg |-> s.msg]
         /\ s.state \in {"SENDING", "WAIT_UNTIL_NEXT_CONFIRM"} /\ v # s.exp =>
              ConfirmCurrentPayload(s, v) = MissedConfirm(s, v)
         /\ s.state \in {"IDLE", "SEND_PENDING"} \/ (s.state = "RESYNC" /\ v # s.exp) =>
              ConfirmCurrentPayload(s, v) = s
<1>1. s.state = "SENDING" /\ v = s.exp =>
              ConfirmCurrentPayload(s, v) = ChunkConfirmed(s)
  BY DEF ConfirmCurrentPayload, Resyncing, Senders, SenderStates
<1>2. ASSUME s.state \in {"RESYNC", "WAIT_UNTIL_NEXT_CONFIRM"}, v = s.exp
      PROVE  ConfirmCurrentPayload(s, v) =
                [state |-> "IDLE", off |-> s.off, last |-> s.last, pkg |-> s.pkg,
                 exp |-> 1 - v, wait |-> s.wait, msg |-> s.msg]
  <2>1. ConfirmCurrentPayload(s, v) = [s EXCEPT !.state = "IDLE", !.exp = 1 - v]
    BY <1>2 DEF ConfirmCurrentPayload, Resyncing, Senders, SenderStates
  <2> QED BY <2>1 DEF Senders
<1>3. s.state \in {"SENDING", "WAIT_UNTIL_NEXT_CONFIRM"} /\ v # s.exp =>
              ConfirmCurrentPayload(s, v) = MissedConfirm(s, v)
  BY DEF ConfirmCurrentPayload, Resyncing, Senders, SenderStates
<1>4. s.state \in {"IDLE", "SEND_PENDING"} \/ (s.state = "RESYNC" /\ v # s.exp) =>
              ConfirmCurrentPayload(s, v) = s
  BY DEF ConfirmCurrentPayload, Resyncing, Senders, SenderStates
<1> QED BY <1>1, <1>2, <1>3, <1>4

\* What GetCurrentPayload returns and leaves behind is well typed.
LEMMA GetPayloadTypes ==
  ASSUME NEW s \in Senders, NEW maxLen \in Nat \ {0},
         s.state \in Sending => s.msg > 0 /\ s.off < Length[s.msg]
  PROVE  /\ ChunkSize(s, maxLen) \in Nat
         /\ ChunkIndex(s, maxLen) \in Nat
         /\ AfterGetPayload(s, maxLen) \in Senders
<1>1. ChunkSize(s, maxLen) \in Nat
  BY SendingMessage DEF ChunkSize, Smaller
<1>2. ChunkIndex(s, maxLen) \in Nat
  BY BufferAssumption DEF ChunkIndex, Senders
<1>3. AfterGetPayload(s, maxLen) \in Senders
  BY <1>1, GetPayloadFields DEF Senders, SenderStates
<1> QED BY <1>1, <1>2, <1>3

\* ConfirmCurrentPayload keeps the sender well typed and, in SENDING, with
\* something left to send.
LEMMA ConfirmTypes ==
  ASSUME NEW s \in Senders, NEW v \in Bit,
         s.state # "RESYNC_THEN_SEND",
         s.state \in Sending => s.msg > 0 /\ s.off < Length[s.msg],
         NEW t, t = ConfirmCurrentPayload(s, v)
  PROVE  /\ t \in Senders
         /\ t.msg = s.msg
         /\ t.state # "RESYNC_THEN_SEND"
         /\ t.state \in Sending => t.msg > 0 /\ t.off < Length[t.msg]
<1>1. CASE s.state = "SENDING" /\ v = s.exp
  <2>1. t = ChunkConfirmed(s)
    BY <1>1, ConfirmCases
  <2> QED BY <1>1, <2>1, ChunkConfirmedFields DEF Senders, SenderStates, Sending
<1>2. CASE s.state \in {"RESYNC", "WAIT_UNTIL_NEXT_CONFIRM"} /\ v = s.exp
  BY <1>2, ConfirmCases DEF Senders, SenderStates, Sending
<1>3. CASE s.state \in {"SENDING", "WAIT_UNTIL_NEXT_CONFIRM"} /\ v # s.exp
  <2>1. t = MissedConfirm(s, v)
    BY <1>3, ConfirmCases
  <2> QED BY <1>3, <2>1, MissedConfirmFields, BufferAssumption DEF Senders, SenderStates, Sending
<1>4. CASE s.state \in {"IDLE", "SEND_PENDING"} \/ (s.state = "RESYNC" /\ v # s.exp)
  BY <1>4, ConfirmCases
<1>5. \/ s.state = "SENDING" /\ v = s.exp
      \/ s.state \in {"RESYNC", "WAIT_UNTIL_NEXT_CONFIRM"} /\ v = s.exp
      \/ s.state \in {"SENDING", "WAIT_UNTIL_NEXT_CONFIRM"} /\ v # s.exp
      \/ s.state \in {"IDLE", "SEND_PENDING"} \/ (s.state = "RESYNC" /\ v # s.exp)
  BY DEF Senders, SenderStates
<1> QED BY <1>1, <1>2, <1>3, <1>4, <1>5

-----------------------------------------------------------------------------
(* The receiver *)

\* What a packet carries at any position of its payload field is a unit.
LEMMA PayloadUnitType ==
  ASSUME NEW p \in Packets, NEW j \in Nat
  PROVE  PayloadUnit(p, j) \in Bytes
<1>1. CASE j <= p.n
  <2>1. p.body \in Bodies \cup {NoBody} /\ p.from + j \in Nat
    BY DEF Packets
  <2> QED BY <1>1, <2>1 DEF PayloadUnit, Bytes
<1>2. CASE ~(j <= p.n)
  BY <1>2 DEF PayloadUnit, Bytes, Pad
<1> QED BY <1>1, <1>2

\* An accepted chunk is cut to the room left in the buffer.
LEMMA AcceptTypes ==
  ASSUME NEW r \in Receivers, NEW p \in Packets, NEW t, t = AcceptChunk(r, p)
  PROVE  t \in Receivers
<1> DEFINE len == Smaller(BufLen - r.off, p.len)
           data == [k \in 1..BufLen |-> IF r.off < k /\ k <= r.off + len
                                        THEN PayloadUnit(p, k - r.off) ELSE r.data[k]]
           off == r.off + len
           pkg == r.pkg + 1
           confirm == 1 - r.confirm
<1>1. len \in Nat /\ off \in 0..BufLen
  BY BufferAssumption DEF Smaller, Receivers, Packets
<1>2. data \in Buffers
  <2>1. \A k \in 1..BufLen : data[k] \in Bytes
    <3>1. SUFFICES ASSUME NEW k \in 1..BufLen PROVE data[k] \in Bytes
      OBVIOUS
    <3>2. r.data \in Buffers /\ r.off \in Nat
      BY BufferAssumption DEF Receivers
    <3>3. CASE r.off < k /\ k <= r.off + len
      <4>1. k - r.off \in Nat
        BY <3>2, <3>3
      <4> QED BY <3>3, <4>1, PayloadUnitType
    <3>4. CASE ~(r.off < k /\ k <= r.off + len)
      BY <3>2, <3>4 DEF Buffers
    <3> QED BY <3>3, <3>4
  <2> QED BY <2>1 DEF Buffers
<1>3. pkg \in Nat \ {0} /\ confirm \in Bit
  BY DEF Receivers
<1>4. t = [r EXCEPT !.data = data, !.pkg = pkg, !.off = off, !.confirm = confirm]
  BY DEF AcceptChunk
<1> HIDE DEF len, data, off, pkg, confirm
<1> QED BY <1>1, <1>2, <1>3, <1>4 DEF Receivers

\* A receiver whose position is set anew is well typed.
LEMMA RestartTypes ==
  ASSUME NEW r \in Receivers, NEW x \in Nat \ {0}, NEW y \in 0..BufLen
  PROVE  /\ [r EXCEPT !.pkg = x, !.off = y] \in Receivers
         /\ [r EXCEPT !.pkg = x, !.off = y, !.finished = FALSE] \in Receivers
<1>1. [r EXCEPT !.pkg = x, !.off = y] \in Receivers
  BY DEF Receivers
<1>2. [r EXCEPT !.pkg = x, !.off = y, !.finished = FALSE] \in Receivers
  BY DEF Receivers
<1> QED BY <1>1, <1>2

\* ReceiveData keeps the receiver well typed.
LEMMA ReceiveTypes ==
  ASSUME NEW r \in Receivers, NEW p \in Packets
  PROVE  ReceiveData(r, p) \in Receivers
<1>0. 0 \in 0..BufLen /\ 1 \in Nat \ {0}
  BY BufferAssumption
<1>1. Resynced(r) \in Receivers
  <2> DEFINE c == 1 - r.confirm
  <2>1. c \in Bit
    BY DEF Receivers
  <2>2. Resynced(r) = [r EXCEPT !.confirm = c, !.pkg = 1, !.off = 0, !.finished = FALSE]
    BY DEF Resynced
  <2> HIDE DEF c
  <2>3. Resynced(r) = [pkg |-> 1, off |-> 0, confirm |-> c, finished |-> FALSE,
                       data |-> r.data]
    BY <2>2 DEF Receivers
  <2> QED BY <1>0, <2>1, <2>3 DEF Receivers
<1>2. AcceptChunk(r, p) \in Receivers
  BY AcceptTypes
<1>3. AcceptChunk([r EXCEPT !.finished = TRUE], p) \in Receivers
  <2>1. [r EXCEPT !.finished = TRUE] \in Receivers
    BY DEF Receivers
  <2> QED BY <2>1, AcceptTypes
<1>4. AcceptChunk([r EXCEPT !.pkg = 1, !.off = 0], p) \in Receivers
  <2>1. [r EXCEPT !.pkg = 1, !.off = 0] \in Receivers
    BY <1>0, RestartTypes, Zenon
  <2> QED BY <2>1, AcceptTypes
<1> QED BY <1>1, <1>2, <1>3, <1>4 DEF ReceiveData

\* Unlock keeps the receiver well typed.
LEMMA UnlockTypes ==
  ASSUME NEW r \in Receivers
  PROVE  Unlock(r) \in Receivers
<1>1. 0 \in 0..BufLen /\ 1 \in Nat \ {0}
  BY BufferAssumption
<1> QED BY <1>1, RestartTypes, Zenon DEF Unlock

\* An accepted chunk, field by field.
LEMMA AcceptFields ==
  ASSUME NEW r \in Receivers, NEW p \in Packets, NEW t, t = AcceptChunk(r, p)
  PROVE  /\ t.pkg = r.pkg + 1
         /\ t.off = r.off + Smaller(BufLen - r.off, p.len)
         /\ t.confirm = 1 - r.confirm
         /\ t.finished = r.finished
         /\ \A k \in 1..BufLen :
              t.data[k] = IF r.off < k /\ k <= r.off + Smaller(BufLen - r.off, p.len)
                          THEN PayloadUnit(p, k - r.off) ELSE r.data[k]
<1> DEFINE len == Smaller(BufLen - r.off, p.len)
           data == [k \in 1..BufLen |-> IF r.off < k /\ k <= r.off + len
                                        THEN PayloadUnit(p, k - r.off) ELSE r.data[k]]
           off == r.off + len
           pkg == r.pkg + 1
           confirm == 1 - r.confirm
<1>1. t = [r EXCEPT !.data = data, !.pkg = pkg, !.off = off, !.confirm = confirm]
  BY DEF AcceptChunk
<1>2. \A k \in 1..BufLen :
        data[k] = IF r.off < k /\ k <= r.off + len
                  THEN PayloadUnit(p, k - r.off) ELSE r.data[k]
  OBVIOUS
<1> HIDE DEF data, off, pkg, confirm
<1>3. /\ t.data = data /\ t.pkg = pkg /\ t.off = off /\ t.confirm = confirm
      /\ t.finished = r.finished
  BY <1>1 DEF Receivers
<1> QED BY <1>2, <1>3 DEF off, pkg, confirm

\* A chunk that also finishes the message, field by field.
LEMMA FinishFields ==
  ASSUME NEW r \in Receivers, NEW p \in Packets,
         NEW t, t = AcceptChunk([r EXCEPT !.finished = TRUE], p)
  PROVE  /\ t.confirm = 1 - r.confirm
         /\ t.finished
         /\ \A k \in 1..BufLen :
              t.data[k] = IF r.off < k /\ k <= r.off + Smaller(BufLen - r.off, p.len)
                          THEN PayloadUnit(p, k - r.off) ELSE r.data[k]
<1> DEFINE f == [r EXCEPT !.finished = TRUE]
<1>1. /\ f \in Receivers
      /\ f.finished /\ f.off = r.off /\ f.confirm = r.confirm /\ f.data = r.data
  BY DEF Receivers
<1> HIDE DEF f
<1>2. t = AcceptChunk(f, p)
  BY DEF f
<1>3. t.confirm = 1 - f.confirm
  BY <1>1, <1>2, AcceptFields
<1>4. t.finished = f.finished
  BY <1>1, <1>2, AcceptFields
<1>5. \A k \in 1..BufLen :
        t.data[k] = IF f.off < k /\ k <= f.off + Smaller(BufLen - f.off, p.len)
                    THEN PayloadUnit(p, k - f.off) ELSE f.data[k]
  BY <1>1, <1>2, AcceptFields
<1>6. t.finished
  BY <1>1, <1>4, Zenon
<1> QED BY <1>1, <1>3, <1>5, <1>6
=============================================================================
