------------------------------ MODULE Stubborn ------------------------------
(***************************************************************************)
(* The stubborn transport, as operators on the records of its two ends:    *)
(* stubborn_sender.c and stubborn_receiver.c. It carries telemetry down    *)
(* (StubbornLink) and MSP messages up (MspUplink).                         *)
(*                                                                         *)
(* A payload is counted in units. Unit k of message i is <<Body[i], k>>,   *)
(* so two messages with one body are indistinguishable on the air, as two  *)
(* equal CRSF frames are.                                                  *)
(***************************************************************************)
EXTENDS Integers, Sequences

CONSTANTS
  Bodies, NoBody,   \* the bodies a message can have; a mark for none
  Body,             \* sequence: the body of each message handed to the sender
  Length,           \* sequence: the number of units of each message
  BufLen,           \* the size of the receiver's buffer, in units
  MaxPackageIndex,  \* ELRS8_TELEMETRY_MAX_PACKAGES, the RESYNC index
  MaxWait           \* maxWaitCount

Messages == 1..Len(Body)

ASSUME BodyAssumption == /\ Body \in Seq(Bodies)
                         /\ Length \in [Messages -> Nat \ {0}]
\* A message fits into the buffer, and its chunks have indices below the RESYNC index.
ASSUME BufferAssumption == /\ BufLen \in Nat /\ MaxWait \in Nat
                           /\ MaxPackageIndex \in Nat \ {0}
                           /\ \A i \in Messages : Length[i] <= BufLen
                           /\ \A i \in Messages : Length[i] < MaxPackageIndex

Smaller(a, b) == IF a < b THEN a ELSE b

\* The confirm bit.
Bit == {0, 1}
Flip(b) == 1 - b

Pad == <<NoBody, 0>>
Bytes == (Bodies \cup {NoBody}) \X Nat

\* A packet in the air: its index, its type, and which n units, from
\* offset "from" on, of which body it carries.
Packets == [idx : Nat, len : Nat, body : Bodies \cup {NoBody}, from : Nat, n : Nat]
NoPacket == [idx |-> 0, len |-> 0, body |-> NoBody, from |-> 0, n |-> 0]

\* Unit j of the payload field of packet p: the field is zeroed first, so
\* what the chunk does not fill is padding.
PayloadUnit(p, j) == IF j <= p.n THEN <<p.body, p.from + j>> ELSE Pad
-----------------------------------------------------------------------------
(* StubbornSender: pure operators on its record *)

SenderStates == {"IDLE", "SEND_PENDING", "SENDING", "WAIT_UNTIL_NEXT_CONFIRM",
                 "RESYNC", "RESYNC_THEN_SEND"}
Senders == [state : SenderStates, off : Nat, last : Nat, pkg : Nat \ {0},
            exp : Bit, wait : Nat, msg : 0..Len(Body)]
Resyncing == {"RESYNC", "RESYNC_THEN_SEND"}
Sending   == {"SEND_PENDING", "SENDING"}

ResetSender == [state |-> "IDLE", off |-> 0, last |-> 0, pkg |-> 1,
                exp |-> 1, wait |-> 0, msg |-> 0]

SetDataToTransmit(s, m) ==
  [s EXCEPT !.msg = m, !.off = 0, !.pkg = 1, !.wait = 0,
            !.state = IF @ = "IDLE" THEN "SEND_PENDING" ELSE "RESYNC_THEN_SEND"]

\* GetCurrentPayload: how many units go out, under which index, and what
\* the call leaves in the sender.
ChunkSize(s, maxLen) ==
  IF s.state \in Sending THEN Smaller(Length[s.msg] - s.off, maxLen) ELSE 0

ChunkIndex(s, maxLen) ==
  IF s.state \in Resyncing THEN MaxPackageIndex
  ELSE IF \/ s.state \notin Sending
          \/ s.pkg > 1 /\ s.off + ChunkSize(s, maxLen) >= Length[s.msg]
       THEN 0
       ELSE s.pkg

AfterGetPayload(s, maxLen) ==
  [s EXCEPT !.last = ChunkSize(s, maxLen),
            !.state = IF @ = "SEND_PENDING" THEN "SENDING" ELSE @]

\* A confirm bit that is not the expected one: count it, and give up after MaxWait.
MissedConfirm(s, v) ==
  IF s.wait + 1 > MaxWait
  THEN [s EXCEPT !.wait = @ + 1, !.exp = Flip(v), !.state = "RESYNC"]
  ELSE [s EXCEPT !.wait = @ + 1]

\* Mutant of ChunkConfirmed: a one-chunk message is done after one ack.
ChunkConfirmedNoWait(s) ==
  [s EXCEPT !.off = @ + s.last, !.pkg = @ + 1, !.exp = Flip(@), !.wait = 0,
            !.state = IF s.off + s.last < Length[s.msg] THEN "SENDING" ELSE "IDLE"]

ChunkConfirmed(s) ==
  [s EXCEPT !.off = @ + s.last, !.pkg = @ + 1, !.exp = Flip(@), !.wait = 0,
            !.state = IF s.off + s.last < Length[s.msg] THEN "SENDING"
                      ELSE IF s.pkg = 1 THEN "WAIT_UNTIL_NEXT_CONFIRM"
                      ELSE "IDLE"]

ConfirmCurrentPayload(s, v) ==
  CASE s.state = "SENDING" /\ v = s.exp -> ChunkConfirmed(s)
    [] s.state \in Resyncing \cup {"WAIT_UNTIL_NEXT_CONFIRM"} /\ v = s.exp ->
         [s EXCEPT !.state = IF @ = "RESYNC_THEN_SEND" THEN "SENDING" ELSE "IDLE",
                   !.exp = Flip(v)]
    [] s.state \in {"SENDING", "WAIT_UNTIL_NEXT_CONFIRM"} /\ v # s.exp ->
         MissedConfirm(s, v)
    [] OTHER -> s
-----------------------------------------------------------------------------
(* StubbornReceiver: pure operators on its record *)

Buffers == [1..BufLen -> Bytes]
Receivers == [pkg : Nat \ {0}, off : 0..BufLen, confirm : Bit,
              finished : BOOLEAN, data : Buffers]

ResetReceiver == [pkg |-> 1, off |-> 0, confirm |-> 0, finished |-> FALSE,
                  data |-> [k \in 1..BufLen |-> Pad]]

Resynced(r) ==
  [r EXCEPT !.confirm = Flip(@), !.pkg = 1, !.off = 0, !.finished = FALSE]

\* Mutant of Retransmission: every first chunk starts a new message.
RetransmissionNever(r, p) == FALSE

\* An identical first chunk is a retransmission after a lost ack.
Retransmission(r, p) ==
  r.pkg = 2 /\ r.off = p.len /\ \A j \in 1..p.len : r.data[j] = PayloadUnit(p, j)

\* Mutant of AcceptChunk: what does not fit is not cut off.
AcceptChunkUncut(r, p) ==
  [r EXCEPT !.data = [k \in 1..BufLen |->
                        IF r.off < k /\ k <= r.off + p.len
                        THEN PayloadUnit(p, k - r.off) ELSE r.data[k]],
            !.pkg = @ + 1, !.off = @ + p.len, !.confirm = Flip(@)]

\* Copy what fits, advance and acknowledge.
AcceptChunk(r, p) ==
  LET len == Smaller(BufLen - r.off, p.len) IN
  [r EXCEPT !.data = [k \in 1..BufLen |->
                        IF r.off < k /\ k <= r.off + len
                        THEN PayloadUnit(p, k - r.off) ELSE r.data[k]],
            !.pkg = @ + 1, !.off = @ + len, !.confirm = Flip(@)]

ReceiveData(r, p) ==
  IF p.idx = MaxPackageIndex THEN Resynced(r)
  ELSE IF r.finished THEN r
  ELSE IF p.idx = 0 /\ r.pkg > 1 THEN AcceptChunk([r EXCEPT !.finished = TRUE], p)
  ELSE IF p.idx = r.pkg THEN AcceptChunk(r, p)
  ELSE IF p.idx = 1 /\ r.pkg > 1 /\ ~Retransmission(r, p)
       THEN AcceptChunk([r EXCEPT !.pkg = 1, !.off = 0], p)
  ELSE r

\* Mutant of Unlock: the buffer stays marked finished.
UnlockStillFinished(r) == [r EXCEPT !.pkg = 1, !.off = 0]

\* Unlock, called with finishedData set.
Unlock(r) == [r EXCEPT !.pkg = 1, !.off = 0, !.finished = FALSE]
=============================================================================
