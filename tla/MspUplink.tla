----------------------------- MODULE MspUplink -----------------------------
(***************************************************************************)
(* MSP messages on their way up: the handset's messages wait in the        *)
(* transmitter (CRSF.c), StubbornSender cuts the current one into chunks,  *)
(* which alternate with RC packets, and the receiver's StubbornReceiver    *)
(* puts them together (rx_main.c). The confirm bit comes down with every   *)
(* LINK packet, as it was when the packet was built; the transmitter takes *)
(* it from whatever LINK packet it hears.                                  *)
(*                                                                         *)
(* A TDMA frame is FrameSlots slots, the last of which is the downlink.    *)
(***************************************************************************)
EXTENDS Stubborn, SequencesExt

CONSTANTS
  ChunkLen,     \* units of payload in an MSP packet
  QueueLen,     \* messages MspWriteFIFO has room for
  FrameSlots,
  MaxFaults     \* bound: packets lost, TX_DONEs not reported, sender resets

ASSUME MspAssumption == /\ ChunkLen \in Nat \ {0} /\ ChunkLen <= BufLen
                        /\ QueueLen \in Nat
                        /\ FrameSlots \in Nat /\ FrameSlots > 1
                        /\ MaxFaults \in Nat

VARIABLES
  msnd,      \* MspSender
  offered,   \* messages the handset has offered so far: they are 1, 2, ...
  current,   \* CRSF.MspData: a message, or 0
  waiting,   \* MspWriteFIFO
  transfer,  \* mspTransferActive
  turn,      \* NextPacketIsMspData
  up,        \* the TX radio's buffer: <<>>, or a packet and whether it was sent
  mrcv,      \* MspReceiver
  down,      \* the RX radio's buffer: the confirm bit in it
  frame,     \* the slot
  quiet,     \* constant: RC in every slot, and no telemetry but link statistics
  done,      \* the buffers MspReceiveComplete has taken
  taken,     \* history: the messages sent so far, whole or not
  faults,
  mgaveUp    \* history: the sender has resynced or was reset

mspVars == <<msnd, offered, current, waiting, transfer, turn, up, mrcv, down, frame,
             quiet, done, taken, faults, mgaveUp>>
queue == <<offered, current, waiting, transfer, taken>>
rxSide == <<mrcv, down, done, quiet>>

Rc == NoPacket
Fault == faults < MaxFaults /\ faults' = faults + 1
-----------------------------------------------------------------------------
(* The transmitter *)

\* CRSF_AddMspMessage: the message becomes the current one, or waits, or is
\* dropped when there is no room.
AddMspMessage ==
  /\ offered < Len(Body)
  /\ offered' = offered + 1
  /\ IF current = 0 THEN current' = offered' /\ UNCHANGED waiting
     ELSE /\ waiting' = IF Len(waiting) < QueueLen THEN Append(waiting, offered') ELSE waiting
          /\ UNCHANGED current
  /\ UNCHANGED <<msnd, transfer, turn, up, rxSide, frame, taken, faults, mgaveUp>>

\* CRSF_UnlockMspMessage, when the sender has come to rest after a transfer.
UnlockMspMessage ==
  /\ msnd.state = "IDLE" /\ transfer
  /\ transfer' = FALSE
  /\ current' = IF waiting = <<>> THEN 0 ELSE Head(waiting)
  /\ waiting' = IF waiting = <<>> THEN <<>> ELSE Tail(waiting)
  /\ UNCHANGED <<msnd, offered, turn, up, rxSide, frame, taken, faults, mgaveUp>>

\* The loop hands the current message to the sender.
StartTransfer ==
  /\ msnd.state = "IDLE" /\ ~transfer /\ current # 0
  /\ msnd' = SetDataToTransmit(msnd, current)
  /\ transfer' = TRUE
  /\ taken' = Append(taken, current)
  /\ UNCHANGED <<offered, current, waiting, turn, up, rxSide, frame, faults, mgaveUp>>

Chunk ==
  LET n == ChunkSize(msnd, ChunkLen)
  IN [idx |-> ChunkIndex(msnd, ChunkLen), len |-> ChunkLen, n |-> n,
      body |-> IF n = 0 THEN NoBody ELSE Body[msnd.msg],
      from |-> IF n = 0 THEN 0 ELSE msnd.off]

ChunkDue == msnd.state # "IDLE" /\ turn

\* SendRCdataToRF: a chunk after an RC packet, an RC packet otherwise.
QueueUplink ==
  /\ up = <<>>
  /\ IF ChunkDue
     THEN /\ up' = <<[p |-> Chunk, msp |-> TRUE, sent |-> FALSE]>>
          /\ msnd' = AfterGetPayload(msnd, ChunkLen)
          /\ turn' = FALSE
     ELSE /\ up' = <<[p |-> Rc, msp |-> FALSE, sent |-> FALSE]>>
          /\ turn' = TRUE
          /\ UNCHANGED msnd
  /\ UNCHANGED <<queue, rxSide, frame, faults, mgaveUp>>

\* Mutant of RecoverPending: it waits for the TX_DONE that is not to come.
RecoverPendingNever ==
  /\ up # <<>> /\ ~up[1].sent /\ FALSE
  /\ UNCHANGED mspVars

\* A packet sent without TX_DONE is given up after 500 ms: the radio is
\* initialised again, which drops what is pending.
RecoverPending ==
  /\ up # <<>> /\ up[1].sent
  /\ up' = <<>>
  /\ UNCHANGED <<msnd, queue, turn, rxSide, frame, faults, mgaveUp>>

\* MspSender.ResetState with the receiver unaware of it: the transmitter enters
\* and leaves binding mode.
ResetByBinding ==
  /\ Fault
  /\ msnd' = ResetSender
  /\ up' = <<>>
  /\ mgaveUp' = TRUE
  /\ UNCHANGED <<queue, turn, rxSide, frame>>
-----------------------------------------------------------------------------
(* The receiver *)

ProcessRfPacket_MSP(p) == ReceiveData(mrcv, p)

\* MspReceiveComplete: the message is acted on, and the buffer unlocked.
MspReceiveComplete ==
  /\ mrcv.finished
  /\ done' = Append(done, mrcv.data)
  /\ mrcv' = Unlock(mrcv)
  /\ UNCHANGED <<msnd, queue, turn, up, down, frame, quiet, faults, mgaveUp>>

\* The telemetry in the radio's buffer is prepared anew: LinkStatsToOta.
RefreshDownlink ==
  /\ ~quiet /\ down # mrcv.confirm
  /\ down' = mrcv.confirm
  /\ UNCHANGED <<msnd, queue, turn, up, mrcv, frame, quiet, done, faults, mgaveUp>>
-----------------------------------------------------------------------------
(* The air *)

OnAir == IF up = <<>> THEN FALSE ELSE ~up[1].sent
NextFrameSlot == frame' = IF frame = FrameSlots THEN 1 ELSE frame + 1

\* Both loops make many passes in a slot.
LoopsAhead == ~mrcv.finished /\ (msnd.state = "IDLE" => ~transfer /\ current = 0)

\* An uplink slot: nothing to send, or the packet is heard or lost, and its
\* TX_DONE is reported or, for a packet that is heard, missed.
MspUplinkSlot ==
  /\ LoopsAhead
  /\ frame < FrameSlots
  /\ NextFrameSlot
  /\ \/ ~OnAir /\ (quiet => up # <<>>) /\ UNCHANGED <<up, mrcv, faults>>
     \/ /\ OnAir
        /\ \/ /\ mrcv' = IF up[1].msp THEN ProcessRfPacket_MSP(up[1].p) ELSE mrcv
              /\ \/ up' = <<>> /\ UNCHANGED faults
                 \/ Fault /\ up' = <<[up[1] EXCEPT !.sent = TRUE]>>
           \/ up' = <<>> /\ Fault /\ UNCHANGED mrcv
  /\ UNCHANGED <<msnd, queue, turn, down, done, quiet, mgaveUp>>

\* Mutant of Acknowledged: the bit is taken as true.
AcknowledgedBlindly(bit) == ConfirmCurrentPayload(msnd, msnd.exp)

\* LinkStatsFromOta: the bit goes to the sender, whatever it is waiting for.
Acknowledged(bit) == ConfirmCurrentPayload(msnd, bit)

\* The downlink slot. The packet is a LINK packet that is heard, or it is lost or a
\* DATA packet without a bit. TXdoneISR then refreshes the statistics.
MspDownlinkSlot ==
  /\ LoopsAhead
  /\ frame = FrameSlots
  /\ NextFrameSlot
  /\ \/ msnd' = Acknowledged(down) /\ UNCHANGED faults
     \/ Fault /\ UNCHANGED msnd
  /\ down' = mrcv.confirm
  /\ mgaveUp' = (mgaveUp \/ msnd'.state \in Resyncing)
  /\ UNCHANGED <<queue, turn, up, mrcv, done, quiet>>
-----------------------------------------------------------------------------
MspInit ==
  /\ msnd = ResetSender /\ mrcv = ResetReceiver
  /\ offered = 0 /\ current = 0 /\ waiting = <<>> /\ transfer = FALSE /\ taken = <<>>
  /\ turn = FALSE /\ up = <<>> /\ down = 0 /\ frame = 1 /\ quiet \in BOOLEAN /\ done = <<>>
  /\ faults = 0 /\ mgaveUp = FALSE

MspLoop == UnlockMspMessage \/ StartTransfer \/ QueueUplink \/ RecoverPending \/ MspReceiveComplete
MspSlot == MspUplinkSlot \/ MspDownlinkSlot
MspNext == AddMspMessage \/ ResetByBinding \/ MspLoop \/ RefreshDownlink \/ MspSlot

\* The loops and the radios keep running, and the handset keeps sending.
MspSpec == MspInit /\ [][MspNext]_mspVars
MspFairSpec ==
  /\ MspSpec
  /\ WF_mspVars(UnlockMspMessage) /\ WF_mspVars(StartTransfer) /\ WF_mspVars(QueueUplink)
  /\ WF_mspVars(RecoverPending) /\ WF_mspVars(MspReceiveComplete) /\ WF_mspVars(MspSlot)
-----------------------------------------------------------------------------
\* The variables hold values of their types.
MspTypeOK ==
  /\ msnd \in Senders /\ mrcv \in Receivers
  /\ offered \in 0..Len(Body) /\ current \in 0..Len(Body)
  /\ Len(waiting) <= QueueLen /\ transfer \in BOOLEAN /\ turn \in BOOLEAN
  /\ Len(up) <= 1 /\ down \in Bit /\ frame \in 1..FrameSlots
  /\ \A i \in DOMAIN done : done[i] \in Buffers

\* Buffer b begins with the whole of message m.
Holds(b, m) == \A k \in 1..Length[m] : b[k] = <<Body[m], k>>

\* Until the sender gives up or is reset, the receiver acts on every message once,
\* whole and in order, and the transmitter goes on to the next message only after
\* it did: although a confirm bit is old when it arrives, is repeated in every LINK
\* packet, and is believed whatever was last sent.
MspExactlyOnce ==
  ~mgaveUp => /\ Len(done) <= Len(taken)
              /\ \A i \in DOMAIN done : Holds(done[i], taken[i])
              /\ msnd.state = "IDLE" /\ ~mrcv.finished => Len(done) = Len(taken)

\* A transfer ends, whatever was lost, so that the messages behind it get their
\* turn: with every slot used and no other telemetry. (RESYNC waits until the bit,
\* which every RESYNC packet heard flips, is the expected one when a LINK packet is
\* built: with slots left out at will that may never be.)
TransferEnds == quiet /\ transfer ~> ~transfer
-----------------------------------------------------------------------------
(* The inductive invariant behind MspExactlyOnce. Until the sender gives up or *)
(* is reset, the transfer is in one of five phases, told apart by the sender's *)
(* state and by whether the receiver's confirm bit is the expected one; and a  *)
(* chunk that waits in the radio's buffer is the sender's current one, or one  *)
(* the receiver will pass over.                                                *)

BitAsExpected == mrcv.confirm = msnd.exp
Begun(n) == \A k \in 1..n : mrcv.data[k] = <<Body[msnd.msg], k>>
InTransfer == Len(taken) - Len(done)

\* The receiver is between two messages, n of them taken and not begun.
Between(n) == \/ mrcv.finished /\ InTransfer = n + 1
              \/ ~mrcv.finished /\ mrcv.pkg = 1 /\ mrcv.off = 0 /\ InTransfer = n

SenderHolds ==
  /\ msnd.state \notin Resyncing /\ msnd.pkg <= msnd.off + 1
  /\ msnd.state # "IDLE" => Len(taken) > 0 /\ msnd.msg = taken[Len(taken)]
  /\ down = msnd.exp => BitAsExpected

AtRest == msnd.state = "IDLE" => ~BitAsExpected /\ Between(0)

AtStart == msnd.state = "SEND_PENDING" =>
  ~BitAsExpected /\ Between(1) /\ msnd.off = 0 /\ msnd.pkg = 1

ChunkLacking == msnd.state = "SENDING" /\ ~BitAsExpected =>
  \/ msnd.pkg = 1 /\ msnd.off = 0 /\ Between(1)
  \/ /\ msnd.pkg > 1 /\ ~mrcv.finished /\ InTransfer = 1
     /\ mrcv.pkg = msnd.pkg /\ mrcv.off = msnd.off /\ Begun(msnd.off)

ChunkThere == msnd.state = "SENDING" /\ BitAsExpected =>
  /\ msnd.last = Chunk.n
  /\ IF Chunk.idx = 0 THEN Between(0)
     ELSE /\ ~mrcv.finished /\ InTransfer = 1
          /\ mrcv.pkg = msnd.pkg + 1 /\ mrcv.off = Smaller(BufLen, msnd.off + ChunkLen)
          /\ Begun(msnd.off + Chunk.n)
          /\ msnd.pkg = 1 => /\ msnd.off = 0
                             /\ \A j \in 1..ChunkLen : mrcv.data[j] = PayloadUnit(Chunk, j)

AtClose == msnd.state = "WAIT_UNTIL_NEXT_CONFIRM" =>
  IF BitAsExpected THEN Between(0)
  ELSE /\ ~mrcv.finished /\ InTransfer = 1
       /\ mrcv.pkg = 2 /\ mrcv.off >= Length[msnd.msg] /\ Begun(Length[msnd.msg])

PassedOver(p) ==
  IF p.idx = 0 THEN mrcv.finished \/ mrcv.pkg = 1
  ELSE /\ p.idx \notin {mrcv.pkg, MaxPackageIndex} /\ ~mrcv.finished
       /\ p.idx = 1 => Retransmission(mrcv, p)

ChunkWaiting == \A i \in DOMAIN up : up[i].msp /\ ~up[i].sent =>
  \/ PassedOver(up[i].p)
  \/ /\ msnd.state \in {"SENDING", "WAIT_UNTIL_NEXT_CONFIRM"}
     /\ up[i].p = Chunk /\ msnd.last = Chunk.n

DoneRight ==
  /\ \A i \in 1..Len(done) : i <= Len(taken) /\ Holds(done[i], taken[i])
  /\ mrcv.finished => Len(done) < Len(taken) /\ Holds(mrcv.data, taken[Len(done) + 1])

MspParts == SenderHolds /\ AtRest /\ AtStart /\ ChunkLacking /\ ChunkThere /\ AtClose
            /\ ChunkWaiting /\ DoneRight
MspInv == ~mgaveUp => MspParts
=============================================================================
