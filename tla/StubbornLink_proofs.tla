------------------------ MODULE StubbornLink_proofs ------------------------
(***************************************************************************)
(* Theorems about StubbornLink, for every message list, chunk size, slot   *)
(* layout and bound: type correctness; then that until the sender gives a  *)
(* chunk up, the telemetry transport delivers every message exactly once,  *)
(* in order and intact, from the inductive invariant LinkInv; and that the *)
(* link implements the channel its users see.                              *)
(***************************************************************************)
EXTENDS StubbornLink, Stubborn_proofs

USE DEF Messages, Bit, Flip

-----------------------------------------------------------------------------
(* Type correctness *)

\* The part of TypeOK that speaks of the RX, its sender being s.
SenderOK(s) == /\ s \in Senders
               /\ s.state # "RESYNC_THEN_SEND"
               /\ s.state \in Sending => s.msg > 0 /\ s.off < Length[s.msg]

RxTypeOK == /\ SenderOK(snd)
            /\ nextType \in {"LINK", "DATA"}
            /\ burst \in 1..BurstMax
            /\ queued \in Packets
            /\ valid \in BOOLEAN /\ armed \in BOOLEAN
            /\ dl \in Seq(Packets) /\ Len(dl) <= 1

\* The packet HandleSendTelemetryResponse builds is a packet.
LEMMA BuiltPacketType ==
  ASSUME NEW s, SenderOK(s)
  PROVE  BuiltPacket(s) \in Packets
<1>1. RoomFor(s) \in Nat \ {0}
  BY SizeAssumption, BufferAssumption DEF RoomFor
<1>2. /\ ChunkSize(s, RoomFor(s)) \in Nat
      /\ ChunkIndex(s, RoomFor(s)) \in Nat
  BY <1>1, GetPayloadTypes DEF SenderOK
<1>3. ChunkSize(s, RoomFor(s)) # 0 => s.msg \in 1..Len(Body) /\ s.off \in Nat
  BY SendingMessage DEF ChunkSize, SenderOK, Senders
<1> DEFINE n == ChunkSize(s, RoomFor(s))
           idx == ChunkIndex(s, RoomFor(s))
           body == IF n = 0 THEN NoBody ELSE Body[s.msg]
           from == IF n = 0 THEN 0 ELSE s.off
<1>5. body \in Bodies \cup {NoBody} /\ from \in Nat
  BY <1>3, MessageFacts
<1>6. BuiltPacket(s) = [idx |-> idx, len |-> RoomFor(s), n |-> n, body |-> body, from |-> from]
  BY DEF BuiltPacket
<1> HIDE DEF n, idx, body, from
<1> QED BY <1>1, <1>2, <1>5, <1>6 DEF Packets, n, idx

\* HandleSendTelemetryResponse keeps the RX well typed, whatever sender it is
\* given, and does not touch the message in flight.
LEMMA HandleTypes ==
  ASSUME RxTypeOK, NEW s, SenderOK(s), HandleSendTelemetryResponse(s)
  PROVE  RxTypeOK' /\ snd'.msg = s.msg
<1>1. CASE connected
  <2>1. RoomFor(s) \in Nat \ {0}
    BY SizeAssumption, BufferAssumption DEF RoomFor
  <2>2. snd' \in Senders /\ snd' = AfterGetPayload(s, RoomFor(s))
    BY <1>1, <2>1, GetPayloadTypes DEF SenderOK, HandleSendTelemetryResponse
  <2>3. SenderOK(snd)' /\ snd'.msg = s.msg
    BY <2>1, <2>2, GetPayloadFields DEF SenderOK, Sending
  <2>4. queued' \in Packets /\ dl' = <<queued'>>
    BY <1>1, BuiltPacketType DEF HandleSendTelemetryResponse
  <2>5. dl' \in Seq(Packets) /\ Len(dl') <= 1
    BY <2>4
  <2>6. nextType' \in {"LINK", "DATA"} /\ burst' \in 1..BurstMax
    BY <1>1, BoundAssumption DEF HandleSendTelemetryResponse, RxTypeOK
  <2>7. valid' \in BOOLEAN /\ armed' \in BOOLEAN
    BY <1>1 DEF HandleSendTelemetryResponse
  <2> QED BY <2>3, <2>4, <2>5, <2>6, <2>7 DEF RxTypeOK
<1>2. CASE ~connected
  BY <1>2 DEF HandleSendTelemetryResponse, RxTypeOK, SenderOK
<1> QED BY <1>1, <1>2

\* TXdoneISR keeps the RX well typed.
LEMMA TxDoneTypes ==
  ASSUME RxTypeOK, RxTxDone
  PROVE  RxTypeOK' /\ snd'.msg = snd.msg
<1>1. <<>> \in Seq(Packets) /\ Len(<<>>) <= 1
  OBVIOUS
<1>2. ASSUME queued \in Packets
      PROVE  <<queued>> \in Seq(Packets) /\ Len(<<queued>>) <= 1
  BY <1>2
<1>3. CASE HandleSendTelemetryResponse(snd)
  BY <1>3, HandleTypes DEF RxTypeOK
<1>4. CASE dl' = <<>> /\ UNCHANGED <<snd, queued, valid, armed, nextType, burst>>
  BY <1>1, <1>4 DEF RxTypeOK, SenderOK
<1>5. CASE /\ armed' = TRUE
           /\ dl' = IF connected THEN <<queued>> ELSE <<>>
           /\ UNCHANGED <<snd, queued, valid, nextType, burst>>
  <2>1. dl' \in Seq(Packets) /\ Len(dl') <= 1
    BY <1>1, <1>2, <1>5 DEF RxTypeOK
  <2> QED BY <1>5, <2>1 DEF RxTypeOK, SenderOK
<1> QED BY <1>3, <1>4, <1>5 DEF RxTxDone

\* ProcessRfPacket_RC keeps the RX well typed.
LEMMA RcTypes ==
  ASSUME RxTypeOK, gaveUp \in BOOLEAN, NEW v \in Bit, ProcessRfPacket_RC(v)
  PROVE  RxTypeOK' /\ snd'.msg = snd.msg /\ connected' \in BOOLEAN /\ gaveUp' \in BOOLEAN
<1> DEFINE s == IF connected /\ armed THEN ConfirmCurrentPayload(snd, v) ELSE snd
<1>1. SenderOK(s) /\ s.msg = snd.msg
  BY ConfirmTypes DEF RxTypeOK, SenderOK
<1>2. \/ HandleSendTelemetryResponse(s)
      \/ snd' = s /\ UNCHANGED <<queued, dl, valid, armed, nextType, burst>>
  BY DEF ProcessRfPacket_RC
<1>3. connected' \in BOOLEAN /\ gaveUp' \in BOOLEAN
  BY DEF ProcessRfPacket_RC
<1> HIDE DEF s
<1>4. CASE HandleSendTelemetryResponse(s)
  BY <1>1, <1>3, <1>4, HandleTypes
<1>5. CASE snd' = s /\ UNCHANGED <<queued, dl, valid, armed, nextType, burst>>
  BY <1>1, <1>3, <1>5 DEF RxTypeOK, SenderOK
<1> QED BY <1>2, <1>4, <1>5
-----------------------------------------------------------------------------
(* The theorem *)

\* The rest of TypeOK: the TX, the air and the history.
TxTypeOK == /\ snd.msg = loaded
            /\ loaded \in 0..Len(Body)
            /\ connected \in BOOLEAN
            /\ rcv \in Receivers
            /\ delivered \in Seq(Buffers)
            /\ ul \in Seq(Bit) /\ Len(ul) <= 1
            /\ slot \in 1..Denom
            /\ losses \in 0..MaxLoss
            /\ rateChanges \in 0..MaxRateChange
            /\ gaveUp \in BOOLEAN

LEMMA TypeParts == TypeOK <=> RxTypeOK /\ TxTypeOK
  BY DEF TypeOK, RxTypeOK, TxTypeOK, SenderOK

LEMMA TypeInit == Init => TypeOK
<1> SUFFICES ASSUME Init PROVE TypeOK
  OBVIOUS
<1>1. snd \in Senders /\ snd.msg = 0 /\ snd.state = "IDLE"
  BY BodyAssumption DEF Init, ResetSender, Senders, SenderStates
<1>2. queued \in Packets
  BY DEF Init, NoPacket, Packets
<1>3. rcv \in Receivers
  <2>1. \A k \in 1..BufLen : Pad \in Bytes
    BY DEF Pad, Bytes
  <2> QED BY <2>1, SizeAssumption, BufferAssumption DEF Init, ResetReceiver, Receivers, Buffers
<1>4. /\ delivered \in Seq(Buffers)
      /\ dl \in Seq(Packets) /\ Len(dl) <= 1
      /\ ul \in Seq(Bit) /\ Len(ul) <= 1
  BY DEF Init
<1>5. /\ burst \in 1..BurstMax /\ slot \in 1..Denom
      /\ losses \in 0..MaxLoss /\ rateChanges \in 0..MaxRateChange
      /\ loaded \in 0..Len(Body)
  BY BoundAssumption, BodyAssumption DEF Init
<1>6. /\ nextType \in {"LINK", "DATA"}
      /\ valid \in BOOLEAN /\ armed \in BOOLEAN /\ connected \in BOOLEAN
      /\ gaveUp \in BOOLEAN
      /\ loaded = 0
  BY DEF Init
<1> QED BY <1>1, <1>2, <1>3, <1>4, <1>5, <1>6 DEF TypeOK, Sending

LEMMA NextSlotType == ASSUME slot \in 1..Denom, NextSlot PROVE slot' \in 1..Denom
  BY BoundAssumption DEF NextSlot

LEMMA LoseType == ASSUME losses \in 0..MaxLoss, Lose PROVE losses' \in 0..MaxLoss
  BY BoundAssumption DEF Lose

LEMMA TypeNext ==
  ASSUME TypeOK, [Next]_vars
  PROVE  TypeOK'
<1> SUFFICES RxTypeOK' /\ TxTypeOK'
  BY DEF TypeOK, RxTypeOK, TxTypeOK, SenderOK
<1> USE TypeParts
<1>1. CASE LoadMessage
  <2> DEFINE s == SetDataToTransmit(snd, loaded + 1)
  <2>1. loaded + 1 \in 1..Len(Body) /\ loaded' \in 0..Len(Body)
    BY <1>1, BodyAssumption DEF LoadMessage, TxTypeOK
  <2>2. SenderOK(s) /\ s.msg = loaded + 1
    <3>1. s = [state |-> "SEND_PENDING", off |-> 0, last |-> snd.last, pkg |-> 1,
               exp |-> snd.exp, wait |-> 0, msg |-> loaded + 1]
      BY <1>1, SetDataFields DEF LoadMessage, RxTypeOK, SenderOK
    <3>2. Length[loaded + 1] \in Nat \ {0}
      BY <2>1, MessageFacts
    <3>3. snd.last \in Nat /\ snd.exp \in Bit
      BY DEF RxTypeOK, SenderOK, Senders
    <3>4. loaded + 1 \in 0..Len(Body) /\ loaded + 1 > 0
      BY <2>1, BodyAssumption
    <3> HIDE DEF s
    <3>5. s \in Senders
      BY <3>1, <3>3, <3>4 DEF Senders, SenderStates
    <3> QED BY <3>1, <3>2, <3>4, <3>5 DEF SenderOK
  <2>3. HandleSendTelemetryResponse(s)
    BY <1>1 DEF LoadMessage
  <2> HIDE DEF s
  <2>4. RxTypeOK' /\ snd'.msg = loaded + 1
    BY <2>2, <2>3, HandleTypes
  <2>5. TxTypeOK'
    BY <1>1, <2>1, <2>4 DEF LoadMessage, TxTypeOK
  <2> QED BY <2>4, <2>5
<1>2. CASE MspChunkReceived
  BY <1>2 DEF MspChunkReceived, RxTypeOK, TxTypeOK, SenderOK
<1>3. CASE QueueRcPacket
  <2>1. ul' \in Seq(Bit) /\ Len(ul') <= 1
    <3>1. rcv.confirm \in Bit
      BY DEF TxTypeOK, Receivers
    <3> QED BY <1>3, <3>1 DEF QueueRcPacket
  <2> QED BY <1>3, <2>1 DEF QueueRcPacket, RxTypeOK, TxTypeOK, SenderOK
<1>4. CASE ForwardTelemetry
  <2>1. delivered' \in Seq(Buffers)
    <3>1. rcv.data \in Buffers
      BY DEF TxTypeOK, Receivers
    <3> QED BY <1>4, <3>1 DEF ForwardTelemetry, TxTypeOK
  <2>2. rcv' \in Receivers
    BY <1>4, UnlockTypes DEF ForwardTelemetry, TxTypeOK
  <2> QED BY <1>4, <2>1, <2>2 DEF ForwardTelemetry, RxTypeOK, TxTypeOK, SenderOK
<1>5. CASE DownlinkSlot
  <2>1. RxTypeOK' /\ snd'.msg = snd.msg
    BY <1>5, TxDoneTypes DEF DownlinkSlot
  <2>2. rcv' \in Receivers
    <3>1. ASSUME dl # <<>> PROVE dl[1] \in Packets
      BY <3>1 DEF RxTypeOK
    <3> QED BY <1>5, <3>1, ReceiveTypes DEF DownlinkSlot, ProcessTLMpacket, TxTypeOK
  <2>3. losses' \in 0..MaxLoss
    BY <1>5, LoseType DEF DownlinkSlot, TxTypeOK
  <2>4. slot' \in 1..Denom
    BY <1>5, NextSlotType DEF DownlinkSlot, TxTypeOK
  <2> QED BY <1>5, <2>1, <2>2, <2>3, <2>4 DEF DownlinkSlot, TxTypeOK
<1>6. CASE UplinkSlot
  <2>1. slot' \in 1..Denom /\ ul' \in Seq(Bit) /\ Len(ul') <= 1
    BY <1>6, NextSlotType DEF UplinkSlot, TxTypeOK
  <2>2. CASE UplinkIdle
    BY <1>6, <2>1, <2>2 DEF UplinkSlot, UplinkIdle, rxVars, RxTypeOK, TxTypeOK, SenderOK
  <2>3. CASE UplinkLost
    <3>1. losses' \in 0..MaxLoss
      BY <2>3, LoseType DEF UplinkLost, TxTypeOK
    <3> QED BY <1>6, <2>1, <2>3, <3>1
            DEF UplinkSlot, UplinkLost, rxVars, RxTypeOK, TxTypeOK, SenderOK
  <2>4. CASE UplinkHeard
    <3>1. ul[1] \in Bit
      BY <2>4 DEF UplinkHeard, TxTypeOK
    <3>2. /\ RxTypeOK' /\ snd'.msg = snd.msg
          /\ connected' \in BOOLEAN /\ gaveUp' \in BOOLEAN
      BY <2>4, <3>1, RcTypes DEF UplinkHeard, TxTypeOK
    <3> QED BY <1>6, <2>1, <2>4, <3>2 DEF UplinkSlot, UplinkHeard, TxTypeOK
  <2> QED BY <1>6, <2>2, <2>3, <2>4 DEF UplinkSlot
<1>7. CASE RateChange
  <2>1. rateChanges' \in 0..MaxRateChange /\ slot' \in 1..Denom
    BY <1>7, BoundAssumption DEF RateChange, TxTypeOK
  <2>2. /\ dl' \in Seq(Packets) /\ Len(dl') <= 1
        /\ ul' \in Seq(Bit) /\ Len(ul') <= 1
    BY <1>7 DEF RateChange
  <2> QED BY <1>7, <2>1, <2>2 DEF RateChange, RxTypeOK, TxTypeOK, SenderOK
<1>8. CASE UNCHANGED vars
  BY <1>8 DEF vars, RxTypeOK, TxTypeOK, SenderOK
<1> QED BY <1>1, <1>2, <1>3, <1>4, <1>5, <1>6, <1>7, <1>8 DEF Next

\* Every reachable state is well typed: in particular the receiver's offset
\* never leaves CRSFinBuffer and the sender in SENDING always has units left,
\* so no chunk is ever cut from beyond the message.
THEOREM TypeCorrect == Spec => []TypeOK
<1>1. Init => TypeOK
  BY TypeInit
<1>2. TypeOK /\ [Next]_vars => TypeOK'
  BY TypeNext
<1> QED BY <1>1, <1>2, PTL DEF Spec
-----------------------------------------------------------------------------
(* The two counters every case compares *)

LEMMA CountsAreNat ==
  ASSUME TypeOK
  PROVE  loaded \in Nat /\ Len(delivered) \in Nat /\ delivered \in Seq(Buffers)
<1>1. Len(Body) \in Nat
  BY BodyAssumption
<1>2. loaded \in 0..Len(Body) /\ delivered \in Seq(Buffers)
  BY DEF TypeOK
<1>3. loaded \in Nat
  BY <1>1, <1>2
<1>4. Len(delivered) \in Nat
  BY <1>2
<1> QED BY <1>2, <1>3, <1>4

LEMMA CountsAreNatNext ==
  ASSUME TypeOK'
  PROVE  loaded' \in Nat
<1>1. Len(Body) \in Nat
  BY BodyAssumption
<1>2. loaded' \in 0..Len(Body)
  BY DEF TypeOK
<1> QED BY <1>1, <1>2

-----------------------------------------------------------------------------
(* What the operators do, as the invariant sees it *)

\* What the sender has to send goes on offer: after HandleSendTelemetryResponse
\* the queued packet is the sender's current chunk.
LEMMA HandleOffers ==
  ASSUME NEW s, SenderOK(s), s.state \in Sending, connected,
         HandleSendTelemetryResponse(s), loaded' = s.msg
  PROVE  /\ ChunkOnOffer'
         /\ snd'.state = "SENDING" /\ snd'.off = s.off /\ snd'.pkg = s.pkg
         /\ snd'.exp = s.exp
         /\ queued'.len \in {LinkLen, DataLen} /\ dl' = <<queued'>> /\ valid'
<1> DEFINE room == RoomFor(s)
           n == ChunkSize(s, room)
<1>1. room \in {LinkLen, DataLen} /\ room \in Nat \ {0}
  BY SizeAssumption, BufferAssumption DEF RoomFor
<1>2. /\ s.msg \in 1..Len(Body) /\ Length[s.msg] \in Nat
      /\ s.off \in Nat /\ Length[s.msg] - s.off \in Nat \ {0}
  BY SendingMessage DEF SenderOK, Senders
<1>3. n = Smaller(Length[s.msg] - s.off, room) /\ n # 0 /\ n \in Nat
  BY <1>1, <1>2 DEF ChunkSize, Smaller
<1>4. /\ snd' = AfterGetPayload(s, room)
      /\ queued' = BuiltPacket(s)
      /\ dl' = <<queued'>> /\ valid'
  BY DEF HandleSendTelemetryResponse
<1>5. /\ snd'.state = "SENDING" /\ snd'.off = s.off /\ snd'.pkg = s.pkg
      /\ snd'.exp = s.exp /\ snd'.last = n
  BY <1>4, GetPayloadFields DEF SenderOK, Sending
<1>6. /\ queued'.idx = ChunkIndex(s, room) /\ queued'.len = room /\ queued'.n = n
      /\ queued'.body = Body[s.msg] /\ queued'.from = s.off
  <2>1. queued' = [idx |-> ChunkIndex(s, room), len |-> room, n |-> n,
                   body |-> Body[s.msg], from |-> s.off]
    BY <1>3, <1>4 DEF BuiltPacket
  <2> HIDE DEF n, room
  <2> QED BY <2>1
<1>7. ChunkIndex(s, room) = IF s.pkg > 1 /\ s.off + n >= Length[s.msg] THEN 0 ELSE s.pkg
  BY DEF ChunkIndex, Sending, Resyncing
<1> HIDE DEF n, room
<1> QED BY <1>1, <1>2, <1>3, <1>4, <1>5, <1>6, <1>7 DEF ChunkOnOffer

\* A sender with nothing to send offers an empty packet of index 0.
LEMMA HandleRests ==
  ASSUME NEW s, SenderOK(s), s.state \in {"IDLE", "WAIT_UNTIL_NEXT_CONFIRM"},
         connected, HandleSendTelemetryResponse(s)
  PROVE  /\ snd'.state = s.state /\ snd'.off = s.off /\ snd'.pkg = s.pkg
         /\ snd'.exp = s.exp
         /\ queued'.idx = 0
         /\ queued'.len \in {LinkLen, DataLen} /\ dl' = <<queued'>> /\ valid'
<1>1. RoomFor(s) \in {LinkLen, DataLen}
  BY DEF RoomFor
<1>2. /\ snd' = AfterGetPayload(s, RoomFor(s))
      /\ queued' = BuiltPacket(s)
      /\ dl' = <<queued'>> /\ valid'
  BY DEF HandleSendTelemetryResponse
<1>3. snd'.state = s.state /\ snd'.off = s.off /\ snd'.pkg = s.pkg /\ snd'.exp = s.exp
  BY <1>2, GetPayloadFields DEF SenderOK
<1>4. ChunkIndex(s, RoomFor(s)) = 0
  BY DEF ChunkIndex, Sending, Resyncing
<1>5. queued'.idx = ChunkIndex(s, RoomFor(s)) /\ queued'.len = RoomFor(s)
  BY <1>2 DEF BuiltPacket
<1> QED BY <1>1, <1>2, <1>3, <1>4, <1>5
-----------------------------------------------------------------------------
(* The receiver and the packet on offer *)

\* The numbers of a chunk on offer.
LEMMA OfferFacts ==
  ASSUME TypeOK, LinkHolds, ChunkOnOffer, snd.state = "SENDING"
  PROVE  /\ loaded \in 1..Len(Body) /\ Length[loaded] \in Nat /\ Length[loaded] <= BufLen
         /\ snd.off \in Nat /\ snd.pkg \in Nat /\ snd.pkg >= 1 /\ snd.last \in Nat
         /\ queued \in Packets
         /\ queued.len \in Nat /\ queued.len >= 1 /\ queued.len <= BufLen
         /\ snd.last >= 1 /\ snd.last <= queued.len
         /\ snd.off + snd.last <= Length[loaded]
         /\ snd.off + snd.last < Length[loaded] => snd.last = queued.len
         /\ snd.pkg < MaxPackageIndex /\ MaxPackageIndex \in Nat /\ MaxPackageIndex > 1
<1>1. loaded \in 1..Len(Body)
  BY DEF TypeOK, ChunkOnOffer
<1>2. Length[loaded] \in Nat /\ Length[loaded] <= BufLen /\ Length[loaded] < MaxPackageIndex
  BY <1>1, MessageFacts
<1>3. snd.off \in Nat /\ snd.pkg \in Nat /\ snd.pkg >= 1 /\ snd.last \in Nat /\ queued \in Packets
  BY DEF TypeOK, Senders
<1>4. queued.len \in Nat /\ queued.len >= 1 /\ queued.len <= BufLen
  BY SizeAssumption, BufferAssumption DEF LinkHolds, ChunkOnOffer
<1>5. snd.off < Length[loaded] /\ snd.last = Smaller(Length[loaded] - snd.off, queued.len)
  BY DEF ChunkOnOffer
<1>6. snd.pkg <= snd.off + 1
  BY DEF LinkHolds
<1>7. MaxPackageIndex \in Nat
  BY SizeAssumption, BufferAssumption
<1> QED BY <1>1, <1>2, <1>3, <1>4, <1>5, <1>6, <1>7 DEF Smaller

\* A receiver between messages ignores an empty packet.
LEMMA RestsIgnores ==
  ASSUME NEW n, TypeOK, TxRests(n), NEW p \in Packets, p.idx = 0
  PROVE  ReceiveData(rcv, p) = rcv
<1>1. MaxPackageIndex # 0
  BY SizeAssumption, BufferAssumption
<1> QED BY <1>1 DEF ReceiveData, TxRests

\* A chunk the TX has already is ignored when it comes again.
LEMMA ReceivedIgnores ==
  ASSUME TypeOK, LinkHolds, ChunkReceived, snd.state = "SENDING", Acked
  PROVE  ReceiveData(rcv, queued) = rcv
<1>1. ChunkOnOffer
  BY DEF ChunkReceived
<1>2. CASE queued.idx = 0
  BY <1>1, <1>2, OfferFacts, RestsIgnores DEF ChunkReceived
<1>3. CASE queued.idx # 0
  <2>1. queued.idx = snd.pkg /\ rcv.pkg = snd.pkg + 1 /\ ~rcv.finished
    BY <1>1, <1>3 DEF ChunkReceived, ChunkOnOffer
  <2>2. queued.idx # MaxPackageIndex /\ queued.idx # rcv.pkg
    BY <1>1, <2>1, OfferFacts
  <2>3. queued.idx = 1 => Retransmission(rcv, queued)
    <3>1. SUFFICES ASSUME queued.idx = 1 PROVE Retransmission(rcv, queued)
      OBVIOUS
    <3>2. /\ rcv.off = Smaller(BufLen, snd.off + queued.len) /\ snd.off = 0
          /\ \A j \in 1..queued.len : rcv.data[j] = PayloadUnit(queued, j)
      BY <1>3, <2>1, <3>1 DEF ChunkReceived
    <3>3. rcv.off = queued.len
      BY <1>1, <3>2, OfferFacts, SizeAssumption, BufferAssumption DEF Smaller
    <3> QED BY <2>1, <3>1, <3>2, <3>3 DEF Retransmission
  <2> QED BY <1>3, <2>1, <2>2, <2>3 DEF ReceiveData
<1> QED BY <1>2, <1>3

\* A first chunk the TX lacks is taken, or ignored while the last message is
\* still locked.
LEMMA FirstChunkTaken ==
  ASSUME TypeOK, LinkHolds, ChunkMissing, snd.state = "SENDING", ~Acked,
         snd.pkg = 1, NEW r, r = ReceiveData(rcv, queued)
  PROVE  /\ rcv.finished => r = rcv
         /\ ~rcv.finished =>
              /\ Outstanding = 1
              /\ r.confirm = 1 - rcv.confirm
              /\ ~r.finished /\ r.pkg = 2 /\ r.off = queued.len /\ snd.off = 0
              /\ \A j \in 1..queued.len : r.data[j] = PayloadUnit(queued, j)
<1>1. ChunkOnOffer /\ snd.off = 0 /\ TxRests(1)
  BY DEF ChunkMissing
<1>2. queued.idx = 1 /\ queued.idx # MaxPackageIndex
  BY <1>1, OfferFacts DEF ChunkOnOffer
<1>3. rcv.finished => r = rcv
  BY <1>2 DEF ReceiveData
<1>4. ASSUME ~rcv.finished
      PROVE  /\ Outstanding = 1
             /\ r.confirm = 1 - rcv.confirm
             /\ ~r.finished /\ r.pkg = 2 /\ r.off = queued.len /\ snd.off = 0
             /\ \A j \in 1..queued.len : r.data[j] = PayloadUnit(queued, j)
  <2>1. rcv.pkg = 1 /\ rcv.off = 0 /\ Outstanding = 1
    BY <1>1, <1>4 DEF TxRests
  <2>2. r = AcceptChunk(rcv, queued)
    BY <1>2, <1>4, <2>1 DEF ReceiveData
  <2>3. rcv \in Receivers /\ queued \in Packets
    BY DEF TypeOK
  <2>4. Smaller(BufLen - 0, queued.len) = queued.len
    BY <1>1, OfferFacts, SizeAssumption, BufferAssumption DEF Smaller
  <2>5. r.confirm = 1 - rcv.confirm /\ r.pkg = 2 /\ r.off = queued.len
    BY <1>1, <2>1, <2>2, <2>3, <2>4, AcceptFields, OfferFacts
  <2>6. r.finished = rcv.finished
    BY <2>2, <2>3, AcceptFields
  <2>7. ~r.finished
    BY <1>4, <2>6, Zenon
  <2>8. \A j \in 1..queued.len : r.data[j] = PayloadUnit(queued, j)
    <3>1. SUFFICES ASSUME NEW j \in 1..queued.len
                   PROVE  r.data[j] = PayloadUnit(queued, j)
      OBVIOUS
    <3>2. j \in 1..BufLen /\ 0 < j /\ j <= 0 + queued.len /\ j - 0 = j
      BY <1>1, OfferFacts, SizeAssumption, BufferAssumption
    <3>3. r.data[j] = IF rcv.off < j /\ j <= rcv.off + Smaller(BufLen - rcv.off, queued.len)
                      THEN PayloadUnit(queued, j - rcv.off) ELSE rcv.data[j]
      BY <2>2, <2>3, <3>2, AcceptFields
    <3> QED BY <2>1, <2>4, <3>2, <3>3
  <2> QED BY <1>1, <2>1, <2>5, <2>7, <2>8
<1> QED BY <1>3, <1>4

\* A later chunk the TX lacks extends the prefix it has; the last one
\* finishes the message.
LEMMA LaterChunkTaken ==
  ASSUME TypeOK, LinkHolds, ChunkMissing, snd.state = "SENDING", ~Acked,
         snd.pkg > 1, NEW r, r = ReceiveData(rcv, queued)
  PROVE  /\ Outstanding = 1
         /\ r.confirm = 1 - rcv.confirm
         /\ \A k \in 1..(snd.off + snd.last) : r.data[k] = <<Body[loaded], k>>
         /\ queued.idx = 0 => r.finished
         /\ queued.idx # 0 => /\ ~r.finished
                              /\ r.pkg = snd.pkg + 1
                              /\ r.off = Smaller(BufLen, snd.off + queued.len)
<1>1. /\ ChunkOnOffer
      /\ ~rcv.finished /\ rcv.pkg = snd.pkg /\ rcv.off = snd.off
      /\ Prefix(snd.off) /\ Outstanding = 1
  BY DEF ChunkMissing
<1>2. rcv \in Receivers /\ queued \in Packets
  BY DEF TypeOK
<1>3. queued.idx # MaxPackageIndex /\ (queued.idx = 0 \/ queued.idx = snd.pkg)
  BY <1>1, OfferFacts DEF ChunkOnOffer
<1>4. r = IF queued.idx = 0 THEN AcceptChunk([rcv EXCEPT !.finished = TRUE], queued)
          ELSE AcceptChunk(rcv, queued)
  BY <1>1, <1>3 DEF ReceiveData
<1>5. r.confirm = 1 - rcv.confirm
  BY <1>2, <1>4, AcceptFields, FinishFields
<1>6. \A k \in 1..BufLen :
        r.data[k] = IF rcv.off < k /\ k <= rcv.off + Smaller(BufLen - rcv.off, queued.len)
                    THEN PayloadUnit(queued, k - rcv.off) ELSE rcv.data[k]
  <2>1. CASE queued.idx = 0
    BY <1>2, <1>4, <2>1, FinishFields
  <2>2. CASE queued.idx # 0
    BY <1>2, <1>4, <2>2, AcceptFields
  <2> QED BY <2>1, <2>2
<1>7. \A k \in 1..(snd.off + snd.last) : r.data[k] = <<Body[loaded], k>>
  <2>1. SUFFICES ASSUME NEW k \in 1..(snd.off + snd.last)
                 PROVE  r.data[k] = <<Body[loaded], k>>
    OBVIOUS
  <2>2. k \in 1..BufLen /\ snd.off <= BufLen
    BY <1>1, OfferFacts, SizeAssumption, BufferAssumption
  <2>3. CASE k <= snd.off
    <3>1. rcv.data[k] = <<Body[loaded], k>>
      BY <1>1, <2>2, <2>3 DEF Prefix
    <3>2. ~(rcv.off < k)
      BY <1>1, <2>2, <2>3, OfferFacts
    <3> QED BY <1>6, <2>2, <3>1, <3>2
  <2>4. CASE snd.off < k
    <3>1. k <= snd.off + Smaller(BufLen - snd.off, queued.len)
      BY <1>1, <2>1, <2>2, <2>4, OfferFacts, SizeAssumption, BufferAssumption DEF Smaller
    <3>2. r.data[k] = PayloadUnit(queued, k - snd.off)
      BY <1>1, <1>6, <2>2, <2>4, <3>1
    <3>3. k - snd.off <= queued.n /\ queued.from + (k - snd.off) = k
      BY <1>1, <2>1, <2>4, OfferFacts DEF ChunkOnOffer
    <3>4. PayloadUnit(queued, k - snd.off) = <<Body[loaded], k>>
      BY <1>1, <3>3 DEF PayloadUnit, ChunkOnOffer
    <3> QED BY <3>2, <3>4
  <2> QED BY <1>1, <2>3, <2>4, OfferFacts
<1>8. queued.idx = 0 => r.finished
  BY <1>2, <1>4, FinishFields
<1>9. ASSUME queued.idx # 0
      PROVE  /\ ~r.finished
             /\ r.pkg = snd.pkg + 1
             /\ r.off = Smaller(BufLen, snd.off + queued.len)
  <2>1. r.pkg = snd.pkg + 1
    BY <1>1, <1>2, <1>4, <1>9, AcceptFields
  <2>2. r.off = rcv.off + Smaller(BufLen - rcv.off, queued.len)
    BY <1>2, <1>4, <1>9, AcceptFields
  <2>3. r.off = Smaller(BufLen, snd.off + queued.len)
    BY <1>1, <2>2, OfferFacts, SizeAssumption, BufferAssumption DEF Smaller
  <2>4. r.finished = rcv.finished
    BY <1>2, <1>4, <1>9, AcceptFields
  <2> QED BY <1>1, <2>1, <2>3, <2>4, Zenon
<1> QED BY <1>1, <1>5, <1>7, <1>8, <1>9

\* The closing packet of a one-chunk message finishes it.
LEMMA ClosingTaken ==
  ASSUME TypeOK, LinkHolds, Closing, snd.state = "WAIT_UNTIL_NEXT_CONFIRM",
         ~Acked, NEW r, r = ReceiveData(rcv, queued)
  PROVE  /\ Outstanding = 1
         /\ r.confirm = 1 - rcv.confirm
         /\ r.finished
         /\ \A k \in 1..Length[loaded] : r.data[k] = <<Body[loaded], k>>
<1>1. /\ queued.idx = 0 /\ ~rcv.finished /\ rcv.pkg = 2 /\ rcv.off >= Length[loaded]
      /\ Prefix(Length[loaded]) /\ Outstanding = 1 /\ loaded > 0
  BY DEF Closing
<1>2. rcv \in Receivers /\ queued \in Packets /\ loaded \in 1..Len(Body)
  BY <1>1 DEF TypeOK
<1>3. Length[loaded] \in Nat /\ Length[loaded] <= BufLen
  BY <1>2, MessageFacts
<1>4. MaxPackageIndex # 0
  BY SizeAssumption, BufferAssumption
<1>5. r = AcceptChunk([rcv EXCEPT !.finished = TRUE], queued)
  BY <1>1, <1>4 DEF ReceiveData
<1>6. r.confirm = 1 - rcv.confirm /\ r.finished
  BY <1>2, <1>5, FinishFields
<1>7. \A k \in 1..Length[loaded] : r.data[k] = <<Body[loaded], k>>
  <2>1. SUFFICES ASSUME NEW k \in 1..Length[loaded]
                 PROVE  r.data[k] = <<Body[loaded], k>>
    OBVIOUS
  <2>2. k \in 1..BufLen /\ rcv.off \in Nat /\ ~(rcv.off < k)
    BY <1>1, <1>2, <1>3, SizeAssumption, BufferAssumption DEF Receivers
  <2>3. r.data[k] = IF rcv.off < k /\ k <= rcv.off + Smaller(BufLen - rcv.off, queued.len)
                    THEN PayloadUnit(queued, k - rcv.off) ELSE rcv.data[k]
    BY <1>2, <1>5, <2>2, FinishFields
  <2> QED BY <1>1, <2>2, <2>3 DEF Prefix
<1> QED BY <1>1, <1>6, <1>7
-----------------------------------------------------------------------------
(* The steps *)

\* A step that leaves the sender's position, the packet on offer and the
\* receiver alone preserves the invariant.
LEMMA QuietStep ==
  ASSUME LinkParts, UNCHANGED <<loaded, queued, valid, rcv, delivered>>,
         snd'.state = snd.state, snd'.off = snd.off, snd'.last = snd.last,
         snd'.pkg = snd.pkg, snd'.exp = snd.exp,
         valid => connected',
         dl' # <<>> => valid /\ dl' = <<queued>>,
         FreshAck'
  PROVE  LinkParts'
<1>1. Acked' <=> Acked
  BY DEF Acked
<1>2. \A n : TxRests(n)' <=> TxRests(n)
  BY DEF TxRests, Outstanding
<1>3. \A n : Prefix(n)' <=> Prefix(n)
  BY DEF Prefix
<1>4. Outstanding' = Outstanding
  BY DEF Outstanding
<1>5. ChunkOnOffer' <=> ChunkOnOffer
  BY DEF ChunkOnOffer
<1>6. LinkHolds'
  BY DEF LinkParts, LinkHolds
<1>7. Resting' /\ Starting'
  BY <1>1, <1>2 DEF LinkParts, Resting, Starting
<1>8. ChunkMissing'
  BY <1>1, <1>2, <1>3, <1>4, <1>5 DEF LinkParts, ChunkMissing
<1>9. ChunkReceived'
  BY <1>1, <1>2, <1>3, <1>4, <1>5 DEF LinkParts, ChunkReceived, PayloadUnit
<1>10. Closing'
  BY <1>1, <1>2, <1>3, <1>4 DEF LinkParts, Closing
<1>11. DeliveredRight'
  BY DEF LinkParts, DeliveredRight, IsMessage
<1> QED BY <1>6, <1>7, <1>8, <1>9, <1>10, <1>11 DEF LinkParts

\* The TX hears the packet on offer.
LEMMA HeardStep ==
  ASSUME TypeOK, TypeOK', LinkParts, valid,
         snd.state \in {"SENDING", "WAIT_UNTIL_NEXT_CONFIRM"},
         UNCHANGED <<snd, loaded, queued, valid, connected, delivered, ul>>,
         dl' # <<>> => valid /\ dl' = <<queued>>,
         rcv' = ReceiveData(rcv, queued)
  PROVE  LinkParts'
<1>0. LinkHolds /\ LinkHolds'
  BY DEF LinkParts, LinkHolds
<1>1. CASE rcv' = rcv
  BY <1>0, <1>1, QuietStep DEF LinkParts, LinkHolds, FreshAck
<1>2. ASSUME ~Acked, rcv'.confirm = 1 - rcv.confirm
      PROVE  Acked'
  <2>1. rcv.confirm \in Bit /\ snd.exp \in Bit
    BY DEF TypeOK, Senders, Receivers
  <2> QED BY <1>2, <2>1 DEF Acked
<1>3. Outstanding' = Outstanding /\ (ChunkOnOffer' <=> ChunkOnOffer)
  BY DEF Outstanding, ChunkOnOffer
<1>4. ASSUME Outstanding = 1, snd.state = "SENDING" \/ loaded > 0
      PROVE  Len(delivered) + 1 = loaded
  BY <1>4 DEF Outstanding, TypeOK
<1>5. CASE snd.state = "SENDING" /\ Acked
  BY <1>0, <1>1, <1>5, ReceivedIgnores DEF LinkParts
<1>6. CASE snd.state = "SENDING" /\ ~Acked /\ snd.pkg = 1
  <2>1. CASE rcv.finished
    BY <1>0, <1>1, <1>6, <2>1, FirstChunkTaken DEF LinkParts
  <2>2. CASE ~rcv.finished
    <3>1. /\ Outstanding = 1
          /\ rcv'.confirm = 1 - rcv.confirm
          /\ ~rcv'.finished /\ rcv'.pkg = 2 /\ rcv'.off = queued.len /\ snd.off = 0
          /\ \A j \in 1..queued.len : rcv'.data[j] = PayloadUnit(queued, j)
      BY <1>0, <1>6, <2>2, FirstChunkTaken DEF LinkParts
    <3>2. Acked'
      BY <1>2, <1>6, <3>1
    <3>3. ChunkOnOffer /\ queued.idx = 1
      BY <1>6 DEF LinkParts, ChunkMissing, ChunkOnOffer
    <3>4. rcv'.off = Smaller(BufLen, snd.off + queued.len)
      BY <1>0, <1>6, <3>1, <3>3, OfferFacts, SizeAssumption, BufferAssumption DEF Smaller
    <3>5. Prefix(snd.off + snd.last)'
      <4>1. ASSUME NEW k \in 1..(snd.off + snd.last)
            PROVE  rcv'.data[k] = <<Body[loaded], k>>
        <5>1. k \in 1..queued.len /\ k <= queued.n /\ queued.from + k = k
          BY <1>0, <1>6, <3>1, <3>3, <4>1, OfferFacts DEF ChunkOnOffer
        <5> QED BY <3>1, <3>3, <5>1 DEF PayloadUnit, ChunkOnOffer
      <4> QED BY <4>1 DEF Prefix
    <3>6. ChunkReceived'
      BY <1>3, <1>6, <3>1, <3>2, <3>3, <3>4, <3>5 DEF ChunkReceived, PayloadUnit
    <3>7. DeliveredRight'
      BY <3>1 DEF LinkParts, DeliveredRight, IsMessage
    <3> QED BY <1>0, <1>6, <3>2, <3>6, <3>7
            DEF LinkParts, Resting, Starting, ChunkMissing, Closing, FreshAck, Acked
  <2> QED BY <2>1, <2>2
<1>7. CASE snd.state = "SENDING" /\ ~Acked /\ snd.pkg > 1
  <2>1. /\ Outstanding = 1
        /\ rcv'.confirm = 1 - rcv.confirm
        /\ \A k \in 1..(snd.off + snd.last) : rcv'.data[k] = <<Body[loaded], k>>
        /\ queued.idx = 0 => rcv'.finished
        /\ queued.idx # 0 => /\ ~rcv'.finished
                             /\ rcv'.pkg = snd.pkg + 1
                             /\ rcv'.off = Smaller(BufLen, snd.off + queued.len)
    BY <1>0, <1>7, LaterChunkTaken DEF LinkParts
  <2>2. Acked'
    BY <1>2, <1>7, <2>1
  <2>3. ChunkOnOffer
    BY <1>7 DEF LinkParts, ChunkMissing
  <2>4. Prefix(snd.off + snd.last)'
    BY <2>1 DEF Prefix
  <2>5. ChunkReceived'
    <3>1. CASE queued.idx = 0
      BY <1>3, <1>7, <2>1, <2>2, <2>3, <3>1 DEF ChunkReceived, TxRests
    <3>2. CASE queued.idx # 0
      BY <1>3, <1>7, <2>1, <2>2, <2>3, <2>4, <3>2 DEF ChunkReceived
    <3> QED BY <3>1, <3>2
  <2>6. DeliveredRight'
    <3>1. CASE queued.idx = 0
      <4>1. snd.off + snd.last = Length[loaded]
        <5>1. snd.off + snd.last >= Length[loaded]
          BY <1>7, <2>3, <3>1 DEF ChunkOnOffer
        <5> QED BY <1>0, <1>7, <2>3, <5>1, OfferFacts
      <4>2. Len(delivered) + 1 = loaded
        BY <1>4, <1>7, <2>1
      <4>3. IsMessage(rcv'.data, loaded)
        BY <2>1, <4>1 DEF IsMessage
      <4>4. Len(delivered) < loaded
        BY <4>2 DEF TypeOK
      <4> QED BY <4>2, <4>3, <4>4 DEF LinkParts, DeliveredRight
    <3>2. CASE queued.idx # 0
      BY <2>1, <3>2 DEF LinkParts, DeliveredRight
    <3> QED BY <3>1, <3>2
  <2> QED BY <1>0, <1>7, <2>2, <2>5, <2>6
          DEF LinkParts, Resting, Starting, ChunkMissing, Closing, FreshAck, Acked
<1>8. CASE snd.state = "WAIT_UNTIL_NEXT_CONFIRM" /\ Acked
  <2>1. TxRests(0) /\ queued.idx = 0
    BY <1>8 DEF LinkParts, Closing
  <2>2. queued \in Packets
    BY DEF TypeOK
  <2> QED BY <1>1, <2>1, <2>2, RestsIgnores
<1>9. CASE snd.state = "WAIT_UNTIL_NEXT_CONFIRM" /\ ~Acked
  <2>1. /\ Outstanding = 1
        /\ rcv'.confirm = 1 - rcv.confirm
        /\ rcv'.finished
        /\ \A k \in 1..Length[loaded] : rcv'.data[k] = <<Body[loaded], k>>
    BY <1>0, <1>9, ClosingTaken DEF LinkParts
  <2>2. Acked'
    BY <1>2, <1>9, <2>1
  <2>3. loaded > 0 /\ queued.idx = 0
    BY <1>9 DEF LinkParts, Closing
  <2>4. Closing'
    BY <1>3, <2>1, <2>2, <2>3 DEF Closing, TxRests
  <2>5. DeliveredRight'
    <3>1. Len(delivered) + 1 = loaded
      BY <1>4, <2>1, <2>3
    <3>2. IsMessage(rcv'.data, loaded)
      BY <2>1 DEF IsMessage
    <3>3. Len(delivered) < loaded
      BY <3>1 DEF TypeOK
    <3> QED BY <3>1, <3>2, <3>3 DEF LinkParts, DeliveredRight
  <2> QED BY <1>0, <1>9, <2>2, <2>4, <2>5
          DEF LinkParts, Resting, Starting, ChunkMissing, ChunkReceived, FreshAck, Acked
<1>10. snd.state = "SENDING" => snd.pkg = 1 \/ snd.pkg > 1
  <2>1. snd.pkg \in Nat \ {0}
    BY DEF TypeOK, Senders
  <2> QED BY <2>1
<1> QED BY <1>5, <1>6, <1>7, <1>8, <1>9, <1>10

\* A sender that starts on a message while the TX rests: the message goes on
\* offer, or waits for the connection.
LEMMA StartStep ==
  ASSUME TypeOK, TypeOK', LinkHolds, DeliveredRight, FreshAck, ~Acked,
         valid => connected,
         NEW s, SenderOK(s), s.state = "SEND_PENDING", s.off = 0, s.pkg = 1,
         s.exp = snd.exp, s.msg = loaded', HandleSendTelemetryResponse(s),
         ~connected => ~valid,
         loaded <= loaded',
         TxRests(1)',
         UNCHANGED <<connected, rcv, delivered, ul>>
  PROVE  LinkParts'
<1>1. snd'.state \in {"SENDING", "SEND_PENDING"} /\ snd'.exp = snd.exp /\ snd'.off = 0 /\ snd'.pkg = 1
  <2>1. CASE connected
    BY <2>1, HandleOffers DEF Sending
  <2>2. CASE ~connected
    BY <2>2 DEF HandleSendTelemetryResponse
  <2> QED BY <2>1, <2>2
<1>2. ~Acked' /\ FreshAck'
  BY <1>1 DEF Acked, FreshAck
<1>3. DeliveredRight'
  <2>1. loaded \in Nat /\ loaded' \in Nat /\ Len(delivered) \in Nat
    BY CountsAreNat, CountsAreNatNext
  <2>2. \A i \in 1..Len(delivered) : i <= loaded' /\ IsMessage(delivered[i], i)
    BY <2>1 DEF DeliveredRight
  <2>3. rcv.finished => Len(delivered) < loaded' /\ IsMessage(rcv.data, Len(delivered) + 1)
    BY <2>1 DEF DeliveredRight
  <2> QED BY <2>2, <2>3 DEF DeliveredRight, IsMessage
<1>4. CASE connected
  <2>1. /\ ChunkOnOffer' /\ snd'.state = "SENDING"
        /\ queued'.len \in {LinkLen, DataLen} /\ dl' = <<queued'>> /\ valid'
    BY <1>4, HandleOffers DEF Sending
  <2>2. LinkHolds'
    BY <1>1, <1>4, <2>1 DEF LinkHolds
  <2>3. ChunkMissing'
    BY <1>1, <2>1 DEF ChunkMissing
  <2> QED BY <1>2, <1>3, <2>1, <2>2, <2>3
          DEF LinkParts, Resting, Starting, ChunkReceived, Closing
<1>5. CASE ~connected
  <2>1. snd' = s /\ ~valid' /\ dl' = dl
    BY <1>5 DEF HandleSendTelemetryResponse
  <2>2. LinkHolds'
    BY <1>1, <1>5, <2>1 DEF LinkHolds
  <2>3. loaded' > 0
    BY <2>1 DEF TypeOK, SenderOK, Sending
  <2>4. Starting'
    BY <1>1, <1>2, <2>1, <2>3 DEF Starting
  <2> QED BY <1>2, <1>3, <2>1, <2>2, <2>4
          DEF LinkParts, Resting, ChunkMissing, ChunkReceived, Closing
<1> QED BY <1>4, <1>5

\* A sender at rest between messages offers an empty packet.
LEMMA RestStep ==
  ASSUME TypeOK, TypeOK', NEW s, SenderOK(s), s.state = "IDLE", connected,
         s.pkg <= s.off + 1,
         s.exp # rcv.confirm, TxRests(0), DeliveredRight, connected',
         FreshAck', HandleSendTelemetryResponse(s),
         UNCHANGED <<loaded, rcv, delivered>>
  PROVE  LinkParts'
<1>1. /\ snd'.state = "IDLE" /\ snd'.off = s.off /\ snd'.pkg = s.pkg
      /\ snd'.exp = s.exp /\ queued'.idx = 0
      /\ queued'.len \in {LinkLen, DataLen} /\ dl' = <<queued'>> /\ valid'
  BY HandleRests
<1>2. LinkHolds'
  BY <1>1 DEF LinkHolds
<1>3. ~Acked' /\ TxRests(0)'
  BY <1>1 DEF Acked, TxRests, Outstanding
<1>4. Resting'
  BY <1>1, <1>3 DEF Resting
<1>5. DeliveredRight'
  BY DEF DeliveredRight, IsMessage
<1> QED BY <1>1, <1>2, <1>4, <1>5
        DEF LinkParts, Starting, ChunkMissing, ChunkReceived, Closing

\* The sender hears the confirm bit it waits for and moves on.
LEMMA AckedStep ==
  ASSUME TypeOK, TypeOK', LinkParts, connected, connected', Acked,
         snd.state = "SENDING", ul' = <<>>,
         NEW s, s = ChunkConfirmed(snd), SenderOK(s),
         HandleSendTelemetryResponse(s),
         UNCHANGED <<loaded, rcv, delivered>>
  PROVE  LinkParts'
<1>0. LinkHolds /\ ChunkOnOffer /\ ChunkReceived /\ DeliveredRight
  BY DEF LinkParts, ChunkReceived
<1>1. /\ s.off = snd.off + snd.last /\ s.pkg = snd.pkg + 1 /\ s.exp = 1 - snd.exp
      /\ s.msg = loaded
      /\ s.state = IF snd.off + snd.last < Length[loaded] THEN "SENDING"
                   ELSE IF snd.pkg = 1 THEN "WAIT_UNTIL_NEXT_CONFIRM" ELSE "IDLE"
  BY ChunkConfirmedFields DEF TypeOK
<1>2. s.exp # rcv.confirm
  <2>1. snd.exp \in Bit /\ rcv.confirm = snd.exp
    BY DEF TypeOK, Senders, Acked
  <2> QED BY <1>1, <2>1
<1>3. s.pkg <= s.off + 1
  BY <1>0, <1>1, OfferFacts DEF LinkHolds
<1>4. FreshAck'
  BY DEF FreshAck
<1>5. DeliveredRight'
  BY <1>0 DEF DeliveredRight, IsMessage
<1>6. CASE snd.off + snd.last < Length[loaded]
  <2>1. s.state = "SENDING" /\ loaded' = s.msg
    BY <1>1, <1>6
  <2>2. /\ ChunkOnOffer'
        /\ snd'.state = "SENDING" /\ snd'.off = s.off /\ snd'.pkg = s.pkg
        /\ snd'.exp = s.exp
        /\ queued'.len \in {LinkLen, DataLen} /\ dl' = <<queued'>> /\ valid'
    BY <2>1, HandleOffers DEF Sending
  <2>3. queued.idx # 0
    BY <1>0, <1>6, OfferFacts DEF ChunkOnOffer
  <2>4. /\ ~rcv.finished /\ rcv.pkg = snd.pkg + 1
        /\ rcv.off = Smaller(BufLen, snd.off + queued.len)
        /\ Prefix(snd.off + snd.last) /\ Outstanding = 1
    BY <1>0, <2>3 DEF ChunkReceived
  <2>5. rcv.off = s.off
    BY <1>0, <1>1, <1>6, <2>4, OfferFacts, SizeAssumption, BufferAssumption DEF Smaller
  <2>6. s.pkg > 1
    BY <1>0, <1>1, OfferFacts
  <2>7. ~Acked'
    BY <1>2, <2>2 DEF Acked
  <2>8. Prefix(s.off)' /\ Outstanding' = 1
    BY <1>1, <2>4 DEF Prefix, Outstanding
  <2>9. ChunkMissing'
    BY <1>1, <2>2, <2>4, <2>5, <2>6, <2>8 DEF ChunkMissing, Prefix
  <2>10. LinkHolds'
    BY <1>3, <2>2 DEF LinkHolds
  <2> QED BY <1>4, <1>5, <2>2, <2>7, <2>9, <2>10
          DEF LinkParts, Resting, Starting, ChunkReceived, Closing
<1>7. CASE ~(snd.off + snd.last < Length[loaded]) /\ snd.pkg = 1
  <2>1. s.state = "WAIT_UNTIL_NEXT_CONFIRM"
    BY <1>1, <1>7
  <2>2. /\ snd'.state = s.state /\ snd'.off = s.off /\ snd'.pkg = s.pkg
        /\ snd'.exp = s.exp /\ queued'.idx = 0
        /\ queued'.len \in {LinkLen, DataLen} /\ dl' = <<queued'>> /\ valid'
    BY <2>1, HandleRests
  <2>3. queued.idx # 0
    BY <1>0, <1>7 DEF ChunkOnOffer
  <2>4. /\ ~rcv.finished /\ rcv.pkg = snd.pkg + 1
        /\ rcv.off = Smaller(BufLen, snd.off + queued.len)
        /\ Prefix(snd.off + snd.last) /\ Outstanding = 1
    BY <1>0, <2>3 DEF ChunkReceived
  <2>5. rcv.pkg = 2 /\ rcv.off >= Length[loaded]
    BY <1>0, <1>7, <2>4, OfferFacts, SizeAssumption, BufferAssumption DEF Smaller
  <2>6. snd.off + snd.last = Length[loaded]
    BY <1>0, <1>7, OfferFacts
  <2>7. ~Acked'
    BY <1>2, <2>2 DEF Acked
  <2>8. Prefix(Length[loaded])' /\ Outstanding' = 1
    BY <2>4, <2>6 DEF Prefix, Outstanding
  <2>9. Closing'
    BY <1>0, <2>2, <2>4, <2>5, <2>7, <2>8 DEF Closing, ChunkOnOffer
  <2>10. LinkHolds'
    BY <1>3, <2>1, <2>2 DEF LinkHolds
  <2> QED BY <1>4, <1>5, <2>1, <2>2, <2>9, <2>10
          DEF LinkParts, Resting, Starting, ChunkMissing, ChunkReceived
<1>8. CASE ~(snd.off + snd.last < Length[loaded]) /\ snd.pkg # 1
  <2>1. s.state = "IDLE"
    BY <1>1, <1>8
  <2>2. snd.pkg > 1
    BY <1>0, <1>8, OfferFacts
  <2>3. queued.idx = 0
    BY <1>0, <1>8, <2>2, OfferFacts DEF ChunkOnOffer
  <2>4. TxRests(0)
    BY <1>0, <2>3 DEF ChunkReceived
  <2> QED BY <1>0, <1>2, <1>3, <1>4, <2>1, <2>4, RestStep
<1> QED BY <1>6, <1>7, <1>8
-----------------------------------------------------------------------------
(* The invariant *)

LEMMA InvInit == Init => LinkInv
<1> SUFFICES ASSUME Init PROVE LinkParts
  BY DEF LinkInv
<1>1. snd = ResetSender /\ snd.state = "IDLE" /\ snd.exp = 1 /\ snd.pkg = 1 /\ snd.off = 0
  BY DEF Init, ResetSender
<1>2. rcv.pkg = 1 /\ rcv.off = 0 /\ rcv.confirm = 0 /\ rcv.finished = FALSE
  BY DEF Init, ResetReceiver
<1>3. loaded = 0 /\ delivered = <<>> /\ valid = FALSE /\ dl = <<>> /\ ul = <<>>
  BY DEF Init
<1>4. TxRests(0) /\ ~Acked
  <2>1. Outstanding = 0
    <3>1. Len(delivered) = 0 /\ loaded = 0
      BY <1>3
    <3> QED BY <3>1 DEF Outstanding
  <2>2. TxRests(0)
    BY <1>2, <2>1 DEF TxRests
  <2>3. ~Acked
    BY <1>1, <1>2 DEF Acked
  <2> QED BY <2>2, <2>3
<1>5. DeliveredRight
  BY <1>2, <1>3 DEF DeliveredRight
<1> QED BY <1>1, <1>3, <1>4, <1>5
        DEF LinkParts, LinkHolds, Resting, Starting, ChunkMissing, ChunkReceived,
            Closing, FreshAck

LEMMA InvLoad ==
  ASSUME TypeOK, TypeOK', LinkParts, LoadMessage
  PROVE  LinkParts'
<1> DEFINE s == SetDataToTransmit(snd, loaded + 1)
<1>1. /\ snd.state = "IDLE" /\ snd \in Senders
      /\ s = [state |-> "SEND_PENDING", off |-> 0, last |-> snd.last, pkg |-> 1,
              exp |-> snd.exp, wait |-> 0, msg |-> loaded + 1]
  BY SetDataFields DEF LoadMessage, TypeOK
<1>2. loaded + 1 \in 1..Len(Body) /\ loaded' = loaded + 1 /\ loaded \in Nat
  <2>1. loaded < Len(Body) /\ loaded' = loaded + 1 /\ Len(Body) \in Nat
    BY BodyAssumption DEF LoadMessage
  <2> QED BY <2>1, CountsAreNat
<1>3. HandleSendTelemetryResponse(s)
  BY DEF LoadMessage
<1> HIDE DEF s
<1>4. Length[loaded + 1] \in Nat \ {0} /\ snd.last \in Nat /\ snd.exp \in Bit
  BY <1>1, <1>2, MessageFacts DEF Senders
<1>5. loaded + 1 \in 0..Len(Body) /\ loaded + 1 > 0
  BY <1>2, BodyAssumption
<1>6. s \in Senders
  BY <1>1, <1>4, <1>5 DEF Senders, SenderStates
<1>7. /\ SenderOK(s) /\ s.state = "SEND_PENDING" /\ s.off = 0 /\ s.pkg = 1
      /\ s.exp = snd.exp /\ s.msg = loaded'
  BY <1>1, <1>2, <1>4, <1>5, <1>6 DEF SenderOK
<1>8. LinkHolds /\ DeliveredRight /\ FreshAck /\ ~Acked /\ TxRests(0)
  BY <1>1 DEF LinkParts, Resting
<1>9. UNCHANGED <<connected, rcv, delivered, ul>>
  BY DEF LoadMessage
<1>10. TxRests(1)'
  <2>1. Outstanding \in Int /\ Outstanding' = Outstanding + 1
    BY <1>2, <1>9 DEF Outstanding, TypeOK
  <2> QED BY <1>8, <1>9, <2>1 DEF TxRests
<1>11. (valid => connected) /\ (~connected => ~valid) /\ loaded <= loaded'
  BY <1>2, <1>8 DEF LinkHolds
<1> QED BY <1>3, <1>7, <1>8, <1>9, <1>10, <1>11, StartStep

LEMMA InvForward ==
  ASSUME TypeOK, TypeOK', LinkParts, ForwardTelemetry
  PROVE  LinkParts'
<1>1. /\ rcv.finished /\ rcv \in Receivers
      /\ delivered' = Append(delivered, rcv.data)
      /\ rcv' = Unlock(rcv)
      /\ UNCHANGED <<snd, loaded, queued, valid, connected, dl, ul>>
  BY DEF ForwardTelemetry, TypeOK
<1>2. rcv'.pkg = 1 /\ rcv'.off = 0 /\ rcv'.confirm = rcv.confirm /\ rcv'.finished = FALSE
  BY <1>1 DEF Unlock, Receivers
<1>3. /\ Len(delivered') = Len(delivered) + 1
      /\ \A i \in 1..Len(delivered) : delivered'[i] = delivered[i]
      /\ delivered'[Len(delivered) + 1] = rcv.data
      /\ Len(delivered) \in Nat /\ loaded \in Nat
  <2>1. loaded \in Nat /\ delivered \in Seq(Buffers) /\ rcv.data \in Buffers
    BY CountsAreNat DEF TypeOK, Receivers
  <2> QED BY <1>1, <2>1
<1>4. (Acked' <=> Acked) /\ (ChunkOnOffer' <=> ChunkOnOffer)
  BY <1>1, <1>2 DEF Acked, ChunkOnOffer
<1>5. ASSUME NEW n, TxRests(n), n = 0 \/ n = 1 PROVE TxRests(n)'
  BY <1>1, <1>2, <1>3, <1>5 DEF TxRests, Outstanding
<1>6. DeliveredRight'
  <2>1. Len(delivered) < loaded /\ IsMessage(rcv.data, Len(delivered) + 1)
    BY <1>1 DEF LinkParts, DeliveredRight
  <2>2. ASSUME NEW i \in 1..Len(delivered')
        PROVE  i <= loaded /\ IsMessage(delivered'[i], i)
    <3>1. CASE i \in 1..Len(delivered)
      BY <1>3, <3>1 DEF LinkParts, DeliveredRight
    <3>2. CASE i = Len(delivered) + 1
      BY <1>3, <2>1, <3>2
    <3> QED BY <1>3, <3>1, <3>2
  <2> QED BY <1>1, <1>2, <2>2 DEF DeliveredRight, IsMessage
<1>7. LinkHolds' /\ FreshAck'
  BY <1>1, <1>2 DEF LinkParts, LinkHolds, FreshAck
<1>8. Resting' /\ Starting' /\ ChunkMissing'
  <2>1. Resting'
    BY <1>1, <1>4, <1>5 DEF LinkParts, Resting
  <2>2. Starting'
    BY <1>1, <1>4, <1>5 DEF LinkParts, Starting
  <2>3. ChunkMissing'
    BY <1>1, <1>4, <1>5 DEF LinkParts, ChunkMissing
  <2> QED BY <2>1, <2>2, <2>3
<1>9. ChunkReceived'
  BY <1>1, <1>4, <1>5 DEF LinkParts, ChunkReceived
<1>10. Closing'
  BY <1>1, <1>4, <1>5 DEF LinkParts, Closing
<1> QED BY <1>6, <1>7, <1>8, <1>9, <1>10 DEF LinkParts

LEMMA InvRateChange ==
  ASSUME TypeOK, TypeOK', LinkParts, RateChange, ~gaveUp'
  PROVE  LinkParts'
<1>1. snd.state = "IDLE"
  BY DEF RateChange
<1>2. ~valid' /\ dl' = <<>> /\ ul' = <<>> /\ UNCHANGED <<snd, loaded, queued, rcv, delivered>>
  BY DEF RateChange
<1>3. ~Acked' /\ TxRests(0)'
  BY <1>1, <1>2 DEF LinkParts, Resting, Acked, TxRests, Outstanding
<1>4. Resting'
  BY <1>2, <1>3 DEF Resting
<1>5. LinkHolds' /\ FreshAck'
  BY <1>1, <1>2 DEF LinkParts, LinkHolds, FreshAck
<1>6. DeliveredRight'
  BY <1>2 DEF LinkParts, DeliveredRight, IsMessage
<1> QED BY <1>1, <1>2, <1>4, <1>5, <1>6
        DEF LinkParts, Starting, ChunkMissing, ChunkReceived, Closing

LEMMA InvDownlink ==
  ASSUME TypeOK, TypeOK', LinkParts, DownlinkSlot
  PROVE  LinkParts'
<1>1. /\ RxTxDone
      /\ UNCHANGED <<loaded, connected, delivered, ul>>
      /\ \/ dl # <<>> /\ rcv' = ReceiveData(rcv, dl[1])
         \/ rcv' = rcv
      /\ dl = <<>> => rcv' = rcv
  BY DEF DownlinkSlot, ProcessTLMpacket
<1>2. /\ LinkHolds /\ DeliveredRight /\ FreshAck
      /\ dl # <<>> => valid /\ dl[1] = queued
      /\ valid => connected
      /\ queued \in Packets
  BY DEF LinkParts, LinkHolds, TypeOK
<1>3. CASE snd.state = "IDLE"
  <2>1. ~Acked /\ TxRests(0) /\ (valid => queued.idx = 0)
    BY <1>3 DEF LinkParts, Resting
  <2>2. rcv' = rcv
    BY <1>1, <1>2, <2>1, RestsIgnores
  <2>3. CASE connected
    <3>1. HandleSendTelemetryResponse(snd)
      BY <1>1, <1>3, <2>3 DEF RxTxDone
    <3>2. /\ snd'.exp = snd.exp /\ SenderOK(snd) /\ snd.pkg <= snd.off + 1
      BY <1>2, <1>3, <2>3, <3>1, HandleRests DEF TypeOK, SenderOK, LinkHolds, Sending
    <3>3. FreshAck'
      BY <1>1, <1>2, <2>2, <3>2 DEF FreshAck
    <3>4. snd.exp # rcv.confirm
      BY <2>1 DEF Acked
    <3> QED BY <1>1, <1>2, <1>3, <2>1, <2>2, <2>3, <3>1, <3>2, <3>3, <3>4, RestStep
  <2>4. CASE ~connected
    <3>1. dl' = <<>> /\ UNCHANGED <<snd, queued, valid>>
      BY <1>1, <1>3, <2>4 DEF RxTxDone
    <3>2. FreshAck'
      BY <1>1, <1>2, <2>2, <3>1 DEF FreshAck
    <3> QED BY <1>1, <1>2, <2>2, <3>1, <3>2, QuietStep
  <2> QED BY <2>3, <2>4
<1>4. CASE snd.state = "SEND_PENDING"
  <2>1. /\ ~Acked /\ TxRests(1) /\ ~valid
        /\ snd.off = 0 /\ snd.pkg = 1 /\ loaded > 0
    BY <1>4 DEF LinkParts, Starting
  <2>2. rcv' = rcv
    BY <1>1, <1>2, <2>1
  <2>3. CASE connected
    <3>1. HandleSendTelemetryResponse(snd)
      BY <1>1, <2>1, <2>3 DEF RxTxDone
    <3>2. SenderOK(snd) /\ snd.msg = loaded' /\ loaded <= loaded'
      BY <1>1 DEF TypeOK, SenderOK
    <3>3. TxRests(1)'
      BY <1>1, <2>1, <2>2 DEF TxRests, Outstanding
    <3> QED BY <1>1, <1>2, <1>4, <2>1, <2>2, <2>3, <3>1, <3>2, <3>3, StartStep
  <2>4. CASE ~connected
    <3>1. dl' = <<>> /\ UNCHANGED <<snd, queued, valid>>
      BY <1>1, <2>1, <2>4 DEF RxTxDone
    <3>2. FreshAck'
      BY <1>1, <1>2, <2>2, <3>1 DEF FreshAck
    <3> QED BY <1>1, <1>2, <2>2, <3>1, <3>2, QuietStep
  <2> QED BY <2>3, <2>4
<1>5. CASE snd.state \in {"SENDING", "WAIT_UNTIL_NEXT_CONFIRM"}
  <2>1. valid
    <3>1. CASE snd.state = "SENDING" /\ Acked
      BY <3>1 DEF LinkParts, ChunkReceived, ChunkOnOffer
    <3>2. CASE snd.state = "SENDING" /\ ~Acked
      BY <3>2 DEF LinkParts, ChunkMissing, ChunkOnOffer
    <3>3. CASE snd.state = "WAIT_UNTIL_NEXT_CONFIRM"
      BY <3>3 DEF LinkParts, Closing
    <3> QED BY <1>5, <3>1, <3>2, <3>3
  <2>2. /\ UNCHANGED <<snd, queued, valid>>
        /\ dl' # <<>> => valid /\ dl' = <<queued>>
    BY <1>1, <1>5, <2>1 DEF RxTxDone
  <2>3. CASE dl # <<>> /\ rcv' = ReceiveData(rcv, dl[1])
    <3>1. rcv' = ReceiveData(rcv, queued)
      BY <1>2, <2>3
    <3> QED BY <1>1, <1>5, <2>1, <2>2, <3>1, HeardStep
  <2>4. CASE rcv' = rcv
    <3>1. FreshAck'
      BY <1>1, <1>2, <2>2, <2>4 DEF FreshAck
    <3> QED BY <1>1, <1>2, <2>2, <2>4, <3>1, QuietStep
  <2> QED BY <1>1, <2>3, <2>4
<1> QED BY <1>2, <1>3, <1>4, <1>5 DEF LinkHolds

LEMMA InvUplink ==
  ASSUME TypeOK, TypeOK', LinkParts, UplinkSlot, ~gaveUp'
  PROVE  LinkParts'
<1>1. ul' = <<>> /\ UNCHANGED <<rcv, delivered>>
  BY DEF UplinkSlot
<1>2. FreshAck'
  BY <1>1 DEF FreshAck
<1>3. LinkHolds /\ (dl # <<>> => valid /\ dl = <<queued>>) /\ (valid => connected)
  BY DEF LinkParts, LinkHolds
<1>4. CASE UplinkIdle \/ UplinkLost
  <2>1. UNCHANGED <<snd, loaded, queued, valid, connected, dl>>
    BY <1>4 DEF UplinkIdle, UplinkLost, rxVars
  <2> QED BY <1>1, <1>2, <1>3, <2>1, QuietStep
<1>5. CASE UplinkHeard
  <2> DEFINE v == ul[1]
             s == IF connected /\ armed THEN ConfirmCurrentPayload(snd, v) ELSE snd
  <2>1. /\ ul # <<>> /\ v \in Bit /\ 1 \in 1..Len(ul) /\ loaded' = loaded
        /\ connected' = TRUE
        /\ s.state \notin Resyncing
    <3>1. ul # <<>> /\ ul \in Seq(Bit) /\ Len(ul) <= 1
      BY <1>5 DEF UplinkHeard, TypeOK
    <3>2. v \in Bit /\ 1 \in 1..Len(ul)
      BY <3>1
    <3>3. gaveUp' = (gaveUp \/ s.state \in Resyncing)
      BY <1>5 DEF UplinkHeard, ProcessRfPacket_RC
    <3>4. s.state \notin Resyncing
      BY <3>3, Zenon
    <3>5. loaded' = loaded /\ connected' = TRUE
      BY <1>5 DEF UplinkHeard, ProcessRfPacket_RC
    <3> QED BY <3>1, <3>2, <3>4, <3>5
  <2>2. \/ HandleSendTelemetryResponse(s) /\ (s.off # snd.off \/ s.state # snd.state \/ s.exp # snd.exp)
        \/ /\ snd' = s /\ UNCHANGED <<queued, dl, valid>>
           /\ s.off = snd.off /\ s.state = snd.state /\ s.exp = snd.exp
    BY <1>5 DEF UplinkHeard, ProcessRfPacket_RC
  <2>3. SenderOK(snd) /\ snd \in Senders
    BY DEF TypeOK, SenderOK
  <2>4. SenderOK(s)
    BY <2>1, <2>3, ConfirmTypes DEF SenderOK
  <2>5. v = snd.exp => Acked
    BY <2>1 DEF LinkParts, FreshAck, Acked
  <2>6. CASE s = snd
    BY <1>1, <1>2, <1>3, <2>1, <2>2, <2>6, QuietStep
  <2>7. CASE connected /\ armed /\ snd.state = "SENDING" /\ v = snd.exp
    <3>1. s = ChunkConfirmed(snd)
      BY <2>1, <2>3, <2>7, ConfirmCases
    <3>2. snd.exp \in Bit
      BY <2>3 DEF Senders
    <3>3. s.exp # snd.exp
      BY <2>3, <3>1, <3>2, ChunkConfirmedFields
    <3> HIDE DEF s
    <3>4. HandleSendTelemetryResponse(s)
      BY <2>2, <3>3
    <3> QED BY <1>1, <2>1, <2>4, <2>5, <2>7, <3>1, <3>4, AckedStep
  <2>8. CASE connected /\ armed /\ snd.state = "WAIT_UNTIL_NEXT_CONFIRM" /\ v = snd.exp
    <3>1. s = [state |-> "IDLE", off |-> snd.off, last |-> snd.last, pkg |-> snd.pkg,
               exp |-> 1 - v, wait |-> snd.wait, msg |-> snd.msg]
      BY <2>1, <2>3, <2>8, ConfirmCases
    <3>2. snd.exp \in Bit /\ rcv.confirm = snd.exp
      BY <2>3, <2>5, <2>8 DEF Senders, Acked
    <3> HIDE DEF s
    <3>3. s.state = "IDLE" /\ s.exp # rcv.confirm /\ s.exp # snd.exp /\ s.pkg <= s.off + 1
      BY <1>3, <2>8, <3>1, <3>2 DEF LinkHolds
    <3>4. HandleSendTelemetryResponse(s)
      BY <2>2, <3>3
    <3>5. TxRests(0) /\ DeliveredRight
      BY <2>5, <2>8 DEF LinkParts, Closing
    <3> QED BY <1>1, <1>2, <2>1, <2>4, <2>8, <3>3, <3>4, <3>5, RestStep
  <2>9. CASE /\ connected /\ armed /\ v # snd.exp
             /\ snd.state \in {"SENDING", "WAIT_UNTIL_NEXT_CONFIRM"}
    <3>1. s = MissedConfirm(snd, v)
      BY <2>1, <2>3, <2>9, ConfirmCases
    <3>2. s = [state |-> IF snd.wait + 1 > MaxWait THEN "RESYNC" ELSE snd.state,
               off |-> snd.off, last |-> snd.last, pkg |-> snd.pkg,
               exp |-> IF snd.wait + 1 > MaxWait THEN 1 - v ELSE snd.exp,
               wait |-> snd.wait + 1, msg |-> snd.msg]
      BY <2>1, <2>3, <3>1, MissedConfirmFields
    <3> HIDE DEF s
    <3>3. ~(snd.wait + 1 > MaxWait)
      BY <2>1, <3>2 DEF Resyncing
    <3>4. /\ s.state = snd.state /\ s.off = snd.off /\ s.last = snd.last
          /\ s.pkg = snd.pkg /\ s.exp = snd.exp
      BY <3>2, <3>3
    <3>5. snd' = s /\ UNCHANGED <<queued, dl, valid>>
      BY <2>2, <3>4
    <3> QED BY <1>1, <1>2, <1>3, <2>1, <3>4, <3>5, QuietStep
  <2>10. \/ s = snd
         \/ connected /\ armed /\ snd.state = "SENDING" /\ v = snd.exp
         \/ connected /\ armed /\ snd.state = "WAIT_UNTIL_NEXT_CONFIRM" /\ v = snd.exp
         \/ /\ connected /\ armed /\ v # snd.exp
            /\ snd.state \in {"SENDING", "WAIT_UNTIL_NEXT_CONFIRM"}
    <3>1. snd.state \in {"IDLE", "SEND_PENDING", "SENDING", "WAIT_UNTIL_NEXT_CONFIRM"}
      BY <1>3 DEF LinkHolds
    <3>2. snd.state \in {"IDLE", "SEND_PENDING"} => s = snd
      BY <2>1, <2>3, ConfirmCases
    <3> QED BY <3>1, <3>2
  <2> QED BY <2>6, <2>7, <2>8, <2>9, <2>10
<1> QED BY <1>4, <1>5 DEF UplinkSlot

LEMMA InvNext ==
  ASSUME TypeOK, TypeOK', LinkInv, [Next]_vars
  PROVE  LinkInv'
<1> SUFFICES ASSUME ~gaveUp' PROVE LinkParts'
  BY DEF LinkInv
<1>1. gaveUp => gaveUp'
  BY DEF Next, LoadMessage, MspChunkReceived, QueueRcPacket, ForwardTelemetry,
         DownlinkSlot, UplinkSlot, UplinkIdle, UplinkLost, UplinkHeard,
         ProcessRfPacket_RC, RateChange, vars
<1>2. LinkParts
  BY <1>1 DEF LinkInv
<1>3. LinkHolds /\ FreshAck
  BY <1>2 DEF LinkParts
<1>4. CASE LoadMessage
  BY <1>2, <1>4, InvLoad
<1>5. CASE MspChunkReceived \/ UNCHANGED vars
  BY <1>2, <1>3, <1>5, QuietStep DEF MspChunkReceived, vars, LinkHolds, FreshAck
<1>6. CASE QueueRcPacket
  <2>1. FreshAck'
    <3>1. ul' = <<rcv.confirm>> /\ UNCHANGED <<snd, rcv>>
      BY <1>6 DEF QueueRcPacket
    <3> QED BY <3>1 DEF FreshAck
  <2> QED BY <1>2, <1>3, <1>6, <2>1, QuietStep DEF QueueRcPacket, LinkHolds
<1>7. CASE ForwardTelemetry
  BY <1>2, <1>7, InvForward
<1>8. CASE DownlinkSlot
  BY <1>2, <1>8, InvDownlink
<1>9. CASE UplinkSlot
  BY <1>2, <1>9, InvUplink
<1>10. CASE RateChange
  BY <1>2, <1>10, InvRateChange
<1> QED BY <1>4, <1>5, <1>6, <1>7, <1>8, <1>9, <1>10 DEF Next

\* The four phases of the link hold in every reachable state.
THEOREM LinkInvariant == Spec => [](TypeOK /\ LinkInv)
<1>1. Init => LinkInv
  BY InvInit
<1>2. TypeOK /\ TypeOK' /\ LinkInv /\ [Next]_vars => LinkInv'
  BY InvNext
<1> QED BY <1>1, <1>2, TypeCorrect, PTL DEF Spec
-----------------------------------------------------------------------------
(* What follows *)

LEMMA InvSafe ==
  ASSUME TypeOK, LinkInv
  PROVE  ExactlyOnceInOrder /\ DoneMeansReceived /\ NoStaleAck
<1> SUFFICES ASSUME ~gaveUp
             PROVE  /\ Len(delivered) <= loaded
                    /\ \A i \in 1..Len(delivered) : IsMessage(delivered[i], i)
                    /\ snd.state = "IDLE" =>
                         loaded = Len(delivered) + (IF rcv.finished THEN 1 ELSE 0)
                    /\ FreshAck
  BY DEF ExactlyOnceInOrder, DoneMeansReceived, NoStaleAck
<1>1. LinkParts
  BY DEF LinkInv
<1>2. loaded \in Nat /\ Len(delivered) \in Nat
  BY CountsAreNat
<1>3. \A i \in 1..Len(delivered) : i <= loaded /\ IsMessage(delivered[i], i)
  BY <1>1 DEF LinkParts, DeliveredRight
<1>4. Len(delivered) <= loaded
  <2>1. CASE Len(delivered) = 0
    BY <1>2, <2>1
  <2>2. CASE Len(delivered) > 0
    BY <1>2, <1>3, <2>2
  <2> QED BY <1>2, <2>1, <2>2
<1>5. snd.state = "IDLE" => loaded = Len(delivered) + (IF rcv.finished THEN 1 ELSE 0)
  BY <1>1, <1>2 DEF LinkParts, Resting, TxRests, Outstanding
<1> QED BY <1>1, <1>3, <1>4, <1>5 DEF LinkParts

\* Until the sender gives a chunk up, what the TX hands to the handset is
\* exactly the messages loaded so far, in order, each once and intact,
\* whatever was lost and however the slots interleave with the main loops.
THEOREM ExactlyOnce == Spec => []ExactlyOnceInOrder
  BY LinkInvariant, InvSafe, PTL

\* Until the sender gives a chunk up, an idle sender's messages have all
\* arrived.
THEOREM DoneIsReceived == Spec => []DoneMeansReceived
  BY LinkInvariant, InvSafe, PTL

\* Until the sender gives a chunk up, no confirm bit in flight acknowledges a
\* chunk the TX does not have.
THEOREM AcksAreFresh == Spec => []NoStaleAck
  BY LinkInvariant, InvSafe, PTL
-----------------------------------------------------------------------------
(* The link implements the channel *)

LEMMA ChannelInit == Init => Channel!Init
  BY DEF Init, Channel!Init

LEMMA ChannelNext ==
  ASSUME TypeOK, LinkInv, [Next]_vars
  PROVE  [Channel!Next]_Channel!channelVars
<1>0. gaveUp \in BOOLEAN /\ delivered \in Seq(Buffers) /\ loaded \in Nat
  BY CountsAreNat DEF TypeOK
<1>1. CASE LoadMessage
  <2>1. /\ loaded < Len(Body) /\ loaded' = loaded + 1
        /\ UNCHANGED <<delivered, gaveUp>>
    BY <1>1 DEF LoadMessage
  <2>2. ~gaveUp => loaded <= Len(delivered) + 1
    <3>1. ASSUME ~gaveUp PROVE TxRests(0)
      BY <1>1, <3>1 DEF LoadMessage, LinkInv, LinkParts, Resting
    <3> QED BY <1>0, <3>1 DEF TxRests, Outstanding
  <2>3. Channel!Accept
    BY <2>1, <2>2 DEF Channel!Accept
  <2> QED BY <2>3 DEF Channel!Next
<1>2. CASE ForwardTelemetry
  <2>1. /\ rcv.finished /\ delivered' = Append(delivered, rcv.data)
        /\ UNCHANGED <<loaded, gaveUp>>
        /\ rcv.data \in Buffers
    BY <1>2 DEF ForwardTelemetry, TypeOK, Receivers
  <2>2. /\ Len(delivered') = Len(delivered) + 1
        /\ delivered'[Len(delivered) + 1] = rcv.data
        /\ SubSeq(delivered', 1, Len(delivered)) = delivered
    BY <1>0, <2>1
  <2>3. ~gaveUp => /\ Len(delivered) < loaded
                   /\ IsMessage(rcv.data, Len(delivered) + 1)
    BY <2>1 DEF LinkInv, LinkParts, DeliveredRight
  <2>4. Channel!Deliver
    BY <2>1, <2>2, <2>3 DEF Channel!Deliver, Channel!Carries, IsMessage
  <2> QED BY <2>4 DEF Channel!Next
<1>3. ASSUME UNCHANGED <<loaded, delivered>>, gaveUp' = gaveUp \/ gaveUp' = TRUE
      PROVE  [Channel!Next]_Channel!channelVars
  BY <1>3 DEF Channel!Next, Channel!Break, Channel!channelVars
<1>4. CASE MspChunkReceived \/ QueueRcPacket \/ DownlinkSlot \/ UNCHANGED vars
  BY <1>3, <1>4 DEF MspChunkReceived, QueueRcPacket, DownlinkSlot, vars
<1>5. CASE UplinkSlot
  <2>1. UNCHANGED <<loaded, delivered>>
    BY <1>5 DEF UplinkSlot, UplinkIdle, UplinkLost, UplinkHeard, rxVars
  <2>2. gaveUp' = gaveUp \/ gaveUp' = TRUE
    BY <1>0, <1>5 DEF UplinkSlot, UplinkIdle, UplinkLost, UplinkHeard, ProcessRfPacket_RC
  <2> QED BY <1>3, <2>1, <2>2
<1>6. CASE RateChange
  <2>1. UNCHANGED <<loaded, delivered>> /\ gaveUp' = (gaveUp \/ snd.state # "IDLE")
    BY <1>6 DEF RateChange
  <2>2. gaveUp' = gaveUp \/ gaveUp' = TRUE
    BY <1>0, <2>1
  <2> QED BY <1>3, <2>1, <2>2
<1> QED BY <1>1, <1>2, <1>4, <1>5, <1>6 DEF Next

\* The link implements the abstract channel: messages are taken one at a time
\* and come out in order, once and intact, until it breaks.
THEOREM Refinement == Spec => ImplementsChannel
<1>1. Init => Channel!Init
  BY ChannelInit
<1>2. TypeOK /\ LinkInv /\ [Next]_vars => [Channel!Next]_Channel!channelVars
  BY ChannelNext
<1> QED BY <1>1, <1>2, LinkInvariant, PTL DEF Spec, ImplementsChannel, Channel!Spec
=============================================================================
