---------------------------- MODULE StubbornLink ----------------------------
(***************************************************************************)
(* The downlink telemetry transport: the receiver (RX) runs StubbornSender,*)
(* the transmitter (TX) runs StubbornReceiver, and a TDMA frame of Denom   *)
(* slots carries one telemetry packet down and Denom-1 RC packets, each    *)
(* with one confirm bit, up.                                               *)
(*                                                                         *)
(*   sender    stubborn_sender.c     driven by rx_main.c                   *)
(*   receiver  stubborn_receiver.c   driven by tx_main.c                   *)
(*                                                                         *)
(* A LINK packet has room for LinkLen units of payload next to the link    *)
(* statistics, a DATA packet for DataLen units.                            *)
(***************************************************************************)
EXTENDS Stubborn

CONSTANTS
  LinkLen, DataLen, \* units of payload in a LINK and in a DATA packet
  BurstMax,         \* telemetryBurstMax
  Denom,            \* ExpressLRS_currTlmDenom: every Denom-th slot is a downlink
  PromptRc,         \* the handset is faster than the air: no uplink slot goes idle
  MaxLoss,          \* bound: packets the air may lose
  MaxRateChange     \* bound: air rate changes

ASSUME SizeAssumption == /\ LinkLen \in Nat \ {0}
                         /\ DataLen \in Nat \ {0}
                         /\ LinkLen <= BufLen /\ DataLen <= BufLen
ASSUME BoundAssumption == /\ BurstMax \in Nat \ {0}
                          /\ Denom \in Nat /\ Denom > 1
                          /\ PromptRc \in BOOLEAN
                          /\ MaxLoss \in Nat
                          /\ MaxRateChange \in Nat

VARIABLES
  snd,         \* TelemetrySender
  loaded,      \* messages handed to the sender so far; the last is in flight
  nextType,    \* NextTelemetryType
  burst,       \* telemetryBurstCount
  queued,      \* queuedTelemetryPacket
  valid,       \* queuedTelemetryValid
  armed,       \* telemetryAckArmed
  connected,   \* the RX's connectionState = connected
  rcv,         \* TelemetryReceiver
  delivered,   \* buffers the TX has passed to the handset
  dl,          \* the RX radio's transmit buffer: a sequence of at most one packet
  ul,          \* the TX radio's transmit buffer: at most one RC packet's confirm bit
  slot,        \* position in the TDMA frame; slot = Denom is the downlink slot
  losses, rateChanges,
  gaveUp       \* history: the sender has entered RESYNC, or a rate change dropped a chunk

txVars  == <<rcv, delivered>>
rxVars  == <<snd, loaded, nextType, burst, queued, valid, armed>>
airVars == <<connected, dl, ul, slot, losses, rateChanges, gaveUp>>
vars == <<snd, loaded, nextType, burst, queued, valid, armed, connected,
          rcv, delivered, dl, ul, slot, losses, rateChanges, gaveUp>>
-----------------------------------------------------------------------------
(* RX: rx_main.c around the sender *)

\* The packet HandleSendTelemetryResponse builds from sender s: a LINK packet
\* when one is due or nothing else is queued, a DATA packet otherwise.
BuildsLink(s) == nextType = "LINK" \/ s.state = "IDLE"
RoomFor(s) == IF BuildsLink(s) THEN LinkLen ELSE DataLen

BuiltPacket(s) ==
  LET n == ChunkSize(s, RoomFor(s)) IN
  [idx |-> ChunkIndex(s, RoomFor(s)), len |-> RoomFor(s), n |-> n,
   body |-> IF n = 0 THEN NoBody ELSE Body[s.msg],
   from |-> IF n = 0 THEN 0 ELSE s.off]

\* HandleSendTelemetryResponse, the sender being s when it is called.
HandleSendTelemetryResponse(s) ==
  IF connected
  THEN /\ snd' = AfterGetPayload(s, RoomFor(s))
       /\ queued' = BuiltPacket(s)
       /\ dl' = <<BuiltPacket(s)>>
       /\ valid' = TRUE
       /\ armed' = FALSE
       /\ nextType' = IF BuildsLink(s) THEN "DATA"
                      ELSE IF burst < BurstMax THEN nextType ELSE "LINK"
       /\ burst' = IF BuildsLink(s) THEN 1
                   ELSE IF burst < BurstMax THEN burst + 1 ELSE burst
  ELSE /\ snd' = s
       /\ UNCHANGED <<queued, dl, valid, armed, nextType, burst>>

\* RX loop: with the sender idle, the next message of the telemetry queue.
LoadMessage ==
  /\ snd.state = "IDLE"
  /\ loaded < Len(Body)
  /\ loaded' = loaded + 1
  /\ HandleSendTelemetryResponse(SetDataToTransmit(snd, loaded + 1))
  /\ UNCHANGED <<connected, rcv, delivered, ul, slot, losses, rateChanges, gaveUp>>

\* ProcessRfPacket_MSP: an accepted uplink MSP chunk makes LINK the next type.
MspChunkReceived ==
  /\ connected
  /\ nextType' = "LINK"
  /\ UNCHANGED <<snd, loaded, burst, queued, valid, armed, connected, rcv,
                 delivered, dl, ul, slot, losses, rateChanges, gaveUp>>

\* Mutant of RxTxDone: the packet is prepared anew after every slot.
RxTxDonePrepares ==
  IF connected THEN HandleSendTelemetryResponse(snd)
  ELSE dl' = <<>> /\ UNCHANGED <<snd, queued, valid, armed, nextType, burst>>

\* TXdoneISR: the downlink slot has gone by; keep the unacknowledged packet.
RxTxDone ==
  IF snd.state = "IDLE" \/ ~valid
  THEN IF connected THEN HandleSendTelemetryResponse(snd)
       ELSE /\ dl' = <<>>
            /\ UNCHANGED <<snd, queued, valid, armed, nextType, burst>>
  ELSE /\ armed' = TRUE
       /\ dl' = IF connected THEN <<queued>> ELSE <<>>
       /\ UNCHANGED <<snd, queued, valid, nextType, burst>>

\* ProcessRfPacket_RC with confirm bit v. The first RC packet only connects.
ProcessRfPacket_RC(v) ==
  LET s == IF connected /\ armed THEN ConfirmCurrentPayload(snd, v) ELSE snd
      progressed == s.off # snd.off \/ s.state # snd.state \/ s.exp # snd.exp IN
  /\ connected' = TRUE
  /\ IF progressed
     THEN HandleSendTelemetryResponse(s)
     ELSE snd' = s /\ UNCHANGED <<queued, dl, valid, armed, nextType, burst>>
  /\ gaveUp' = (gaveUp \/ s.state \in Resyncing)
-----------------------------------------------------------------------------
(* TX: tx_main.c around the receiver *)

\* SendRCdataToRF, RC branch: an RC packet takes the confirm bit of the
\* moment it is queued, not of the moment it is sent.
QueueRcPacket ==
  /\ ul = <<>>
  /\ ul' = <<rcv.confirm>>
  /\ UNCHANGED <<snd, loaded, nextType, burst, queued, valid, armed, connected,
                 rcv, delivered, dl, slot, losses, rateChanges, gaveUp>>

\* ProcessTLMpacket: what is left of a downlink packet p that is long enough, undamaged
\* and of the right type; any other is lost. A changed confirm bit also hurries the next
\* RC packet, which QueueRcPacket may queue at any time.
ProcessTLMpacket(p) == rcv' = ReceiveData(rcv, p)

\* TX loop: pass a finished message to the handset and unlock the buffer.
ForwardTelemetry ==
  /\ rcv.finished
  /\ delivered' = Append(delivered, rcv.data)
  /\ rcv' = Unlock(rcv)
  /\ UNCHANGED <<snd, loaded, nextType, burst, queued, valid, armed, connected,
                 dl, ul, slot, losses, rateChanges, gaveUp>>
-----------------------------------------------------------------------------
(* The air *)

NextSlot == slot' = IF slot = Denom THEN 1 ELSE slot + 1
Lose == losses < MaxLoss /\ losses' = losses + 1

\* The downlink slot: the RX radio sends its buffer (or a dummy frame the TX
\* discards) and raises TX_DONE whether or not the TX hears it.
DownlinkSlot ==
  /\ slot = Denom
  /\ NextSlot
  /\ RxTxDone
  /\ \/ /\ dl # <<>>
        /\ ProcessTLMpacket(dl[1])
        /\ UNCHANGED losses
     \/ dl # <<>> /\ Lose /\ UNCHANGED rcv
     \/ dl = <<>> /\ UNCHANGED <<rcv, losses>>
  /\ UNCHANGED <<loaded, connected, delivered, ul, rateChanges, gaveUp>>

UplinkIdle == ~PromptRc /\ ul = <<>> /\ UNCHANGED <<rxVars, connected, dl, losses, gaveUp>>
UplinkLost == ul # <<>> /\ Lose /\ UNCHANGED <<rxVars, connected, dl, gaveUp>>
UplinkHeard == ul # <<>> /\ ProcessRfPacket_RC(ul[1]) /\ UNCHANGED <<loaded, losses>>

\* An uplink slot: the TX radio sends its buffer and raises TX_DONE, which
\* lets the TX queue the next packet.
UplinkSlot ==
  /\ slot < Denom
  /\ NextSlot
  /\ UplinkIdle \/ UplinkLost \/ UplinkHeard
  /\ ul' = <<>>
  /\ UNCHANGED <<rcv, delivered, rateChanges>>

\* An air rate change on both sides: LostConnection and SetRFLinkRate on the
\* RX, SetRFLinkRate on the TX; both radios are reinitialised, which empties
\* their transmit buffers. Neither stubborn state machine is reset.
RateChange ==
  /\ rateChanges < MaxRateChange
  /\ rateChanges' = rateChanges + 1
  /\ connected' = FALSE
  /\ valid' = FALSE
  /\ armed' = FALSE
  /\ dl' = <<>>
  /\ ul' = <<>>
  /\ slot' = 1
  /\ gaveUp' = (gaveUp \/ snd.state # "IDLE")
  /\ UNCHANGED <<snd, loaded, nextType, burst, queued, rcv, delivered, losses>>
-----------------------------------------------------------------------------
Init ==
  /\ snd = ResetSender
  /\ loaded = 0
  /\ nextType = "LINK"
  /\ burst = 1
  /\ queued = NoPacket
  /\ valid = FALSE
  /\ armed = FALSE
  /\ connected = FALSE
  /\ rcv = ResetReceiver
  /\ delivered = <<>>
  /\ dl = <<>>
  /\ ul = <<>>
  /\ slot = 1
  /\ losses = 0
  /\ rateChanges = 0
  /\ gaveUp = FALSE

Next ==
  \/ LoadMessage
  \/ MspChunkReceived
  \/ QueueRcPacket
  \/ ForwardTelemetry
  \/ DownlinkSlot
  \/ UplinkSlot
  \/ RateChange

Spec == Init /\ [][Next]_vars

\* The slot timer never stops, the handset keeps sending channels, and both
\* main loops keep running. Losses are bounded, so the air gets better.
Fairness ==
  /\ WF_vars(DownlinkSlot)
  /\ WF_vars(UplinkSlot)
  /\ WF_vars(QueueRcPacket)
  /\ WF_vars(ForwardTelemetry)
  /\ WF_vars(LoadMessage)

FairSpec == Spec /\ Fairness
-----------------------------------------------------------------------------
(* Properties *)

\* Type correctness of every variable; with it, that the sender in SENDING has
\* something left to send, and that the telemetry path never reaches
\* RESYNC_THEN_SEND, since it only loads an idle sender.
TypeOK ==
  /\ snd \in Senders
  /\ snd.msg = loaded
  /\ snd.state # "RESYNC_THEN_SEND"
  /\ snd.state \in Sending => loaded > 0 /\ snd.off < Length[loaded]
  /\ loaded \in 0..Len(Body)
  /\ nextType \in {"LINK", "DATA"}
  /\ burst \in 1..BurstMax
  /\ queued \in Packets
  /\ valid \in BOOLEAN /\ armed \in BOOLEAN /\ connected \in BOOLEAN
  /\ rcv \in Receivers
  /\ delivered \in Seq(Buffers)
  /\ dl \in Seq(Packets) /\ Len(dl) <= 1
  /\ ul \in Seq(Bit) /\ Len(ul) <= 1
  /\ slot \in 1..Denom
  /\ losses \in 0..MaxLoss
  /\ rateChanges \in 0..MaxRateChange
  /\ gaveUp \in BOOLEAN

\* Message i as the handset must see it: the frame's own units, in place.
IsMessage(buf, i) == \A k \in 1..Length[i] : buf[k] = <<Body[i], k>>

\* Until the sender gives a chunk up (a RESYNC, or a rate change in the middle
\* of a message), what the TX hands to the handset is exactly the messages
\* loaded so far, in order, each once and intact.
ExactlyOnceInOrder ==
  ~gaveUp => /\ Len(delivered) <= loaded
             /\ \A i \in 1..Len(delivered) : IsMessage(delivered[i], i)

\* Until the sender gives a chunk up, a sender that is done with a message is
\* right: the TX has it, delivered or finished and about to be.
DoneMeansReceived ==
  ~gaveUp /\ snd.state = "IDLE" =>
    loaded = Len(delivered) + (IF rcv.finished THEN 1 ELSE 0)

\* Until the sender gives a chunk up, no confirm bit on its way up, however
\* old, acknowledges a chunk the TX does not have.
FreshAck == \A i \in 1..Len(ul) : ul[i] = snd.exp => rcv.confirm = snd.exp
NoStaleAck == ~gaveUp => FreshAck

\* "Stubborn transport guarantees delivery" (rx_main.c): a sender that is idle
\* again has had every message it was given delivered, or finished, intact.
GuaranteedDelivery ==
  snd.state = "IDLE" =>
    \A m \in 1..loaded :
      \/ \E i \in 1..Len(delivered) : IsMessage(delivered[i], m)
      \/ rcv.finished /\ IsMessage(rcv.data, m)

\* "Keep the same chunk (including its length) until it is acknowledged"
\* (rx_main.c, TXdoneISR): while the sender stays at one chunk of one message,
\* the number of units it will skip when the chunk is acknowledged is fixed.
SameChunk == /\ snd.state = "SENDING" /\ snd'.state = "SENDING"
             /\ loaded' = loaded /\ snd'.pkg = snd.pkg
KeepsChunkUntilAcked == [][SameChunk => snd'.last = snd.last]_vars

\* The sender never stays busy for ever: whatever was lost, and after any rate
\* change, it gets through all its messages (delivered or given up) and rests.
TelemetryNeverWedges == <>[](loaded = Len(Body) /\ snd.state = "IDLE")

\* Every message handed to the sender reaches the handset, or the sender
\* gives a chunk up.
DeliveredOrGivenUp ==
  \A m \in Messages : loaded >= m ~> (gaveUp \/ Len(delivered) >= m)

\* The link implements the channel its users see.
Channel == INSTANCE TelemetryChannel WITH accepted <- loaded, broken <- gaveUp
ImplementsChannel == Channel!Spec
-----------------------------------------------------------------------------
(* The inductive invariant behind ExactlyOnceInOrder, DoneMeansReceived and   *)
(* NoStaleAck. Until the sender gives a chunk up, the link is in one of four  *)
(* phases, told apart by the sender's state and by whether the TX's confirm   *)
(* bit is the one the sender expects: resting, sending a chunk the TX lacks,  *)
(* sending a chunk the TX has, and waiting for the closing packet's ack.      *)

Acked == rcv.confirm = snd.exp
Prefix(n) == \A k \in 1..n : rcv.data[k] = <<Body[loaded], k>>
Outstanding == loaded - Len(delivered)

\* The TX rests: no message is under way, or a finished one is still locked.
TxRests(n) == \/ rcv.finished /\ Outstanding = n + 1
              \/ ~rcv.finished /\ rcv.pkg = 1 /\ rcv.off = 0 /\ Outstanding = n

LinkHolds == /\ dl # <<>> => valid /\ dl = <<queued>>
             /\ valid => connected
             /\ valid => queued.len \in {LinkLen, DataLen}
             /\ snd.state \in {"IDLE", "SEND_PENDING", "SENDING", "WAIT_UNTIL_NEXT_CONFIRM"}
             /\ snd.pkg <= snd.off + 1

Resting == snd.state = "IDLE" =>
  /\ ~Acked
  /\ TxRests(0)
  /\ valid => queued.idx = 0

Starting == snd.state = "SEND_PENDING" =>
  /\ ~Acked
  /\ TxRests(1)
  /\ ~valid
  /\ snd.off = 0 /\ snd.pkg = 1 /\ loaded > 0

\* The packet on offer is the sender's current chunk.
ChunkOnOffer ==
  /\ valid
  /\ loaded > 0
  /\ snd.off < Length[loaded]
  /\ snd.last = Smaller(Length[loaded] - snd.off, queued.len)
  /\ queued.n = snd.last /\ queued.from = snd.off /\ queued.body = Body[loaded]
  /\ queued.idx = IF snd.pkg > 1 /\ snd.off + snd.last >= Length[loaded]
                  THEN 0 ELSE snd.pkg

ChunkMissing == snd.state = "SENDING" /\ ~Acked =>
  /\ ChunkOnOffer
  /\ \/ snd.pkg = 1 /\ snd.off = 0 /\ TxRests(1)
     \/ /\ snd.pkg > 1 /\ ~rcv.finished
        /\ rcv.pkg = snd.pkg /\ rcv.off = snd.off
        /\ Prefix(snd.off)
        /\ Outstanding = 1

ChunkReceived == snd.state = "SENDING" /\ Acked =>
  /\ ChunkOnOffer
  /\ IF queued.idx = 0 THEN TxRests(0)
     ELSE /\ ~rcv.finished
          /\ rcv.pkg = snd.pkg + 1
          /\ rcv.off = Smaller(BufLen, snd.off + queued.len)
          /\ Prefix(snd.off + snd.last)
          /\ snd.pkg = 1 => /\ snd.off = 0
                            /\ \A j \in 1..queued.len : rcv.data[j] = PayloadUnit(queued, j)
          /\ Outstanding = 1

Closing == snd.state = "WAIT_UNTIL_NEXT_CONFIRM" =>
  /\ valid /\ queued.idx = 0
  /\ loaded > 0
  /\ IF Acked THEN TxRests(0)
     ELSE /\ ~rcv.finished
          /\ rcv.pkg = 2 /\ rcv.off >= Length[loaded]
          /\ Prefix(Length[loaded])
          /\ Outstanding = 1

DeliveredRight ==
  /\ \A i \in 1..Len(delivered) : i <= loaded /\ IsMessage(delivered[i], i)
  /\ rcv.finished => /\ Len(delivered) < loaded
                     /\ IsMessage(rcv.data, Len(delivered) + 1)

LinkParts == /\ LinkHolds
             /\ Resting
             /\ Starting
             /\ ChunkMissing
             /\ ChunkReceived
             /\ Closing
             /\ DeliveredRight
             /\ FreshAck

LinkInv == ~gaveUp => LinkParts
=============================================================================
