---------------------------- MODULE RxOtaSender ----------------------------
(***************************************************************************)
(* The transmitter sends a receiver its new firmware: a handshake, whose   *)
(* request is repeated for ever, and then the image packet by packet in    *)
(* the radio's TX slot, while the receiver's bootloader (not in this       *)
(* repository) answers in an RX slot with a packet it misses or with the   *)
(* end. The radio holds one packet: a packet asked for again takes the     *)
(* place of the one that was queued.                                       *)
(***************************************************************************)
EXTENDS Integers

CONSTANT TotalPackets  \* packets of the stored image
ASSUME OtaAssumption == TotalPackets \in Nat \ {0}

VARIABLES
  ota,      \* s_state, s_nextPacketIndex and s_handshakeInitialized
  slots,    \* how the radio is set up, and the packet it holds
  burnt,    \* packets the receiver has
  offered   \* packets the radio was given in this session

otaVars == <<ota, slots, burnt, offered>>

Image == 1 .. TotalPackets
Handshaking == {"wait_handshake_tx", "wait_handshake_response"}
Upgrading == {"wait_upgrade_bcn", "sending", "wait_finish"}
Ended == {"idle", "done", "failed", "version_same"}
OtaStates == Handshaking \cup {"wait_ack_tx"} \cup Upgrading \cup Ended
Closed == [mode |-> "closed", packet |-> 0]
Closing(state) ==
  /\ ota' = [ota EXCEPT !.state = state, !.ready = FALSE]
  /\ slots' = Closed
Fail == Closing("failed") /\ UNCHANGED offered
Mode(m) == slots' = [mode |-> m, packet |-> 0]
-----------------------------------------------------------------------------
\* sendHandshakeRequest, whose calls of the radio may each fail: the state is
\* changed by the last of them.
HandshakeRequest ==
  \/ ota' = [ota EXCEPT !.state = "wait_handshake_tx", !.ready = TRUE] /\ Mode("tx")
  \/ \E m \in {slots.mode, "tx"} :
       /\ ota' = [ota EXCEPT !.ready = @ \/ m = "tx"]
       /\ Mode(m)

\* RxOtaSender_Start: no image that can be sent, or the first request.
OtaStart ==
  /\ ota.state \in Ended
  /\ \/ ota' = [ota EXCEPT !.state = "failed"] /\ UNCHANGED slots
     \/ Fail
     \/ ota' = [state |-> "wait_handshake_tx", next |-> ota.next, ready |-> TRUE] /\ Mode("tx")
  /\ offered' = {}
  /\ \E known \in {burnt, {}} : burnt' = known

\* Mutant of Resent: a packet sent again moves the sender on.
ResentAdvances(index) == [ota EXCEPT !.next = @ + 1]

\* What sending a packet again does to the sender: nothing.
Resent(index) == ota

\* sendPacket: the packet takes the place of the one the radio holds.
SendPacket(index) ==
  /\ slots' = [mode |-> "upgrade", packet |-> index]
  /\ offered' = offered \cup {index}

Continued(o) == [o EXCEPT !.state = IF o.next > TotalPackets THEN "wait_finish" ELSE "sending"]

\* initUpgradeSlots: the first packet is queued before the receiver is heard.
InitUpgradeSlots ==
  /\ SendPacket(1)
  /\ ota' = [state |-> "wait_upgrade_bcn", next |-> 2, ready |-> FALSE]

SendNextPacket ==
  IF ota.next > TotalPackets
  THEN ota' = [ota EXCEPT !.state = "wait_finish"] /\ UNCHANGED <<slots, offered>>
  ELSE \/ SendPacket(ota.next) /\ ota' = Continued([ota EXCEPT !.next = @ + 1])
       \/ Fail
-----------------------------------------------------------------------------
(* RxOtaSender_Update, by what Tk86xxCheckStatus reports *)

\* Nothing until the deadline: the handshake starts over, anything else has failed.
OtaTimedOut ==
  /\ ota.state \notin Ended
  /\ IF ota.state \in Handshaking THEN HandshakeRequest ELSE Closing("failed")
  /\ UNCHANGED <<burnt, offered>>

\* The request went out: the radio listens.
RequestSent ==
  /\ ota.state = "wait_handshake_tx" /\ slots.mode = "tx"
  /\ \/ ota' = [ota EXCEPT !.state = "wait_handshake_response"] /\ Mode("rx")
     \/ Closing("failed")
  /\ UNCHANGED <<burnt, offered>>

\* sendHandshakeAck.
HandshakeAck == ota' = [ota EXCEPT !.state = "wait_ack_tx"] /\ Mode("tx")

\* A receiver answers: it has this version, or its identity is acknowledged.
ResponseHeard ==
  /\ ota.state = "wait_handshake_response" /\ slots.mode = "rx"
  /\ \/ Closing("version_same")
     \/ HandshakeAck
     \/ Closing("failed")
  /\ UNCHANGED <<burnt, offered>>

AckSent ==
  /\ ota.state = "wait_ack_tx"
  /\ InitUpgradeSlots \/ Fail
  /\ UNCHANGED burnt

\* The TX slot: what the radio holds goes out and is heard or not. Only the state
\* that sends takes the next packet.
TxSlotDone ==
  /\ slots.mode = "upgrade"
  /\ \E got \in {burnt, burnt \cup {slots.packet}} : burnt' = got
  /\ IF ota.state = "sending" THEN SendNextPacket ELSE UNCHANGED <<ota, slots, offered>>

BeaconHeard ==
  /\ ota.state = "wait_upgrade_bcn"
  /\ ota' = [ota EXCEPT !.state = "sending"]
  /\ UNCHANGED <<slots, burnt, offered>>

\* handleBurnResponse: a packet the receiver misses is sent again, an index that is
\* none of the image ends the update.
ResendAsked ==
  /\ ota.state \in Upgrading
  /\ \E index \in 0 .. TotalPackets + 1 :
       /\ index \notin burnt
       /\ IF index \in Image
          THEN \/ SendPacket(index) /\ ota' = Continued(Resent(index))
               \/ Fail
          ELSE Fail
  /\ UNCHANGED burnt

FinishHeard ==
  /\ ota.state \in Upgrading /\ burnt = Image
  /\ Closing("done") /\ UNCHANGED <<burnt, offered>>

OtaInit ==
  /\ ota = [state |-> "idle", next |-> 0, ready |-> FALSE]
  /\ slots = Closed /\ burnt = {} /\ offered = {}

OtaNext ==
  \/ OtaStart \/ OtaTimedOut \/ RequestSent \/ ResponseHeard \/ AckSent \/ TxSlotDone
  \/ BeaconHeard \/ ResendAsked \/ FinishHeard

OtaSpec == OtaInit /\ [][OtaNext]_otaVars
-----------------------------------------------------------------------------
\* The variables hold values of their types.
OtaTypeOK ==
  /\ ota \in [state : OtaStates, next : 0 .. TotalPackets + 1, ready : BOOLEAN]
  /\ slots \in [mode : {"closed", "tx", "rx", "upgrade"}, packet : 0 .. TotalPackets]
  /\ burnt \subseteq Image /\ offered \subseteq Image

\* The sender never waits for the receiver to finish before every packet of the image
\* was given to the radio, whatever was asked for again on the way: a packet left
\* out is one nobody sends unless the receiver's bootloader misses it by itself.
OtaOffersAll == ota.state = "wait_finish" => offered = Image
=============================================================================
