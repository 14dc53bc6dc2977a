-------------------------- MODULE TelemetryChannel --------------------------
(***************************************************************************)
(* What the downlink telemetry transport promises its two users, the       *)
(* telemetry queue of the RX and the handset port of the TX: messages are  *)
(* taken one at a time and come out in order, once and intact, until the   *)
(* channel breaks. It breaks when the sender gives a chunk up; from then   *)
(* on nothing is promised of what comes out.                               *)
(***************************************************************************)
EXTENDS Integers, Sequences

CONSTANTS Body, Length

VARIABLES accepted, delivered, broken

channelVars == <<accepted, delivered, broken>>

\* The handset reads a frame's own units; the rest of the buffer is noise.
Carries(buf, i) == \A k \in 1..Length[i] : buf[k] = <<Body[i], k>>

Init == accepted = 0 /\ delivered = <<>> /\ broken = FALSE

\* A message is taken only when at most one earlier message is still inside.
Accept ==
  /\ accepted < Len(Body)
  /\ broken \/ accepted <= Len(delivered) + 1
  /\ accepted' = accepted + 1
  /\ UNCHANGED <<delivered, broken>>

\* One more buffer comes out; unless the channel is broken it carries the
\* message next in order.
Deliver ==
  /\ Len(delivered') = Len(delivered) + 1
  /\ SubSeq(delivered', 1, Len(delivered)) = delivered
  /\ broken \/ /\ Len(delivered) < accepted
               /\ Carries(delivered'[Len(delivered) + 1], Len(delivered) + 1)
  /\ UNCHANGED <<accepted, broken>>

Break == broken' = TRUE /\ UNCHANGED <<accepted, delivered>>

Next == Accept \/ Deliver \/ Break

Spec == Init /\ [][Next]_channelVars
=============================================================================
