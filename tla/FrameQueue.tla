----------------------------- MODULE FrameQueue -----------------------------
(***************************************************************************)
(* What the telemetry queue promises, without its bytes: frames waiting in *)
(* order, a newer frame of a kind that supersedes taking the place of the  *)
(* waiting one, prioritised frames given out before the others.            *)
(***************************************************************************)
EXTENDS Naturals, SequencesExt

CONSTANTS Superseding, Prioritised, Kind(_), AllFrames

VARIABLES live, out
fvars == <<live, out>>

Waiting(f) == {i \in DOMAIN live : Kind(live[i]) = Kind(f) /\ Kind(f) \in Superseding}

\* A frame is appended: it replaces the waiting one of its kind where that is,
\* or goes to the end, and the oldest frames may make room for it.
Put(f) ==
  /\ \/ \E i \in Waiting(f) : live' = ReplaceAt(live, i, f)
     \/ \E rest \in IF Waiting(f) = {} THEN {live} ELSE {RemoveAt(live, i) : i \in Waiting(f)} :
          \E n \in 0..Len(rest) : live' = Append(SubSeq(rest, n + 1, Len(rest)), f)
  /\ UNCHANGED out

\* The first prioritised frame is given out, or the first of all.
Take ==
  /\ live # <<>>
  /\ \E i \in DOMAIN live :
       /\ \/ /\ Kind(live[i]) \in Prioritised
             /\ \A j \in 1..i-1 : Kind(live[j]) \notin Prioritised
          \/ /\ i = 1
             /\ \A j \in DOMAIN live : Kind(live[j]) \notin Prioritised
       /\ out' = live[i]
       /\ live' = RemoveAt(live, i)

FrameInit == live = <<>> /\ out = <<>>
FrameNext == live' # live /\ ((\E f \in AllFrames : Put(f)) \/ Take)
FrameSpec == FrameInit /\ [][FrameNext]_fvars
=============================================================================
