------------------------------ MODULE LqWindow ------------------------------
(***************************************************************************)
(* Link quality: what share of the last slots brought a valid packet. The  *)
(* receiver keeps a window over the uplink slots, sized so that it covers  *)
(* 1.5 s at the rate in use (rx_main.c), the transmitter one of fixed size *)
(* over the downlink windows (tx_main.c). Both are rings of bits in words  *)
(* with a running count of the bits that are set.                          *)
(***************************************************************************)
EXTENDS Integers, FiniteSets, Sequences

CONSTANTS
  WordBits,              \* 32
  MinWindow, MaxWindow,  \* UPLINK_LQ_HISTORY_MIN_SIZE, UPLINK_LQ_HISTORY_SIZE
  DownWindow,            \* DOWNLINK_LQ_WINDOW_SIZE
  TargetTime,            \* UPLINK_LQ_TARGET_WINDOW_MS
  AirRates               \* set of [interval, denom]

ASSUME LqAssumption ==
  /\ WordBits \in Nat \ {0}
  /\ MinWindow \in Nat \ {0} /\ MaxWindow \in Nat /\ MinWindow <= MaxWindow
  /\ DownWindow \in Nat \ {0}
  /\ TargetTime \in Nat
  /\ AirRates \subseteq [interval : Nat \ {0}, denom : Nat \ {0}]

VARIABLES
  upLq, downLq,     \* s_uplinkLqTracker, DownlinkLqCalc
  upSeen, downSeen  \* history: the results of the last slots, newest last

lqVars == <<upLq, downLq, upSeen, downSeen>>

Positions == Nat \X (0..WordBits-1)
At(t) == <<t.index, t.bit>>
-----------------------------------------------------------------------------
\* UplinkLqTracker_ComputeWindowSize: slots in the target time, without the
\* downlink slots, rounded up and kept in range.
WindowSize(r) ==
  LET slot == IF r.denom > 1
              THEN (r.interval * r.denom + r.denom - 2) \div (r.denom - 1) ELSE r.interval
      n == (TargetTime + slot - 1) \div slot
  IN IF n < MinWindow THEN MinWindow ELSE IF n > MaxWindow THEN MaxWindow ELSE n

\* Add: the current bit is set and counted once.
Marked(t) == IF At(t) \in t.set THEN t ELSE [t EXCEPT !.set = @ \cup {At(t)}, !.lq = @ + 1]

\* Mutant of AtEnd: one bit beyond the last.
AtEndLate(t) == t.index * WordBits + t.bit = t.size + 1

\* The first position after the window: bit size % WordBits of word size / WordBits.
AtEnd(t) == t.index = t.size \div WordBits /\ t.bit = t.size % WordBits

Moved(t) == IF t.bit + 1 < WordBits THEN [t EXCEPT !.bit = @ + 1]
            ELSE [t EXCEPT !.bit = 0, !.index = @ + 1]
Wrapped(t) == IF AtEnd(t) THEN [t EXCEPT !.index = 0, !.bit = 0] ELSE t

\* Advance, Inc: on to the next bit, around at the end, and the bit there is
\* taken back to be counted anew.
Advanced(t) ==
  LET u == Wrapped(Moved(t))
      v == IF At(u) \in u.set THEN [u EXCEPT !.set = @ \ {At(u)}, !.lq = @ - 1] ELSE u
  IN IF v.count < v.size THEN [v EXCEPT !.count = @ + 1] ELSE v

Fresh(size, count) == [size |-> size, set |-> {}, lq |-> 0, index |-> 0, bit |-> 0,
                       count |-> count]

\* GetLq: per cent, and 0 before the first slot.
GetLq(t) == IF t.count = 0 THEN 0 ELSE (t.lq * 100) \div t.count
-----------------------------------------------------------------------------
LastOf(seq, n) == IF Len(seq) <= n THEN seq ELSE SubSeq(seq, Len(seq) - n + 1, Len(seq))

\* UplinkLqTracker_Record, at the end of every uplink slot.
UplinkSlotDone(valid) ==
  /\ upLq' = Advanced(IF valid THEN Marked(upLq) ELSE upLq)
  /\ upSeen' = LastOf(Append(upSeen, valid), upLq.size - 1)
  /\ UNCHANGED <<downLq, downSeen>>

\* UplinkLqTracker_Reset: SetRFLinkRate, and LostConnection at the same rate.
UplinkReset ==
  /\ \E n \in {WindowSize(r) : r \in AirRates} \cup {MaxWindow} : upLq' = Fresh(n, 0)
  /\ upSeen' = <<>>
  /\ UNCHANGED <<downLq, downSeen>>

\* DownlinkTlmWindowDone, first half: the bit is set, and the quality reported.
Reported(valid) == IF valid THEN Marked(downLq) ELSE downLq

DownlinkTlmWindowDone(valid) ==
  /\ downLq' = Advanced(Reported(valid))
  /\ downSeen' = LastOf(Append(downSeen, valid), DownWindow - 1)
  /\ UNCHANGED <<upLq, upSeen>>

LqInit ==
  /\ upLq = Fresh(MaxWindow, 0) /\ downLq = Fresh(DownWindow, 1)
  /\ upSeen = <<>> /\ downSeen = <<>>
LqNext ==
  \/ UplinkReset
  \/ \E valid \in BOOLEAN : UplinkSlotDone(valid) \/ DownlinkTlmWindowDone(valid)
LqSpec == LqInit /\ [][LqNext]_lqVars
-----------------------------------------------------------------------------
Windows == [size : Nat \ {0}, set : SUBSET Positions, lq : Nat, index : Nat,
            bit : 0..WordBits-1, count : Nat]

\* The variables hold values of their types.
LqTypeOK == upLq \in Windows /\ downLq \in Windows

\* The running count is the number of bits set, so that taking one back never
\* takes the eight-bit count below zero.
CountsBits(t) == IsFiniteSet(t.set) /\ t.lq = Cardinality(t.set)
LqIsCount == CountsBits(upLq) /\ CountsBits(downLq)

\* The quality is that of the last slots, none dropped early and none kept too
\* long, over words the window ends in the middle of and across resets: the last
\* size-1 slots with the current one still to come.
Valid(seq) == Cardinality({i \in DOMAIN seq : seq[i]})
LqIsRecent == upLq.lq = Valid(upSeen) /\ downLq.lq = Valid(downSeen)

\* What is reported is a percentage.
LqIsPercent == GetLq(upLq) <= 100 /\ \A v \in BOOLEAN : GetLq(Reported(v)) <= 100

\* Both windows count what they are said to count.
LqCountsWindow == LqIsCount /\ LqIsRecent /\ LqIsPercent
=============================================================================
