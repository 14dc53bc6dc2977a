----------------------------- MODULE RateSwitch -----------------------------
(***************************************************************************)
(* Changing the air rate and the switch mode of a running link. The TX     *)
(* announces a new rate in SYNC packets (PREPARE), then repeats COMMIT     *)
(* packets with a countdown for a window, and moves a guard time after the *)
(* window; the RX moves when the countdown it last heard runs out. Nothing *)
(* is acknowledged.                                                        *)
(*                                                                         *)
(*   TX   tx_main.c, tx_devLUA.c      RX   rx_main.c      rate_switch.h     *)
(*                                                                         *)
(* Time is counted in units; deadlines are countdowns. A packet takes at   *)
(* most Latency units from the call that queues it to its TX_DONE. Binding *)
(* and AirPort mode, which bypass all of this, are left out, and so is the *)
(* telemetry ratio carried next to the rate.                               *)
(***************************************************************************)
EXTENDS Integers, Sequences

CONSTANTS
  Rates,          \* the air rates of txConfig
  Modes,          \* the switch modes (OtaSwitchMode_e)
  Wide,           \* smWideOr8ch, the mode SetRFLinkRate gives the RX
  NoMode,         \* no switch mode pending
  FirstRate,      \* the rate stored on both sides when the link was bound
  FirstMode,      \* the switch mode stored on the TX
  Window,         \* OTA_RATE_COMMIT_WINDOW_MS
  Guard,          \* OTA_RATE_TX_GUARD_MS
  Tick,           \* OTA_RATE_COMMIT_TICK_MS
  Latency,        \* queue-to-air time of a packet
  SyncSpam,       \* syncSpamAmount
  SyncEvery,      \* a spam SYNC follows every SyncEvery-th RC packet (10)
  MaxRateEdits,   \* bound: writes of the rate or another parameter by the user
  MaxModeEdits,   \* bound: writes of the switch mode by the user
  MaxLoss,        \* bound: packets the air may lose
  MaxReboots      \* bound: reboots of either side

ASSUME RateAssumption == FirstRate \in Rates
ASSUME ModeAssumption == Wide \in Modes /\ FirstMode \in Modes /\ NoMode \notin Modes
ASSUME TimeAssumption == /\ Window \in Nat \ {0} /\ Guard \in Nat
                         /\ Tick \in Nat \ {0} /\ Latency \in Nat
                         /\ SyncSpam \in Nat \ {0} /\ SyncEvery \in Nat \ {0}
                         /\ MaxRateEdits \in Nat /\ MaxModeEdits \in Nat
                         /\ MaxLoss \in Nat /\ MaxReboots \in Nat

\* The guard covers a COMMIT that is late on the air, rounded up to a tick.
ASSUME GuardAssumption == Latency + Tick <= Guard

VARIABLES
  tx,        \* the TX: its configuration, what is in force, the announcement
  rx,        \* the RX: what is in force, the pending commit and switch mode
  air,       \* the TX radio's transmit buffer: a sequence of at most one packet
  informed,  \* history: has the RX heard a COMMIT of the TX's open window
  stranded,  \* history: why the two sides may be at different rates for good
  rateEdits, modeEdits, losses, reboots

bounds == <<rateEdits, modeEdits, losses, reboots>>
vars == <<tx, rx, air, informed, stranded, rateEdits, modeEdits, losses, reboots>>

TxStates == [cfg : Rates, cfgMode : Modes,     \* txConfig, as edited
             stored : Rates, storedMode : Modes, \* txConfig, as in flash
             modified : BOOLEAN,               \* txConfig.IsModified()
             rate : Rates, mode : Modes,       \* in force on the TX
             spam : 0..SyncSpam,               \* syncSpamCounter
             count : 0..SyncEvery - 1,         \* syncPacketCount
             active : BOOLEAN,                 \* rateCommitActive
             until : -Guard..Window]           \* rateCommitAtMs - now

RxStates == [rate : Rates, mode : Modes,       \* in force on the RX
             waiting : Modes \cup {NoMode},    \* SwitchModePending < 0
             connected : BOOLEAN, match : BOOLEAN,
             saved : Rates,                    \* rxConfig.RateInitialIdx
             pending : BOOLEAN,                \* rateCommitPending
             target : Rates, targetMode : Modes,
             in : -Latency..(Window + Tick)]   \* rateCommitAtMs - now
-----------------------------------------------------------------------------
(* Packets *)

Phases == {"NONE", "PREPARE", "COMMIT"}
Packets == [kind : {"RC", "SYNC"}, rate : Rates, mode : Modes, phase : Phases,
            delay : 0..(Window + Tick), age : 0..Latency]

\* OtaRateCommitTicks: the remaining time in whole ticks, rounded up.
RoundedUp(t) == ((t + Tick - 1) \div Tick) * Tick

\* GenerateSyncPacket: which rate a SYNC names, and the phase and countdown
\* it carries when that is not the rate in force.
SyncRate(t) == IF t.spam > 0 \/ t.active THEN t.cfg ELSE t.rate
SyncPacket(t) ==
  [kind |-> "SYNC", rate |-> SyncRate(t), mode |-> t.cfgMode, age |-> 0,
   phase |-> IF SyncRate(t) = t.rate THEN "NONE"
             ELSE IF t.active THEN "COMMIT" ELSE "PREPARE",
   delay |-> IF t.active /\ SyncRate(t) # t.rate THEN RoundedUp(t.until) ELSE 0]

RcPacket(t) == [kind |-> "RC", rate |-> t.rate, mode |-> t.mode, age |-> 0,
                phase |-> "NONE", delay |-> 0]

\* Mutant of AfterSync: the counter wraps below zero.
AfterSyncWraps(t) == [t EXCEPT !.spam = @ - 1]
AfterSync(t) == [t EXCEPT !.spam = IF @ > 0 THEN @ - 1 ELSE 0]
-----------------------------------------------------------------------------
(* TX *)

\* Mutant of SetSyncSpam: the open window stays.
SetSyncSpamKeepsWindow(t) == [t EXCEPT !.spam = SyncSpam]

\* SetSyncSpam: announce the configuration from the start.
SetSyncSpam(t) == [t EXCEPT !.active = FALSE, !.spam = SyncSpam]

\* Dropping a window the RX has heard of: the RX still counts down, or has
\* already moved.
Dropped == /\ informed' = IF informed = "yes" THEN "stale" ELSE informed
           /\ stranded' = (stranded \/ (informed = "yes" /\ ~rx.pending))

\* A write of the packet rate, or (r = cfg) of a parameter not modelled here.
EditRate(r) ==
  /\ rateEdits < MaxRateEdits
  /\ rateEdits' = rateEdits + 1
  /\ tx' = SetSyncSpam([tx EXCEPT !.cfg = r, !.modified = TRUE])
  /\ Dropped
  /\ UNCHANGED <<rx, air, modeEdits, losses, reboots>>

\* luaparamSetSwitch: the TX packs in the new mode at once.
EditSwitchMode(m) ==
  /\ modeEdits < MaxModeEdits
  /\ m # tx.cfgMode
  /\ modeEdits' = modeEdits + 1
  /\ tx' = SetSyncSpam([tx EXCEPT !.cfgMode = m, !.mode = m, !.modified = TRUE])
  /\ Dropped
  /\ UNCHANGED <<rx, air, rateEdits, losses, reboots>>

\* SendRCdataToRF: in a commit window COMMITs only, and nothing in the guard
\* time; otherwise spam SYNCs while some are due, a periodic SYNC, or RC.
MaySync == IF tx.active THEN tx.until > 0 ELSE TRUE
MayRc == ~tx.active /\ ~(tx.spam > 0 /\ tx.count = 0)

SendSync ==
  /\ air = <<>>
  /\ MaySync
  /\ air' = <<SyncPacket(tx)>>
  /\ tx' = AfterSync(tx)
  /\ UNCHANGED <<rx, informed, stranded, bounds>>

SendRc ==
  /\ air = <<>>
  /\ MayRc
  /\ air' = <<RcPacket(tx)>>
  /\ tx' = [tx EXCEPT !.count = (@ + 1) % SyncEvery]
  /\ UNCHANGED <<rx, informed, stranded, bounds>>

\* Mutant of NeedsWindow: every look at the configuration opens the window anew.
NeedsWindowAgain(t) == t.modified /\ t.spam = 0 /\ t.cfg # t.rate
NeedsWindow(t) == t.modified /\ t.spam = 0 /\ t.cfg # t.rate /\ ~t.active
\* Mutant of CommitDue: the TX moves when the window closes, without the guard.
CommitDueAtOnce(t) == /\ t.modified /\ t.spam = 0
                      /\ t.cfg # t.rate => t.active /\ t.until <= 0
CommitDue(t) == /\ t.modified /\ t.spam = 0
                /\ t.cfg # t.rate => t.active /\ t.until <= -Guard

\* SetRFLinkRate of the TX: the window is over, the configured rate and switch mode
\* come into force, unless both are already.
SetRFLinkRate(t) == [t EXCEPT !.active = FALSE, !.rate = t.cfg, !.mode = t.cfgMode]

\* CheckConfigChangePending, the transmit buffer being empty. The RX is
\* stranded if no COMMIT of the window reached it.
CheckConfigChangePending(t, heard) ==
  IF NeedsWindow(t)
  THEN /\ tx' = [t EXCEPT !.active = TRUE, !.until = Window]
       /\ informed' = heard /\ UNCHANGED stranded
  ELSE IF CommitDue(t)
  THEN /\ tx' = SetRFLinkRate([t EXCEPT !.stored = t.cfg, !.storedMode = t.cfgMode,
                                        !.modified = FALSE])
       /\ informed' = IF t.cfg = t.rate THEN heard ELSE "no"
       /\ stranded' = (stranded \/ (t.cfg # t.rate /\ heard # "yes"))
  ELSE tx' = t /\ informed' = heard /\ UNCHANGED stranded

TxLoop ==
  /\ air = <<>>
  /\ NeedsWindow(tx) \/ CommitDue(tx)
  /\ CheckConfigChangePending(tx, informed)
  /\ UNCHANGED <<rx, air, bounds>>

\* setup: the stored configuration, with nothing announced.
TxReboot ==
  /\ reboots < MaxReboots
  /\ reboots' = reboots + 1
  /\ tx' = [tx EXCEPT !.cfg = tx.stored, !.cfgMode = tx.storedMode,
                      !.modified = FALSE, !.rate = tx.stored, !.mode = tx.storedMode,
                      !.spam = 0, !.count = 0, !.active = FALSE]
  /\ air' = <<>>
  /\ Dropped
  /\ UNCHANGED <<rx, rateEdits, modeEdits, losses>>
-----------------------------------------------------------------------------
(* RX *)

\* updateSwitchMode, at the end of a loop.
UpdateSwitchMode(r, m) == [r EXCEPT !.mode = m, !.waiting = NoMode]

\* updateSwitchModePendingFromOta, and updateSwitchMode of the same loop: disconnected, a new mode holds at once; connected, when a second
\* SYNC in a row names it.
SwitchModeFromOta(r, m) ==
  IF r.mode = m THEN [r EXCEPT !.waiting = NoMode]
  ELSE IF ~r.connected \/ r.waiting = m
  THEN UpdateSwitchMode(r, m)
  ELSE [r EXCEPT !.waiting = m]

\* Mutant of FromSync: a PREPARE leaves a pending commit alone.
FromSyncPrepareIgnored(r, p) ==
  IF p.phase = "COMMIT"
  THEN [r EXCEPT !.pending = TRUE, !.target = p.rate, !.targetMode = p.mode, !.in = p.delay]
  ELSE IF p.phase = "PREPARE" THEN r
  ELSE SwitchModeFromOta([r EXCEPT !.pending = FALSE], p.mode)

\* ProcessRfPacket_SYNC, first part: the rate and the switch mode.
FromSync(r, p) ==
  IF p.phase = "COMMIT"
  THEN [r EXCEPT !.pending = TRUE, !.target = p.rate, !.targetMode = p.mode, !.in = p.delay]
  ELSE IF p.phase = "PREPARE" THEN [r EXCEPT !.pending = FALSE]
  ELSE SwitchModeFromOta([r EXCEPT !.pending = FALSE], p.mode)

\* TentativeConnection: start on this rate after the next boot.
TentativeConnection(r) == [r EXCEPT !.saved = r.rate]

AfterSyncHeard(p) ==
  LET r == FromSync(rx, p) IN
  IF ~r.connected \/ ~r.match THEN [TentativeConnection(r) EXCEPT !.match = TRUE] ELSE r

AfterRcHeard == IF rx.connected THEN rx
                ELSE [TentativeConnection(rx) EXCEPT !.connected = TRUE]

\* ProcessRfPacket_RC unpacks the channels of a packet for the flight controller.
Decodes(p) == p.kind = "RC" /\ rx.connected /\ rx.waiting = NoMode /\ rx.match

\* What the RX knows once it has heard p: the window p belongs to, or that the
\* TX has dropped the window it knew.
Knows(p) == IF p.kind = "RC" THEN informed
            ELSE IF p.phase # "COMMIT" THEN "no"
            ELSE IF tx.active THEN "yes" ELSE "stale"

\* Loop: a commit that has run out. The switch mode is compared with the one
\* in force before LostConnection resets that to wide.
ApplyCommit(r) ==
  LET m == SwitchModeFromOta(r, r.targetMode)
      switched == m.mode # r.mode IN
  [m EXCEPT !.pending = FALSE, !.connected = FALSE, !.rate = r.target,
            !.mode = IF switched THEN m.mode ELSE Wide]

RxLoop ==
  /\ rx.pending
  /\ rx.in <= 0
  /\ rx' = ApplyCommit(rx)
  /\ stranded' = (stranded \/ informed = "stale")
  /\ UNCHANGED <<tx, air, informed, bounds>>

\* setup: the saved rate, wide switches, nothing pending.
RxReboot ==
  /\ reboots < MaxReboots
  /\ reboots' = reboots + 1
  /\ rx' = [rx EXCEPT !.rate = rx.saved, !.mode = Wide, !.waiting = NoMode,
                      !.connected = FALSE, !.match = FALSE, !.pending = FALSE]
  /\ informed' = "no"
  /\ stranded' = (stranded \/ rx.saved # tx.rate)
  /\ UNCHANGED <<tx, air, rateEdits, modeEdits, losses>>
-----------------------------------------------------------------------------
(* The air *)

\* TX_DONE: the packet has been sent, and the RX heard it if it listens at
\* that rate and the packet is not lost. The TX then looks at its configuration.
Heard == /\ rx.rate = tx.rate
         /\ ~(rx.pending /\ rx.in <= 0)
         /\ rx' = IF air[1].kind = "RC" THEN AfterRcHeard ELSE AfterSyncHeard(air[1])
         /\ UNCHANGED losses
         /\ CheckConfigChangePending(tx, Knows(air[1]))

NotHeard == /\ \/ rx.rate # tx.rate /\ UNCHANGED losses
               \/ losses < MaxLoss /\ losses' = losses + 1
            /\ CheckConfigChangePending(tx, informed)
            /\ UNCHANGED rx

TxDone ==
  /\ air # <<>>
  /\ air' = <<>>
  /\ Heard \/ NotHeard
  /\ UNCHANGED <<rateEdits, modeEdits, reboots>>

\* A unit of time. Both main loops turn many times in it, and no packet stays
\* in the transmit buffer longer than Latency.
Older(t) == IF t > -Guard THEN t - 1 ELSE t
Pass ==
  /\ tx.active \/ rx.pending
  /\ ~(rx.pending /\ rx.in <= 0)
  /\ air = <<>> => ~NeedsWindow(tx) /\ ~CommitDue(tx)
  /\ air # <<>> => air[1].age < Latency
  /\ tx' = IF tx.active THEN [tx EXCEPT !.until = Older(@)] ELSE tx
  /\ rx' = IF rx.pending THEN [rx EXCEPT !.in = @ - 1] ELSE rx
  /\ air' = IF air = <<>> THEN air ELSE <<[air[1] EXCEPT !.age = @ + 1]>>
  /\ UNCHANGED <<informed, stranded, bounds>>
-----------------------------------------------------------------------------
Init ==
  /\ tx = [cfg |-> FirstRate, cfgMode |-> FirstMode, stored |-> FirstRate,
           storedMode |-> FirstMode, modified |-> FALSE, rate |-> FirstRate,
           mode |-> FirstMode, spam |-> 0, count |-> 0, active |-> FALSE, until |-> 0]
  /\ rx = [rate |-> FirstRate, mode |-> Wide, waiting |-> NoMode,
           connected |-> FALSE, match |-> FALSE, saved |-> FirstRate,
           pending |-> FALSE, target |-> FirstRate, targetMode |-> Wide, in |-> 0]
  /\ air = <<>>
  /\ informed = "no"
  /\ stranded = FALSE
  /\ rateEdits = 0 /\ modeEdits = 0 /\ losses = 0 /\ reboots = 0

Next ==
  \/ \E r \in Rates : EditRate(r)
  \/ \E m \in Modes : EditSwitchMode(m)
  \/ SendSync
  \/ SendRc
  \/ TxLoop
  \/ TxReboot
  \/ RxLoop
  \/ RxReboot
  \/ TxDone
  \/ Pass

Spec == Init /\ [][Next]_vars

\* The handset keeps calling, the slot timer and both main loops keep running,
\* and the periodic SYNC falls due again and again whatever else is sent.
Fairness ==
  /\ WF_vars(TxLoop)
  /\ WF_vars(RxLoop)
  /\ WF_vars(TxDone)
  /\ WF_vars(Pass)
  /\ SF_vars(SendSync)
  /\ SF_vars(SendRc)

FairSpec == Spec /\ Fairness
-----------------------------------------------------------------------------
(* Properties *)

\* Type correctness of every variable; with it, that the TX never moves
\* without having stored the rate it moves to.
TypeOK ==
  /\ tx \in TxStates
  /\ tx.stored = tx.rate
  /\ rx \in RxStates
  /\ air \in Seq(Packets) /\ Len(air) <= 1
  /\ informed \in {"no", "yes", "stale"}
  /\ stranded \in BOOLEAN
  /\ rateEdits \in 0..MaxRateEdits
  /\ modeEdits \in 0..MaxModeEdits
  /\ losses \in 0..MaxLoss
  /\ reboots \in 0..MaxReboots

\* The two sides are at different rates only in the guard time of a window the
\* RX has heard of, when the RX has already moved to the rate the TX is about
\* to take; or when they are stranded: every COMMIT of a window was lost, or
\* the TX dropped a window the RX knew and the RX heard nothing in time, or a
\* side rebooted in between. The RX never moves for any other reason.
SplitExplained ==
  tx.rate # rx.rate /\ ~stranded =>
    informed = "yes" /\ tx.active /\ ~rx.pending /\ rx.rate = tx.cfg

\* The inductive strengthening of SplitExplained and ReceiverReadyForBeacon. The
\* countdown the RX runs is never later than the end of the TX's window by more
\* than what a late COMMIT and the rounding to ticks add (Latency + Tick - 1),
\* so it runs out inside the guard time; and unless the two sides are stranded,
\* an RX that counts down has heard of a window, the open one or a dropped one.
CommitOnAir == air # <<>> /\ air[1].phase = "COMMIT"
RateInv ==
  /\ tx.active => tx.modified /\ tx.spam = 0 /\ tx.cfg # tx.rate
  /\ CommitOnAir /\ tx.active =>
       air[1].rate = tx.cfg /\ air[1].delay <= tx.until + air[1].age + Tick - 1
  /\ rx.pending => rx.in >= 0
  /\ informed = "yes" => tx.active
  /\ informed = "yes" /\ rx.pending =>
       /\ rx.target = tx.cfg /\ rx.rate = tx.rate
       /\ rx.in <= tx.until + Latency + Tick - 1
  /\ informed = "yes" /\ ~rx.pending => rx.rate = tx.cfg
  /\ rx.pending /\ ~stranded => informed # "no"

\* "The receiver must finish reinitializing before the TX emits the new rate's
\* initial beacon. A late last old-rate packet can delay its timer." (tx_main.c):
\* when the TX moves at the end of a window the RX has heard of, however late
\* and however rounded the countdown was, the RX is there already.
ReceiverReadyForBeacon ==
  [][tx'.rate # tx.rate /\ informed = "yes" => rx.rate = tx'.rate]_vars

HearsRc == TxDone /\ losses' = losses /\ rx.rate = tx.rate /\ Decodes(air[1])

\* "we need to guarantee the pack and unpack functions are matched"
\* (tx_devLUA.c): the RX unpacks no RC packet in another switch mode than the
\* one the TX packed it in.
PackAndUnpackMatch == [][HearsRc => air[1].mode = rx.mode]_vars

\* A change of the configuration always gets through the announcement and the
\* commit window, however often it is edited again on the way: in the end
\* what the user set is in force on the TX.
ConfigComesIntoForce ==
  <>[](tx.rate = tx.cfg /\ tx.mode = tx.cfgMode /\ ~tx.modified)

\* Unless they are stranded, the two sides end up at one rate, in one switch
\* mode, with the RX passing channels on: no pending switch mode blocks the RC
\* packets for ever.
LinkRecovers ==
  <>[](stranded \/ (rx.rate = tx.rate /\ rx.mode = tx.mode /\ rx.waiting = NoMode
                     /\ rx.connected /\ rx.match))
=============================================================================
