------------------------- MODULE RateSwitch_proofs -------------------------
(***************************************************************************)
(* Theorems about RateSwitch, for every set of rates and modes, every      *)
(* window, guard and tick with Latency + Tick <= Guard, and every bound.   *)
(* First what each operator on the two records and on packets returns;     *)
(* then type correctness; then that RateInv is inductive, from which the   *)
(* two safety properties follow.                                           *)
(***************************************************************************)
EXTENDS RateSwitch, TLAPS

Informed == {"no", "yes", "stale"}

-----------------------------------------------------------------------------
(* Packets *)

\* A countdown rounded up to whole ticks is late by less than a tick.
LEMMA RoundedUpBounds ==
  ASSUME NEW t \in 1..Window
  PROVE  /\ RoundedUp(t) \in 0..(Window + Tick)
         /\ RoundedUp(t) >= t
         /\ RoundedUp(t) <= t + Tick - 1
<1> DEFINE n == t + Tick - 1
           q == n \div Tick
<1>1. n \in Nat /\ Tick \in Nat \ {0}
  BY TimeAssumption
<1>2. q \in Nat /\ q * Tick <= n /\ n < q * Tick + Tick
  BY <1>1
<1>3. RoundedUp(t) = q * Tick
  BY DEF RoundedUp
<1>4. q * Tick \in Nat
  BY <1>1, <1>2
<1> QED BY <1>1, <1>2, <1>3, <1>4, TimeAssumption

\* A SYNC is well typed, and a COMMIT names the rate of the open window and
\* counts down to its end, late by less than a tick.
LEMMA SyncPacketFacts ==
  ASSUME NEW t \in TxStates, t.active => t.until > 0
  PROVE  /\ SyncPacket(t) \in Packets
         /\ SyncPacket(t).age = 0
         /\ SyncPacket(t).phase = "COMMIT" =>
              /\ t.active
              /\ SyncPacket(t).rate = t.cfg
              /\ SyncPacket(t).delay <= t.until + Tick - 1
<1>1. SyncRate(t) \in Rates /\ (t.active => SyncRate(t) = t.cfg)
  BY DEF SyncRate, TxStates
<1>2. t.active => RoundedUp(t.until) \in 0..(Window + Tick)
                    /\ RoundedUp(t.until) <= t.until + Tick - 1
  BY RoundedUpBounds, TimeAssumption DEF TxStates
<1> DEFINE ph == IF SyncRate(t) = t.rate THEN "NONE"
                 ELSE IF t.active THEN "COMMIT" ELSE "PREPARE"
           de == IF t.active /\ SyncRate(t) # t.rate THEN RoundedUp(t.until) ELSE 0
<1>3. ph \in Phases /\ (ph = "COMMIT" => t.active /\ SyncRate(t) # t.rate)
  BY DEF Phases
<1>4. de \in 0..(Window + Tick)
  BY <1>2, TimeAssumption
<1>5. ph = "COMMIT" => de <= t.until + Tick - 1
  BY <1>2, <1>3
<1>6. SyncPacket(t) = [kind |-> "SYNC", rate |-> SyncRate(t), mode |-> t.cfgMode,
                       age |-> 0, phase |-> ph, delay |-> de]
  BY DEF SyncPacket
<1>7. t.cfgMode \in Modes /\ 0 \in 0..Latency
  BY TimeAssumption DEF TxStates
<1> HIDE DEF ph, de
<1> QED BY <1>1, <1>3, <1>4, <1>5, <1>6, <1>7 DEF Packets

LEMMA RcPacketFacts ==
  ASSUME NEW t \in TxStates
  PROVE  RcPacket(t) \in Packets /\ RcPacket(t).phase = "NONE" /\ RcPacket(t).age = 0
BY TimeAssumption DEF RcPacket, Packets, TxStates, Phases

-----------------------------------------------------------------------------
(* The TX *)

LEMMA SetSyncSpamFields ==
  ASSUME NEW t \in TxStates
  PROVE  /\ SetSyncSpam(t) \in TxStates
         /\ SetSyncSpam(t).cfg = t.cfg /\ SetSyncSpam(t).rate = t.rate
         /\ SetSyncSpam(t).stored = t.stored
         /\ SetSyncSpam(t).active = FALSE
<1>1. SyncSpam \in 0..SyncSpam
  BY TimeAssumption
<1>2. SetSyncSpam(t) = [t EXCEPT !.active = FALSE, !.spam = SyncSpam]
  BY DEF SetSyncSpam
<1> QED BY <1>1, <1>2 DEF TxStates

LEMMA AfterSyncFields ==
  ASSUME NEW t \in TxStates
  PROVE  /\ AfterSync(t) \in TxStates
         /\ AfterSync(t).cfg = t.cfg /\ AfterSync(t).rate = t.rate
         /\ AfterSync(t).stored = t.stored /\ AfterSync(t).modified = t.modified
         /\ AfterSync(t).active = t.active /\ AfterSync(t).until = t.until
         /\ t.spam = 0 => AfterSync(t).spam = 0
BY TimeAssumption DEF AfterSync, TxStates

\* CheckConfigChangePending opens a window, moves the TX to its configuration,
\* or does nothing.
LEMMA CheckConfigCases ==
  ASSUME NEW t \in TxStates, t.stored = t.rate, NEW heard \in Informed,
         stranded \in BOOLEAN,
         CheckConfigChangePending(t, heard)
  PROVE  /\ tx' \in TxStates /\ tx'.stored = tx'.rate
         /\ informed' \in Informed /\ stranded' \in BOOLEAN
         /\ \/ /\ NeedsWindow(t)
               /\ tx'.active /\ tx'.modified /\ tx'.spam = 0
               /\ tx'.cfg = t.cfg /\ tx'.rate = t.rate /\ tx'.until = Window
               /\ informed' = heard /\ stranded' = stranded
            \/ /\ ~NeedsWindow(t) /\ CommitDue(t)
               /\ ~tx'.active /\ tx'.cfg = t.cfg /\ tx'.rate = t.cfg
               /\ informed' = IF t.cfg = t.rate THEN heard ELSE "no"
               /\ stranded' = (stranded \/ (t.cfg # t.rate /\ heard # "yes"))
            \/ tx' = t /\ informed' = heard /\ stranded' = stranded
<1>1. CASE NeedsWindow(t)
  <2>1. tx' = [t EXCEPT !.active = TRUE, !.until = Window]
        /\ informed' = heard /\ stranded' = stranded
    BY <1>1 DEF CheckConfigChangePending
  <2>2. Window \in -Guard..Window
    BY TimeAssumption
  <2>3. tx' \in TxStates /\ tx'.stored = tx'.rate
        /\ tx'.active /\ tx'.modified = t.modified /\ tx'.spam = t.spam
        /\ tx'.cfg = t.cfg /\ tx'.rate = t.rate /\ tx'.until = Window
    BY <2>1, <2>2 DEF TxStates
  <2> QED BY <1>1, <2>1, <2>3 DEF NeedsWindow
<1>2. CASE ~NeedsWindow(t) /\ CommitDue(t)
  <2> DEFINE s == [t EXCEPT !.stored = t.cfg, !.storedMode = t.cfgMode, !.modified = FALSE]
  <2>0. /\ s \in TxStates /\ s.cfg = t.cfg /\ s.cfgMode = t.cfgMode /\ s.stored = t.cfg
    BY DEF TxStates
  <2>1. /\ tx' = [s EXCEPT !.active = FALSE, !.rate = s.cfg, !.mode = s.cfgMode]
        /\ informed' = IF t.cfg = t.rate THEN heard ELSE "no"
        /\ stranded' = (stranded \/ (t.cfg # t.rate /\ heard # "yes"))
    BY <1>2 DEF CheckConfigChangePending, SetRFLinkRate
  <2> HIDE DEF s
  <2>2. tx' \in TxStates /\ tx'.stored = tx'.rate
        /\ ~tx'.active /\ tx'.cfg = t.cfg /\ tx'.rate = t.cfg
    BY <2>0, <2>1 DEF TxStates
  <2>3. informed' \in Informed /\ stranded' \in BOOLEAN
    BY <2>1 DEF Informed
  <2> QED BY <1>2, <2>1, <2>2, <2>3
<1>3. CASE ~NeedsWindow(t) /\ ~CommitDue(t)
  BY <1>3 DEF CheckConfigChangePending
<1> QED BY <1>1, <1>2, <1>3

LEMMA DroppedTypes ==
  ASSUME informed \in Informed, stranded \in BOOLEAN, Dropped
  PROVE  informed' \in Informed /\ stranded' \in BOOLEAN /\ informed' # "yes"
BY DEF Dropped, Informed

-----------------------------------------------------------------------------
(* The RX *)

LEMMA SwitchModeFields ==
  ASSUME NEW r \in RxStates, NEW m \in Modes
  PROVE  LET s == SwitchModeFromOta(r, m) IN
         /\ s \in RxStates
         /\ s.rate = r.rate /\ s.pending = r.pending /\ s.target = r.target
         /\ s.in = r.in
<1>1. CASE r.mode = m
  BY <1>1 DEF SwitchModeFromOta, UpdateSwitchMode, RxStates
<1>2. CASE r.mode # m /\ (~r.connected \/ r.waiting = m)
  BY <1>2 DEF SwitchModeFromOta, UpdateSwitchMode, RxStates
<1>3. CASE r.mode # m /\ ~(~r.connected \/ r.waiting = m)
  BY <1>3 DEF SwitchModeFromOta, UpdateSwitchMode, RxStates
<1> QED BY <1>1, <1>2, <1>3

\* A SYNC leaves the rate in force alone; a COMMIT starts the countdown it
\* carries, any other SYNC stops the one that runs.
LEMMA FromSyncFields ==
  ASSUME NEW r \in RxStates, NEW p \in Packets
  PROVE  LET s == FromSync(r, p) IN
         /\ s \in RxStates /\ s.rate = r.rate
         /\ s.pending = (p.phase = "COMMIT")
         /\ p.phase = "COMMIT" => s.target = p.rate /\ s.in = p.delay
<1>0. p.rate \in Rates /\ p.mode \in Modes /\ p.delay \in -Latency..(Window + Tick)
  BY TimeAssumption DEF Packets
<1>1. CASE p.phase = "COMMIT"
  <2>1. FromSync(r, p) = [r EXCEPT !.pending = TRUE, !.target = p.rate,
                                   !.targetMode = p.mode, !.in = p.delay]
    BY <1>1 DEF FromSync
  <2> QED BY <1>0, <1>1, <2>1 DEF RxStates
<1>2. CASE p.phase = "PREPARE"
  <2>1. FromSync(r, p) = [r EXCEPT !.pending = FALSE]
    BY <1>2 DEF FromSync
  <2> QED BY <1>2, <2>1 DEF RxStates
<1>3. CASE p.phase # "COMMIT" /\ p.phase # "PREPARE"
  <2> DEFINE q == [r EXCEPT !.pending = FALSE]
  <2>1. q \in RxStates /\ q.rate = r.rate /\ q.pending = FALSE
    BY DEF RxStates
  <2>2. FromSync(r, p) = SwitchModeFromOta(q, p.mode)
    BY <1>3 DEF FromSync
  <2> HIDE DEF q
  <2>3. /\ SwitchModeFromOta(q, p.mode) \in RxStates
        /\ SwitchModeFromOta(q, p.mode).rate = q.rate
        /\ SwitchModeFromOta(q, p.mode).pending = q.pending
    BY <1>0, <2>1, SwitchModeFields
  <2> QED BY <1>3, <2>1, <2>2, <2>3
<1> QED BY <1>1, <1>2, <1>3

LEMMA AfterSyncHeardFields ==
  ASSUME rx \in RxStates, NEW p \in Packets
  PROVE  LET s == AfterSyncHeard(p) IN
         /\ s \in RxStates /\ s.rate = rx.rate
         /\ s.pending = (p.phase = "COMMIT")
         /\ p.phase = "COMMIT" => s.target = p.rate /\ s.in = p.delay
<1> DEFINE r == FromSync(rx, p)
           s == [TentativeConnection(r) EXCEPT !.match = TRUE]
<1>1. /\ r \in RxStates /\ r.rate = rx.rate
      /\ r.pending = (p.phase = "COMMIT")
      /\ p.phase = "COMMIT" => r.target = p.rate /\ r.in = p.delay
  BY FromSyncFields
<1>2. AfterSyncHeard(p) = IF ~r.connected \/ ~r.match THEN s ELSE r
  BY DEF AfterSyncHeard
<1> HIDE DEF r
<1>3. s \in RxStates /\ s.rate = r.rate /\ s.pending = r.pending
      /\ s.target = r.target /\ s.in = r.in
  BY <1>1 DEF TentativeConnection, RxStates
<1> HIDE DEF s
<1> QED BY <1>1, <1>2, <1>3

LEMMA AfterRcHeardFields ==
  ASSUME rx \in RxStates
  PROVE  LET s == AfterRcHeard IN
         /\ s \in RxStates /\ s.rate = rx.rate /\ s.pending = rx.pending
         /\ s.target = rx.target /\ s.in = rx.in
BY DEF AfterRcHeard, TentativeConnection, RxStates

LEMMA ApplyCommitFields ==
  ASSUME NEW r \in RxStates
  PROVE  LET s == ApplyCommit(r) IN
         s \in RxStates /\ s.rate = r.target /\ s.pending = FALSE
<1> DEFINE m == SwitchModeFromOta(r, r.targetMode)
           mo == IF m.mode # r.mode THEN m.mode ELSE Wide
<1>1. m \in RxStates
  BY SwitchModeFields DEF RxStates
<1>2. ApplyCommit(r) = [m EXCEPT !.pending = FALSE, !.connected = FALSE,
                                 !.rate = r.target, !.mode = mo]
  BY DEF ApplyCommit
<1> HIDE DEF m
<1>3. mo \in Modes
  BY <1>1, ModeAssumption DEF RxStates
<1> HIDE DEF mo
<1>4. r.target \in Rates
  BY DEF RxStates
<1> QED BY <1>1, <1>2, <1>3, <1>4 DEF RxStates

-----------------------------------------------------------------------------
(* The steps, field by field, from well-typed states *)

LEMMA OnAir ==
  ASSUME TypeOK, air # <<>>
  PROVE  air[1] \in Packets
BY DEF TypeOK

LEMMA KnowsType ==
  ASSUME NEW p, informed \in Informed
  PROVE  Knows(p) \in Informed
BY DEF Knows, Informed

LEMMA OnePacket ==
  ASSUME NEW p \in Packets
  PROVE  <<p>> \in Seq(Packets) /\ Len(<<p>>) <= 1 /\ <<p>> # <<>> /\ <<p>>[1] = p
OBVIOUS

LEMMA EditFields ==
  ASSUME TypeOK, NEW r \in Rates, EditRate(r)
  PROVE  /\ tx' \in TxStates /\ tx'.rate = tx.rate /\ tx'.stored = tx'.rate
         /\ tx'.active = FALSE
<1> DEFINE t == [tx EXCEPT !.cfg = r, !.modified = TRUE]
<1>1. t \in TxStates /\ t.rate = tx.rate /\ t.stored = tx.stored
  BY DEF TypeOK, TxStates
<1>2. tx' = SetSyncSpam(t)
  BY DEF EditRate
<1> HIDE DEF t
<1> QED BY <1>1, <1>2, SetSyncSpamFields DEF TypeOK

LEMMA EditModeFields ==
  ASSUME TypeOK, NEW m \in Modes, EditSwitchMode(m)
  PROVE  /\ tx' \in TxStates /\ tx'.rate = tx.rate /\ tx'.stored = tx'.rate
         /\ tx'.active = FALSE
<1> DEFINE t == [tx EXCEPT !.cfgMode = m, !.mode = m, !.modified = TRUE]
<1>1. t \in TxStates /\ t.rate = tx.rate /\ t.stored = tx.stored
  BY DEF TypeOK, TxStates
<1>2. tx' = SetSyncSpam(t)
  BY DEF EditSwitchMode
<1> HIDE DEF t
<1> QED BY <1>1, <1>2, SetSyncSpamFields DEF TypeOK

LEMMA SendRcFields ==
  ASSUME TypeOK, SendRc
  PROVE  /\ tx' \in TxStates /\ tx'.rate = tx.rate /\ tx'.stored = tx.stored
         /\ tx'.cfg = tx.cfg /\ tx'.active = FALSE /\ tx.active = FALSE
<1>1. tx' = [tx EXCEPT !.count = (@ + 1) % SyncEvery]
  BY DEF SendRc
<1>2. (tx.count + 1) % SyncEvery \in 0..SyncEvery - 1
  BY TimeAssumption DEF TypeOK, TxStates
<1>3. tx.active = FALSE
  BY DEF SendRc, MayRc, TypeOK, TxStates
<1> QED BY <1>1, <1>2, <1>3 DEF TypeOK, TxStates

LEMMA TxRebootFields ==
  ASSUME TypeOK, TxReboot
  PROVE  /\ tx' \in TxStates /\ tx'.rate = tx.rate /\ tx'.stored = tx'.rate
         /\ tx'.active = FALSE
<1>1. 0 \in 0..SyncSpam /\ 0 \in 0..SyncEvery - 1
  BY TimeAssumption
<1>2. tx' = [tx EXCEPT !.cfg = tx.stored, !.cfgMode = tx.storedMode,
                      !.modified = FALSE, !.rate = tx.stored, !.mode = tx.storedMode,
                      !.spam = 0, !.count = 0, !.active = FALSE]
  BY DEF TxReboot
<1> QED BY <1>1, <1>2 DEF TypeOK, TxStates

LEMMA RxRebootFields ==
  ASSUME TypeOK, RxReboot
  PROVE  rx' \in RxStates /\ rx'.rate = rx.saved /\ rx'.pending = FALSE
<1>1. rx' = [rx EXCEPT !.rate = rx.saved, !.mode = Wide, !.waiting = NoMode,
                      !.connected = FALSE, !.match = FALSE, !.pending = FALSE]
  BY DEF RxReboot
<1> QED BY <1>1, ModeAssumption DEF TypeOK, RxStates

LEMMA PassFields ==
  ASSUME TypeOK, Pass
  PROVE  /\ tx' \in TxStates /\ tx'.rate = tx.rate /\ tx'.stored = tx.stored
         /\ tx'.cfg = tx.cfg /\ tx'.active = tx.active /\ tx'.spam = tx.spam
         /\ tx'.modified = tx.modified
         /\ tx'.until = IF tx.active THEN Older(tx.until) ELSE tx.until
         /\ rx' \in RxStates /\ rx'.rate = rx.rate /\ rx'.pending = rx.pending
         /\ rx'.target = rx.target
         /\ rx'.in = IF rx.pending THEN rx.in - 1 ELSE rx.in
         /\ air = <<>> => air' = air
         /\ air # <<>> =>
              /\ air' \in Seq(Packets) /\ Len(air') <= 1
              /\ air'[1].phase = air[1].phase /\ air'[1].rate = air[1].rate
              /\ air'[1].delay = air[1].delay /\ air'[1].age = air[1].age + 1
<1>1. /\ tx' \in TxStates /\ tx'.rate = tx.rate /\ tx'.stored = tx.stored
      /\ tx'.cfg = tx.cfg /\ tx'.active = tx.active /\ tx'.spam = tx.spam
      /\ tx'.modified = tx.modified
      /\ tx'.until = IF tx.active THEN Older(tx.until) ELSE tx.until
  <2>1. Older(tx.until) \in -Guard..Window
    BY TimeAssumption DEF Older, TypeOK, TxStates
  <2>2. tx' = IF tx.active THEN [tx EXCEPT !.until = Older(tx.until)] ELSE tx
    BY DEF Pass
  <2> QED BY <2>1, <2>2 DEF TypeOK, TxStates
<1>2. /\ rx' \in RxStates /\ rx'.rate = rx.rate /\ rx'.pending = rx.pending
      /\ rx'.target = rx.target
      /\ rx'.in = IF rx.pending THEN rx.in - 1 ELSE rx.in
  <2>1. rx.pending => rx.in - 1 \in -Latency..(Window + Tick)
    <3>1. rx.pending => ~(rx.in <= 0)
      BY DEF Pass
    <3>2. rx.in \in -Latency..(Window + Tick) /\ Latency \in Nat /\ Window + Tick \in Nat
      BY TimeAssumption DEF TypeOK, RxStates
    <3> QED BY <3>1, <3>2
  <2>2. rx' = IF rx.pending THEN [rx EXCEPT !.in = rx.in - 1] ELSE rx
    BY DEF Pass
  <2> QED BY <2>1, <2>2 DEF TypeOK, RxStates
<1>3. air = <<>> => air' = air
  BY DEF Pass
<1>4. ASSUME air # <<>>
      PROVE  /\ air' \in Seq(Packets) /\ Len(air') <= 1
             /\ air'[1].phase = air[1].phase /\ air'[1].rate = air[1].rate
             /\ air'[1].delay = air[1].delay /\ air'[1].age = air[1].age + 1
  <2> DEFINE p == [air[1] EXCEPT !.age = air[1].age + 1]
  <2>1. air[1] \in Packets /\ air[1].age < Latency
    BY <1>4, OnAir DEF Pass
  <2>2. air[1].age + 1 \in 0..Latency
    BY <2>1, TimeAssumption DEF Packets
  <2>3. p \in Packets /\ p.phase = air[1].phase /\ p.rate = air[1].rate
        /\ p.delay = air[1].delay /\ p.age = air[1].age + 1
    BY <2>1, <2>2 DEF Packets
  <2>4. air' = <<p>>
    BY <1>4 DEF Pass
  <2> HIDE DEF p
  <2> QED BY <2>3, <2>4, OnePacket
<1> QED BY <1>1, <1>2, <1>3, <1>4

-----------------------------------------------------------------------------
(* Type correctness *)

LEMMA TypeInit == Init => TypeOK
<1> SUFFICES ASSUME Init PROVE TypeOK
  OBVIOUS
<1>1. /\ 0 \in 0..SyncSpam /\ 0 \in 0..SyncEvery - 1 /\ 0 \in -Guard..Window
      /\ 0 \in -Latency..(Window + Tick)
      /\ 0 \in 0..MaxRateEdits /\ 0 \in 0..MaxModeEdits /\ 0 \in 0..MaxLoss
      /\ 0 \in 0..MaxReboots
  BY TimeAssumption
<1>2. tx \in TxStates /\ tx.stored = tx.rate
  BY <1>1, RateAssumption, ModeAssumption DEF Init, TxStates
<1>3. rx \in RxStates
  BY <1>1, RateAssumption, ModeAssumption DEF Init, RxStates
<1>4. air \in Seq(Packets) /\ Len(air) <= 1
  BY DEF Init
<1> QED BY <1>1, <1>2, <1>3, <1>4 DEF Init, TypeOK

LEMMA TypeStep == TypeOK /\ [Next]_vars => TypeOK'
<1> SUFFICES ASSUME TypeOK, [Next]_vars PROVE TypeOK'
  OBVIOUS
<1> USE DEF bounds
<1>0. informed \in Informed /\ stranded \in BOOLEAN /\ tx \in TxStates
      /\ tx.stored = tx.rate /\ rx \in RxStates
  BY DEF TypeOK, Informed
<1>1. ASSUME NEW r \in Rates, EditRate(r) PROVE TypeOK'
  <2>1. rateEdits' \in 0..MaxRateEdits
    BY <1>1, TimeAssumption DEF EditRate, TypeOK
  <2> QED BY <1>0, <1>1, <2>1, EditFields, DroppedTypes DEF EditRate, TypeOK, Informed
<1>2. ASSUME NEW m \in Modes, EditSwitchMode(m) PROVE TypeOK'
  <2>1. modeEdits' \in 0..MaxModeEdits
    BY <1>2, TimeAssumption DEF EditSwitchMode, TypeOK
  <2> QED BY <1>0, <1>2, <2>1, EditModeFields, DroppedTypes
          DEF EditSwitchMode, TypeOK, Informed
<1>3. CASE SendSync
  <2>1. tx.active => tx.until > 0
    BY <1>3 DEF SendSync, MaySync
  <2>2. SyncPacket(tx) \in Packets
    BY <1>0, <2>1, SyncPacketFacts
  <2>3. tx' \in TxStates /\ tx'.stored = tx'.rate
    BY <1>0, <1>3, AfterSyncFields DEF SendSync
  <2>4. air' \in Seq(Packets) /\ Len(air') <= 1
    BY <1>3, <2>2, OnePacket DEF SendSync
  <2> QED BY <1>3, <2>3, <2>4 DEF SendSync, TypeOK
<1>4. CASE SendRc
  <2>1. air' \in Seq(Packets) /\ Len(air') <= 1
    BY <1>0, <1>4, RcPacketFacts, OnePacket DEF SendRc
  <2> QED BY <1>0, <1>4, <2>1, SendRcFields DEF SendRc, TypeOK
<1>5. CASE TxLoop
  <2>1. tx' \in TxStates /\ tx'.stored = tx'.rate
        /\ informed' \in Informed /\ stranded' \in BOOLEAN
    BY <1>0, <1>5, CheckConfigCases DEF TxLoop
  <2> QED BY <1>5, <2>1 DEF TxLoop, TypeOK, Informed
<1>6. CASE TxReboot
  <2>1. reboots' \in 0..MaxReboots
    BY <1>6, TimeAssumption DEF TxReboot, TypeOK
  <2>2. air' \in Seq(Packets) /\ Len(air') <= 1
    BY <1>6 DEF TxReboot
  <2>3. informed' \in Informed /\ stranded' \in BOOLEAN
    BY <1>0, <1>6, DroppedTypes DEF TxReboot
  <2> QED BY <1>6, <2>1, <2>2, <2>3, TxRebootFields DEF TxReboot, TypeOK, Informed
<1>7. CASE RxLoop
  <2>1. rx' \in RxStates
    BY <1>0, <1>7, ApplyCommitFields DEF RxLoop
  <2>2. stranded' \in BOOLEAN
    BY <1>7 DEF RxLoop
  <2> QED BY <1>7, <2>1, <2>2 DEF RxLoop, TypeOK
<1>8. CASE RxReboot
  <2>1. reboots' \in 0..MaxReboots
    BY <1>8, TimeAssumption DEF RxReboot, TypeOK
  <2>2. informed' \in Informed /\ stranded' \in BOOLEAN
    BY <1>8 DEF RxReboot, Informed
  <2> QED BY <1>8, <2>1, <2>2, RxRebootFields DEF RxReboot, TypeOK, Informed
<1>9. CASE TxDone
  <2>1. air # <<>> /\ air' = <<>>
    BY <1>9 DEF TxDone
  <2>2. air[1] \in Packets
    BY <2>1, OnAir
  <2>3. rx' \in RxStates
    BY <1>0, <1>9, <2>2, AfterSyncHeardFields, AfterRcHeardFields
       DEF TxDone, Heard, NotHeard
  <2>4. losses' \in 0..MaxLoss
    BY <1>9, TimeAssumption DEF TxDone, Heard, NotHeard, TypeOK
  <2>5. PICK heard \in Informed : CheckConfigChangePending(tx, heard)
    BY <1>0, <1>9, KnowsType DEF TxDone, Heard, NotHeard
  <2>6. tx' \in TxStates /\ tx'.stored = tx'.rate
        /\ informed' \in Informed /\ stranded' \in BOOLEAN
    BY <1>0, <2>5, CheckConfigCases
  <2>7. air' \in Seq(Packets) /\ Len(air') <= 1
    BY <2>1
  <2> QED BY <1>9, <2>3, <2>4, <2>6, <2>7 DEF TxDone, TypeOK, Informed
<1>10. CASE Pass
  <2>1. air' \in Seq(Packets) /\ Len(air') <= 1
    BY <1>10, PassFields DEF TypeOK
  <2> QED BY <1>0, <1>10, <2>1, PassFields DEF Pass, TypeOK
<1>11. CASE UNCHANGED vars
  BY <1>11 DEF vars, TypeOK
<1> QED BY <1>1, <1>2, <1>3, <1>4, <1>5, <1>6, <1>7, <1>8, <1>9, <1>10, <1>11 DEF Next

\* Every reachable state is well typed, and the TX moves only to a rate it
\* has stored (ConfigChangeCommit).
THEOREM TypeCorrect == Spec => []TypeOK
<1>1. Init => TypeOK
  BY TypeInit
<1>2. TypeOK /\ [Next]_vars => TypeOK'
  BY TypeStep
<1> QED BY <1>1, <1>2, PTL DEF Spec
-----------------------------------------------------------------------------
(* The safety theorems. The inductive invariant is TypeOK, RateInv and         *)
(* SplitExplained together. Its part about the two sides, Agree, is stated of  *)
(* any TX and RX record, so that a TX_DONE, in which the RX hears a packet and *)
(* the TX then looks at its configuration, is proved in two halves.            *)


\* What RateInv and SplitExplained say of a TX t, an RX r, what the RX knows
\* and whether they are stranded.
Agree(t, r, knows, lost) ==
  /\ t.active => t.modified /\ t.spam = 0 /\ t.cfg # t.rate
  /\ r.pending => r.in >= 0
  /\ knows = "yes" => t.active
  /\ knows = "yes" /\ r.pending =>
       r.target = t.cfg /\ r.rate = t.rate /\ r.in <= t.until + Latency + Tick - 1
  /\ knows = "yes" /\ ~r.pending => r.rate = t.cfg
  /\ r.pending /\ ~lost => knows # "no"
  /\ t.rate # r.rate /\ ~lost => knows = "yes" /\ ~r.pending /\ r.rate = t.cfg

\* A COMMIT on the air belongs to the open window.
AirInv ==
  CommitOnAir /\ tx.active =>
    air[1].rate = tx.cfg /\ air[1].delay <= tx.until + air[1].age + Tick - 1

LEMMA Parts ==
  RateInv /\ SplitExplained <=> AirInv /\ Agree(tx, rx, informed, stranded)
BY DEF RateInv, SplitExplained, AirInv, Agree

LEMMA PartsNext ==
  AirInv' /\ Agree(tx', rx', informed', stranded') => RateInv' /\ SplitExplained'
BY DEF RateInv, SplitExplained, AirInv, Agree, CommitOnAir

\* By the end of the guard time an RX that has heard of the window has moved:
\* this is where Latency + Tick <= Guard is needed.
LEMMA MovedInTime ==
  ASSUME NEW t \in TxStates, NEW r \in RxStates, NEW knows, NEW lost,
         Agree(t, r, knows, lost), knows = "yes", t.until <= -Guard
  PROVE  ~r.pending /\ r.rate = t.cfg
<1>1. t.until \in Int /\ r.in \in Int /\ Guard \in Nat /\ Latency \in Nat /\ Tick \in Nat
  BY TimeAssumption DEF TxStates, RxStates
<1>2. r.pending => r.in >= 0 /\ r.in <= t.until + Latency + Tick - 1
  BY DEF Agree
<1>3. ~r.pending
  BY <1>1, <1>2, GuardAssumption
<1> QED BY <1>3 DEF Agree

\* A look at the configuration keeps the two sides in agreement.
LEMMA ConfigStep ==
  ASSUME NEW t \in TxStates, t.stored = t.rate, NEW r \in RxStates,
         NEW heard \in Informed, stranded \in BOOLEAN,
         Agree(t, r, heard, stranded), CheckConfigChangePending(t, heard)
  PROVE  Agree(tx', r, informed', stranded')
<1>1. CASE /\ NeedsWindow(t)
           /\ tx'.active /\ tx'.modified /\ tx'.spam = 0
           /\ tx'.cfg = t.cfg /\ tx'.rate = t.rate /\ tx'.until = Window
           /\ informed' = heard /\ stranded' = stranded
  BY <1>1 DEF Agree, NeedsWindow
<1>2. CASE /\ ~NeedsWindow(t) /\ CommitDue(t)
           /\ ~tx'.active /\ tx'.cfg = t.cfg /\ tx'.rate = t.cfg
           /\ informed' = IF t.cfg = t.rate THEN heard ELSE "no"
           /\ stranded' = (stranded \/ (t.cfg # t.rate /\ heard # "yes"))
  <2>1. CASE t.cfg = t.rate
    BY <1>2, <2>1 DEF Agree
  <2>2. CASE t.cfg # t.rate
    <3>1. t.active /\ t.until <= -Guard
      BY <2>2, <1>2 DEF CommitDue
    <3>2. heard = "yes" => ~r.pending /\ r.rate = t.cfg
      BY <3>1, MovedInTime
    <3>3. informed' = "no" /\ (~stranded' => heard = "yes")
      BY <1>2, <2>2
    <3> QED BY <1>2, <3>2, <3>3 DEF Agree
  <2> QED BY <2>1, <2>2
<1>3. CASE tx' = t /\ informed' = heard /\ stranded' = stranded
  BY <1>3
<1> QED BY <1>1, <1>2, <1>3, CheckConfigCases

\* Dropping the window, by an edit or a reboot, keeps them in agreement: an RX
\* that has moved already is stranded, one that has not is at the TX's rate.
LEMMA DropStep ==
  ASSUME Agree(tx, rx, informed, stranded),
         stranded \in BOOLEAN, informed \in Informed,
         Dropped, tx'.active = FALSE, tx'.rate = tx.rate, rx' = rx
  PROVE  Agree(tx', rx', informed', stranded')
<1>1. CASE informed = "yes"
  BY <1>1 DEF Agree, Dropped
<1>2. CASE informed # "yes"
  BY <1>2 DEF Agree, Dropped
<1> QED BY <1>1, <1>2

SafeInv == TypeOK /\ AirInv /\ Agree(tx, rx, informed, stranded)

LEMMA SafeInit == Init => AirInv /\ Agree(tx, rx, informed, stranded)
BY DEF Init, AirInv, CommitOnAir, Agree

\* Hearing a packet on the air: the RX agrees with the TX afterwards.
LEMMA HeardStep ==
  ASSUME SafeInv, air # <<>>, Heard
  PROVE  Agree(tx, rx', Knows(air[1]), stranded)
<1> DEFINE p == air[1]
<1>1. p \in Packets
  BY OnAir DEF SafeInv
<1>2. tx \in TxStates /\ rx \in RxStates /\ rx.rate = tx.rate
      /\ Agree(tx, rx, informed, stranded) /\ informed \in Informed
  BY DEF SafeInv, TypeOK, Heard, Informed
<1>3. CASE p.kind = "RC"
  <2>1. rx' = AfterRcHeard /\ Knows(p) = informed
    BY <1>3 DEF Heard, Knows
  <2>2. /\ rx'.rate = rx.rate /\ rx'.pending = rx.pending
        /\ rx'.target = rx.target /\ rx'.in = rx.in
    BY <1>2, <2>1, AfterRcHeardFields
  <2> QED BY <1>2, <2>1, <2>2 DEF Agree
<1>4. CASE p.kind # "RC"
  <2>1. rx' = AfterSyncHeard(p)
    BY <1>4 DEF Heard
  <2>2. /\ rx'.rate = tx.rate /\ rx'.pending = (p.phase = "COMMIT")
        /\ p.phase = "COMMIT" => rx'.target = p.rate /\ rx'.in = p.delay
    BY <1>1, <1>2, <2>1, AfterSyncHeardFields
  <2>3. CASE p.phase # "COMMIT"
    <3>1. Knows(p) = "no" /\ ~rx'.pending
      BY <1>4, <2>2, <2>3 DEF Knows
    <3> QED BY <1>2, <2>2, <3>1 DEF Agree
  <2>4. CASE p.phase = "COMMIT" /\ ~tx.active
    <3>1. Knows(p) = "stale" /\ rx'.pending
      BY <1>4, <2>2, <2>4 DEF Knows
    <3>2. rx'.in >= 0
      BY <1>1, <2>2, <2>4, TimeAssumption DEF Packets
    <3> QED BY <1>2, <2>2, <2>4, <3>1, <3>2 DEF Agree
  <2>5. CASE p.phase = "COMMIT" /\ tx.active
    <3>1. Knows(p) = "yes" /\ rx'.pending
      BY <1>4, <2>2, <2>5 DEF Knows
    <3>2. p.rate = tx.cfg /\ p.delay <= tx.until + p.age + Tick - 1
      BY <2>5 DEF SafeInv, AirInv, CommitOnAir, p
    <3>3. p.delay >= 0 /\ p.age <= Latency /\ p.age \in Nat /\ p.delay \in Nat
      BY <1>1, TimeAssumption DEF Packets
    <3>4. p.delay <= tx.until + Latency + Tick - 1
      <4>1. tx.until \in Int /\ Latency \in Nat /\ Tick \in Nat
        BY <1>2, TimeAssumption DEF TxStates
      <4> HIDE DEF p
      <4> QED BY <3>2, <3>3, <4>1
    <3>5. /\ rx'.in >= 0 /\ rx'.target = tx.cfg
          /\ rx'.in <= tx.until + Latency + Tick - 1
      BY <2>2, <2>5, <3>2, <3>3, <3>4
    <3> QED BY <1>2, <2>2, <2>5, <3>1, <3>5 DEF Agree
  <2> QED BY <2>3, <2>4, <2>5
<1> QED BY <1>3, <1>4

LEMMA SafeStep == SafeInv /\ [Next]_vars => AirInv' /\ Agree(tx', rx', informed', stranded')
<1> SUFFICES ASSUME SafeInv, [Next]_vars
             PROVE  AirInv' /\ Agree(tx', rx', informed', stranded')
  OBVIOUS
<1> USE DEF bounds
<1>0. TypeOK /\ informed \in Informed /\ stranded \in BOOLEAN /\ tx \in TxStates
      /\ tx.stored = tx.rate /\ rx \in RxStates
      /\ AirInv /\ Agree(tx, rx, informed, stranded)
  BY DEF SafeInv, TypeOK, Informed
<1>1. ASSUME NEW r \in Rates, EditRate(r)
      PROVE  AirInv' /\ Agree(tx', rx', informed', stranded')
  <2>1. tx'.active = FALSE /\ tx'.rate = tx.rate
    BY <1>0, <1>1, EditFields
  <2>2. Dropped /\ rx' = rx
    BY <1>1 DEF EditRate
  <2> QED BY <1>0, <2>1, <2>2, DropStep DEF AirInv
<1>2. ASSUME NEW m \in Modes, EditSwitchMode(m)
      PROVE  AirInv' /\ Agree(tx', rx', informed', stranded')
  <2>1. tx'.active = FALSE /\ tx'.rate = tx.rate
    BY <1>0, <1>2, EditModeFields
  <2>2. Dropped /\ rx' = rx
    BY <1>2 DEF EditSwitchMode
  <2> QED BY <1>0, <2>1, <2>2, DropStep DEF AirInv
<1>3. CASE SendSync
  <2>1. /\ air' = <<SyncPacket(tx)>> /\ tx' = AfterSync(tx) /\ rx' = rx
        /\ informed' = informed /\ stranded' = stranded
        /\ tx.active => tx.until > 0
    BY <1>3 DEF SendSync, MaySync
  <2>2. /\ tx'.cfg = tx.cfg /\ tx'.rate = tx.rate /\ tx'.modified = tx.modified
        /\ tx'.active = tx.active /\ tx'.until = tx.until
        /\ tx.spam = 0 => tx'.spam = 0
    BY <1>0, <2>1, AfterSyncFields
  <2>3. /\ air'[1] = SyncPacket(tx) /\ SyncPacket(tx).age = 0
        /\ SyncPacket(tx).phase = "COMMIT" =>
             SyncPacket(tx).rate = tx.cfg /\ SyncPacket(tx).delay <= tx.until + Tick - 1
    BY <1>0, <2>1, SyncPacketFacts
  <2>4. tx.until + 0 + Tick - 1 = tx.until + Tick - 1
    BY <1>0, TimeAssumption DEF TxStates
  <2>5. AirInv'
    BY <2>2, <2>3, <2>4 DEF AirInv, CommitOnAir
  <2>6. Agree(tx', rx', informed', stranded')
    BY <1>0, <2>1, <2>2 DEF Agree
  <2> QED BY <2>5, <2>6
<1>4. CASE SendRc
  <2>1. tx'.rate = tx.rate /\ tx'.cfg = tx.cfg /\ ~tx'.active /\ ~tx.active
    BY <1>0, <1>4, SendRcFields
  <2>2. rx' = rx /\ informed' = informed /\ stranded' = stranded
    BY <1>4 DEF SendRc
  <2> QED BY <1>0, <2>1, <2>2 DEF Agree, AirInv
<1>5. CASE TxLoop
  <2>1. /\ air = <<>> /\ air' = <<>> /\ rx' = rx
        /\ CheckConfigChangePending(tx, informed)
    BY <1>5 DEF TxLoop
  <2>2. AirInv'
    BY <2>1 DEF AirInv, CommitOnAir
  <2> QED BY <1>0, <2>1, <2>2, ConfigStep
<1>6. CASE TxReboot
  <2>1. tx'.active = FALSE /\ tx'.rate = tx.rate
    BY <1>0, <1>6, TxRebootFields
  <2>2. Dropped /\ rx' = rx
    BY <1>6 DEF TxReboot
  <2> QED BY <1>0, <2>1, <2>2, DropStep DEF AirInv
<1>7. CASE RxLoop
  <2>1. /\ rx.pending /\ rx' = ApplyCommit(rx) /\ tx' = tx /\ air' = air
        /\ informed' = informed /\ stranded' = (stranded \/ informed = "stale")
    BY <1>7 DEF RxLoop
  <2>2. rx'.rate = rx.target /\ ~rx'.pending
    BY <1>0, <2>1, ApplyCommitFields
  <2>3. AirInv'
    BY <1>0, <2>1 DEF AirInv, CommitOnAir
  <2>4. Agree(tx', rx', informed', stranded')
    BY <1>0, <2>1, <2>2 DEF Agree, Informed
  <2> QED BY <2>3, <2>4
<1>8. CASE RxReboot
  <2>1. /\ tx' = tx /\ air' = air /\ informed' = "no"
        /\ stranded' = (stranded \/ rx.saved # tx.rate)
    BY <1>8 DEF RxReboot
  <2>2. rx'.rate = rx.saved /\ ~rx'.pending
    BY <1>0, <1>8, RxRebootFields
  <2>3. AirInv'
    BY <1>0, <2>1 DEF AirInv, CommitOnAir
  <2>4. Agree(tx', rx', informed', stranded')
    BY <1>0, <2>1, <2>2 DEF Agree
  <2> QED BY <2>3, <2>4
<1>9. CASE TxDone
  <2>1. air # <<>> /\ air' = <<>> /\ (Heard \/ NotHeard)
    BY <1>9 DEF TxDone
  <2>2. AirInv'
    BY <2>1 DEF AirInv, CommitOnAir
  <2>3. rx' \in RxStates
    BY <1>0, <1>9, TypeStep DEF Next, TypeOK
  <2>4. CASE Heard
    <3>1. Agree(tx, rx', Knows(air[1]), stranded)
      BY <2>1, <2>4, HeardStep
    <3>2. CheckConfigChangePending(tx, Knows(air[1])) /\ Knows(air[1]) \in Informed
      BY <1>0, <2>4, KnowsType DEF Heard
    <3> QED BY <1>0, <2>2, <2>3, <3>1, <3>2, ConfigStep
  <2>5. CASE NotHeard
    <3>1. CheckConfigChangePending(tx, informed) /\ rx' = rx
      BY <2>5 DEF NotHeard
    <3> QED BY <1>0, <2>2, <3>1, ConfigStep
  <2> QED BY <2>1, <2>4, <2>5
<1>10. CASE Pass
  <2>1. /\ informed' = informed /\ stranded' = stranded
        /\ ~(rx.pending /\ rx.in <= 0)
        /\ air # <<>> => air[1].age < Latency
    BY <1>10 DEF Pass
  <2>2. /\ tx'.rate = tx.rate /\ tx'.cfg = tx.cfg /\ tx'.active = tx.active
        /\ tx'.spam = tx.spam /\ tx'.modified = tx.modified
        /\ tx'.until = IF tx.active THEN Older(tx.until) ELSE tx.until
        /\ rx'.rate = rx.rate /\ rx'.pending = rx.pending /\ rx'.target = rx.target
        /\ rx'.in = IF rx.pending THEN rx.in - 1 ELSE rx.in
        /\ air = <<>> => air' = air
        /\ air # <<>> => /\ air'[1].phase = air[1].phase /\ air'[1].rate = air[1].rate
                         /\ air'[1].delay = air[1].delay
                         /\ air'[1].age = air[1].age + 1
    BY <1>0, <1>10, PassFields
  <2>3. /\ tx.until \in Int /\ rx.in \in Int /\ Guard \in Nat /\ Latency \in Nat
        /\ Tick \in Nat /\ tx.until >= -Guard
    BY <1>0, TimeAssumption DEF TxStates, RxStates
  <2>4. AirInv'
    <3> SUFFICES ASSUME CommitOnAir', tx'.active
                 PROVE  (air[1].rate = tx.cfg
                          /\ air[1].delay <= tx'.until + (air[1].age + 1) + Tick - 1)
      BY <2>2 DEF AirInv, CommitOnAir
    <3>1. air # <<>> /\ CommitOnAir /\ tx.active
      BY <2>2 DEF CommitOnAir
    <3>2. air[1].rate = tx.cfg /\ air[1].delay <= tx.until + air[1].age + Tick - 1
      BY <1>0, <3>1 DEF AirInv
    <3>3. air[1].delay \in Nat /\ air[1].age \in Nat /\ air[1].age < Latency
      BY <1>0, <2>1, <3>1, OnAir, TimeAssumption DEF Packets
    <3>4. tx.until > -Guard
      BY <2>3, <3>2, <3>3, GuardAssumption
    <3>5. tx'.until = tx.until - 1
      BY <2>2, <3>1, <3>4 DEF Older
    <3> QED BY <2>3, <3>2, <3>3, <3>5
  <2>5. informed = "yes" /\ rx.pending =>
          tx.until > -Guard /\ tx'.until = tx.until - 1
    <3> SUFFICES ASSUME informed = "yes", rx.pending
                 PROVE  tx.until > -Guard /\ tx'.until = tx.until - 1
      OBVIOUS
    <3>1. rx.in > 0 /\ rx.in <= tx.until + Latency + Tick - 1 /\ tx.active
      BY <1>0, <2>1, <2>3 DEF Agree
    <3>2. tx.until > -Guard
      BY <2>3, <3>1, GuardAssumption
    <3> QED BY <2>2, <3>1, <3>2 DEF Older
  <2>6. rx'.pending => rx'.in >= 0
    BY <2>1, <2>2, <2>3
  <2>7. informed' = "yes" /\ rx'.pending =>
          rx'.target = tx'.cfg /\ rx'.rate = tx'.rate
          /\ rx'.in <= tx'.until + Latency + Tick - 1
    <3> SUFFICES ASSUME informed = "yes", rx.pending
                 PROVE  rx.target = tx.cfg /\ rx.rate = tx.rate
                        /\ rx.in - 1 <= (tx.until - 1) + Latency + Tick - 1
      BY <2>1, <2>2, <2>5
    <3> QED BY <1>0, <2>3 DEF Agree
  <2>8. Agree(tx', rx', informed', stranded')
    BY <1>0, <2>1, <2>2, <2>6, <2>7 DEF Agree
  <2> QED BY <2>4, <2>8
<1>11. CASE UNCHANGED vars
  BY <1>0, <1>11 DEF vars, AirInv, CommitOnAir
<1> QED BY <1>1, <1>2, <1>3, <1>4, <1>5, <1>6, <1>7, <1>8, <1>9, <1>10, <1>11 DEF Next

\* The strengthening is an invariant of every instance.
THEOREM RateInvariant == Spec => [](TypeOK /\ RateInv /\ SplitExplained)
<1>1. Init => SafeInv
  BY TypeInit, SafeInit DEF SafeInv
<1>2. SafeInv /\ [Next]_vars => SafeInv'
  <2> SUFFICES ASSUME SafeInv, [Next]_vars PROVE SafeInv'
    OBVIOUS
  <2>1. TypeOK'
    BY TypeStep DEF SafeInv
  <2>2. AirInv' /\ Agree(tx', rx', informed', stranded')
    BY SafeStep
  <2> QED BY <2>1, <2>2 DEF SafeInv, Agree
<1>3. SafeInv => TypeOK /\ RateInv /\ SplitExplained
  BY Parts DEF SafeInv
<1> QED BY <1>1, <1>2, <1>3, PTL DEF Spec

\* The two sides part only in the guard time of a window the RX has heard of,
\* or stranded.
THEOREM SplitsAreExplained == Spec => []SplitExplained
BY RateInvariant, PTL

\* When the TX moves at the end of a window the RX has heard of, the RX is
\* at the new rate already, for every window, tick, latency and guard with
\* Latency + Tick <= Guard.
LEMMA ReadyStep ==
  ASSUME TypeOK, RateInv, [Next]_vars, tx'.rate # tx.rate, informed = "yes"
  PROVE  rx.rate = tx'.rate
<1>1. tx \in TxStates /\ tx.stored = tx.rate /\ rx \in RxStates
  BY DEF TypeOK
<1>2. ASSUME NEW heard, CheckConfigChangePending(tx, heard)
      PROVE  tx'.rate = tx.cfg /\ CommitDue(tx)
  <2>1. CASE NeedsWindow(tx)
    BY <1>1, <1>2, <2>1 DEF CheckConfigChangePending, TxStates
  <2>2. CASE ~NeedsWindow(tx) /\ CommitDue(tx)
    BY <1>1, <1>2, <2>2 DEF CheckConfigChangePending, SetRFLinkRate, TxStates
  <2>3. CASE ~NeedsWindow(tx) /\ ~CommitDue(tx)
    BY <1>2, <2>3 DEF CheckConfigChangePending
  <2> QED BY <2>1, <2>2, <2>3
<1>3. \E heard : CheckConfigChangePending(tx, heard)
  <2>1. ASSUME NEW r \in Rates, EditRate(r) PROVE FALSE
    BY <2>1, EditFields
  <2>2. ASSUME NEW m \in Modes, EditSwitchMode(m) PROVE FALSE
    BY <2>2, EditModeFields
  <2>3. CASE SendSync
    BY <1>1, <2>3, AfterSyncFields DEF SendSync
  <2>4. CASE SendRc
    BY <2>4, SendRcFields
  <2>5. CASE TxLoop
    BY <2>5 DEF TxLoop
  <2>6. CASE TxReboot
    BY <2>6, TxRebootFields
  <2>7. CASE RxLoop \/ RxReboot
    BY <2>7 DEF RxLoop, RxReboot
  <2>8. CASE TxDone
    BY <2>8 DEF TxDone, Heard, NotHeard
  <2>9. CASE Pass
    BY <2>9, PassFields
  <2>10. CASE UNCHANGED vars
    BY <2>10 DEF vars
  <2> QED BY <2>1, <2>2, <2>3, <2>4, <2>5, <2>6, <2>7, <2>8, <2>9, <2>10 DEF Next
<1>4. tx'.rate = tx.cfg /\ CommitDue(tx)
  BY <1>2, <1>3
<1>5. tx.active /\ tx.until <= -Guard
  BY <1>4 DEF CommitDue
<1>6. /\ tx.until \in Int /\ rx.in \in Int /\ Guard \in Nat /\ Latency \in Nat
      /\ Tick \in Nat
  BY <1>1, TimeAssumption DEF TxStates, RxStates
<1>7. rx.pending => rx.in >= 0 /\ rx.in <= tx.until + Latency + Tick - 1
  BY DEF RateInv
<1>8. ~rx.pending
  BY <1>5, <1>6, <1>7, GuardAssumption
<1> QED BY <1>4, <1>8 DEF RateInv

THEOREM ReceiverIsReady == Spec => ReceiverReadyForBeacon
<1>1. TypeOK /\ RateInv /\ [Next]_vars =>
        [tx'.rate # tx.rate /\ informed = "yes" => rx.rate = tx'.rate]_vars
  BY ReadyStep
<1>2. Spec => [](TypeOK /\ RateInv /\ SplitExplained)
  BY RateInvariant
<1> QED BY <1>1, <1>2, PTL DEF Spec, ReceiverReadyForBeacon
=============================================================================
