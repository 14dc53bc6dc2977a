------------------------------ MODULE TxRadio ------------------------------
(***************************************************************************)
(* The transmitter's radio device. The program keeps the air rate, the     *)
(* telemetry ratio, binding mode and the power it wants, and raises flags  *)
(* and one device event; the device turns them into a start of the PHY or  *)
(* a new gain. Several of them may be up when the event is taken. A new    *)
(* telemetry ratio alone is put off until a whole cycle of the old one has *)
(* passed.                                                                 *)
(*                                                                         *)
(* Dynamic power works out of the telemetry that arrives: its inputs are   *)
(* the classes the code compares them with. No air rate of the table has   *)
(* SNR thresholds, so that the branch of dynpower.c for them is dead.      *)
(***************************************************************************)
EXTENDS Integers

CONSTANTS
  TxRates, BindRate, Denoms, StdDenom,  \* air rates, ratios, the rate's own ratio
  TxMaxPower,                           \* power levels are 0 .. TxMaxPower
  RssiCnt                               \* readings in a mean

ASSUME TxRadioAssumption ==
  /\ BindRate \in TxRates /\ StdDenom \in [TxRates -> Denoms]
  /\ TxMaxPower \in Nat /\ RssiCnt \in Nat \ {0}

VARIABLES
  txWant,    \* what the program wants of the PHY
  txPhy,     \* what the PHY was last told, and whether it runs
  txFlags,   \* the device event, its flags, and the ratio change put off
  txConfig,  \* the stored settings that matter here
  readings   \* the readings in the RSSI mean

txRadioVars == <<txWant, txPhy, txFlags, txConfig, readings>>

Powers == 0 .. TxMaxPower
Wants == [rate : TxRates, denom : Denoms, binding : BOOLEAN, power : Powers]
PhyStates == [on : BOOLEAN, rate : TxRates, denom : Denoms, binding : BOOLEAN, power : Powers]
Flags == {"event", "power", "lost", "doing", "ratio"}   \* ratio: a change is put off
Running(w) == [on |-> TRUE, rate |-> w.rate, denom |-> w.denom, binding |-> w.binding,
               power |-> w.power]
Raise(f, names) == [x \in DOMAIN f |-> IF x \in names THEN TRUE ELSE f[x]]
Lower(f, names) == [x \in DOMAIN f |-> IF x \in names THEN FALSE ELSE f[x]]
-----------------------------------------------------------------------------
(* devRadioTx.c *)

\* initialize and start: the whole PHY, and the put-off ratio with it. A PHY that
\* reports an error stays off.
Restart(flags) ==
  /\ txFlags' = Lower(flags, {"ratio"})
  /\ txPhy' \in {Running(txWant), [txPhy EXCEPT !.on = FALSE]}

\* Mutant of TxEvent: the power is looked at first, and its event is then used up.
TxEventPowerFirst ==
  /\ txFlags.event
  /\ LET flags == Lower(txFlags, {"event", "power"})
     IN IF txFlags.power
        THEN txPhy' = [txPhy EXCEPT !.power = txWant.power] /\ txFlags' = flags
        ELSE IF txWant.binding \/ txFlags.doing \/ txFlags.lost
        THEN Restart([Lower(flags, {"lost"}) EXCEPT !.doing = txWant.binding])
        ELSE txFlags' = flags /\ UNCHANGED txPhy
  /\ UNCHANGED <<txWant, txConfig, readings>>

\* event(): binding, the way out of it, and a lost signal each start the PHY again,
\* which applies the power too.
TxEvent ==
  /\ txFlags.event
  /\ IF txWant.binding \/ txFlags.doing \/ txFlags.lost
     THEN Restart([Lower(txFlags, {"event", "power", "lost"}) EXCEPT !.doing = txWant.binding])
     ELSE /\ txFlags' = Lower(txFlags, {"event", "power"})
          /\ txPhy' = IF txFlags.power THEN [txPhy EXCEPT !.power = txWant.power] ELSE txPhy
  /\ UNCHANGED <<txWant, txConfig, readings>>

\* timeout(): the time of the put-off ratio has come.
RatioDue ==
  /\ txFlags.ratio
  /\ txFlags' = Raise(Lower(txFlags, {"ratio"}), {"lost", "event"})
  /\ UNCHANGED <<txWant, txPhy, txConfig, readings>>

\* UpdateTlmRatioEffective and DevRadioTx_RequestTlmRatioChange. The next ratio
\* comes from the settings, the arming and the boost.
UpdateTlmRatio(d) ==
  /\ ~txWant.binding /\ txWant.denom # d
  /\ txWant' = [txWant EXCEPT !.denom = d]
  /\ txFlags' = Raise(txFlags, {"ratio", "event"})
  /\ UNCHANGED <<txPhy, txConfig, readings>>
-----------------------------------------------------------------------------
(* tx_main.c *)

\* SendRCdataToRF gives a packet up after half a second; loop tries again every
\* five seconds without a link; both leave it to the device, at any time here.
LostSignal ==
  /\ txFlags' = Raise(txFlags, {"lost", "event"})
  /\ UNCHANGED <<txWant, txPhy, txConfig, readings>>

EnterBinding ==
  /\ ~txWant.binding
  /\ txWant' = [txWant EXCEPT !.binding = TRUE, !.rate = BindRate, !.denom = StdDenom[BindRate]]
  /\ txFlags' = Raise(txFlags, {"event"})
  /\ UNCHANGED <<txPhy, txConfig, readings>>

\* ExitBindingMode, once the bind packets of the mode are out.
ExitBinding ==
  /\ txWant.binding /\ txPhy.on /\ txPhy.binding
  /\ txWant' = [txWant EXCEPT !.binding = FALSE, !.rate = txConfig.rate,
                              !.denom = StdDenom[txConfig.rate]]
  /\ txFlags' = Raise(txFlags, {"event"})
  /\ UNCHANGED <<txPhy, txConfig, readings>>

\* ConfigChangeCommit and ChangeRadioParams, after the announcements.
ChangeRadioParams(d) ==
  /\ ~txWant.binding
  /\ txWant' = IF txConfig.rate = txWant.rate THEN txWant
               ELSE [txWant EXCEPT !.rate = txConfig.rate, !.denom = d]
  /\ txFlags' = Raise(txFlags, {"lost", "event"})
  /\ UNCHANGED <<txPhy, txConfig, readings>>

SetRate(r) ==
  /\ txConfig.rate # r /\ txConfig' = [txConfig EXCEPT !.rate = r]
  /\ UNCHANGED <<txWant, txPhy, txFlags, readings>>

\* A receiver update (RxOtaSender): it takes the PHY over, and loop starts the
\* device again when it is over; one that cannot be started may have closed it.
RxOta ==
  /\ txPhy' = [txPhy EXCEPT !.on = FALSE]
  /\ txFlags' = Raise(txFlags, {"lost", "event"})
  /\ UNCHANGED <<txWant, txConfig, readings>>
RxOtaNotStarted ==
  /\ txPhy' = [txPhy EXCEPT !.on = FALSE]
  /\ UNCHANGED <<txWant, txFlags, txConfig, readings>>
-----------------------------------------------------------------------------
(* POWERMGNT.c, dynpower.c and the power settings of tx_devLUA.c *)

SetPower(p) ==
  /\ txWant' = [txWant EXCEPT !.power = p]
  /\ txFlags' = IF p = txWant.power THEN txFlags ELSE Raise(txFlags, {"power", "event"})

Increased(p) == IF p < TxMaxPower THEN p + 1 ELSE p
Decreased(p) == IF p > 0 THEN p - 1 ELSE p
FullMean == readings + 1 >= RssiCnt

Readings == [rssi : {"overload", "between", "weak"}, meanLow : BOOLEAN,
             lq : {"critical", "low", "good"}]

\* DynamicPower_Update without new telemetry: a boost (the switch, or armed without
\* a link), or one more interval missed while armed.
PowerUnheard(boost, missed) ==
  LET p == txWant.power
  IN IF ~txConfig.dynamic THEN p
     ELSE IF boost THEN txConfig.power
     ELSE IF missed /\ txConfig.power > p THEN Increased(p) ELSE p

\* Mutant of PowerByReadings: both reasons raise it, in one update.
PowerByReadingsTwice(p, t) ==
  LET headroom == txConfig.power > p
      byRssi == IF FullMean /\ t.meanLow /\ headroom THEN Increased(p) ELSE p
  IN IF headroom /\ t.lq = "low" THEN Increased(byRssi) ELSE byRssi

\* The mean of the RSSI first; the link quality only if that did nothing.
PowerByReadings(p, t) ==
  LET headroom == txConfig.power > p
      byRssi == IF FullMean /\ t.meanLow /\ headroom THEN Increased(p) ELSE p
  IN IF headroom /\ byRssi = p /\ t.lq = "low" THEN Increased(p) ELSE byRssi

\* With new telemetry. An overloaded receiver lowers the power in every mode.
PowerHeard(boost, t) ==
  LET p == IF t.rssi = "overload" THEN Decreased(txWant.power) ELSE txWant.power
  IN IF ~txConfig.dynamic
     THEN IF t.rssi = "weak" /\ p < txConfig.power THEN txConfig.power ELSE p
     ELSE IF boost \/ t.lq = "critical" THEN txConfig.power
     ELSE PowerByReadings(p, t)

CountsReading(boost, t) ==
  txConfig.dynamic /\ ~boost /\ t.lq # "critical"

DynamicPowerUnheard(boost, missed) ==
  /\ SetPower(PowerUnheard(boost, missed))
  /\ UNCHANGED <<txPhy, txConfig, readings>>

DynamicPowerHeard(boost, t) ==
  \* a reading nothing looks at is taken once
  /\ t.meanLow => FullMean /\ CountsReading(boost, t)
  /\ boost \/ ~txConfig.dynamic => t.lq = "good"
  /\ SetPower(PowerHeard(boost, t))
  /\ readings' = IF ~CountsReading(boost, t) THEN readings ELSE IF FullMean THEN 0 ELSE readings + 1
  /\ UNCHANGED <<txPhy, txConfig>>

\* luaparamSetPower and ResetPower: while armed the power never comes down.
EditPower(p, armed) ==
  /\ txConfig.power # p
  /\ txConfig' = [txConfig EXCEPT !.power = p]
  /\ SetPower(IF ~txConfig.dynamic THEN p
              ELSE IF ~armed THEN 0
              ELSE IF txWant.power < p THEN p ELSE txWant.power)
  /\ UNCHANGED <<txPhy, readings>>

EditDynamicPower ==
  /\ txConfig' = [txConfig EXCEPT !.dynamic = ~@]
  /\ UNCHANGED <<txWant, txPhy, txFlags, readings>>
-----------------------------------------------------------------------------
\* setup: the power is set first, then the radio's parameters; the device starts
\* with them and starts once more at its first event.
TxRadioInit ==
  /\ txConfig \in [rate : TxRates, power : Powers, dynamic : BOOLEAN]
  /\ txWant = [rate |-> txConfig.rate, denom |-> StdDenom[txConfig.rate], binding |-> FALSE,
               power |-> IF txConfig.dynamic THEN 0 ELSE txConfig.power]
  /\ txPhy = Running(txWant)
  /\ txFlags = [x \in Flags |-> x \in {"event", "power", "lost"}]
  /\ readings = 0

TxRadioNext ==
  \/ TxEvent \/ RatioDue \/ LostSignal \/ EnterBinding \/ ExitBinding
  \/ RxOta \/ RxOtaNotStarted \/ EditDynamicPower
  \/ \E d \in Denoms : UpdateTlmRatio(d) \/ ChangeRadioParams(d)
  \/ \E r \in TxRates : SetRate(r)
  \/ \E p \in Powers, a \in BOOLEAN : EditPower(p, a)
  \/ \E b, m \in BOOLEAN : DynamicPowerUnheard(b, m)
  \/ \E b \in BOOLEAN, t \in Readings : DynamicPowerHeard(b, t)

TxRadioSpec == TxRadioInit /\ [][TxRadioNext]_txRadioVars
-----------------------------------------------------------------------------
\* The variables hold values of their types.
TxRadioTypeOK ==
  /\ txWant \in Wants
  /\ txPhy \in PhyStates
  /\ txFlags \in [Flags -> BOOLEAN]
  /\ txConfig \in [rate : TxRates, power : Powers, dynamic : BOOLEAN]
  /\ readings \in 0 .. RssiCnt - 1

\* Whatever changes came together, once the device has taken its event a running
\* PHY has the rate, the mode and the power the program wants, and the ratio unless
\* its change is still put off (devRadioTx.c: coalescing must not strand a change).
TxRadioFollows ==
  txPhy.on /\ ~txFlags.event =>
    /\ txPhy.rate = txWant.rate /\ txPhy.binding = txWant.binding /\ txPhy.power = txWant.power
    /\ txPhy.denom = txWant.denom \/ txFlags.ratio

\* The power is never raised beyond the one the user has set, however many reasons
\* to raise it one update of dynamic power finds.
PowerCapped == [][txWant'.power > txWant.power => txWant'.power <= txConfig'.power]_txRadioVars
=============================================================================
