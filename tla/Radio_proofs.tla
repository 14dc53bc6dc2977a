---------------------------- MODULE Radio_proofs ----------------------------
(***************************************************************************)
(* The settings of both devices and the radios that follow them. Whatever  *)
(* changes the program asks for at once, the radio device of either side   *)
(* carries them out; dynamic power stays below the power the user has set, *)
(* and the receiver's serial output marks as failsafe what it writes       *)
(* without a link. What a restart comes up with is what the device runs    *)
(* with unless something is marked as still to be stored, the menus show   *)
(* it unless an event waits to redraw them, and no request to the          *)
(* receiver's menu is overtaken. For any rates, ratios, power levels,      *)
(* settings, values and models.                                            *)
(***************************************************************************)
EXTENDS TxRadio, RxDevices, TxMenu, RxMenu, TLAPS

(* The transmitter *)

\* The device will start the PHY again when it takes its event.
Restarts == txFlags.event /\ (txWant.binding \/ txFlags.doing \/ txFlags.lost)

\* Why a running PHY may differ from what is wanted: in each point a flag is up that
\* leads to the repair. _doing remembers a start for binding, by which the way out of
\* binding is noticed.
TxRadioInv ==
  txPhy.on =>
    /\ txPhy.binding => txFlags.doing
    /\ txPhy.rate = txWant.rate \/ Restarts
    /\ txPhy.binding = txWant.binding \/ Restarts
    /\ txPhy.power = txWant.power \/ (txFlags.event /\ txFlags.power) \/ Restarts
    /\ txPhy.denom = txWant.denom \/ txFlags.ratio \/ Restarts

LEMMA RunningType ==
  ASSUME NEW w \in Wants
  PROVE  Running(w) \in PhyStates
BY DEF Running, Wants, PhyStates

-----------------------------------------------------------------------------
(* Dynamic power stays in the range of levels *)

LEMMA StepType ==
  ASSUME NEW p \in Powers
  PROVE  /\ Increased(p) \in Powers /\ Increased(p) \in {p, p + 1}
         /\ Decreased(p) \in Powers /\ Decreased(p) <= p
BY TxRadioAssumption DEF Increased, Decreased, Powers

\* What dynamic power asks for is a level, and no more than the setting unless it is
\* the level already in use.
LEMMA UnheardBelow ==
  ASSUME TxRadioTypeOK, NEW boost \in BOOLEAN, NEW missed \in BOOLEAN
  PROVE  /\ PowerUnheard(boost, missed) \in Powers
         /\ PowerUnheard(boost, missed) <= txWant.power \/ PowerUnheard(boost, missed) <= txConfig.power
<1>1. txWant.power \in Powers /\ txConfig.power \in Powers
  BY DEF TxRadioTypeOK, Wants
<1>2. Increased(txWant.power) \in Powers /\ Increased(txWant.power) \in {txWant.power, txWant.power + 1}
  BY <1>1, StepType
<1>3. PowerUnheard(boost, missed) \in {txWant.power, txConfig.power}
      \/ (PowerUnheard(boost, missed) = Increased(txWant.power) /\ txConfig.power > txWant.power)
  BY DEF PowerUnheard
<1> QED BY <1>1, <1>2, <1>3, TxRadioAssumption DEF Powers

LEMMA ByReadingsBelow ==
  ASSUME TxRadioTypeOK, NEW p \in Powers, NEW t \in Readings
  PROVE  /\ PowerByReadings(p, t) \in Powers
         /\ PowerByReadings(p, t) = p \/ PowerByReadings(p, t) <= txConfig.power
<1>1. txConfig.power \in Powers
  BY DEF TxRadioTypeOK
<1>2. Increased(p) \in Powers /\ Increased(p) \in {p, p + 1}
  BY StepType
<1>3. PowerByReadings(p, t) = p \/ (PowerByReadings(p, t) = Increased(p) /\ txConfig.power > p)
  BY DEF PowerByReadings
<1> QED BY <1>1, <1>2, <1>3, TxRadioAssumption DEF Powers

LEMMA HeardBelow ==
  ASSUME TxRadioTypeOK, NEW boost \in BOOLEAN, NEW t \in Readings
  PROVE  /\ PowerHeard(boost, t) \in Powers
         /\ PowerHeard(boost, t) <= txWant.power \/ PowerHeard(boost, t) <= txConfig.power
<1> DEFINE p == IF t.rssi = "overload" THEN Decreased(txWant.power) ELSE txWant.power
<1>1. txWant.power \in Powers /\ txConfig.power \in Powers
  BY DEF TxRadioTypeOK, Wants
<1>2. p \in Powers /\ p <= txWant.power
  BY <1>1, StepType DEF Powers
<1>3. PowerHeard(boost, t) \in {p, txConfig.power} \/ PowerHeard(boost, t) = PowerByReadings(p, t)
  BY DEF PowerHeard
<1>4. /\ PowerByReadings(p, t) \in Powers
      /\ PowerByReadings(p, t) = p \/ PowerByReadings(p, t) <= txConfig.power
  BY <1>2, ByReadingsBelow
<1> HIDE DEF p
<1> QED BY <1>1, <1>2, <1>3, <1>4, TxRadioAssumption DEF Powers
-----------------------------------------------------------------------------
(* Types *)

\* A start leaves a PHY that runs as wanted, or is off.
LEMMA RestartType ==
  ASSUME TxRadioTypeOK, NEW f \in [Flags -> BOOLEAN], Restart(f)
  PROVE  txFlags' \in [Flags -> BOOLEAN] /\ txPhy' \in PhyStates
<1>1. txFlags' \in [Flags -> BOOLEAN]
  BY DEF Raise, Lower, Restart
<1>2. Running(txWant) \in PhyStates
  BY RunningType DEF TxRadioTypeOK
<1>3. [txPhy EXCEPT !.on = FALSE] \in PhyStates
  BY DEF TxRadioTypeOK, PhyStates
<1> QED BY <1>1, <1>2, <1>3 DEF Restart

LEMMA SetPowerType ==
  ASSUME TxRadioTypeOK, NEW p \in Powers, SetPower(p)
  PROVE  /\ txWant' = [txWant EXCEPT !.power = p] /\ txWant' \in Wants
         /\ txFlags' \in [Flags -> BOOLEAN]
<1>1. txWant' = [txWant EXCEPT !.power = p]
  BY DEF SetPower
<1>2. txWant' \in Wants
  BY <1>1 DEF TxRadioTypeOK, Wants
<1>3. txFlags' \in [Flags -> BOOLEAN]
  BY DEF TxRadioTypeOK, Raise, Lower, SetPower
<1> QED BY <1>1, <1>2, <1>3

LEMMA InitType == TxRadioInit => TxRadioTypeOK
<1> SUFFICES ASSUME TxRadioInit PROVE TxRadioTypeOK
  OBVIOUS
<1>1. txConfig \in [rate : TxRates, power : Powers, dynamic : BOOLEAN]
  BY TxRadioAssumption DEF TxRadioInit, Powers
<1>2. txWant \in Wants
  BY <1>1, TxRadioAssumption DEF TxRadioInit, Wants, Powers
<1>3. txPhy \in PhyStates
  BY <1>2, RunningType DEF TxRadioInit
<1>4. txFlags \in [Flags -> BOOLEAN] /\ readings \in 0 .. RssiCnt - 1
  BY TxRadioAssumption DEF TxRadioInit, Flags
<1> QED BY <1>1, <1>2, <1>3, <1>4 DEF TxRadioTypeOK

LEMMA NextType == TxRadioTypeOK /\ [TxRadioNext]_txRadioVars => TxRadioTypeOK'
<1> SUFFICES ASSUME TxRadioTypeOK, [TxRadioNext]_txRadioVars PROVE TxRadioTypeOK'
  OBVIOUS
<1> DEFINE RadioConfigs == [rate : TxRates, power : Powers, dynamic : BOOLEAN]
<1>0. /\ txWant \in Wants /\ txPhy \in PhyStates /\ txFlags \in [Flags -> BOOLEAN]
      /\ txConfig \in RadioConfigs /\ readings \in 0 .. RssiCnt - 1
  BY DEF TxRadioTypeOK
<1> SUFFICES /\ txWant' \in Wants /\ txPhy' \in PhyStates /\ txFlags' \in [Flags -> BOOLEAN]
             /\ txConfig' \in RadioConfigs /\ readings' \in 0 .. RssiCnt - 1
  BY DEF TxRadioTypeOK
<1>1. CASE TxEvent
  <2>1. CASE txWant.binding \/ txFlags.doing \/ txFlags.lost
    <3> DEFINE f == [Lower(txFlags, {"event", "power", "lost"}) EXCEPT !.doing = txWant.binding]
    <3>1. f \in [Flags -> BOOLEAN]
      BY <1>0 DEF Raise, Lower, Wants, Flags
    <3>2. Restart(f)
      BY <1>1, <2>1 DEF TxEvent
    <3> HIDE DEF f
    <3> QED BY <1>0, <1>1, <3>1, <3>2, RestartType DEF TxEvent
  <2>2. CASE ~(txWant.binding \/ txFlags.doing \/ txFlags.lost)
    <3>1. txFlags' \in [Flags -> BOOLEAN]
      BY <1>0, <1>1, <2>2 DEF Raise, Lower, TxEvent
    <3>2. txPhy' \in PhyStates
      BY <1>0, <1>1, <2>2 DEF TxEvent, PhyStates, Wants
    <3> QED BY <1>0, <1>1, <3>1, <3>2 DEF TxEvent
  <2> QED BY <2>1, <2>2
<1>2. CASE RatioDue
  BY <1>0, <1>2 DEF Raise, Lower, RatioDue
<1>3. ASSUME NEW d \in Denoms, UpdateTlmRatio(d) PROVE TxRadioTypeOK'
  <2>1. txWant' \in Wants
    BY <1>0, <1>3 DEF UpdateTlmRatio, Wants
  <2>2. txFlags' \in [Flags -> BOOLEAN]
    BY <1>0, <1>3 DEF Raise, Lower, UpdateTlmRatio
  <2> QED BY <1>0, <1>3, <2>1, <2>2 DEF UpdateTlmRatio, TxRadioTypeOK
<1>4. CASE LostSignal
  BY <1>0, <1>4 DEF Raise, Lower, LostSignal
<1>5. CASE EnterBinding
  <2>1. txWant' \in Wants
    BY <1>0, <1>5, TxRadioAssumption DEF EnterBinding, Wants
  <2> QED BY <1>0, <1>5, <2>1 DEF Raise, Lower, EnterBinding
<1>6. CASE ExitBinding
  <2>1. txWant' \in Wants
    BY <1>0, <1>6, TxRadioAssumption DEF ExitBinding, Wants
  <2> QED BY <1>0, <1>6, <2>1 DEF Raise, Lower, ExitBinding
<1>7. ASSUME NEW d \in Denoms, ChangeRadioParams(d) PROVE TxRadioTypeOK'
  <2>1. txWant' \in Wants
    BY <1>0, <1>7 DEF ChangeRadioParams, Wants
  <2>2. txFlags' \in [Flags -> BOOLEAN]
    BY <1>0, <1>7 DEF Raise, Lower, ChangeRadioParams
  <2> QED BY <1>0, <1>7, <2>1, <2>2 DEF ChangeRadioParams, TxRadioTypeOK
<1>8. ASSUME NEW r \in TxRates, SetRate(r) PROVE TxRadioTypeOK'
  BY <1>0, <1>8 DEF SetRate, TxRadioTypeOK
<1>9. CASE RxOta \/ RxOtaNotStarted
  <2>1. txPhy' \in PhyStates
    BY <1>0, <1>9 DEF RxOta, RxOtaNotStarted, PhyStates
  <2>2. txFlags' \in [Flags -> BOOLEAN]
    BY <1>0, <1>9 DEF Raise, Lower, RxOta, RxOtaNotStarted
  <2> QED BY <1>0, <1>9, <2>1, <2>2 DEF RxOta, RxOtaNotStarted
<1>10. ASSUME NEW p \in Powers, NEW a \in BOOLEAN, EditPower(p, a) PROVE TxRadioTypeOK'
  <2> DEFINE q == IF ~txConfig.dynamic THEN p
                  ELSE IF ~a THEN 0 ELSE IF txWant.power < p THEN p ELSE txWant.power
  <2>1. q \in Powers
    BY <1>0, TxRadioAssumption DEF Powers, Wants
  <2>2. SetPower(q) /\ txConfig' = [txConfig EXCEPT !.power = p] /\ UNCHANGED <<txPhy, readings>>
    BY <1>10 DEF EditPower
  <2> HIDE DEF q
  <2>3. txWant' \in Wants /\ txFlags' \in [Flags -> BOOLEAN]
    BY <2>1, <2>2, SetPowerType
  <2>4. txConfig' \in RadioConfigs
    BY <1>0, <2>2
  <2> QED BY <1>0, <2>2, <2>3, <2>4 DEF TxRadioTypeOK
<1>11. CASE EditDynamicPower
  BY <1>0, <1>11 DEF EditDynamicPower
<1>12. ASSUME NEW b \in BOOLEAN, NEW m \in BOOLEAN, DynamicPowerUnheard(b, m) PROVE TxRadioTypeOK'
  BY <1>0, <1>12, UnheardBelow, SetPowerType DEF DynamicPowerUnheard, TxRadioTypeOK
<1>13. ASSUME NEW b \in BOOLEAN, NEW t \in Readings, DynamicPowerHeard(b, t) PROVE TxRadioTypeOK'
  <2>1. txWant' \in Wants /\ txFlags' \in [Flags -> BOOLEAN]
    BY <1>13, HeardBelow, SetPowerType DEF DynamicPowerHeard
  <2>2. readings' \in 0 .. RssiCnt - 1
    BY <1>0, <1>13, TxRadioAssumption DEF DynamicPowerHeard, FullMean
  <2> QED BY <1>0, <1>13, <2>1, <2>2 DEF DynamicPowerHeard, TxRadioTypeOK
<1>14. CASE UNCHANGED txRadioVars
  BY <1>0, <1>14 DEF txRadioVars
<1> QED
  BY <1>1, <1>2, <1>3, <1>4, <1>5, <1>6, <1>7, <1>8, <1>9, <1>10, <1>11, <1>12, <1>13, <1>14
  DEF TxRadioNext, TxRadioTypeOK

\* The types hold in every state.
THEOREM TypeCorrect == TxRadioSpec => []TxRadioTypeOK
BY InitType, NextType, PTL DEF TxRadioSpec
-----------------------------------------------------------------------------
(* The invariant *)

LEMMA InitInv == TxRadioInit => TxRadioInv
BY DEF TxRadioInit, TxRadioInv, Running, Restarts, Flags

\* Whatever comes before, an action that raises the event and the flag of a lost
\* signal is made good by the start that follows.
LEMMA LostIsRepaired ==
  ASSUME TxRadioTypeOK, TxRadioInv, txFlags'.event, txFlags'.lost,
         txFlags'.doing = txFlags.doing, txPhy'.on => txPhy' = txPhy
  PROVE  TxRadioInv'
BY DEF TxRadioInv, Restarts

LEMMA NextInv == TxRadioTypeOK /\ TxRadioInv /\ [TxRadioNext]_txRadioVars => TxRadioInv'
<1> SUFFICES ASSUME TxRadioTypeOK, TxRadioInv, [TxRadioNext]_txRadioVars PROVE TxRadioInv'
  OBVIOUS
<1>0. /\ txWant \in Wants /\ txPhy \in PhyStates /\ txFlags \in [Flags -> BOOLEAN]
      /\ txConfig \in [rate : TxRates, power : Powers, dynamic : BOOLEAN]
  BY DEF TxRadioTypeOK
<1>1. CASE TxEvent
  <2>1. CASE txWant.binding \/ txFlags.doing \/ txFlags.lost
    <3>1. txFlags'.doing = txWant.binding /\ UNCHANGED txWant
      BY <1>0, <1>1, <2>1 DEF TxEvent, Restart, Lower, Flags
    <3>2. txPhy' = Running(txWant) \/ ~txPhy'.on
      BY <1>0, <1>1, <2>1 DEF TxEvent, Restart, PhyStates
    <3> QED BY <3>1, <3>2 DEF TxRadioInv, Running
  <2>2. CASE ~(txWant.binding \/ txFlags.doing \/ txFlags.lost)
    <3>1. ~Restarts
      BY <2>2 DEF Restarts
    <3>2. /\ txFlags'.doing = txFlags.doing /\ txFlags'.ratio = txFlags.ratio
          /\ UNCHANGED txWant
      BY <1>0, <1>1, <2>2 DEF TxEvent, Lower, Flags
    <3>3. /\ txPhy'.on = txPhy.on /\ txPhy'.binding = txPhy.binding /\ txPhy'.rate = txPhy.rate
          /\ txPhy'.denom = txPhy.denom
          /\ txPhy'.power = IF txFlags.power THEN txWant.power ELSE txPhy.power
      BY <1>0, <1>1, <2>2 DEF TxEvent, PhyStates
    <3> QED BY <3>1, <3>2, <3>3 DEF TxRadioInv
  <2> QED BY <2>1, <2>2
<1>2. CASE RatioDue
  <2>1. txFlags'.event /\ txFlags'.lost /\ txFlags'.doing = txFlags.doing /\ txPhy' = txPhy
    BY <1>0, <1>2 DEF RatioDue, Raise, Lower, Flags
  <2> QED BY <2>1, LostIsRepaired
<1>3. ASSUME NEW d \in Denoms, UpdateTlmRatio(d) PROVE TxRadioInv'
  <2>1. /\ txFlags'.ratio /\ txFlags'.event /\ txFlags'.doing = txFlags.doing
        /\ txFlags'.power = txFlags.power /\ txFlags'.lost = txFlags.lost /\ txPhy' = txPhy
    BY <1>0, <1>3 DEF UpdateTlmRatio, Raise, Flags
  <2>2. txWant'.rate = txWant.rate /\ txWant'.binding = txWant.binding /\ txWant'.power = txWant.power
    BY <1>0, <1>3 DEF UpdateTlmRatio, Wants
  <2> QED BY <2>1, <2>2 DEF TxRadioInv, Restarts
<1>4. CASE LostSignal
  <2>1. txFlags'.event /\ txFlags'.lost /\ txFlags'.doing = txFlags.doing /\ txPhy' = txPhy
    BY <1>0, <1>4 DEF LostSignal, Raise, Flags
  <2> QED BY <2>1, LostIsRepaired
<1>5. CASE EnterBinding
  <2>1. txFlags'.event /\ txFlags'.doing = txFlags.doing /\ txPhy' = txPhy
    BY <1>0, <1>5 DEF EnterBinding, Raise, Flags
  <2>2. txWant'.binding
    BY <1>0, <1>5 DEF EnterBinding, Wants
  <2> QED BY <2>1, <2>2 DEF TxRadioInv, Restarts
<1>6. CASE ExitBinding
  <2>1. txFlags'.event /\ txFlags'.doing = txFlags.doing /\ txPhy' = txPhy
    BY <1>0, <1>6 DEF ExitBinding, Raise, Flags
  <2>2. txFlags.doing
    BY <1>6 DEF ExitBinding, TxRadioInv
  <2> QED BY <2>1, <2>2 DEF TxRadioInv, Restarts
<1>7. ASSUME NEW d \in Denoms, ChangeRadioParams(d) PROVE TxRadioInv'
  <2>1. txFlags'.event /\ txFlags'.lost /\ txFlags'.doing = txFlags.doing /\ txPhy' = txPhy
    BY <1>0, <1>7 DEF ChangeRadioParams, Raise, Flags
  <2> QED BY <2>1, LostIsRepaired
<1>8. ASSUME NEW r \in TxRates, SetRate(r) PROVE TxRadioInv'
  BY <1>8 DEF SetRate, TxRadioInv, Restarts
<1>9. CASE RxOta \/ RxOtaNotStarted
  <2>1. ~txPhy'.on
    BY <1>0, <1>9 DEF RxOta, RxOtaNotStarted, PhyStates
  <2> QED BY <2>1 DEF TxRadioInv
<1>10. ASSUME NEW p \in Powers, SetPower(p), UNCHANGED txPhy PROVE TxRadioInv'
  <2>1. /\ txWant'.rate = txWant.rate /\ txWant'.binding = txWant.binding
        /\ txWant'.denom = txWant.denom /\ txWant'.power = p
    BY <1>0, <1>10 DEF SetPower, Wants
  <2>2. CASE p = txWant.power
    BY <1>10, <2>1, <2>2 DEF SetPower, TxRadioInv, Restarts
  <2>3. CASE p # txWant.power
    <3>1. /\ txFlags'.event /\ txFlags'.power /\ txFlags'.doing = txFlags.doing
          /\ txFlags'.ratio = txFlags.ratio /\ txFlags'.lost = txFlags.lost
      BY <1>0, <1>10, <2>3 DEF SetPower, Raise, Flags
    <3> QED BY <1>10, <2>1, <3>1 DEF TxRadioInv, Restarts
  <2> QED BY <2>2, <2>3
<1>11. ASSUME NEW p \in Powers, NEW a \in BOOLEAN, EditPower(p, a) PROVE TxRadioInv'
  <2> DEFINE q == IF ~txConfig.dynamic THEN p
                  ELSE IF ~a THEN 0 ELSE IF txWant.power < p THEN p ELSE txWant.power
  <2>1. q \in Powers
    BY <1>0, TxRadioAssumption DEF Powers, Wants
  <2>2. SetPower(q) /\ UNCHANGED txPhy
    BY <1>11 DEF EditPower
  <2> HIDE DEF q
  <2> QED BY <1>10, <2>1, <2>2
<1>12. CASE EditDynamicPower
  BY <1>12 DEF EditDynamicPower, TxRadioInv, Restarts
<1>13. ASSUME NEW b \in BOOLEAN, NEW m \in BOOLEAN, DynamicPowerUnheard(b, m) PROVE TxRadioInv'
  BY <1>10, <1>13, UnheardBelow DEF DynamicPowerUnheard
<1>14. ASSUME NEW b \in BOOLEAN, NEW t \in Readings, DynamicPowerHeard(b, t) PROVE TxRadioInv'
  BY <1>10, <1>14, HeardBelow DEF DynamicPowerHeard
<1>15. CASE UNCHANGED txRadioVars
  BY <1>15 DEF txRadioVars, TxRadioInv, Restarts
<1> QED
  BY <1>1, <1>2, <1>3, <1>4, <1>5, <1>6, <1>7, <1>8, <1>9, <1>11, <1>12, <1>13, <1>14, <1>15
  DEF TxRadioNext

\* Once the device has taken its event, a running PHY is as the program wants it:
\* none of the flags of devRadioTx.c is lost, in whatever order they are raised.
THEOREM Follows == TxRadioSpec => []TxRadioFollows
<1>1. TxRadioInv => TxRadioFollows
  BY DEF TxRadioInv, TxRadioFollows, Restarts
<1>2. TxRadioInit => TxRadioTypeOK /\ TxRadioInv
  BY InitType, InitInv
<1>3. TxRadioTypeOK /\ TxRadioInv /\ [TxRadioNext]_txRadioVars => TxRadioTypeOK' /\ TxRadioInv'
  BY NextType, NextInv
<1> QED BY <1>1, <1>2, <1>3, PTL DEF TxRadioSpec
-----------------------------------------------------------------------------
(* The power *)

LEMMA StepCaps ==
  TxRadioTypeOK /\ [TxRadioNext]_txRadioVars
    => [txWant'.power > txWant.power => txWant'.power <= txConfig'.power]_txRadioVars
<1> SUFFICES ASSUME TxRadioTypeOK, TxRadioNext, txWant'.power > txWant.power
             PROVE  txWant'.power <= txConfig'.power
  BY DEF txRadioVars
<1>0. /\ txWant \in Wants /\ txConfig \in [rate : TxRates, power : Powers, dynamic : BOOLEAN]
      /\ txWant.power \in Powers /\ txConfig.power \in Powers
  BY DEF TxRadioTypeOK, Wants
<1>1. ASSUME NEW p \in Powers, SetPower(p) PROVE txWant'.power = p
  BY <1>0, <1>1 DEF SetPower, Wants
<1>2. ASSUME NEW p \in Powers, NEW a \in BOOLEAN, EditPower(p, a) PROVE txWant'.power <= txConfig'.power
  <2> DEFINE q == IF ~txConfig.dynamic THEN p
                  ELSE IF ~a THEN 0 ELSE IF txWant.power < p THEN p ELSE txWant.power
  <2>1. q \in Powers /\ q \in {p, 0, txWant.power}
    BY <1>0, TxRadioAssumption DEF Powers
  <2>2. SetPower(q) /\ txConfig'.power = p
    BY <1>0, <1>2 DEF EditPower
  <2> HIDE DEF q
  <2>3. txWant'.power = q
    BY <1>1, <2>1, <2>2
  <2> QED BY <1>0, <2>1, <2>2, <2>3, TxRadioAssumption DEF Powers
<1>3. ASSUME NEW b \in BOOLEAN, NEW m \in BOOLEAN, DynamicPowerUnheard(b, m)
      PROVE  txWant'.power <= txConfig'.power
  <2>1. txWant'.power = PowerUnheard(b, m) /\ txConfig' = txConfig
    BY <1>1, <1>3, UnheardBelow DEF DynamicPowerUnheard
  <2> QED BY <1>0, <2>1, UnheardBelow, TxRadioAssumption DEF Powers
<1>4. ASSUME NEW b \in BOOLEAN, NEW t \in Readings, DynamicPowerHeard(b, t)
      PROVE  txWant'.power <= txConfig'.power
  <2>1. txWant'.power = PowerHeard(b, t) /\ txConfig' = txConfig
    BY <1>1, <1>4, HeardBelow DEF DynamicPowerHeard
  <2> QED BY <1>0, <2>1, HeardBelow, TxRadioAssumption DEF Powers
<1>5. CASE txWant'.power = txWant.power
  BY <1>0, <1>5 DEF Powers
<1>6. ASSUME NEW d \in Denoms, UpdateTlmRatio(d) \/ ChangeRadioParams(d) PROVE txWant'.power = txWant.power
  BY <1>0, <1>6 DEF UpdateTlmRatio, ChangeRadioParams, Wants
<1>7. CASE EnterBinding \/ ExitBinding
  BY <1>0, <1>5, <1>7 DEF EnterBinding, ExitBinding, Wants
<1>8. ASSUME NEW r \in TxRates, SetRate(r) PROVE txWant'.power = txWant.power
  BY <1>8 DEF SetRate
<1>9. CASE TxEvent \/ RatioDue \/ LostSignal \/ RxOta \/ RxOtaNotStarted \/ EditDynamicPower
  BY <1>5, <1>9 DEF TxEvent, RatioDue, LostSignal, RxOta, RxOtaNotStarted, EditDynamicPower
<1> QED
  BY <1>2, <1>3, <1>4, <1>5, <1>6, <1>7, <1>8, <1>9 DEF TxRadioNext

\* However the readings fall, no update of dynamic power and no edit raises the power
\* beyond the user's setting.
THEOREM PowerIsCapped == TxRadioSpec => PowerCapped
BY StepCaps, TypeCorrect, PTL DEF TxRadioSpec, PowerCapped
-----------------------------------------------------------------------------
(* The receiver *)

RxWants == [rate : RxRates, denom : RxDenoms, binding : BOOLEAN, power : RxPowers]
RxPhys == [on : BOOLEAN, rate : RxRates, denom : RxDenoms, binding : BOOLEAN, power : RxPowers]
RxLinks == [connected : BOOLEAN, backup : BOOLEAN, matched : BOOLEAN, commit : BOOLEAN,
            next : RxRates]
RxSerials == [sbus : BOOLEAN, noPulses : BOOLEAN, failsafe : BOOLEAN, last : BOOLEAN,
              available : BOOLEAN, sendPackets : BOOLEAN]

\* The device will start the PHY again at the next event.
RxRestarts == rxFlags.event /\ (rxFlags.rate \/ rxWant.binding \/ rxFlags.doing \/ rxFlags.tlm)

\* Why a running PHY may differ from what is wanted: for each point a flag is up, and
\* the event with it.
RxRadioInv ==
  rxPhy.on =>
    /\ rxPhy.binding => rxFlags.doing
    /\ rxPhy.rate = rxWant.rate \/ RxRestarts
    /\ rxPhy.binding = rxWant.binding \/ RxRestarts
    /\ rxPhy.power = rxWant.power \/ (rxFlags.event /\ rxFlags.power) \/ RxRestarts
    /\ rxPhy.denom = rxWant.denom \/ RxRestarts

\* What the serial device remembers of the link is stale only while an event waits,
\* which the devices take before the serial output runs; and once frames have been
\* sent it is the link that is up or the failsafe.
RxSerialInv ==
  /\ rxAt \in {"serial", "radio"} => ~rxFlags.event
  /\ rxAt = "serial" => rxWrote = "none"
  /\ rxSerial.last = rxLink.connected \/ rxFlags.event
  /\ rxSerial.sendPackets => rxSerial.last \/ rxSerial.failsafe
  /\ rxWant.binding => ~rxLink.connected
  /\ FailsafeShown

\* The LED shows the link and the binding as they are, or an event waits.
RxLedInv == rxFlags.event \/ rxLed = LedEvent

RxInv == RxTypeOK /\ RxRadioInv /\ RxSerialInv /\ RxLedInv

LEMMA RxTypes ==
  ASSUME RxTypeOK
  PROVE  /\ rxWant \in RxWants /\ rxPhy \in RxPhys /\ rxFlags \in [RadioFlags -> BOOLEAN]
         /\ rxLink \in RxLinks /\ rxSerial \in RxSerials
BY DEF RxTypeOK, RxWants, RxPhys, RxLinks, RxSerials

LEMMA RxTyped ==
  ASSUME rxAt' \in {"devices", "serial", "radio", "loop", "rate"},
         rxWant' \in RxWants, rxPhy' \in RxPhys, rxFlags' \in [RadioFlags -> BOOLEAN],
         rxLink' \in RxLinks, rxSerial' \in RxSerials,
         rxLed' \in {"steady", "blink", "double flash"},
         rxWrote' \in {"none", "frame", "failsafe frame"}, silent' \in BOOLEAN
  PROVE  RxTypeOK'
BY DEF RxTypeOK, RxWants, RxPhys, RxLinks, RxSerials

LEMMA RxHistoryTypes ==
  ASSUME RxTypeOK
  PROVE  /\ rxAt \in {"devices", "serial", "radio", "loop", "rate"}
         /\ rxLed \in {"steady", "blink", "double flash"}
         /\ rxWrote \in {"none", "frame", "failsafe frame"} /\ silent \in BOOLEAN
BY DEF RxTypeOK

LEMMA SetFlags ==
  ASSUME NEW f \in [RadioFlags -> BOOLEAN], NEW names \in SUBSET RadioFlags
  PROVE  /\ Set(f, names) \in [RadioFlags -> BOOLEAN]
         /\ \A x \in RadioFlags : Set(f, names)[x] = (x \in names \/ f[x])
BY DEF Set

LEMMA ClearFlags ==
  ASSUME NEW f \in [RadioFlags -> BOOLEAN], NEW names \in SUBSET RadioFlags
  PROVE  /\ Clear(f, names) \in [RadioFlags -> BOOLEAN]
         /\ \A x \in RadioFlags : Clear(f, names)[x] = (x \notin names /\ f[x])
BY DEF Clear

LEMMA TunedType ==
  ASSUME NEW w \in RxWants
  PROVE  Tuned(w) \in RxPhys
BY DEF Tuned, RxWants, RxPhys

\* A start leaves a PHY that is as wanted, or off.
LEMMA InitializeType ==
  ASSUME RxTypeOK, Initialize
  PROVE  rxPhy' \in RxPhys /\ (rxPhy' = Tuned(rxWant) \/ ~rxPhy'.on)
<1>1. Tuned(rxWant) \in RxPhys
  BY RxTypes, TunedType
<1>2. [rxPhy EXCEPT !.on = FALSE] \in RxPhys /\ ~[rxPhy EXCEPT !.on = FALSE].on
  BY RxTypes DEF RxPhys
<1> QED BY <1>1, <1>2 DEF Initialize

\* The flags after a start.
LEMMA StartedFlags ==
  ASSUME RxTypeOK, NEW f \in [RadioFlags -> BOOLEAN],
         f = [Clear(rxFlags, {"event", "rate", "power", "tlm"}) EXCEPT !.doing = rxWant.binding]
  PROVE  f.event = FALSE /\ f.doing = rxWant.binding
<1> DEFINE g == Clear(rxFlags, {"event", "rate", "power", "tlm"})
<1>1. g \in [RadioFlags -> BOOLEAN] /\ g["event"] = FALSE
  <2>1. {"event", "rate", "power", "tlm"} \in SUBSET RadioFlags /\ "event" \in RadioFlags
    BY DEF RadioFlags
  <2> QED BY <2>1, RxTypes, ClearFlags
<1>2. "event" \in RadioFlags /\ "doing" \in RadioFlags
  BY DEF RadioFlags
<1> HIDE DEF g
<1>3. f = [g EXCEPT !["doing"] = rxWant.binding]
  BY DEF g
<1> QED BY <1>1, <1>2, <1>3

LEMMA DevicesEventStep == RxInv /\ DevicesEvent => RxInv'
<1> SUFFICES ASSUME RxInv, DevicesEvent PROVE RxInv'
  OBVIOUS
<1>0. RxTypeOK /\ RxRadioInv /\ RxSerialInv /\ RxLedInv
  BY DEF RxInv
<1>1. /\ rxAt = "devices" /\ rxAt' = "serial" /\ rxWrote' = "none"
      /\ UNCHANGED <<rxWant, rxLink, silent>>
  BY DEF DevicesEvent, At
<1>2. CASE ~rxFlags.event
  <2>1. UNCHANGED <<rxPhy, rxFlags, rxSerial, rxLed>>
    BY <1>2 DEF DevicesEvent
  <2>2. RxTypeOK'
    BY <1>0, <1>1, <2>1, RxTypes, RxHistoryTypes, RxTyped
  <2>3. RxRadioInv'
    BY <1>0, <1>1, <2>1 DEF RxRadioInv, RxRestarts
  <2>4. RxSerialInv'
    BY <1>0, <1>1, <1>2, <2>1 DEF RxSerialInv, FailsafeShown
  <2>5. RxLedInv'
    BY <1>0, <1>1, <2>1 DEF RxLedInv, LedEvent
  <2> QED BY <2>2, <2>3, <2>4, <2>5 DEF RxInv
<1>3. CASE rxFlags.event
  <2>1. RadioEvent /\ rxSerial' = SerialEvent(rxSerial) /\ rxLed' = LedEvent
    BY <1>3 DEF DevicesEvent
  <2>2. /\ rxSerial' \in RxSerials /\ rxSerial'.last = rxLink.connected
        /\ rxSerial'.sendPackets => rxSerial'.last \/ rxSerial'.failsafe
    BY <1>0, <2>1, RxTypes DEF SerialEvent, RxSerials, RxLinks, RxSerialInv
  <2>3. rxLed' \in {"steady", "blink", "double flash"}
    BY <2>1 DEF LedEvent
  <2>4. /\ rxPhy' \in RxPhys /\ rxFlags' \in [RadioFlags -> BOOLEAN] /\ ~rxFlags'.event
        /\ RxRadioInv'
    <3>1. CASE rxFlags.rate \/ rxWant.binding \/ rxFlags.doing \/ rxFlags.tlm
      <4>1. Initialize
            /\ rxFlags' = [Clear(rxFlags, {"event", "rate", "power", "tlm"}) EXCEPT !.doing = rxWant.binding]
        BY <2>1, <3>1 DEF RadioEvent
      <4>2. rxPhy' \in RxPhys /\ (rxPhy' = Tuned(rxWant) \/ ~rxPhy'.on)
        BY <1>0, <4>1, InitializeType
      <4>3. rxFlags' \in [RadioFlags -> BOOLEAN]
        BY <1>0, <4>1, RxTypes DEF Clear, RadioFlags, RxWants
      <4>4. ~rxFlags'.event /\ rxFlags'.doing = rxWant.binding
        BY <1>0, <4>1, <4>3, StartedFlags
      <4> QED BY <1>1, <4>2, <4>3, <4>4 DEF RxRadioInv, Tuned
    <3>2. CASE ~(rxFlags.rate \/ rxWant.binding \/ rxFlags.doing \/ rxFlags.tlm)
      <4>1. /\ rxPhy' = IF rxFlags.power THEN [rxPhy EXCEPT !.power = rxWant.power] ELSE rxPhy
            /\ rxFlags' = Clear(rxFlags, {"event", "power"})
        BY <2>1, <3>2 DEF RadioEvent
      <4>2. rxFlags' \in [RadioFlags -> BOOLEAN] /\ ~rxFlags'.event
            /\ rxFlags'.doing = rxFlags.doing
        BY <1>0, <4>1, RxTypes DEF Clear, RadioFlags
      <4>3. /\ rxPhy' \in RxPhys /\ rxPhy'.on = rxPhy.on /\ rxPhy'.rate = rxPhy.rate
            /\ rxPhy'.binding = rxPhy.binding /\ rxPhy'.denom = rxPhy.denom
            /\ rxPhy'.power = IF rxFlags.power THEN rxWant.power ELSE rxPhy.power
        BY <1>0, <4>1, RxTypes DEF RxPhys, RxWants
      <4>4. ~RxRestarts
        BY <3>2 DEF RxRestarts
      <4> QED BY <1>0, <1>1, <4>2, <4>3, <4>4 DEF RxRadioInv
    <3> QED BY <3>1, <3>2
  <2>5. RxSerialInv'
    BY <1>0, <1>1, <2>2, <2>4 DEF RxSerialInv, FailsafeShown
  <2>6. RxTypeOK'
    BY <1>0, <1>1, <2>2, <2>3, <2>4 DEF RxTypeOK, RxSerials, RxPhys
  <2>7. RxLedInv'
    BY <1>1, <2>1 DEF RxLedInv, LedEvent
  <2> QED BY <2>4, <2>5, <2>6, <2>7 DEF RxInv
<1> QED BY <1>2, <1>3

\* What is wanted may move on, as long as a flag is raised for it.
LEMMA StillRepaired ==
  ASSUME RxTypeOK, RxRadioInv, rxPhy' = rxPhy, rxFlags'.doing = rxFlags.doing,
         \A x \in {"event", "rate", "power", "tlm"} : rxFlags[x] => rxFlags'[x],
         RxRestarts' \/ (/\ rxWant'.rate = rxWant.rate /\ rxWant'.denom = rxWant.denom
                         /\ rxWant'.binding = rxWant.binding),
         rxWant'.power = rxWant.power \/ (rxFlags'.event /\ rxFlags'.power)
  PROVE  RxRadioInv'
<1>1. RxRestarts => RxRestarts'
  BY DEF RxRestarts
<1> QED BY <1>1 DEF RxRadioInv

\* Raising flags alone.
LEMMA RaisedFlags ==
  ASSUME RxTypeOK, NEW names \in SUBSET {"event", "rate", "power", "tlm"}
  PROVE  LET f == Set(rxFlags, names)
         IN /\ f \in [RadioFlags -> BOOLEAN] /\ f.doing = rxFlags.doing
            /\ \A x \in {"event", "rate", "power", "tlm"} : f[x] = (x \in names \/ rxFlags[x])
<1>1. names \in SUBSET RadioFlags /\ rxFlags \in [RadioFlags -> BOOLEAN]
  BY RxTypes DEF RadioFlags
<1>2. "doing" \in RadioFlags /\ {"event", "rate", "power", "tlm"} \subseteq RadioFlags
  BY DEF RadioFlags
<1> QED BY <1>1, <1>2, SetFlags

LEMMA SerialTimeoutStep ==
  ASSUME NEW over \in BOOLEAN, RxInv, SerialTimeout(over)
  PROVE  RxInv'
<1>0. RxTypeOK /\ RxRadioInv /\ RxSerialInv /\ RxLedInv
  BY DEF RxInv
<1>1. /\ rxAt = "serial" /\ rxAt' = "radio"
      /\ UNCHANGED <<rxWant, rxPhy, rxFlags, rxLink, rxLed, silent>>
  BY DEF SerialTimeout, At
<1>2. RxRadioInv' /\ RxLedInv'
  BY <1>0, <1>1 DEF RxRadioInv, RxRestarts, RxLedInv, LedEvent
<1>3. CASE ~over
  <2>1. UNCHANGED <<rxSerial, rxWrote>>
    BY <1>3 DEF SerialTimeout
  <2>2. RxSerialInv'
    BY <1>0, <1>1, <2>1 DEF RxSerialInv, FailsafeShown
  <2>3. RxTypeOK'
    BY <1>0, <1>1, <2>1, RxTypes, RxHistoryTypes, RxTyped
  <2> QED BY <1>2, <2>2, <2>3 DEF RxInv
<1>4. CASE over
  <2>1. /\ rxSerial' = [rxSerial EXCEPT !.available = FALSE,
                          !.sendPackets = @ \/ (rxSerial.sbus /\ ~SbusQuiet)]
        /\ rxWrote' = IF rxSerial.sbus /\ SbusWrites
                      THEN IF Failsafed THEN "failsafe frame" ELSE "frame" ELSE "none"
    BY <1>4 DEF SerialTimeout
  <2>2. rxSerial \in RxSerials /\ rxLink \in RxLinks
    BY <1>0, RxTypes
  <2>3. /\ rxSerial' \in RxSerials /\ rxSerial'.last = rxSerial.last
        /\ rxSerial'.failsafe = rxSerial.failsafe
        /\ rxSerial'.sendPackets => rxSerial.sendPackets \/ ~SbusQuiet
    BY <2>1, <2>2 DEF RxSerials, SbusQuiet, Failsafed
  <2>4. /\ rxSerial.last = rxLink.connected
        /\ rxSerial.sendPackets => rxSerial.last \/ rxSerial.failsafe
    BY <1>0, <1>1 DEF RxSerialInv
  <2>5. ~SbusQuiet => rxLink.connected \/ rxSerial.failsafe
    BY <2>2, <2>4 DEF SbusQuiet, RxSerials, RxLinks
  <2>6. rxWrote' = "frame" => rxLink.connected
    <3> SUFFICES ASSUME rxWrote' = "frame" PROVE rxLink.connected
      OBVIOUS
    <3>1. ~SbusQuiet /\ ~Failsafed
      BY <2>1 DEF SbusWrites
    <3> QED BY <3>1, <2>5 DEF Failsafed
  <2>7. rxWrote' \in {"none", "frame", "failsafe frame"}
    BY <2>1
  <2>8. RxSerialInv'
    BY <1>0, <1>1, <2>3, <2>4, <2>5, <2>6 DEF RxSerialInv, FailsafeShown
  <2>9. RxTypeOK'
    BY <1>0, <1>1, <2>3, <2>7 DEF RxTypeOK, RxSerials
  <2> QED BY <1>2, <2>8, <2>9 DEF RxInv
<1> QED BY <1>3, <1>4

LEMMA NothingHeardStep == RxInv /\ NothingHeard => RxInv'
<1> SUFFICES ASSUME RxInv, NothingHeard PROVE RxInv'
  OBVIOUS
<1>1. /\ rxAt' = "loop"
      /\ UNCHANGED <<rxWant, rxPhy, rxFlags, rxLink, rxSerial, rxLed, rxWrote, silent>>
  BY DEF NothingHeard, At
<1>2. RxTypeOK'
  BY <1>1, RxTypes, RxHistoryTypes, RxTyped DEF RxInv
<1>3. RxRadioInv'
  BY <1>1 DEF RxInv, RxRadioInv, RxRestarts
<1>4. RxSerialInv' /\ RxLedInv'
  BY <1>1 DEF RxInv, RxSerialInv, FailsafeShown, RxLedInv, LedEvent
<1> QED BY <1>2, <1>3, <1>4 DEF RxInv

LEMMA RcHeardStep == RxInv /\ RcHeard => RxInv'
<1> SUFFICES ASSUME RxInv, RcHeard PROVE RxInv'
  OBVIOUS
<1>0. RxTypeOK /\ RxRadioInv /\ RxSerialInv /\ RxLedInv
  BY DEF RxInv
<1>1. /\ rxAt = "radio" /\ rxAt' = "loop" /\ ~rxWant.binding
      /\ UNCHANGED <<rxWant, rxPhy, rxLed, rxWrote, silent>>
      /\ rxSerial' = [rxSerial EXCEPT !.available = @ \/ rxLink.matched]
  BY DEF RcHeard, Hears
<1>2. rxSerial \in RxSerials /\ rxLink \in RxLinks /\ rxFlags \in [RadioFlags -> BOOLEAN]
  BY <1>0, RxTypes
<1>3. /\ rxSerial' \in RxSerials /\ rxSerial'.last = rxSerial.last
      /\ rxSerial'.failsafe = rxSerial.failsafe /\ rxSerial'.sendPackets = rxSerial.sendPackets
  BY <1>1, <1>2 DEF RxSerials, RxLinks
<1>4. /\ rxFlags' \in [RadioFlags -> BOOLEAN] /\ rxFlags'.doing = rxFlags.doing
      /\ \A x \in {"event", "rate", "power", "tlm"} : rxFlags[x] => rxFlags'[x]
      /\ rxLink' \in RxLinks
      /\ rxLink'.connected # rxLink.connected => rxFlags'.event
  <2>1. CASE rxLink.connected
    BY <1>2, <2>1 DEF RcHeard
  <2>2. CASE ~rxLink.connected
    <3>1. /\ rxLink' = [rxLink EXCEPT !.connected = TRUE] /\ rxFlags' = Set(rxFlags, {"event"})
      BY <2>2 DEF RcHeard
    <3>2. rxLink' \in RxLinks
      BY <1>2, <3>1 DEF RxLinks
    <3> QED BY <1>0, <3>1, <3>2, RaisedFlags
  <2> QED BY <2>1, <2>2
<1>5. RxRadioInv'
  BY <1>0, <1>1, <1>4, StillRepaired
<1>6. RxSerialInv' /\ RxLedInv'
  BY <1>0, <1>1, <1>3, <1>4 DEF RxSerialInv, FailsafeShown, RxLedInv, LedEvent
<1>7. RxTypeOK'
  BY <1>0, <1>1, <1>3, <1>4 DEF RxTypeOK, RxSerials, RxLinks
<1> QED BY <1>5, <1>6, <1>7 DEF RxInv

LEMMA SyncHeardStep ==
  ASSUME NEW m \in BOOLEAN, NEW c \in BOOLEAN, NEW r \in RxRates, NEW d \in RxDenoms,
         RxInv, SyncHeard(m, c, r, d)
  PROVE  RxInv'
<1>0. RxTypeOK /\ RxRadioInv /\ RxSerialInv /\ RxLedInv
  BY DEF RxInv
<1>1. /\ rxAt = "radio" /\ rxAt' = "loop" /\ ~rxWant.binding
      /\ UNCHANGED <<rxPhy, rxSerial, rxLed, rxWrote, silent>>
  BY DEF SyncHeard, Hears
<1>2. rxWant \in RxWants /\ rxLink \in RxLinks /\ rxFlags \in [RadioFlags -> BOOLEAN]
  BY <1>0, RxTypes
<1>3. /\ rxLink' \in RxLinks /\ rxLink'.connected = rxLink.connected
      /\ rxWant' \in RxWants /\ rxWant'.binding = rxWant.binding /\ rxWant'.rate = rxWant.rate
      /\ rxWant'.power = rxWant.power
  BY <1>2 DEF SyncHeard, RxWants, RxLinks
<1>4. /\ rxFlags' \in [RadioFlags -> BOOLEAN] /\ rxFlags'.doing = rxFlags.doing
      /\ \A x \in {"event", "rate", "power", "tlm"} : rxFlags[x] => rxFlags'[x]
      /\ rxWant'.denom = rxWant.denom \/ (rxFlags'.event /\ rxFlags'.tlm)
  <2>1. CASE UNCHANGED <<rxWant, rxFlags>>
    BY <1>2, <2>1
  <2>2. CASE rxWant' = [rxWant EXCEPT !.denom = d] /\ d = rxWant.denom /\ rxFlags' = rxFlags
    BY <1>2, <2>2 DEF RxWants
  <2>3. CASE rxFlags' = Set(rxFlags, {"tlm", "event"})
    <3>1. {"tlm", "event"} \in SUBSET {"event", "rate", "power", "tlm"}
      OBVIOUS
    <3>2. /\ rxFlags' \in [RadioFlags -> BOOLEAN] /\ rxFlags'.doing = rxFlags.doing
          /\ \A x \in {"event", "rate", "power", "tlm"} : rxFlags'[x] = (x \in {"tlm", "event"} \/ rxFlags[x])
      BY <1>0, <2>3, <3>1, RaisedFlags
    <3> QED BY <3>2
  <2> QED BY <2>1, <2>2, <2>3 DEF SyncHeard
<1>5. RxRadioInv'
  BY <1>0, <1>1, <1>3, <1>4, StillRepaired DEF RxRestarts
<1>6. RxSerialInv' /\ RxLedInv'
  BY <1>0, <1>1, <1>3, <1>4 DEF RxSerialInv, FailsafeShown, RxLedInv, LedEvent
<1>7. RxTypeOK'
  BY <1>0, <1>1, <1>3, <1>4, RxTypes, RxHistoryTypes, RxTyped
<1> QED BY <1>5, <1>6, <1>7 DEF RxInv
-----------------------------------------------------------------------------
(* The receiver: binding and the rate *)

\* Any step of the rest of the loop: the PHY, the serial output's memory and the frame
\* stay, the next part is neither the serial device nor the radio.
LEMMA LoopKeeps ==
  ASSUME RxInv, rxAt' \in {"rate", "devices"},
         UNCHANGED <<rxPhy, rxLed, rxWrote, silent>>,
         rxSerial' \in RxSerials, rxSerial'.last = rxSerial.last,
         rxSerial'.failsafe = rxSerial.failsafe, rxSerial'.sendPackets = rxSerial.sendPackets,
         rxWant' \in RxWants, rxLink' \in RxLinks, rxFlags' \in [RadioFlags -> BOOLEAN],
         rxFlags'.doing = rxFlags.doing,
         \A x \in {"event", "rate", "power", "tlm"} : rxFlags[x] => rxFlags'[x],
         rxLink'.connected = rxLink.connected \/ rxFlags'.event,
         rxWant'.binding => ~rxLink'.connected,
         rxWant'.binding = rxWant.binding \/ rxFlags'.event,
         RxRestarts' \/ (/\ rxWant'.rate = rxWant.rate /\ rxWant'.denom = rxWant.denom
                         /\ rxWant'.binding = rxWant.binding),
         rxWant'.power = rxWant.power \/ (rxFlags'.event /\ rxFlags'.power)
  PROVE  RxInv'
<1>1. RxTypeOK /\ RxRadioInv /\ RxSerialInv /\ RxLedInv
  BY DEF RxInv
<1>2. RxRadioInv'
  BY <1>1, StillRepaired
<1>3. RxSerialInv'
  <2>1. rxFlags.event => rxFlags'.event
    OBVIOUS
  <2> QED BY <1>1, <2>1 DEF RxSerialInv, FailsafeShown
<1>4. RxLedInv'
  <2>1. rxFlags.event => rxFlags'.event
    OBVIOUS
  <2> QED BY <1>1, <2>1 DEF RxLedInv, LedEvent
<1>5. RxTypeOK'
  BY <1>1 DEF RxTypeOK, RxWants, RxLinks, RxSerials
<1> QED BY <1>2, <1>3, <1>4, <1>5 DEF RxInv

LEMMA BackupStep ==
  ASSUME RxTypeOK, NEW names \in SUBSET {"event", "rate", "power", "tlm"}, NEW l \in RxLinks,
         Backup(l, Set(rxFlags, names))
  PROVE  /\ rxLink' \in RxLinks /\ rxLink'.connected = l.connected
         /\ rxFlags' \in [RadioFlags -> BOOLEAN] /\ rxFlags'.doing = rxFlags.doing
         /\ \A x \in {"event", "rate", "power", "tlm"} : rxFlags[x] \/ x \in names => rxFlags'[x]
<1> DEFINE f == Set(rxFlags, names)
<1>1. /\ f \in [RadioFlags -> BOOLEAN] /\ f.doing = rxFlags.doing
      /\ \A x \in {"event", "rate", "power", "tlm"} : f[x] = (x \in names \/ rxFlags[x])
  BY RaisedFlags
<1>2. rxLink' \in RxLinks /\ rxLink'.connected = l.connected
  BY DEF Backup, RxLinks
<1>3. rxFlags' = f \/ rxFlags' = Set(f, {"event"})
  BY DEF Backup
<1> HIDE DEF f
<1>4. {"event"} \in SUBSET RadioFlags /\ "doing" \in RadioFlags
      /\ {"event", "rate", "power", "tlm"} \subseteq RadioFlags
  BY DEF RadioFlags
<1>5. CASE rxFlags' = f
  BY <1>1, <1>2, <1>5
<1>6. CASE rxFlags' = Set(f, {"event"})
  <2>1. /\ rxFlags' \in [RadioFlags -> BOOLEAN]
        /\ \A x \in RadioFlags : rxFlags'[x] = (x \in {"event"} \/ f[x])
    BY <1>1, <1>4, <1>6, SetFlags
  <2> QED BY <1>1, <1>2, <1>4, <2>1
<1> QED BY <1>3, <1>5, <1>6

LEMMA WantedType ==
  ASSUME RxTypeOK, NEW r \in RxRates, NEW d \in RxDenoms, NEW b \in BOOLEAN
  PROVE  /\ Wanted(r, d, b) \in RxWants /\ Wanted(r, d, b).binding = b
         /\ Wanted(r, d, b).power = rxWant.power
BY RxTypes DEF Wanted, RxWants

LEMMA LoopStep ==
  RxInv /\ (NothingAsked \/ EnterBindingMode \/ ApplyRxSerialProtocol
            \/ \E r \in RxRates : ExitBindingMode(r)) => RxInv'
<1> SUFFICES ASSUME RxInv PROVE NothingAsked \/ EnterBindingMode \/ ApplyRxSerialProtocol
            \/ (\E r \in RxRates : ExitBindingMode(r)) => RxInv'
  OBVIOUS
<1>0. RxTypeOK /\ RxRadioInv /\ RxSerialInv /\ RxLedInv
  BY DEF RxInv
<1>1. /\ rxWant \in RxWants /\ rxLink \in RxLinks /\ rxFlags \in [RadioFlags -> BOOLEAN]
      /\ rxSerial \in RxSerials
  BY <1>0, RxTypes
<1>2. rxWant.binding => ~rxLink.connected
  BY <1>0 DEF RxSerialInv
<1>3. CASE NothingAsked
  <2>1. Set(rxFlags, {}) = rxFlags
    BY <1>1 DEF Set
  <2>2. /\ rxAt' = "rate" /\ UNCHANGED <<rxWant, rxPhy, rxSerial, rxLed, rxWrote, silent>>
        /\ Backup(rxLink, Set(rxFlags, {}))
    BY <1>3, <2>1 DEF NothingAsked, At
  <2>3. /\ rxLink' \in RxLinks /\ rxLink'.connected = rxLink.connected
        /\ rxFlags' \in [RadioFlags -> BOOLEAN] /\ rxFlags'.doing = rxFlags.doing
        /\ \A x \in {"event", "rate", "power", "tlm"} : rxFlags[x] => rxFlags'[x]
    BY <1>0, <1>1, <2>2, BackupStep
  <2> QED BY <1>1, <1>2, <2>2, <2>3, LoopKeeps
<1>4. CASE EnterBindingMode
  <2> DEFINE l == [rxLink EXCEPT !.connected = FALSE, !.matched = FALSE, !.commit = FALSE,
                                 !.next = RxBindRate]
  <2>1. l \in RxLinks /\ l.connected = FALSE
    BY <1>1, RxDevicesAssumption DEF RxLinks
  <2>2. /\ rxAt' = "rate" /\ UNCHANGED <<rxPhy, rxSerial, rxLed, rxWrote, silent>>
        /\ rxWant' = Wanted(RxBindRate, RxStdDenom[RxBindRate], TRUE)
        /\ Backup(l, Set(rxFlags, {"event"}))
    BY <1>4 DEF EnterBindingMode, At
  <2> HIDE DEF l
  <2>3. /\ rxLink' \in RxLinks /\ rxLink'.connected = FALSE
        /\ rxFlags' \in [RadioFlags -> BOOLEAN] /\ rxFlags'.doing = rxFlags.doing
        /\ rxFlags'.event
        /\ \A x \in {"event", "rate", "power", "tlm"} : rxFlags[x] => rxFlags'[x]
    BY <1>0, <2>1, <2>2, BackupStep
  <2>4. rxWant' \in RxWants /\ rxWant'.binding = TRUE /\ rxWant'.power = rxWant.power
    BY <1>0, <2>2, WantedType, RxDevicesAssumption
  <2> QED BY <1>1, <2>2, <2>3, <2>4, LoopKeeps DEF RxRestarts
<1>5. CASE ApplyRxSerialProtocol
  <2>1. /\ rxAt' = "rate" /\ UNCHANGED <<rxWant, rxPhy, rxLed, rxWrote, silent>>
        /\ rxSerial' = [rxSerial EXCEPT !.sbus = ~@]
        /\ Backup(rxLink, Set(rxFlags, {"event"}))
    BY <1>5 DEF ApplyRxSerialProtocol, At
  <2>2. /\ rxLink' \in RxLinks /\ rxLink'.connected = rxLink.connected
        /\ rxFlags' \in [RadioFlags -> BOOLEAN] /\ rxFlags'.doing = rxFlags.doing
        /\ \A x \in {"event", "rate", "power", "tlm"} : rxFlags[x] => rxFlags'[x]
    BY <1>0, <1>1, <2>1, BackupStep
  <2>3. /\ rxSerial' \in RxSerials /\ rxSerial'.last = rxSerial.last
        /\ rxSerial'.failsafe = rxSerial.failsafe /\ rxSerial'.sendPackets = rxSerial.sendPackets
    BY <1>1, <2>1 DEF RxSerials
  <2> QED BY <1>1, <1>2, <2>1, <2>2, <2>3, LoopKeeps
<1>6. ASSUME NEW r \in RxRates, ExitBindingMode(r) PROVE RxInv'
  <2> DEFINE l == [rxLink EXCEPT !.next = r, !.commit = FALSE]
  <2>1. l \in RxLinks /\ l.connected = rxLink.connected
    BY <1>1 DEF RxLinks
  <2>2. /\ rxAt' = "rate" /\ UNCHANGED <<rxPhy, rxSerial, rxLed, rxWrote, silent>>
        /\ rxWant' = Wanted(r, RxStdDenom[r], FALSE)
        /\ Backup(l, Set(rxFlags, {"rate", "event"}))
    BY <1>6 DEF ExitBindingMode, At
  <2> HIDE DEF l
  <2>3. /\ rxLink' \in RxLinks /\ rxLink'.connected = rxLink.connected
        /\ rxFlags' \in [RadioFlags -> BOOLEAN] /\ rxFlags'.doing = rxFlags.doing
        /\ rxFlags'.event /\ rxFlags'.rate
        /\ \A x \in {"event", "rate", "power", "tlm"} : rxFlags[x] => rxFlags'[x]
    BY <1>0, <2>1, <2>2, BackupStep
  <2>4. rxWant' \in RxWants /\ rxWant'.binding = FALSE /\ rxWant'.power = rxWant.power
    BY <1>0, <2>2, WantedType, RxDevicesAssumption
  <2> QED BY <1>1, <2>2, <2>3, <2>4, LoopKeeps DEF RxRestarts
<1> QED BY <1>3, <1>4, <1>5, <1>6

\* The end of a pass. The power that is updated raises its own flag.
LEMMA UpdateRxPowerStep ==
  ASSUME RxTypeOK, NEW names \in SUBSET {"event", "rate", "power", "tlm"}, NEW w \in RxWants,
         w.power = rxWant.power, UpdateRxPower(w, Set(rxFlags, names))
  PROVE  /\ rxWant' \in RxWants /\ rxWant'.rate = w.rate /\ rxWant'.denom = w.denom
         /\ rxWant'.binding = w.binding
         /\ rxWant'.power = rxWant.power \/ (rxFlags'.event /\ rxFlags'.power)
         /\ rxFlags' \in [RadioFlags -> BOOLEAN] /\ rxFlags'.doing = rxFlags.doing
         /\ \A x \in {"event", "rate", "power", "tlm"} : rxFlags[x] \/ x \in names => rxFlags'[x]
<1> DEFINE f == Set(rxFlags, names)
<1>1. /\ f \in [RadioFlags -> BOOLEAN] /\ f.doing = rxFlags.doing
      /\ \A x \in {"event", "rate", "power", "tlm"} : f[x] = (x \in names \/ rxFlags[x])
  BY RaisedFlags
<1>2. PICK p \in RxPowers : /\ rxWant' = [w EXCEPT !.power = p]
                            /\ rxFlags' = IF p = w.power THEN f ELSE Set(f, {"power", "event"})
  BY DEF UpdateRxPower
<1> HIDE DEF f
<1>3. /\ rxWant' \in RxWants /\ rxWant'.rate = w.rate /\ rxWant'.denom = w.denom
      /\ rxWant'.binding = w.binding /\ rxWant'.power = p
  BY <1>2 DEF RxWants
<1>4. /\ {"power", "event"} \in SUBSET RadioFlags /\ "doing" \in RadioFlags
      /\ {"event", "rate", "power", "tlm"} \subseteq RadioFlags
  BY DEF RadioFlags
<1>5. CASE p = w.power
  BY <1>1, <1>2, <1>3, <1>5
<1>6. CASE p # w.power
  <2>1. rxFlags' = Set(f, {"power", "event"})
    BY <1>2, <1>6
  <2>2. /\ rxFlags' \in [RadioFlags -> BOOLEAN]
        /\ \A x \in RadioFlags : rxFlags'[x] = (x \in {"power", "event"} \/ f[x])
    BY <1>1, <1>4, <2>1, SetFlags
  <2> QED BY <1>1, <1>3, <1>4, <2>2
<1> QED BY <1>5, <1>6

LEMMA LostConnectionStep ==
  ASSUME NEW r \in RxRates, NEW d \in RxDenoms, RxInv, LostConnection(r, d),
         rxAt' = "devices", UNCHANGED <<rxPhy, rxSerial, rxLed, rxWrote, silent>>
  PROVE  RxInv'
<1>0. RxTypeOK /\ RxRadioInv /\ RxSerialInv /\ RxLedInv
  BY DEF RxInv
<1>1. /\ rxWant \in RxWants /\ rxLink \in RxLinks /\ rxFlags \in [RadioFlags -> BOOLEAN]
      /\ rxSerial \in RxSerials
  BY <1>0, RxTypes
<1>2. rxLink' \in RxLinks /\ rxLink'.connected = FALSE
  BY <1>1 DEF LostConnection, RxLinks
<1>3. CASE rxWant.binding
  <2>1. UpdateRxPower(rxWant, Set(rxFlags, {}))
    <3>1. Set(rxFlags, {}) = rxFlags
      BY <1>1 DEF Set
    <3> QED BY <1>3, <3>1 DEF LostConnection, Lost
  <2>2. /\ rxWant' \in RxWants /\ rxWant'.rate = rxWant.rate /\ rxWant'.denom = rxWant.denom
        /\ rxWant'.binding = rxWant.binding
        /\ rxWant'.power = rxWant.power \/ (rxFlags'.event /\ rxFlags'.power)
        /\ rxFlags' \in [RadioFlags -> BOOLEAN] /\ rxFlags'.doing = rxFlags.doing
        /\ \A x \in {"event", "rate", "power", "tlm"} : rxFlags[x] => rxFlags'[x]
    BY <1>0, <1>1, <2>1, UpdateRxPowerStep
  <2>3. ~rxLink.connected
    BY <1>0, <1>3 DEF RxSerialInv
  <2> QED BY <1>1, <1>2, <2>2, <2>3, LoopKeeps DEF RxLinks
<1>4. CASE ~rxWant.binding
  <2> DEFINE w == [rxWant EXCEPT !.rate = r, !.denom = d]
  <2>1. UpdateRxPower(w, Set(rxFlags, {"rate", "event"}))
    BY <1>4 DEF LostConnection, Lost
  <2>2. w \in RxWants /\ w.power = rxWant.power /\ w.binding = rxWant.binding
    BY <1>1 DEF RxWants
  <2> HIDE DEF w
  <2>3. /\ rxWant' \in RxWants /\ rxWant'.binding = w.binding
        /\ rxWant'.power = rxWant.power \/ (rxFlags'.event /\ rxFlags'.power)
        /\ rxFlags' \in [RadioFlags -> BOOLEAN] /\ rxFlags'.doing = rxFlags.doing
        /\ \A x \in {"event", "rate", "power", "tlm"} :
             rxFlags[x] \/ x \in {"rate", "event"} => rxFlags'[x]
    BY <1>0, <2>1, <2>2, UpdateRxPowerStep
  <2> QED BY <1>1, <1>2, <2>3, LoopKeeps DEF RxRestarts
<1> QED BY <1>3, <1>4

LEMMA RateStep ==
  RxInv /\ (FollowRate \/ \E r \in RxRates, d \in RxDenoms : CommitRate(r, d)) => RxInv'
<1> SUFFICES ASSUME RxInv
             PROVE  FollowRate \/ (\E r \in RxRates, d \in RxDenoms : CommitRate(r, d)) => RxInv'
  OBVIOUS
<1>0. RxTypeOK /\ RxRadioInv /\ RxSerialInv /\ RxLedInv
  BY DEF RxInv
<1>1. /\ rxWant \in RxWants /\ rxLink \in RxLinks /\ rxFlags \in [RadioFlags -> BOOLEAN]
      /\ rxSerial \in RxSerials
  BY <1>0, RxTypes
<1>2. ASSUME NEW r \in RxRates, NEW d \in RxDenoms, CommitRate(r, d) PROVE RxInv'
  BY <1>2, LostConnectionStep DEF CommitRate, At
<1>3. CASE FollowRate
  <2>1. rxAt' = "devices" /\ UNCHANGED <<rxPhy, rxSerial, rxLed, rxWrote, silent>>
    BY <1>3 DEF FollowRate, At
  <2>2. CASE LostConnection(rxLink.next, rxWant.denom)
    <3>1. rxLink.next \in RxRates /\ rxWant.denom \in RxDenoms
      BY <1>1 DEF RxLinks, RxWants
    <3> QED BY <2>1, <2>2, <3>1, LostConnectionStep
  <2>3. CASE UpdateRxPower(rxWant, rxFlags) /\ UNCHANGED rxLink
    <3>1. Set(rxFlags, {}) = rxFlags
      BY <1>1 DEF Set
    <3>2. /\ rxWant' \in RxWants /\ rxWant'.rate = rxWant.rate /\ rxWant'.denom = rxWant.denom
          /\ rxWant'.binding = rxWant.binding
          /\ rxWant'.power = rxWant.power \/ (rxFlags'.event /\ rxFlags'.power)
          /\ rxFlags' \in [RadioFlags -> BOOLEAN] /\ rxFlags'.doing = rxFlags.doing
          /\ \A x \in {"event", "rate", "power", "tlm"} : rxFlags[x] => rxFlags'[x]
      BY <1>0, <1>1, <2>3, <3>1, UpdateRxPowerStep
    <3>3. rxWant.binding => ~rxLink.connected
      BY <1>0 DEF RxSerialInv
    <3> QED BY <1>1, <2>1, <2>3, <3>2, <3>3, LoopKeeps
  <2> QED BY <1>3, <2>2, <2>3 DEF FollowRate
<1> QED BY <1>2, <1>3

LEMMA RxStarts == RxInit => RxInv
<1> SUFFICES ASSUME RxInit PROVE RxInv
  OBVIOUS
<1>1. RxTypeOK
  <2>1. /\ rxFlags \in [RadioFlags -> BOOLEAN]
    BY DEF RxInit
  <2>2. rxWant \in RxWants
    BY RxDevicesAssumption DEF RxInit, RxWants
  <2>3. rxPhy \in RxPhys
    BY <2>2, TunedType DEF RxInit
  <2>4. rxLink \in RxLinks
    BY RxDevicesAssumption DEF RxInit, RxLinks
  <2>5. rxSerial \in RxSerials
    BY DEF RxInit, RxSerials
  <2> QED BY <2>1, <2>2, <2>3, <2>4, <2>5
          DEF RxInit, RxTypeOK, RxWants, RxPhys, RxLinks, RxSerials
<1>2. RxRadioInv
  BY DEF RxInit, RxRadioInv, Tuned
<1>3. RxSerialInv
  BY DEF RxInit, RxSerialInv, FailsafeShown, RadioFlags
<1>4. RxLedInv
  BY DEF RxInit, RxLedInv, RadioFlags
<1> QED BY <1>1, <1>2, <1>3, <1>4 DEF RxInv

LEMMA RxStep == RxInv /\ [RxNext]_rxVars => RxInv'
<1> SUFFICES ASSUME RxInv, [RxNext]_rxVars PROVE RxInv'
  OBVIOUS
<1>1. CASE SwitchTxOff \/ UNCHANGED rxVars
  <2>1. UNCHANGED <<rxAt, rxWant, rxPhy, rxFlags, rxLink, rxSerial, rxLed, rxWrote>>
        /\ silent' \in BOOLEAN
    BY <1>1 DEF SwitchTxOff, rxVars, RxInv, RxTypeOK
  <2>2. RxTypeOK'
    BY <2>1, RxTypes, RxHistoryTypes, RxTyped DEF RxInv
  <2>3. RxRadioInv'
    BY <2>1 DEF RxInv, RxRadioInv, RxRestarts
  <2>4. RxSerialInv' /\ RxLedInv'
    BY <2>1 DEF RxInv, RxSerialInv, FailsafeShown, RxLedInv, LedEvent
  <2> QED BY <2>2, <2>3, <2>4 DEF RxInv
<1> QED
  BY <1>1, DevicesEventStep, SerialTimeoutStep, NothingHeardStep, RcHeardStep, SyncHeardStep,
     LoopStep, RateStep DEF RxNext, RxPass

\* On the receiver too none of the radio's flags is lost, whatever combination of rate,
\* binding, ratio and power changes between two events: once the devices have taken the
\* event a running PHY is as the program wants it and the LED shows the link and the
\* binding, whichever of the places that change them raised the event. And an SBUS frame written without a
\* link carries the failsafe mark, since what devSerialIO.c remembers of the link is
\* stale only while an event waits.
THEOREM RxFollows == RxSpec => [](RxTypeOK /\ RxRadioFollows /\ LedFollows /\ FailsafeShown)
<1>1. RxInv => RxTypeOK /\ RxRadioFollows /\ LedFollows /\ FailsafeShown
  <2> SUFFICES ASSUME RxInv PROVE RxRadioFollows
    BY DEF RxInv, RxSerialInv, RxLedInv, LedFollows
  <2> SUFFICES ASSUME rxPhy.on, ~rxFlags.event PROVE rxPhy = Tuned(rxWant)
    BY DEF RxRadioFollows
  <2>1. /\ rxPhy.rate = rxWant.rate /\ rxPhy.binding = rxWant.binding
        /\ rxPhy.power = rxWant.power /\ rxPhy.denom = rxWant.denom
    BY DEF RxInv, RxRadioInv, RxRestarts
  <2>2. rxPhy \in RxPhys
    BY RxTypes DEF RxInv
  <2> QED BY <2>1, <2>2 DEF RxPhys, Tuned
<1> QED BY <1>1, RxStarts, RxStep, PTL DEF RxSpec
-----------------------------------------------------------------------------
(* The transmitter's menu: types *)

Dues == [spam : BOOLEAN, model : BOOLEAN, event : BOOLEAN, binding : BOOLEAN]
Rams == [config : Configs, model : Models, modified : BOOLEAN]
Cells == Values \cup {Erased}

LEMMA DefaultsType == Defaults \in Configs /\ Loaded(Defaults) = Defaults
<1>1. Defaults \in Configs
  BY TxMenuAssumption DEF Defaults, Configs
<1> QED BY <1>1, PagesAssumption DEF Loaded

\* A page of settings is taken as it is, what stands for no page as the defaults.
LEMMA LoadedType ==
  ASSUME NEW page \in Configs \cup {Blank, Old}
  PROVE  /\ Loaded(page) \in Configs
         /\ page \in Configs => Loaded(page) = page
BY DefaultsType, PagesAssumption DEF Loaded

LEMMA DrawnType ==
  ASSUME NEW r \in Rams
  PROVE  Drawn(r) \in [Fields -> Cells]
<1>1. \A f \in Fields : Getter(f, r.config[r.model][f]) \in Cells
  BY TxMenuAssumption DEF Getter, Cells, Rams, Configs
<1> QED BY <1>1 DEF Drawn

LEMMA EditedType ==
  ASSUME NEW f \in Fields, NEW v \in Cells, ram \in Rams
  PROVE  /\ Edited(f, v) \in Rams
         /\ Edited(f, v).model = ram.model
         /\ ~Edited(f, v).modified => ~ram.modified /\ Edited(f, v).config = ram.config
<1>1. ram.config \in Configs /\ ram.model \in Models /\ ram.modified \in BOOLEAN
      /\ ram = [config |-> ram.config, model |-> ram.model, modified |-> ram.modified]
  BY DEF Rams
<1> DEFINE c == [ram.config EXCEPT ![ram.model] = [ram.config[ram.model] EXCEPT ![f] = v]]
           b == ram.modified \/ ram.config[ram.model][f] # v
<1>2. c \in Configs
  BY <1>1 DEF Configs, Cells
<1>3. Edited(f, v) = [ram EXCEPT !.config = c, !.modified = b]
  BY DEF Edited
<1>4. ~b => c = ram.config
  BY <1>1 DEF Configs
<1> HIDE DEF c, b
<1>5. b \in BOOLEAN
  BY <1>1 DEF b
<1>6. ~b => ~ram.modified
  BY DEF b
<1> QED BY <1>1, <1>2, <1>3, <1>4, <1>5, <1>6 DEF Rams

\* A start brings every part of the state in order.
LEMMA StartsRight ==
  ASSUME NEW page \in Configs \cup {Blank, Old}, MenuTypeOK, StartFrom(page)
  PROVE  /\ MenuTypeOK'
         /\ RestartKeepsSettings' /\ MenuShowsSettings'
<1>1. ram' = [config |-> Loaded(page), model |-> FirstModel, modified |-> FALSE]
      /\ ram' \in Rams
  BY LoadedType, TxMenuAssumption DEF StartFrom, Rams
<1>2. flash' \in Configs \cup {Old} /\ Loaded(flash') = Loaded(page)
  BY LoadedType, DefaultsType DEF StartFrom, Loaded
<1>3. shown' = Drawn(ram') /\ shown' \in [Fields -> Cells]
  BY <1>1, DrawnType DEF StartFrom
<1>4. due' \in Dues /\ request' = NoRequest
  BY DEF StartFrom, Dues
<1>5. menuUsed' \in [edits : 0 .. MaxMenuEdits, starts : 0 .. MaxMenuStarts]
  BY TxMenuAssumption DEF StartFrom, MenuTypeOK
<1> QED BY <1>1, <1>2, <1>3, <1>4, <1>5
        DEF MenuTypeOK, RestartKeepsSettings, MenuShowsSettings, Rams, Dues, Cells

\* The invariant of the menu: its types, and the two properties, which hold together.
MenuInv == MenuTypeOK /\ RestartKeepsSettings /\ MenuShowsSettings

LEMMA MenuStarts == MenuInit => MenuInv
<1> SUFFICES ASSUME MenuInit PROVE MenuInv
  OBVIOUS
<1>1. PICK page \in {Blank, Old} :
         /\ ram = [config |-> Loaded(page), model |-> FirstModel, modified |-> FALSE]
         /\ flash = IF page = Blank THEN Defaults ELSE page
  BY DEF MenuInit
<1>2. ram \in Rams
  BY <1>1, LoadedType, TxMenuAssumption DEF Rams
<1>3. flash \in Configs \cup {Old} /\ Loaded(flash) = ram.config
  BY <1>1, DefaultsType DEF Loaded
<1>4. shown = Drawn(ram) /\ shown \in [Fields -> Cells]
  BY <1>2, DrawnType DEF MenuInit
<1>5. due \in Dues /\ request = NoRequest
  BY DEF MenuInit, Dues
<1>6. menuUsed \in [edits : 0 .. MaxMenuEdits, starts : 0 .. MaxMenuStarts]
  BY TxMenuAssumption DEF MenuInit
<1> QED BY <1>2, <1>3, <1>4, <1>5, <1>6
        DEF MenuInv, MenuTypeOK, RestartKeepsSettings, MenuShowsSettings, Rams, Dues, Cells

\* An edit that leaves nothing marked has changed nothing.
LEMMA WriteStep ==
  ASSUME MenuInv, request \in Writes, WriteField(request.field, request.arg),
         UNCHANGED <<flash, menuUsed>>, request' = NoRequest
  PROVE  MenuInv'
<1>1. /\ ram \in Rams /\ due \in Dues /\ shown \in [Fields -> Cells]
      /\ request.field \in Fields /\ request.arg \in Cells
  BY DEF MenuInv, MenuTypeOK, Rams, Dues, Writes, Cells
<1> DEFINE f == request.field
<1>2. PICK v \in Allowed(f, request.arg) :
         /\ ram' = Edited(f, v)
         /\ shown' = IF f \in Refreshed THEN Drawn(ram') ELSE shown
         /\ due' = [due EXCEPT !.spam = @ \/ (ram'.config # ram.config /\ ram'.modified)]
  BY DEF WriteField
<1>3. v \in Cells
  BY <1>1, <1>2, TxMenuAssumption DEF Allowed, Cells, Rams, Configs
<1>4. /\ ram' \in Rams /\ ram'.model = ram.model
      /\ ~ram'.modified => ~ram.modified /\ ram'.config = ram.config
  BY <1>1, <1>2, <1>3, EditedType
<1>5. due' \in Dues /\ due'.event = due.event
  BY <1>1, <1>2 DEF Dues
<1>6. shown' \in [Fields -> Cells]
  BY <1>1, <1>2, <1>4, DrawnType
<1>7. RestartKeepsSettings'
  BY <1>4 DEF MenuInv, RestartKeepsSettings
<1>8. MenuShowsSettings'
  <2>1. ~ram'.modified /\ ~due'.event => shown = Drawn(ram) /\ Drawn(ram') = Drawn(ram)
    BY <1>4, <1>5 DEF MenuInv, MenuShowsSettings, Drawn
  <2> QED BY <1>2, <2>1 DEF MenuShowsSettings
<1> QED BY <1>4, <1>5, <1>6, <1>7, <1>8 DEF MenuInv, MenuTypeOK, Rams, Dues, Cells

LEMMA MenuStep == MenuInv /\ [MenuNext]_menuVars => MenuInv'
<1> SUFFICES ASSUME MenuInv, [MenuNext]_menuVars PROVE MenuInv'
  OBVIOUS
<1>0. /\ MenuTypeOK /\ RestartKeepsSettings /\ MenuShowsSettings
      /\ ram \in Rams /\ due \in Dues /\ shown \in [Fields -> Cells]
      /\ flash \in Configs \cup {Old}
      /\ request \in MenuRequests \cup {NoRequest}
      /\ menuUsed \in [edits : 0 .. MaxMenuEdits, starts : 0 .. MaxMenuStarts]
  BY DEF MenuInv, MenuTypeOK, Rams, Dues, Cells
<1>1. CASE TxMenuPowerCycle
  BY <1>0, <1>1, StartsRight DEF TxMenuPowerCycle, MenuInv
<1>2. CASE ParamUpdateReq
  <2>1. PICK r \in MenuRequests :
          /\ r.type = "write" => menuUsed.edits < MaxMenuEdits
          /\ request' = r
          /\ menuUsed' = [menuUsed EXCEPT !.edits = IF r.type = "write" THEN @ + 1 ELSE @]
    BY <1>2 DEF ParamUpdateReq
  <2>2. menuUsed' \in [edits : 0 .. MaxMenuEdits, starts : 0 .. MaxMenuStarts]
    BY <1>0, <2>1, TxMenuAssumption
  <2>3. UNCHANGED <<ram, flash, shown, due>>
    BY <1>2 DEF ParamUpdateReq
  <2> QED BY <1>0, <2>1, <2>2, <2>3
          DEF MenuInv, MenuTypeOK, RestartKeepsSettings, MenuShowsSettings, Drawn
<1>3. CASE HandleUpdateParameter
  <2>1. CASE request.type = "write"
    <3>1. request \in Writes
      BY <1>0, <1>3, <2>1 DEF HandleUpdateParameter, MenuRequests
    <3> QED BY <1>3, <2>1, <3>1, WriteStep DEF HandleUpdateParameter
  <2>2. CASE request.type = "bind"
    <3>1. /\ due' = IF due.binding THEN due
                    ELSE [due EXCEPT !.binding = TRUE, !.event = TRUE, !.spam = FALSE]
          /\ UNCHANGED <<ram, shown, flash, menuUsed>> /\ request' = NoRequest
      BY <1>3, <2>2 DEF HandleUpdateParameter
    <3>2. due' \in Dues /\ (due.event => due'.event)
      BY <1>0, <3>1 DEF Dues
    <3> QED BY <1>0, <3>1, <3>2
            DEF MenuInv, MenuTypeOK, RestartKeepsSettings, MenuShowsSettings, Drawn, Dues
  <2>3. CASE request.type \notin {"write", "bind"}
    <3>1. UNCHANGED <<ram, shown, due, flash, menuUsed>> /\ request' = NoRequest
      BY <1>3, <2>3 DEF HandleUpdateParameter
    <3> QED BY <1>0, <3>1
            DEF MenuInv, MenuTypeOK, RestartKeepsSettings, MenuShowsSettings, Drawn
  <2> QED BY <2>1, <2>2, <2>3
<1>4. CASE MenuEvent
  <2>1. due' \in Dues /\ shown' \in [Fields -> Cells] /\ shown' = Drawn(ram)
        /\ UNCHANGED <<request, ram, flash, menuUsed>>
    BY <1>0, <1>4, DrawnType DEF MenuEvent, Dues
  <2> QED BY <1>0, <2>1
          DEF MenuInv, MenuTypeOK, RestartKeepsSettings, MenuShowsSettings, Drawn, Dues, Cells
<1>5. ASSUME NEW m \in Models, ModelSelect(m) PROVE MenuInv'
  <2>1. ram' \in Rams /\ ram'.config = ram.config /\ ram'.modified = ram.modified
    BY <1>0, <1>5 DEF ModelSelect, Rams
  <2>2. due' \in Dues /\ due'.event
    BY <1>0, <1>5 DEF ModelSelect, Dues
  <2>3. UNCHANGED <<request, flash, shown, menuUsed>>
    BY <1>5 DEF ModelSelect
  <2> QED BY <1>0, <2>1, <2>2, <2>3
          DEF MenuInv, MenuTypeOK, RestartKeepsSettings, MenuShowsSettings, Rams, Dues
<1>6. CASE Announced
  <2>1. due' \in Dues /\ due'.event = due.event /\ UNCHANGED <<request, ram, flash, shown, menuUsed>>
    BY <1>0, <1>6 DEF Announced, Dues
  <2> QED BY <1>0, <2>1
          DEF MenuInv, MenuTypeOK, RestartKeepsSettings, MenuShowsSettings, Drawn, Dues
<1>7. CASE LeaveBinding
  <2>1. due' \in Dues /\ due'.event /\ UNCHANGED <<request, ram, flash, shown, menuUsed>>
    BY <1>0, <1>7 DEF LeaveBinding, Dues
  <2> QED BY <1>0, <2>1
          DEF MenuInv, MenuTypeOK, RestartKeepsSettings, MenuShowsSettings, Dues
<1>8. CASE ConfigChangeCommit
  <2>1. ram' \in Rams /\ ram'.config = ram.config /\ ~ram'.modified
    BY <1>0, <1>8 DEF ConfigChangeCommit, Rams
  <2>2. due' \in Dues /\ due'.event
    BY <1>0, <1>8 DEF ConfigChangeCommit, AfterCommit, Dues
  <2>3. flash' = IF ram.modified THEN ram.config ELSE flash
    BY <1>8 DEF ConfigChangeCommit
  <2>4. ram.config \in Configs /\ Loaded(ram.config) = ram.config
    BY <1>0, LoadedType DEF Rams
  <2>5. flash' \in Configs \cup {Old} /\ Loaded(flash') = ram.config
    BY <1>0, <2>3, <2>4 DEF RestartKeepsSettings
  <2>6. UNCHANGED <<request, shown, menuUsed>>
    BY <1>8 DEF ConfigChangeCommit
  <2> QED BY <1>0, <2>1, <2>2, <2>5, <2>6
          DEF MenuInv, MenuTypeOK, RestartKeepsSettings, MenuShowsSettings, Rams, Dues
<1>9. CASE ConfigCommitCutOff
  <2>1. \E page \in Configs \cup {Blank, Old} : StartFrom(page)
    <3>1. CASE StartFrom(Blank)
      BY <3>1
    <3>2. ASSUME NEW written \in SUBSET Models,
                 StartFrom([m \in Models |-> IF m \in written THEN ram.config[m]
                                             ELSE [f \in Fields |-> Erased]])
          PROVE  \E page \in Configs \cup {Blank, Old} : StartFrom(page)
      <4>1. [m \in Models |-> IF m \in written THEN ram.config[m]
                              ELSE [f \in Fields |-> Erased]] \in Configs
        BY <1>0 DEF Rams, Configs
      <4> QED BY <3>2, <4>1
    <3> QED BY <1>9, <3>1, <3>2 DEF ConfigCommitCutOff
  <2> QED BY <1>0, <2>1, StartsRight DEF MenuInv
<1>10. CASE UNCHANGED menuVars
  BY <1>0, <1>10
     DEF MenuInv, MenuTypeOK, RestartKeepsSettings, MenuShowsSettings, Drawn, menuVars
<1> QED BY <1>1, <1>2, <1>3, <1>4, <1>5, <1>6, <1>7, <1>8, <1>9, <1>10 DEF MenuNext

\* With nothing marked as modified, a restart of the transmitter comes up with the
\* settings it runs with, and the menu shows them unless an event waits (TxConfigLoad,
\* ConfigChangeCommit, the setters of config.c and the menu's callbacks).
THEOREM TxSettingsRight ==
  MenuSpec => [](MenuTypeOK /\ RestartKeepsSettings /\ MenuShowsSettings)
<1>1. MenuSpec => []MenuInv
  BY MenuStarts, MenuStep, PTL DEF MenuSpec
<1>2. MenuInv => MenuTypeOK /\ RestartKeepsSettings /\ MenuShowsSettings
  BY DEF MenuInv
<1> QED BY <1>1, <1>2, PTL
-----------------------------------------------------------------------------
(* The receiver's menu *)

RxStates == [binding : BOOLEAN, matched : BOOLEAN, event : BOOLEAN, reboot : BOOLEAN,
             pushed : BOOLEAN]
RxCells == RxValues \cup {RxErased}
RxCopies == [set : RxPages, modified : BOOLEAN]

\* What the menu's promises rest on. A page has a version, so it is never taken for an
\* empty one; a request waits within the pass that took it, which the receiver is not
\* binding in; a reboot is asked for just before the part of the pass that stores.
RxMenuInv ==
  /\ RxMenuTypeOK
  /\ rxConfig.set # RxNoSettings /\ rxFlash # RxNoSettings
  /\ rxRequest # RxNoRequest => pass \in {"push", "handle"} /\ ~rxState.binding
  /\ rxState.reboot => \/ pass = "commit" /\ ~rxState.binding
                       \/ pass = "devices" /\ ~rxConfig.modified
  /\ ~overtaken
  /\ ~rxConfig.modified => rxFlash = rxConfig.set
  /\ rxRuns = rxConfig.set["protocol"]
  /\ ~rxConfig.modified /\ ~rxState.event => rxShown = MenuOf(rxConfig.set)

LEMMA RxInvGives == RxMenuInv => RxMenuTypeOK /\ RxRestartKeepsSettings /\ RequestsHandled
                                 /\ RxMenuShowsSettings
BY DEF RxMenuInv, RxRestartKeepsSettings, RequestsHandled, RxMenuShowsSettings, RxLoaded

LEMMA RxDefaultsType == RxDefaults \in RxPages /\ RxDefaults # RxNoSettings
<1>1. RxDefaults \in RxPages
  BY RxMenuAssumption DEF RxDefaults, RxPages
<1>2. RxDefaults["uid"] # RxNoSettings["uid"]
  BY RxMenuAssumption DEF RxDefaults, RxNoSettings, RxSettings
<1> QED BY <1>1, <1>2

LEMMA MenuOfType ==
  ASSUME NEW p \in RxPages
  PROVE  MenuOf(p) \in [{"model", "protocol"} -> RxCells]
BY DEF MenuOf, RxPages, RxSettings, RxCells

\* A setter keeps the page one with settings, and marks what it changes.
LEMMA RxEditedType ==
  ASSUME rxConfig \in RxCopies, rxConfig.set # RxNoSettings,
         NEW s \in RxSettings, NEW v \in RxValues
  PROVE  /\ RxEdited(s, v) \in RxCopies /\ RxEdited(s, v).set # RxNoSettings
         /\ RxEdited(s, v).set[s] = v
         /\ \A t \in RxSettings \ {s} : RxEdited(s, v).set[t] = rxConfig.set[t]
         /\ ~RxEdited(s, v).modified => ~rxConfig.modified /\ RxEdited(s, v).set = rxConfig.set
<1>1. rxConfig.set \in RxPages /\ rxConfig.modified \in BOOLEAN
  BY DEF RxCopies
<1> DEFINE p == [rxConfig.set EXCEPT ![s] = v]
<1>2. RxEdited(s, v) = [set |-> p, modified |-> rxConfig.modified \/ s = "uid" \/ rxConfig.set[s] # v]
  BY DEF RxEdited
<1>3. p \in RxPages /\ p[s] = v /\ \A t \in RxSettings \ {s} : p[t] = rxConfig.set[t]
  BY <1>1 DEF RxPages
<1>4. p # RxNoSettings
  <2>1. RxNoSettings[s] = RxErased
    BY DEF RxNoSettings
  <2> QED BY <1>3, <2>1, RxMenuAssumption
<1>5. rxConfig.set[s] = v => p = rxConfig.set
  BY <1>1 DEF RxPages
<1> HIDE DEF p
<1>6. RxEdited(s, v).set = p
  BY <1>2
<1>7. RxEdited(s, v).modified = (rxConfig.modified \/ s = "uid" \/ rxConfig.set[s] # v)
  BY <1>2
<1>8. RxEdited(s, v) \in RxCopies
  BY <1>1, <1>2, <1>3 DEF RxCopies
<1> QED BY <1>1, <1>3, <1>4, <1>5, <1>6, <1>7, <1>8

\* After a commit nothing is marked, and the page holds the settings.
LEMMA RxCommitDone ==
  ASSUME NEW c \in RxCopies, rxFlash \in RxPages, RxCommit(c)
  PROVE  /\ rxConfig' \in RxCopies /\ rxConfig'.set = c.set /\ ~rxConfig'.modified
         /\ rxFlash' \in RxPages
         /\ rxFlash' = IF c.modified THEN c.set ELSE rxFlash
BY DEF RxCommit, RxCopies

LEMMA RxStartsRight ==
  ASSUME RxMenuTypeOK, ~overtaken, NEW page \in RxPages, RxStartFrom(page)
  PROVE  RxMenuInv'
<1>1. RxLoaded(page) \in RxPages /\ RxLoaded(page) # RxNoSettings
  BY RxDefaultsType DEF RxLoaded
<1> DEFINE p == RxLoaded(page)
<1>2. /\ rxConfig' = [set |-> p, modified |-> FALSE] /\ rxFlash' = p
      /\ rxShown' = MenuOf(p) /\ rxRuns' = p["protocol"]
      /\ pass' = "devices" /\ rxRequest' = RxNoRequest /\ overtaken' = overtaken
      /\ rxState' = [binding |-> FALSE, matched |-> FALSE, event |-> TRUE, reboot |-> FALSE,
                     pushed |-> FALSE]
  BY DEF RxStartFrom
<1>3. rxUsed' \in [edits : 0..MaxRxEdits, starts : 0..MaxRxStarts]
  BY RxMenuAssumption DEF RxStartFrom, RxMenuTypeOK
<1> HIDE DEF p
<1>4. p \in RxPages /\ p # RxNoSettings
  BY <1>1 DEF p
<1>5. MenuOf(p) \in [{"model", "protocol"} -> RxCells] /\ p["protocol"] \in RxCells
  BY <1>4, MenuOfType DEF RxPages, RxSettings, RxCells
<1>6. rxState' \in RxStates /\ ~rxState'.reboot
  BY <1>2 DEF RxStates
<1>7. rxConfig' \in RxCopies /\ rxConfig'.set = p
  BY <1>2, <1>4 DEF RxCopies
<1>8. RxMenuTypeOK'
  BY <1>2, <1>3, <1>4, <1>5, <1>6, <1>7 DEF RxMenuTypeOK, RxCopies, RxCells, RxStates
<1> QED BY <1>2, <1>4, <1>6, <1>7, <1>8 DEF RxMenuInv

\* The settings were changed in a part of the pass that neither stores nor shows them.
LEMMA RxEditStep ==
  ASSUME RxMenuInv, NEW s \in RxSettings \ {"protocol"}, RxEdit(s), ~rxState.reboot
  PROVE  /\ rxConfig' \in RxCopies /\ rxConfig'.set # RxNoSettings
         /\ rxUsed' \in [edits : 0..MaxRxEdits, starts : 0..MaxRxStarts]
         /\ ~rxConfig'.modified => ~rxConfig.modified /\ rxConfig'.set = rxConfig.set
         /\ rxConfig'.set["protocol"] = rxConfig.set["protocol"]
         /\ s # "model" => MenuOf(rxConfig'.set) = MenuOf(rxConfig.set)
<1>1. rxConfig \in RxCopies /\ rxConfig.set # RxNoSettings /\ "protocol" \in RxSettings
      /\ rxUsed \in [edits : 0..MaxRxEdits, starts : 0..MaxRxStarts]
  BY DEF RxMenuInv, RxMenuTypeOK, RxCopies, RxSettings
<1>2. rxUsed' \in [edits : 0..MaxRxEdits, starts : 0..MaxRxStarts]
  <2>1. rxUsed.edits < MaxRxEdits /\ rxUsed' = [rxUsed EXCEPT !.edits = @ + 1]
    BY DEF RxEdit
  <2> QED BY <1>1, <2>1, RxMenuAssumption
<1>3. PICK v \in RxValues : rxConfig' = RxEdited(s, v)
  BY DEF RxEdit
<1>4. /\ rxConfig' \in RxCopies /\ rxConfig'.set # RxNoSettings
      /\ \A t \in RxSettings \ {s} : rxConfig'.set[t] = rxConfig.set[t]
      /\ ~rxConfig'.modified => ~rxConfig.modified /\ rxConfig'.set = rxConfig.set
  BY <1>1, <1>3, RxEditedType
<1>5. s # "model" => MenuOf(rxConfig'.set) = MenuOf(rxConfig.set)
  BY <1>4 DEF MenuOf, RxSettings
<1> QED BY <1>1, <1>2, <1>4, <1>5

\* A commit with the event that follows it, in any part before the one that stores:
\* nothing is modified any more, and the menu will be redrawn.
LEMMA RxCommitStep ==
  ASSUME RxMenuInv, NEW c \in RxCopies, c.set # RxNoSettings, RxCommit(c),
         c.modified \/ c.set = rxFlash
  PROVE  /\ rxConfig' \in RxCopies /\ rxConfig'.set = c.set /\ ~rxConfig'.modified
         /\ rxFlash' \in RxPages /\ rxFlash' = c.set
<1>1. rxFlash \in RxPages
  BY DEF RxMenuInv, RxMenuTypeOK
<1> QED BY <1>1, RxCommitDone DEF RxCopies

\* EnterBindingMode, before anything else of the pass can have asked for a reboot.
LEMMA RxBindStep ==
  ASSUME RxMenuInv, RxEnterBinding
  PROVE  /\ rxConfig' \in RxCopies /\ rxConfig'.set = rxConfig.set
         /\ rxConfig'.modified => rxConfig.modified
         /\ rxFlash' \in RxPages /\ rxFlash' # RxNoSettings
         /\ ~rxConfig'.modified => rxFlash' = rxConfig.set
         /\ rxState' \in RxStates /\ rxState'.reboot = rxState.reboot
         /\ rxState.event => rxState'.event
         /\ rxState'.event \/ (rxConfig' = rxConfig /\ rxState' = rxState)
<1>1. /\ rxConfig \in RxCopies /\ rxConfig.set # RxNoSettings
      /\ rxFlash \in RxPages /\ rxFlash # RxNoSettings
      /\ ~rxConfig.modified => rxFlash = rxConfig.set
      /\ rxState \in RxStates
  BY DEF RxMenuInv, RxMenuTypeOK, RxCopies, RxStates
<1>2. CASE rxState.binding
  BY <1>1, <1>2 DEF RxEnterBinding
<1>3. CASE ~rxState.binding
  <2>1. RxCommit(rxConfig) /\ rxState' = [rxState EXCEPT !.binding = TRUE, !.matched = FALSE, !.event = TRUE]
    BY <1>3 DEF RxEnterBinding
  <2>2. rxConfig.modified \/ rxConfig.set = rxFlash
    BY <1>1
  <2>3. /\ rxConfig' \in RxCopies /\ rxConfig'.set = rxConfig.set /\ ~rxConfig'.modified
        /\ rxFlash' \in RxPages /\ rxFlash' = rxConfig.set
    BY <1>1, <2>1, <2>2, RxCommitStep
  <2>4. rxState' \in RxStates /\ rxState'.reboot = rxState.reboot /\ rxState'.event
    BY <1>1, <2>1 DEF RxStates
  <2> QED BY <1>1, <2>3, <2>4
<1> QED BY <1>2, <1>3

Parts == {"devices", "serial", "binding", "msp", "push", "handle", "commit"}
RxShapes == [{"model", "protocol"} -> RxCells]
RxUses == [edits : 0..MaxRxEdits, starts : 0..MaxRxStarts]

LEMMA RxUnfold ==
  ASSUME RxMenuInv
  PROVE  /\ pass \in Parts /\ rxRequest \in {RxNoRequest} \cup RxRequests
         /\ rxConfig \in RxCopies /\ rxConfig.set \in RxPages /\ rxConfig.modified \in BOOLEAN
         /\ rxFlash \in RxPages /\ rxShown \in RxShapes
         /\ rxRuns \in RxCells /\ rxState \in RxStates /\ overtaken = FALSE
         /\ rxUsed \in RxUses
BY DEF RxMenuInv, RxMenuTypeOK, Parts, RxCopies, RxShapes, RxStates, RxUses, RxCells

\* The invariant from what a part of the pass does to each variable.
LEMMA RxFold ==
  ASSUME pass' \in Parts, rxRequest' \in {RxNoRequest} \cup RxRequests,
         rxConfig' \in RxCopies, rxFlash' \in RxPages, rxShown' \in RxShapes,
         rxRuns' \in RxCells, rxState' \in RxStates, rxUsed' \in RxUses, overtaken' = FALSE,
         rxConfig'.set # RxNoSettings, rxFlash' # RxNoSettings,
         rxRequest' # RxNoRequest => pass' \in {"push", "handle"} /\ ~rxState'.binding,
         rxState'.reboot => \/ pass' = "commit" /\ ~rxState'.binding
                            \/ pass' = "devices" /\ ~rxConfig'.modified,
         ~rxConfig'.modified => rxFlash' = rxConfig'.set,
         rxRuns' = rxConfig'.set["protocol"],
         ~rxConfig'.modified /\ ~rxState'.event => rxShown' = MenuOf(rxConfig'.set)
  PROVE  RxMenuInv'
BY DEF RxMenuInv, RxMenuTypeOK, Parts, RxCopies, RxShapes, RxStates, RxUses, RxCells

LEMMA RxDevicesStep == RxMenuInv /\ RxDevicesTurn => RxMenuInv'
<1> SUFFICES ASSUME RxMenuInv, RxDevicesTurn PROVE RxMenuInv'
  OBVIOUS
<1>1. pass = "devices" /\ pass' = "serial" /\ ~rxState.reboot
      /\ rxShown' = (IF rxState.event THEN MenuOf(rxConfig.set) ELSE rxShown)
      /\ rxState' = [rxState EXCEPT !.event = FALSE]
      /\ UNCHANGED <<rxRequest, rxFlash, rxRuns, overtaken>>
  BY DEF RxDevicesTurn, InPart
<1>2. rxState' \in RxStates /\ rxState'.reboot = FALSE
  BY <1>1, RxUnfold DEF RxStates
<1>3. rxShown' \in RxShapes
  BY <1>1, RxUnfold, MenuOfType DEF RxShapes
<1>4. /\ rxConfig' \in RxCopies /\ rxConfig'.set # RxNoSettings /\ rxUsed' \in RxUses
      /\ ~rxConfig'.modified => ~rxConfig.modified /\ rxConfig'.set = rxConfig.set
      /\ rxConfig'.set["protocol"] = rxConfig.set["protocol"]
  <2>1. CASE UNCHANGED <<rxConfig, rxUsed>>
    BY <2>1, RxUnfold DEF RxMenuInv
  <2>2. CASE RxEdit(IF rxState.binding THEN "uid" ELSE "rate")
    <3>1. PICK s \in {"uid", "rate"} : RxEdit(s)
      BY <2>2
    <3>2. s \in RxSettings \ {"protocol"}
      BY DEF RxSettings
    <3> QED BY <1>1, <3>1, <3>2, RxEditStep DEF RxUses
  <2> QED BY <2>1, <2>2 DEF RxDevicesTurn
<1>5. rxRequest = RxNoRequest
  BY <1>1 DEF RxMenuInv
<1>6. ~rxConfig'.modified => rxFlash' = rxConfig'.set /\ rxShown' = MenuOf(rxConfig'.set)
  BY <1>1, <1>4 DEF RxMenuInv
<1>7. rxRuns' = rxConfig'.set["protocol"] /\ rxFlash' # RxNoSettings
  BY <1>1, <1>4 DEF RxMenuInv
<1> QED BY <1>1, <1>2, <1>3, <1>4, <1>5, <1>6, <1>7, RxUnfold, RxFold DEF Parts

LEMMA RxSerialStep == RxMenuInv /\ RxSerialTurn => RxMenuInv'
<1> SUFFICES ASSUME RxMenuInv, RxSerialTurn PROVE RxMenuInv'
  OBVIOUS
<1>1. pass = "serial" /\ pass' = "binding" /\ UNCHANGED <<rxRequest, rxShown, rxRuns, overtaken>>
      /\ ~rxState.reboot /\ rxRequest = RxNoRequest
  BY DEF RxSerialTurn, InPart, RxMenuInv
<1>2. CASE UNCHANGED <<rxConfig, rxFlash, rxState, rxUsed>>
  BY <1>1, <1>2, RxUnfold, RxFold DEF RxMenuInv, Parts
<1>3. CASE UpdateModelMatch /\ UNCHANGED rxFlash
  <2>1. "model" \in RxSettings \ {"protocol"} /\ RxEdit("model")
    BY <1>3 DEF UpdateModelMatch, RxSettings
  <2>2. /\ rxConfig' \in RxCopies /\ rxConfig'.set # RxNoSettings /\ rxUsed' \in RxUses
        /\ ~rxConfig'.modified => ~rxConfig.modified /\ rxConfig'.set = rxConfig.set
        /\ rxConfig'.set["protocol"] = rxConfig.set["protocol"]
    BY <1>1, <2>1, RxEditStep DEF RxUses
  <2>3. /\ rxState' \in RxStates /\ rxState'.reboot = rxState.reboot
        /\ rxState'.event = rxState.event
    BY <1>3, RxUnfold DEF UpdateModelMatch, RxStates
  <2> QED BY <1>1, <1>3, <2>2, <2>3, RxUnfold, RxFold DEF RxMenuInv, Parts
<1>4. CASE RxEnterBinding /\ UNCHANGED rxUsed
  <2>1. ~rxConfig'.modified /\ ~rxState'.event => rxShown' = MenuOf(rxConfig'.set)
    BY <1>1, <1>4, RxBindStep DEF RxMenuInv
  <2> QED BY <1>1, <1>4, <2>1, RxBindStep, RxUnfold, RxFold DEF RxMenuInv, Parts
<1> QED BY <1>2, <1>3, <1>4 DEF RxSerialTurn

LEMMA RxBindingStep == RxMenuInv /\ RxBindingTurn => RxMenuInv'
<1> SUFFICES ASSUME RxMenuInv, RxBindingTurn PROVE RxMenuInv'
  OBVIOUS
<1>1. /\ pass = "binding" /\ pass' = "msp" /\ ~rxState.reboot /\ rxRequest = RxNoRequest
      /\ UNCHANGED <<rxRequest, rxShown, rxRuns, overtaken, rxUsed>>
  BY DEF RxBindingTurn, InPart, RxMenuInv
<1>2. CASE rxState.binding /\ rxConfig.modified
  <2>1. RxCommit(rxConfig) /\ rxState' = [rxState EXCEPT !.binding = FALSE, !.event = TRUE]
    BY <1>2 DEF RxBindingTurn
  <2>2. rxState' \in RxStates /\ rxState'.event /\ rxState'.reboot = rxState.reboot
    BY <2>1, RxUnfold DEF RxStates
  <2>3. /\ rxConfig' \in RxCopies /\ rxConfig'.set = rxConfig.set /\ ~rxConfig'.modified
        /\ rxFlash' \in RxPages /\ rxFlash' = rxConfig.set
    BY <1>2, <2>1, RxCommitStep, RxUnfold DEF RxMenuInv
  <2> QED BY <1>1, <2>2, <2>3, RxUnfold, RxFold DEF RxMenuInv, Parts
<1>3. CASE RxEnterBinding
  <2>1. ~rxConfig'.modified /\ ~rxState'.event => rxShown' = MenuOf(rxConfig'.set)
    BY <1>1, <1>3, RxBindStep DEF RxMenuInv
  <2> QED BY <1>1, <1>3, <2>1, RxBindStep, RxUnfold, RxFold DEF RxMenuInv, Parts
<1>4. CASE UNCHANGED <<rxConfig, rxFlash, rxState>>
  BY <1>1, <1>4, RxUnfold, RxFold DEF RxMenuInv, Parts
<1> QED BY <1>2, <1>3, <1>4 DEF RxBindingTurn

LEMMA RxMspStep == RxMenuInv /\ RxMspTurn => RxMenuInv'
<1> SUFFICES ASSUME RxMenuInv, RxMspTurn PROVE RxMenuInv'
  OBVIOUS
<1>1. /\ pass = "msp" /\ pass' = "push" /\ ~rxState.reboot /\ rxRequest = RxNoRequest
      /\ UNCHANGED <<rxFlash, rxShown, rxRuns>>
  BY DEF RxMspTurn, InPart, RxMenuInv
<1>2. CASE UNCHANGED <<rxRequest, rxConfig, rxState, overtaken, rxUsed>>
  BY <1>1, <1>2, RxUnfold, RxFold DEF RxMenuInv, Parts
<1>3. CASE /\ ~rxState.binding /\ RxEdit("model")
           /\ rxState' = [rxState EXCEPT !.matched = TRUE]
           /\ UNCHANGED <<rxRequest, overtaken>>
  <2>1. "model" \in RxSettings \ {"protocol"} /\ RxEdit("model")
    BY <1>3 DEF RxSettings
  <2>2. /\ rxConfig' \in RxCopies /\ rxConfig'.set # RxNoSettings /\ rxUsed' \in RxUses
        /\ ~rxConfig'.modified => ~rxConfig.modified /\ rxConfig'.set = rxConfig.set
        /\ rxConfig'.set["protocol"] = rxConfig.set["protocol"]
    BY <1>1, <2>1, RxEditStep DEF RxUses
  <2>3. /\ rxState' \in RxStates /\ rxState'.reboot = rxState.reboot
        /\ rxState'.event = rxState.event
    BY <1>3, RxUnfold DEF RxStates
  <2> QED BY <1>1, <1>3, <2>2, <2>3, RxUnfold, RxFold DEF RxMenuInv, Parts
<1>4. CASE /\ ~rxState.binding /\ \E r \in RxRequests : ParamRequest(r)
           /\ UNCHANGED <<rxConfig, rxState, rxUsed>>
  <2>1. rxRequest' \in RxRequests /\ overtaken' = overtaken
    BY <1>1, <1>4 DEF ParamRequest, RxMenuInv, RxMenuTypeOK
  <2> QED BY <1>1, <1>4, <2>1, RxUnfold, RxFold DEF RxMenuInv, Parts
<1> QED BY <1>2, <1>3, <1>4 DEF RxMspTurn

LEMMA RxPushStep ==
  ASSUME RxMenuInv, NEW idle \in BOOLEAN, RxPushTurn(idle)
  PROVE  RxMenuInv'
<1>1. /\ pass = "push" /\ pass' = "handle" /\ ~rxState.reboot
      /\ UNCHANGED <<rxConfig, rxFlash, rxShown, rxRuns, rxUsed>>
  BY DEF RxPushTurn, InPart, RxMenuInv
<1>2. CASE MayPush /\ idle
  <2>1. rxRequest' = [type |-> "read"] /\ overtaken' = overtaken
    BY <1>2 DEF RxPushTurn, ParamRequest, MayPush, RxMenuInv, RxMenuTypeOK
  <2>2. rxRequest' \in RxRequests
    BY <2>1 DEF RxRequests
  <2>3. rxState' \in RxStates /\ rxState'.reboot = rxState.reboot /\ rxState'.event = rxState.event
        /\ ~rxState'.binding
    BY <1>2, RxUnfold DEF RxPushTurn, RxStates, MayPush
  <2> QED BY <1>1, <2>1, <2>2, <2>3, RxUnfold, RxFold DEF RxMenuInv, Parts
<1>3. CASE ~(MayPush /\ idle)
  <2>1. UNCHANGED <<rxRequest, rxState, overtaken>>
    BY <1>3 DEF RxPushTurn
  <2> QED BY <1>1, <2>1, RxUnfold, RxFold DEF RxMenuInv, Parts
<1> QED BY <1>2, <1>3

LEMMA RxHandleStep == RxMenuInv /\ RxHandleTurn => RxMenuInv'
<1> SUFFICES ASSUME RxMenuInv, RxHandleTurn PROVE RxMenuInv'
  OBVIOUS
<1>1. /\ pass = "handle" /\ pass' = "commit" /\ ~rxState.reboot
      /\ rxRequest' = RxNoRequest /\ UNCHANGED <<overtaken, rxUsed>>
  BY DEF RxHandleTurn, InPart, RxMenuInv
<1>2. CASE rxRequest.type \in {"none", "read"}
  <2>1. UNCHANGED <<rxConfig, rxFlash, rxShown, rxRuns, rxState>>
    BY <1>2 DEF RxHandleTurn
  <2> QED BY <1>1, <2>1, RxUnfold, RxFold DEF RxMenuInv, Parts
<1>3. CASE rxRequest.type = "reboot"
  <2>1. rxState' = [rxState EXCEPT !.reboot = TRUE] /\ UNCHANGED <<rxConfig, rxFlash, rxShown, rxRuns>>
    BY <1>3 DEF RxHandleTurn
  <2>2. ~rxState.binding
    BY <1>3 DEF RxNoRequest, RxMenuInv
  <2>3. rxState' \in RxStates /\ rxState'.event = rxState.event /\ ~rxState'.binding
    BY <2>1, <2>2, RxUnfold DEF RxStates
  <2> QED BY <1>1, <2>1, <2>3, RxUnfold, RxFold DEF RxMenuInv, Parts
<1>4. CASE rxRequest.type = "bind"
  <2>1. RxEnterBinding /\ UNCHANGED <<rxShown, rxRuns>>
    BY <1>4 DEF RxHandleTurn
  <2>2. ~rxConfig'.modified /\ ~rxState'.event => rxShown' = MenuOf(rxConfig'.set)
    BY <1>1, <2>1, RxBindStep DEF RxMenuInv
  <2> QED BY <1>1, <2>1, <2>2, RxBindStep, RxUnfold, RxFold DEF RxMenuInv, Parts
<1>5. CASE rxRequest.type \notin {"none", "read", "reboot", "bind"}
  <2>1. rxRequest.value \in RxValues
    BY <1>5, RxUnfold DEF RxRequests, RxNoRequest
  <2> DEFINE p == rxRequest.value
             c == RxEdited("protocol", p)
  <2>2. /\ RxCommit(c) /\ rxShown' = [rxShown EXCEPT !["protocol"] = p] /\ rxRuns' = p
        /\ rxState' = [rxState EXCEPT !.event = TRUE]
    BY <1>5 DEF RxHandleTurn, ApplyProtocol
  <2>3. /\ c \in RxCopies /\ c.set # RxNoSettings /\ c.set["protocol"] = p
        /\ ~c.modified => ~rxConfig.modified /\ c.set = rxConfig.set
    BY <2>1, RxEditedType, RxUnfold DEF RxMenuInv, RxSettings
  <2> HIDE DEF c
  <2>4. c.modified \/ c.set = rxFlash
    BY <2>3, RxUnfold DEF RxMenuInv, RxCopies
  <2>5. /\ rxConfig' \in RxCopies /\ rxConfig'.set = c.set /\ ~rxConfig'.modified
        /\ rxFlash' \in RxPages /\ rxFlash' = c.set
    BY <2>2, <2>3, <2>4, RxCommitStep
  <2>6. rxState' \in RxStates /\ rxState'.event /\ rxState'.reboot = rxState.reboot
    BY <2>2, RxUnfold DEF RxStates
  <2>7. rxShown' \in RxShapes /\ rxRuns' \in RxCells
    BY <2>1, <2>2, RxUnfold DEF RxShapes, RxCells
  <2> QED BY <1>1, <2>2, <2>3, <2>5, <2>6, <2>7, RxUnfold, RxFold DEF RxMenuInv, Parts
<1> QED BY <1>2, <1>3, <1>4, <1>5

LEMMA RxCommitPartStep == RxMenuInv /\ RxCommitTurn => RxMenuInv'
<1> SUFFICES ASSUME RxMenuInv, RxCommitTurn PROVE RxMenuInv'
  OBVIOUS
<1>1. /\ pass = "commit" /\ pass' = "devices" /\ rxRequest = RxNoRequest
      /\ UNCHANGED <<rxRequest, rxShown, rxRuns, overtaken, rxUsed>>
  BY DEF RxCommitTurn, InPart, RxMenuInv
<1>2. CASE CommitNow
  <2>1. RxCommit(rxConfig) /\ rxState' = [rxState EXCEPT !.event = TRUE] /\ rxConfig.modified
    BY <1>2 DEF RxCommitTurn, CommitNow
  <2>2. rxState' \in RxStates /\ rxState'.event
    BY <2>1, RxUnfold DEF RxStates
  <2>3. /\ rxConfig' \in RxCopies /\ rxConfig'.set = rxConfig.set /\ ~rxConfig'.modified
        /\ rxFlash' \in RxPages /\ rxFlash' = rxConfig.set
    BY <2>1, RxCommitStep, RxUnfold DEF RxMenuInv
  <2> QED BY <1>1, <2>2, <2>3, RxUnfold, RxFold DEF RxMenuInv, Parts
<1>3. CASE ~CommitNow
  <2>1. UNCHANGED <<rxConfig, rxFlash, rxState>>
    BY <1>3 DEF RxCommitTurn
  <2>2. rxState.reboot => ~rxConfig.modified
    BY <1>1, <1>3 DEF CommitNow, RxMenuInv
  <2> QED BY <1>1, <2>1, <2>2, RxUnfold, RxFold DEF RxMenuInv, Parts
<1> QED BY <1>2, <1>3

LEMMA RxCutStep == RxMenuInv /\ RxCommitCutOff => RxMenuInv'
<1> SUFFICES ASSUME RxMenuInv, RxCommitCutOff PROVE RxMenuInv'
  OBVIOUS
<1>1. PICK n \in SUBSET RxSettings :
        RxStartFrom([s \in RxSettings |-> IF s \in n THEN rxConfig.set[s] ELSE RxErased])
  BY DEF RxCommitCutOff
<1>2. [s \in RxSettings |-> IF s \in n THEN rxConfig.set[s] ELSE RxErased] \in RxPages
  BY RxUnfold DEF RxPages
<1> QED BY <1>1, <1>2, RxStartsRight DEF RxMenuInv

LEMMA RxMenuStarts == RxMenuInit => RxMenuInv
<1> SUFFICES ASSUME RxMenuInit PROVE RxMenuInv
  OBVIOUS
<1>1. /\ RxDefaults \in RxPages /\ RxDefaults # RxNoSettings
      /\ rxConfig = [set |-> RxDefaults, modified |-> FALSE] /\ rxFlash = RxDefaults
      /\ rxShown = MenuOf(RxDefaults) /\ rxRuns = RxStandard
      /\ pass = "devices" /\ rxRequest = RxNoRequest /\ ~overtaken
  BY RxDefaultsType DEF RxMenuInit
<1>2. rxConfig \in RxCopies /\ MenuOf(RxDefaults) \in RxShapes
  BY <1>1, MenuOfType DEF RxCopies, RxShapes
<1>3. RxDefaults["protocol"] = RxStandard /\ RxStandard \in RxCells
  BY RxMenuAssumption DEF RxDefaults, RxSettings, RxCells
<1>4. rxState \in RxStates /\ ~rxState.reboot /\ rxState.event
  BY DEF RxMenuInit, RxStates
<1>5. rxUsed \in RxUses /\ overtaken = FALSE
  BY RxMenuAssumption DEF RxMenuInit, RxUses
<1> QED BY <1>1, <1>2, <1>3, <1>4, <1>5
        DEF RxMenuInv, RxMenuTypeOK, RxCopies, RxShapes, RxStates, RxUses, RxCells

LEMMA RxMenuStep == RxMenuInv /\ [RxMenuNext]_rxMenuVars => RxMenuInv'
<1> SUFFICES ASSUME RxMenuInv, [RxMenuNext]_rxMenuVars PROVE RxMenuInv'
  OBVIOUS
<1>1. CASE RxPowerCycle
  BY <1>1, RxUnfold, RxStartsRight DEF RxPowerCycle, RxMenuInv
<1>2. CASE UNCHANGED rxMenuVars
  BY <1>2, RxUnfold, RxFold DEF RxMenuInv, rxMenuVars, Parts
<1> QED BY <1>1, <1>2, RxDevicesStep, RxSerialStep, RxBindingStep, RxMspStep, RxPushStep,
           RxHandleStep, RxCommitPartStep, RxCutStep DEF RxMenuNext

\* Whoever changes a setting of the receiver, and in whatever part of the pass: a
\* restart comes up with the settings it runs with unless one is marked, a reboot the
\* menu asks for has everything stored, the menu and the serial port follow, and no
\* request is overtaken (rx_main.c loop, RxConfigCommit, rx_devLUA.c).
THEOREM RxSettingsRight ==
  RxMenuSpec => [](RxMenuTypeOK /\ RxRestartKeepsSettings /\ RequestsHandled /\ RxMenuShowsSettings)
<1>1. RxMenuSpec => []RxMenuInv
  BY RxMenuStarts, RxMenuStep, PTL DEF RxMenuSpec
<1> QED BY <1>1, RxInvGives, PTL
=============================================================================
