----------------------------- MODULE RxDevices -----------------------------
(***************************************************************************)
(* The receiver's loop and the devices that share its one event flag: the  *)
(* serial output to the flight controller, the radio, and the status LED.  *)
(* A pass of the loop gives the event to every device, then runs the       *)
(* serial device and the radio, and then the rest of the loop, which binds *)
(* and changes the rate. What one step raises the next pass acts upon.     *)
(***************************************************************************)
EXTENDS Integers

CONSTANTS
  RxRates, RxBindRate, RxDenoms, RxStdDenom,  \* air rates, ratios, the rate's own ratio
  RxPowers                                    \* power levels

ASSUME RxDevicesAssumption == RxBindRate \in RxRates /\ RxStdDenom \in [RxRates -> RxDenoms]

VARIABLES
  rxAt,      \* the next part of the pass
  rxWant,    \* what the program wants of the PHY
  rxPhy,     \* what the PHY was last told, and whether it runs
  rxFlags,   \* the device event and the radio's flags
  rxLink,    \* the link as rx_main.c sees it
  rxSerial,  \* the serial output: SerialIO_t and devserial_ctx_t
  rxLed,     \* what the LED shows
  rxWrote,   \* history: the SBUS frame of this pass
  silent     \* the transmitter has been switched off

rxVars == <<rxAt, rxWant, rxPhy, rxFlags, rxLink, rxSerial, rxLed, rxWrote, silent>>

RadioFlags == {"event", "power", "tlm", "rate", "doing"}
Tuned(w) == [on |-> TRUE, rate |-> w.rate, denom |-> w.denom, binding |-> w.binding,
             power |-> w.power]
Set(f, names) == [x \in DOMAIN f |-> IF x \in names THEN TRUE ELSE f[x]]
Clear(f, names) == [x \in DOMAIN f |-> IF x \in names THEN FALSE ELSE f[x]]
At(here, next) == rxAt = here /\ rxAt' = next
-----------------------------------------------------------------------------
(* The device event: devicesUpdate gives it to each device *)

\* devSerialIO event: the failsafe follows a change of the link.
SerialEvent(s) ==
  IF s.last = rxLink.connected THEN s
  ELSE [s EXCEPT !.failsafe = ~rxLink.connected, !.last = rxLink.connected]

\* devLED event.
LedEvent == IF rxWant.binding THEN "double flash" ELSE IF rxLink.connected THEN "steady" ELSE "blink"

\* devRadioRx initialize and start. A PHY that reports an error stays off.
Initialize == rxPhy' \in {Tuned(rxWant), [rxPhy EXCEPT !.on = FALSE]}

\* Mutant of RadioEvent: binding is looked at before the rate that is to change.
RadioEventBindingOnly ==
  IF rxWant.binding
  THEN Initialize /\ rxFlags' = [Clear(rxFlags, {"event", "power", "tlm"}) EXCEPT !.doing = TRUE]
  ELSE IF rxFlags.tlm THEN Initialize /\ rxFlags' = Clear(rxFlags, {"event", "power", "tlm"})
  ELSE /\ rxPhy' = IF rxFlags.power THEN [rxPhy EXCEPT !.power = rxWant.power] ELSE rxPhy
       /\ rxFlags' = Clear(rxFlags, {"event", "power"})

\* devRadioRx event: a new rate, binding and its end start the whole PHY and consume
\* every flag; else the gain and then the ratio.
RadioEvent ==
  IF rxFlags.rate \/ rxWant.binding \/ rxFlags.doing \/ rxFlags.tlm
  THEN Initialize
       /\ rxFlags' = [Clear(rxFlags, {"event", "rate", "power", "tlm"}) EXCEPT !.doing = rxWant.binding]
  ELSE /\ rxPhy' = IF rxFlags.power THEN [rxPhy EXCEPT !.power = rxWant.power] ELSE rxPhy
       /\ rxFlags' = Clear(rxFlags, {"event", "power"})

DevicesEvent ==
  /\ At("devices", "serial")
  /\ rxWrote' = "none"
  /\ IF rxFlags.event
     THEN RadioEvent /\ rxSerial' = SerialEvent(rxSerial) /\ rxLed' = LedEvent
     ELSE UNCHANGED <<rxPhy, rxFlags, rxSerial, rxLed>>
  /\ UNCHANGED <<rxWant, rxLink, silent>>
-----------------------------------------------------------------------------
(* The serial device: devSerialIO timeout, SerialSBUS.c and SerialCRSF.c *)

Failsafed == rxSerial.failsafe \/ ~rxLink.matched

\* SBUS does not start before the first link, and stops in failsafe if so configured.
SbusQuiet == (Failsafed /\ rxSerial.noPulses) \/ (~rxSerial.sendPackets /\ ~rxLink.connected)
SbusWrites == ~SbusQuiet /\ (rxSerial.available \/ Failsafed)

\* The timeout of the serial device runs when its interval is over.
SerialTimeout(due) ==
  /\ At("serial", "radio")
  /\ IF ~due THEN UNCHANGED <<rxSerial, rxWrote>>
     ELSE /\ rxSerial' = [rxSerial EXCEPT !.available = FALSE,
                            !.sendPackets = @ \/ (rxSerial.sbus /\ ~SbusQuiet)]
          /\ rxWrote' = IF rxSerial.sbus /\ SbusWrites
                        THEN IF Failsafed THEN "failsafe frame" ELSE "frame" ELSE "none"
  /\ UNCHANGED <<rxWant, rxPhy, rxFlags, rxLink, rxLed, silent>>
-----------------------------------------------------------------------------
(* The radio device: what its timeout hands to RXdoneISR *)

Hears == rxAt = "radio" /\ rxAt' = "loop" /\ ~silent /\ ~rxWant.binding /\ rxPhy.on

NothingHeard ==
  /\ At("radio", "loop")
  /\ UNCHANGED <<rxWant, rxPhy, rxFlags, rxLink, rxSerial, rxLed, rxWrote, silent>>

\* ProcessRFPacket and ProcessRfPacket_RC: any RC packet makes the link.
RcHeard ==
  /\ Hears
  /\ rxSerial' = [rxSerial EXCEPT !.available = @ \/ rxLink.matched]
  /\ IF rxLink.connected THEN UNCHANGED <<rxLink, rxFlags>>
     ELSE /\ rxLink' = [rxLink EXCEPT !.connected = TRUE]
          /\ rxFlags' = Set(rxFlags, {"event"})
  /\ UNCHANGED <<rxWant, rxPhy, rxLed, rxWrote, silent>>

\* ProcessRfPacket_SYNC: a deferred change of rate, or the rate and ratio of now.
SyncHeard(matched, commit, r, d) ==
  /\ Hears
  /\ IF commit /\ r # rxWant.rate
     THEN /\ rxLink' = [rxLink EXCEPT !.commit = TRUE, !.matched = matched]
          /\ UNCHANGED <<rxWant, rxFlags>>
     ELSE /\ rxLink' = [rxLink EXCEPT !.commit = FALSE, !.next = r, !.matched = matched]
          /\ rxWant' = [rxWant EXCEPT !.denom = d]
          /\ rxFlags' = IF d = rxWant.denom THEN rxFlags ELSE Set(rxFlags, {"tlm", "event"})
  /\ UNCHANGED <<rxPhy, rxSerial, rxLed, rxWrote, silent>>
-----------------------------------------------------------------------------
(* The rest of the pass: binding, then the rate *)

\* SetRFLinkRate.
Wanted(r, d, binding) == [rxWant EXCEPT !.rate = r, !.denom = d, !.binding = binding]

\* The LED and the rest learn of a change through connectionState_backup.
Backup(link, flags) ==
  /\ rxLink' = [link EXCEPT !.backup = link.connected]
  /\ rxFlags' = IF link.connected = link.backup THEN flags ELSE Set(flags, {"event"})

NothingAsked ==
  /\ At("loop", "rate")
  /\ Backup(rxLink, rxFlags)
  /\ UNCHANGED <<rxWant, rxPhy, rxSerial, rxLed, rxWrote, silent>>

EnterBindingMode ==
  /\ At("loop", "rate") /\ ~rxWant.binding
  /\ rxWant' = Wanted(RxBindRate, RxStdDenom[RxBindRate], TRUE)
  /\ Backup([rxLink EXCEPT !.connected = FALSE, !.matched = FALSE, !.commit = FALSE,
                           !.next = RxBindRate], Set(rxFlags, {"event"}))
  /\ UNCHANGED <<rxPhy, rxSerial, rxLed, rxWrote, silent>>

\* ExitBindingMode returns to the rate the settings start with.
ExitBindingMode(r) ==
  /\ At("loop", "rate") /\ rxWant.binding
  /\ rxWant' = Wanted(r, RxStdDenom[r], FALSE)
  /\ Backup([rxLink EXCEPT !.next = r, !.commit = FALSE], Set(rxFlags, {"rate", "event"}))
  /\ UNCHANGED <<rxPhy, rxSerial, rxLed, rxWrote, silent>>

\* ApplyRxSerialProtocol, from the parameter menu.
ApplyRxSerialProtocol ==
  /\ At("loop", "rate")
  /\ rxSerial' = [rxSerial EXCEPT !.sbus = ~@]
  /\ Backup(rxLink, Set(rxFlags, {"event"}))
  /\ UNCHANGED <<rxWant, rxPhy, rxLed, rxWrote, silent>>

\* DynamicPower_UpdateRx ends every pass: the configured power, or the transmitter's.
UpdateRxPower(w, flags) == \E p \in RxPowers :
  /\ rxWant' = [w EXCEPT !.power = p]
  /\ rxFlags' = IF p = w.power THEN flags ELSE Set(flags, {"power", "event"})

\* Mutant of Lost: the event is left to the pass that sees the state has changed.
LostUnannounced(flags) == IF rxWant.binding THEN flags ELSE Set(flags, {"rate"})

\* LostConnection asks for the next rate; in binding mode it keeps the one it has.
Lost(flags) == IF rxWant.binding THEN flags ELSE Set(flags, {"rate", "event"})

\* LostConnection with the next rate and ratio.
LostConnection(r, d) ==
  /\ rxLink' = [rxLink EXCEPT !.connected = FALSE, !.next = r,
                  !.commit = IF rxWant.binding THEN @ ELSE FALSE]
  /\ UpdateRxPower(IF rxWant.binding THEN rxWant ELSE [rxWant EXCEPT !.rate = r, !.denom = d],
                   Lost(rxFlags))

\* The announced instant of a rate change.
CommitRate(r, d) ==
  /\ At("rate", "devices") /\ rxLink.commit /\ ~rxWant.binding
  /\ LostConnection(r, d)
  /\ UNCHANGED <<rxPhy, rxSerial, rxLed, rxWrote, silent>>

\* Without one: a rate named by a SYNC is taken at once while the link is up.
FollowRate ==
  /\ At("rate", "devices")
  /\ IF rxLink.connected /\ rxWant.rate # rxLink.next
     THEN LostConnection(rxLink.next, rxWant.denom)
     ELSE UpdateRxPower(rxWant, rxFlags) /\ UNCHANGED rxLink
  /\ UNCHANGED <<rxPhy, rxSerial, rxLed, rxWrote, silent>>

SwitchTxOff ==
  /\ ~silent /\ silent' = TRUE
  /\ UNCHANGED <<rxAt, rxWant, rxPhy, rxFlags, rxLink, rxSerial, rxLed, rxWrote>>
-----------------------------------------------------------------------------
RxInit ==
  /\ rxAt = "devices"
  /\ \E p \in RxPowers : rxWant = [rate |-> RxBindRate, denom |-> RxStdDenom[RxBindRate],
                                   binding |-> FALSE, power |-> p]
  /\ rxPhy = Tuned(rxWant)
  /\ rxFlags = [x \in RadioFlags |-> x \in {"event", "power"}]
  /\ rxLink = [connected |-> FALSE, backup |-> FALSE, matched |-> FALSE, commit |-> FALSE,
               next |-> RxBindRate]
  /\ \E b, n \in BOOLEAN : rxSerial = [sbus |-> b, noPulses |-> n, failsafe |-> FALSE,
                                       last |-> FALSE, available |-> FALSE, sendPackets |-> FALSE]
  /\ rxLed = "blink" /\ rxWrote = "none" /\ silent = FALSE

RxPass ==
  \/ DevicesEvent \/ NothingHeard \/ RcHeard \/ NothingAsked \/ EnterBindingMode
  \/ ApplyRxSerialProtocol \/ FollowRate
  \/ \E due \in BOOLEAN : SerialTimeout(due)
  \/ \E r \in RxRates : ExitBindingMode(r)
  \/ \E m, c \in BOOLEAN, r \in RxRates, d \in RxDenoms : SyncHeard(m, c, r, d)
  \/ \E r \in RxRates, d \in RxDenoms : CommitRate(r, d)

RxNext == RxPass \/ SwitchTxOff

RxSpec == RxInit /\ [][RxNext]_rxVars

\* The loop never stops.
RxFairSpec == RxSpec /\ WF_rxVars(RxPass)
-----------------------------------------------------------------------------
\* The variables hold values of their types.
RxTypeOK ==
  /\ rxAt \in {"devices", "serial", "radio", "loop", "rate"}
  /\ rxWant \in [rate : RxRates, denom : RxDenoms, binding : BOOLEAN, power : RxPowers]
  /\ rxPhy \in [on : BOOLEAN, rate : RxRates, denom : RxDenoms, binding : BOOLEAN, power : RxPowers]
  /\ rxFlags \in [RadioFlags -> BOOLEAN]
  /\ rxLink \in [connected : BOOLEAN, backup : BOOLEAN, matched : BOOLEAN, commit : BOOLEAN,
                 next : RxRates]
  /\ rxSerial \in [sbus : BOOLEAN, noPulses : BOOLEAN, failsafe : BOOLEAN, last : BOOLEAN,
                   available : BOOLEAN, sendPackets : BOOLEAN]
  /\ rxLed \in {"steady", "blink", "double flash"}
  /\ rxWrote \in {"none", "frame", "failsafe frame"} /\ silent \in BOOLEAN

\* Once a pass has given the event to the devices, a running PHY is what the program
\* wants, whatever combination of rate, binding, ratio and power had changed.
RxRadioFollows ==
  rxAt \in {"serial", "radio"} /\ rxPhy.on /\ ~rxFlags.event => rxPhy = Tuned(rxWant)

\* So does the LED, whichever of the places that change the link or the binding raised
\* the event.
LedFollows == rxAt \in {"serial", "radio"} => rxLed = LedEvent

\* An SBUS frame written while the receiver is without a link is marked as failsafe,
\* so that the flight controller never takes held channels for live ones.
FailsafeShown == rxWrote = "frame" /\ rxAt = "radio" => rxLink.connected

\* Violated. README.md: the LED of a receiver that has lost its transmitter does not
\* stay steadily on.
LedShowsLoss == silent ~> rxLed # "steady"
=============================================================================
