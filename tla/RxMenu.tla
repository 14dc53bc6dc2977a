------------------------------- MODULE RxMenu -------------------------------
(***************************************************************************)
(* The receiver's settings and its parameter menu, one pass of the loop at *)
(* a time (rx_main.c loop): settings change because of a SYNC packet, a    *)
(* frame of the flight controller, an MSP message or a request to the      *)
(* menu, which waits in one place; they are stored at the end of the pass, *)
(* and a reboot the menu asks for is left to the watchdog. Binding itself  *)
(* is the module Binding's; what it does to the settings is here.          *)
(***************************************************************************)
EXTENDS Naturals

CONSTANTS
  RxValues, RxStandard,  \* of a setting, and the default
  RxErased,              \* what a cell of the erased page reads as
  MaxRxEdits, MaxRxStarts  \* bounds on the changes and on the starts

ASSUME RxMenuAssumption == RxStandard \in RxValues /\ RxErased \notin RxValues
                           /\ MaxRxEdits \in Nat /\ MaxRxStarts \in Nat

VARIABLES
  pass,      \* the next part of the pass
  rxRequest, \* parameterType, parameterIndex and parameterArg, or RxNoRequest
  rxConfig,  \* m_config and m_modified
  rxFlash,
  rxShown,   \* the model and the protocol the menu shows
  rxRuns,    \* the serial protocol that is set up
  rxState,   \* binding, model match, pending event, reboot, version pushed
  overtaken, \* history: a request was replaced before it was handled
  rxUsed     \* how much of the bounds is used up

rxMenuVars == <<pass, rxRequest, rxConfig, rxFlash, rxShown, rxRuns, rxState, overtaken, rxUsed>>

RxSettings == {"model", "protocol", "rate", "uid"}
RxPages == [RxSettings -> RxValues \cup {RxErased}]
RxNoSettings == [s \in RxSettings |-> RxErased]
RxDefaults == [s \in RxSettings |-> RxStandard]
MenuOf(config) == [s \in {"model", "protocol"} |-> config[s]]
RxNoRequest == [type |-> "none"]
RxRequests == [type : {"read", "reboot", "bind"}] \cup [type : {"protocol"}, value : RxValues]

InPart(here, next) == pass = here /\ pass' = next
-----------------------------------------------------------------------------
\* Load: a page without a version gives the defaults; a current one is taken as it is,
\* and so is one of an older version from 4 on, which stays old.
RxLoaded(page) == IF page = RxNoSettings THEN RxDefaults ELSE page

\* setup: the defaults are stored.
RxStartFrom(page) ==
  /\ rxUsed.starts < MaxRxStarts
  /\ rxUsed' = [rxUsed EXCEPT !.starts = @ + 1]
  /\ pass' = "devices" /\ rxRequest' = RxNoRequest
  /\ rxConfig' = [set |-> RxLoaded(page), modified |-> FALSE]
  /\ rxFlash' = RxLoaded(page)
  /\ rxShown' = MenuOf(RxLoaded(page))
  /\ rxRuns' = RxLoaded(page)["protocol"]
  /\ rxState' = [binding |-> FALSE, matched |-> FALSE, event |-> TRUE, reboot |-> FALSE,
                 pushed |-> FALSE]
  /\ UNCHANGED overtaken

\* The power is cycled, or the watchdog, no longer fed, resets a receiver told to reboot.
RxPowerCycle == RxStartFrom(rxFlash)

\* A setter: an unchanged value marks nothing, but RxConfigSetUID does not compare.
RxEdited(s, v) ==
  [set |-> [rxConfig.set EXCEPT ![s] = v],
   modified |-> rxConfig.modified \/ s = "uid" \/ rxConfig.set[s] # v]

RxEdit(s) ==
  /\ rxUsed.edits < MaxRxEdits
  /\ rxUsed' = [rxUsed EXCEPT !.edits = @ + 1]
  /\ \E v \in RxValues : rxConfig' = RxEdited(s, v)

\* UpdateModelMatch; the default model number is 255, which matches any.
UpdateModelMatch ==
  /\ RxEdit("model")
  /\ rxState' = [rxState EXCEPT !.matched = @ \/ rxConfig'.set["model"] = RxStandard]

\* RxConfigCommit.
RxCommit(config) ==
  /\ rxFlash' = IF config.modified THEN config.set ELSE rxFlash
  /\ rxConfig' = [config EXCEPT !.modified = FALSE]

\* EnterBindingMode commits what is modified.
RxEnterBinding ==
  IF rxState.binding THEN UNCHANGED <<rxConfig, rxFlash, rxState>>
  ELSE /\ RxCommit(rxConfig)
       /\ rxState' = [rxState EXCEPT !.binding = TRUE, !.matched = FALSE, !.event = TRUE]
-----------------------------------------------------------------------------
(* The parts of the pass *)

RxDevicesTurn ==
  /\ InPart("devices", "serial") /\ ~rxState.reboot
  /\ rxShown' = IF rxState.event THEN MenuOf(rxConfig.set) ELSE rxShown
  /\ rxState' = [rxState EXCEPT !.event = FALSE]
  /\ \/ UNCHANGED <<rxConfig, rxUsed>>
     \/ RxEdit(IF rxState.binding THEN "uid" ELSE "rate")  \* OnELRSBindMSP, TentativeConnection
  /\ UNCHANGED <<rxRequest, rxFlash, rxRuns, overtaken>>

\* handleSerialIO: "mm" and "bd" of the flight controller (TelemetryParser).
RxSerialTurn ==
  /\ InPart("serial", "binding")
  /\ \/ UNCHANGED <<rxConfig, rxFlash, rxState, rxUsed>>
     \/ UpdateModelMatch /\ UNCHANGED rxFlash
     \/ RxEnterBinding /\ UNCHANGED rxUsed
  /\ UNCHANGED <<rxRequest, rxShown, rxRuns, overtaken>>

\* updateBindingMode: any setting modified while binding ends it, and is stored; the
\* power-on counter, or that the receiver was never bound, begins it.
RxBindingTurn ==
  /\ InPart("binding", "msp")
  /\ IF rxState.binding /\ rxConfig.modified
     THEN RxCommit(rxConfig) /\ rxState' = [rxState EXCEPT !.binding = FALSE, !.event = TRUE]
     ELSE RxEnterBinding \/ UNCHANGED <<rxConfig, rxFlash, rxState>>
  /\ UNCHANGED <<rxRequest, rxShown, rxRuns, overtaken, rxUsed>>

\* luaParamUpdateReq.
ParamRequest(r) ==
  /\ rxRequest' = r
  /\ overtaken' = (overtaken \/ rxRequest # RxNoRequest)

\* MspReceiveComplete: a model number, which is trusted to match, or a request to the
\* menu. The binding mode hears no MSP.
RxMspTurn ==
  /\ InPart("msp", "push")
  /\ \/ UNCHANGED <<rxRequest, rxConfig, rxState, overtaken, rxUsed>>
     \/ /\ ~rxState.binding /\ RxEdit("model")
        /\ rxState' = [rxState EXCEPT !.matched = TRUE]
        /\ UNCHANGED <<rxRequest, overtaken>>
     \/ /\ ~rxState.binding /\ \E r \in RxRequests : ParamRequest(r)
        /\ UNCHANGED <<rxConfig, rxState, rxUsed>>
  /\ UNCHANGED <<rxFlash, rxShown, rxRuns>>

\* Mutant of MayPush: the place of the request is not looked at.
MayPushOver == rxState.matched /\ ~rxState.binding /\ ~rxState.pushed

MayPush == rxState.matched /\ ~rxState.binding /\ ~rxState.pushed /\ rxRequest = RxNoRequest

\* queueRxVersionTelemetryIfIdle, once in a power-up when the telemetry link is idle.
RxPushTurn(idle) ==
  /\ InPart("push", "handle")
  /\ IF MayPush /\ idle
     THEN ParamRequest([type |-> "read"]) /\ rxState' = [rxState EXCEPT !.pushed = TRUE]
     ELSE UNCHANGED <<rxRequest, rxState, overtaken>>
  /\ UNCHANGED <<rxConfig, rxFlash, rxShown, rxRuns, rxUsed>>

\* serialProtocolChanged and ApplyRxSerialProtocol: stored and set up at once.
ApplyProtocol(p) ==
  /\ RxCommit(RxEdited("protocol", p))
  /\ rxShown' = [rxShown EXCEPT !["protocol"] = p]
  /\ rxRuns' = p
  /\ rxState' = [rxState EXCEPT !.event = TRUE]

\* luaHandleUpdateParameter. A read is answered through the telemetry queue.
RxHandleTurn ==
  /\ InPart("handle", "commit")
  /\ rxRequest' = RxNoRequest
  /\ CASE rxRequest.type \in {"none", "read"} -> UNCHANGED <<rxConfig, rxFlash, rxShown, rxRuns, rxState>>
       [] rxRequest.type = "reboot" ->
            /\ rxState' = [rxState EXCEPT !.reboot = TRUE]
            /\ UNCHANGED <<rxConfig, rxFlash, rxShown, rxRuns>>
       [] rxRequest.type = "bind" -> RxEnterBinding /\ UNCHANGED <<rxShown, rxRuns>>
       [] OTHER -> ApplyProtocol(rxRequest.value)
  /\ UNCHANGED <<overtaken, rxUsed>>

\* Mutant of CommitNow: a receiver about to reboot stores nothing any more.
CommitNowUnlessReboot == rxConfig.modified /\ ~rxState.binding /\ ~rxState.reboot

CommitNow == rxConfig.modified /\ ~rxState.binding

\* CheckConfigChangePending.
RxCommitTurn ==
  /\ InPart("commit", "devices")
  /\ IF CommitNow THEN RxCommit(rxConfig) /\ rxState' = [rxState EXCEPT !.event = TRUE]
     ELSE UNCHANGED <<rxConfig, rxFlash, rxState>>
  /\ UNCHANGED <<rxRequest, rxShown, rxRuns, overtaken, rxUsed>>

\* The power fails in the commit of that part: after the erasure, or with some of the
\* settings written behind the version.
RxCommitCutOff ==
  /\ pass = "commit" /\ CommitNow
  /\ \E n \in SUBSET RxSettings :
       RxStartFrom([s \in RxSettings |-> IF s \in n THEN rxConfig.set[s] ELSE RxErased])

RxMenuInit ==
  /\ pass = "devices" /\ rxRequest = RxNoRequest
  /\ rxConfig = [set |-> RxDefaults, modified |-> FALSE] /\ rxFlash = RxDefaults
  /\ rxShown = MenuOf(RxDefaults) /\ rxRuns = RxStandard
  /\ rxState = [binding |-> FALSE, matched |-> FALSE, event |-> TRUE, reboot |-> FALSE,
                pushed |-> FALSE]
  /\ overtaken = FALSE /\ rxUsed = [edits |-> 0, starts |-> 0]

RxMenuNext ==
  \/ RxPowerCycle \/ RxDevicesTurn \/ RxSerialTurn \/ RxBindingTurn \/ RxMspTurn
  \/ \E idle \in BOOLEAN : RxPushTurn(idle)
  \/ RxHandleTurn \/ RxCommitTurn \/ RxCommitCutOff

RxMenuSpec == RxMenuInit /\ [][RxMenuNext]_rxMenuVars
-----------------------------------------------------------------------------
\* The variables hold values of their types.
RxMenuTypeOK ==
  /\ pass \in {"devices", "serial", "binding", "msp", "push", "handle", "commit"}
  /\ rxRequest \in {RxNoRequest} \cup RxRequests
  /\ rxConfig \in [set : RxPages, modified : BOOLEAN] /\ rxFlash \in RxPages
  /\ rxShown \in [{"model", "protocol"} -> RxValues \cup {RxErased}]
  /\ rxRuns \in RxValues \cup {RxErased}
  /\ rxState \in [binding : BOOLEAN, matched : BOOLEAN, event : BOOLEAN, reboot : BOOLEAN,
                  pushed : BOOLEAN]
  /\ overtaken \in BOOLEAN
  /\ rxUsed \in [edits : 0..MaxRxEdits, starts : 0..MaxRxStarts]

\* Neither the version that is pushed nor the next MSP message takes the place of a
\* request of the handset that waits to be handled.
RequestsHandled == ~overtaken

\* Whoever changed a setting, and in whatever part of the pass: with nothing marked as
\* modified a restart comes up with the same settings, and a receiver that waits for
\* the watchdog has stored everything.
RxRestartKeepsSettings ==
  /\ ~rxConfig.modified => RxLoaded(rxFlash) = rxConfig.set
  /\ pass = "devices" /\ rxState.reboot => ~rxConfig.modified

\* The serial port runs the protocol of the settings, and between the event and the
\* next change the menu shows it and the model.
RxMenuShowsSettings ==
  /\ rxRuns = rxConfig.set["protocol"]
  /\ ~rxConfig.modified /\ ~rxState.event => rxShown = MenuOf(rxConfig.set)
=============================================================================
