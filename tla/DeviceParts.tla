---------------------------- MODULE DeviceParts ----------------------------
(***************************************************************************)
(* The parts of the two devices around the radio link: the telemetry       *)
(* queue, the UART rings, the serial parsers and handsets, the radio and   *)
(* LED devices, the over-the-air update of the receiver, the settings and  *)
(* menus, and the button. The parts run one at a time, as in AirParts.     *)
(***************************************************************************)
EXTENDS TelemetryQueue, UartRing, CrsfHandset, SbusHandset, TelemetryParser, TxRadio, RxDevices,
        RxOtaSender, TxMenu, RxMenu, Button, ChannelPacking

VARIABLE devicePart   \* the part that runs

deviceVars == <<devicePart, vars, ringVars, handsetVars, sbusVars, parserVars, txRadioVars, rxVars,
                otaVars, menuVars, rxMenuVars, buttonVars>>

\* A part that does not run stays in one initial state.
DeviceInit ==
  /\ devicePart \in {"queue", "ring", "crsf", "sbus", "parser", "tx radio", "rx", "ota", "menu",
                     "rx menu", "button"}
  /\ Init /\ HandsetInit /\ SbusInit /\ ParserInit /\ OtaInit /\ RxMenuInit /\ ButtonInit
  /\ TxRadioInit /\ (devicePart # "tx radio" => txConfig.rate = BindRate /\ txConfig.power = 0
                                                /\ txConfig.dynamic)
  /\ RingInit /\ (devicePart # "ring" => rxWr = 0)
  /\ RxInit /\ (devicePart # "rx" => /\ \A p \in RxPowers : rxWant.power <= p
                                     /\ ~rxSerial.sbus /\ ~rxSerial.noPulses)
  /\ MenuInit /\ (devicePart # "menu" => flash # Old)

QueueTurn == devicePart = "queue" /\ Next /\ UNCHANGED <<ringVars, handsetVars, sbusVars, parserVars, txRadioVars, rxVars, otaVars, menuVars, rxMenuVars, buttonVars>>
RingTurn == devicePart = "ring" /\ RingNext /\ UNCHANGED <<vars, handsetVars, sbusVars, parserVars, txRadioVars, rxVars, otaVars, menuVars, rxMenuVars, buttonVars>>
CrsfTurn == devicePart = "crsf" /\ HandsetNext /\ UNCHANGED <<vars, ringVars, sbusVars, parserVars, txRadioVars, rxVars, otaVars, menuVars, rxMenuVars, buttonVars>>
SbusTurn == devicePart = "sbus" /\ SbusNext /\ UNCHANGED <<vars, ringVars, handsetVars, parserVars, txRadioVars, rxVars, otaVars, menuVars, rxMenuVars, buttonVars>>
ParserTurn == devicePart = "parser" /\ ParserNext /\ UNCHANGED <<vars, ringVars, handsetVars, sbusVars, txRadioVars, rxVars, otaVars, menuVars, rxMenuVars, buttonVars>>
TxRadioTurn == devicePart = "tx radio" /\ TxRadioNext /\ UNCHANGED <<vars, ringVars, handsetVars, sbusVars, parserVars, rxVars, otaVars, menuVars, rxMenuVars, buttonVars>>
RxTurn == devicePart = "rx" /\ RxNext /\ UNCHANGED <<vars, ringVars, handsetVars, sbusVars, parserVars, txRadioVars, otaVars, menuVars, rxMenuVars, buttonVars>>
OtaTurn == devicePart = "ota" /\ OtaNext /\ UNCHANGED <<vars, ringVars, handsetVars, sbusVars, parserVars, txRadioVars, rxVars, menuVars, rxMenuVars, buttonVars>>
MenuTurn == devicePart = "menu" /\ MenuNext /\ UNCHANGED <<vars, ringVars, handsetVars, sbusVars, parserVars, txRadioVars, rxVars, otaVars, rxMenuVars, buttonVars>>
RxMenuTurn == devicePart = "rx menu" /\ RxMenuNext /\ UNCHANGED <<vars, ringVars, handsetVars, sbusVars, parserVars, txRadioVars, rxVars, otaVars, menuVars, buttonVars>>
ButtonTurn == devicePart = "button" /\ ButtonNext /\ UNCHANGED <<vars, ringVars, handsetVars, sbusVars, parserVars, txRadioVars, rxVars, otaVars, menuVars, rxMenuVars>>

DeviceNext ==
  /\ UNCHANGED devicePart
  /\ QueueTurn \/ RingTurn \/ CrsfTurn \/ SbusTurn \/ ParserTurn \/ TxRadioTurn \/ RxTurn
     \/ OtaTurn \/ MenuTurn \/ RxMenuTurn \/ ButtonTurn

DeviceSpec == DeviceInit /\ [][DeviceNext]_deviceVars
-----------------------------------------------------------------------------
\* Type correctness of every part.
DeviceTypeOK ==
  /\ TypeOK /\ RingTypeOK /\ HandsetTypeOK /\ SbusTypeOK /\ ParserTypeOK
  /\ TxRadioTypeOK /\ RxTypeOK /\ OtaTypeOK /\ MenuTypeOK /\ RxMenuTypeOK /\ ButtonTypeOK

\* What the other side sends is taken: the serial parsers lose good frames only where
\* damage before them leaves bytes that look like a frame's beginning, and find the
\* frames again; no request to the receiver's menu is overtaken by another; and a long
\* hold of the button begins binding, once.
InputsTaken ==
  HandsetResyncs /\ SbusResyncs /\ ParserResyncs /\ RequestsHandled /\ BindsByLongHold

\* What the program has decided reaches the radios, the serial output, the LED and the
\* menus, through one event flag that is raised in many places.
DevicesFollow ==
  /\ TxRadioFollows /\ RxRadioFollows /\ LedFollows /\ FailsafeShown
  /\ MenuShowsSettings /\ RxMenuShowsSettings

\* A restart comes up with the settings each device runs with, unless one is marked as
\* modified and still to be stored.
SettingsKept == RestartKeepsSettings /\ RxRestartKeepsSettings
=============================================================================
