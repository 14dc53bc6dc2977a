SPECIFICATION DeviceSpec
CONSTANTS
  Kinds <- MCKinds
  Superseding <- MCSuperseding
  Prioritised <- MCPrioritised
  Lengths <- MCLengths
  FifoSize = 14
  MaxFrames = 4
  RingSize = 4
  MaxRead = 2
  MaxUartBytes = 6
  MaxRingResets = 1
  ByteValues = 32
  Sync = 6
  Junk = {6, 5}
  MaxPacketLen = 7
  PeriodBytes = 4
  AnswerLen = 3
  OutSize = 9
  HandsetKinds = {1, 6}
  MaxHandsetFrames = 3
  MaxDamages = 1
  MaxAnswers = 3
  Header = 15
  Footers = {0, 10}
  SbusJunk = {15, 0, 9}
  SbusFrameLen = 4
  SbusContents <- MCSbusContents
  SbusTimeout = 1
  MaxSbusFrames = 3
  MaxSbusDamages = 1
  FcKinds = {1, 5}
  MaxTelemetryLen = 7
  FrameTimeout = 1
  SerialFifo = 5
  MaxFcFrames = 3
  MaxFcDamages = 1
  TxRates = {r1, r2}
  BindRate = r1
  Denoms = {2, 4}
  StdDenom <- MCStdDenom
  TxMaxPower = 2
  RssiCnt = 2
  RxRates = {r1, r2}
  RxBindRate = r1
  RxDenoms = {2, 4}
  RxStdDenom <- MCRxStdDenom
  RxPowers = {1, 2}
  TotalPackets = 4
  Fields = {f1, f2}
  Refreshed = {f1}
  Clamped = {f1}
  Values = {0, 1}
  Standard = 0
  Erased = 7
  Models = {m1, m2}
  FirstModel = m1
  Blank = Blank
  Old = Old
  MaxMenuEdits = 2
  MaxMenuStarts = 1
  RxValues = {0, 1}
  RxStandard = 0
  RxErased = 7
  MaxRxEdits = 3
  MaxRxStarts = 1
  LongTime = 2
  MultiTime = 2
  MaxGap = 2
  MaxHold = 17
  CountMod = 9
INVARIANTS DeviceTypeOK InputsTaken AnswersWhole RingKeepsOrder DevicesFollow OtaOffersAll SettingsKept
PROPERTIES NewestIsGiven ImplementsQueue PowerCapped
\* The line falls silent for good when everything the bounds allow is sent.
CHECK_DEADLOCK FALSE
