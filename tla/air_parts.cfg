SPECIFICATION AirSpec
CONSTANTS
  OldUid = OldUid
  MasterUid = MasterUid
  NoUid = NoUid
  Blank = Blank
  BindingSpamAmount = 3
  MaxStarts = 4
  MaxPowerCuts = 1
  MaxEdits = 1
  MaxBinds = 1
  Bodies = {"a", "b"}
  NoBody = "none"
  Body <- MCBody
  Length <- MCLength
  BufLen = 2
  MaxPackageIndex = 7
  MaxWait = 1
  ChunkLen = 1
  QueueLen = 1
  FrameSlots = 4
  MaxFaults = 2
  WordBits = 3
  MinWindow = 3
  MaxWindow = 5
  DownWindow = 4
  TargetTime = 5
  AirRates <- MCAirRates
  FreqCount = 5
  SequenceLen = 12
  TemplateLen = 7
  CounterMod = 6
  Capacity = 3
  MaxPayload = 2
  MaxBytes = 8
  MaxResets = 2
INVARIANTS AirTypeOK MspExactlyOnce SlotTablesRight
PROPERTIES BindOnlyOnRequest BindPacketsGoOut TxLeavesBinding
PROPERTIES TransferEnds CountIsCarried ImplementsQueue BytesLeave
\* The UART may fall silent for good, and binding is over when it is over.
CHECK_DEADLOCK FALSE
