SPECIFICATION FairSpec
CONSTANTS
  rc = rc
  air = air
  fast = fast
  Configs <- AllConfigs
  Default = rc
  Blank = Blank
  NoTarget = NoTarget
  SameBaud <- SlowModes
  FirstFlash = fast
  Target <- TwoSessions
  Attempts = 3
  MaxInbox = 2
  MaxLoss = 2
  MaxFaults = 1
  MaxCycles = 1
INVARIANTS TypeOK StoredMatchesRam SuccessIsStored
PROPERTIES StoredOnce DeviceReturns SessionEnds
CHECK_DEADLOCK FALSE
