SPECIFICATION Spec
CONSTANTS
  rc = rc
  air = air
  fast = fast
  Configs <- AllConfigs
  Default = rc
  Blank = Blank
  NoTarget = NoTarget
  SameBaud <- SlowModes
  FirstFlash = fast
  Target <- OneSession
  Attempts = 1
  MaxInbox = 2
  MaxLoss = 2
  MaxFaults = 1
  MaxCycles = 1
PROPERTY StartupOnly
CHECK_DEADLOCK FALSE
