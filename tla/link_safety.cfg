SPECIFICATION Spec
CONSTANTS
  a = a
  b = b
  NoBody = NoBody
  Bodies <- MCBodies
  Body <- MCBody
  Length <- MCLength
  LinkLen = 1
  DataLen = 2
  BufLen = 3
  BurstMax = 1
  MaxPackageIndex = 9
  MaxWait = 1
  Denom = 2
  PromptRc = FALSE
  MaxLoss = 4
  MaxRateChange = 1
INVARIANTS TypeOK ExactlyOnceInOrder DoneMeansReceived NoStaleAck LinkInv
PROPERTY ImplementsChannel
