SPECIFICATION Spec
CONSTANTS
  a = a
  b = b
  NoBody = NoBody
  Bodies <- MCBodies
  Body <- MCBodyTwo
  Length <- MCLengthTwo
  LinkLen = 1
  DataLen = 2
  BufLen = 3
  BurstMax = 1
  MaxPackageIndex = 9
  MaxWait = 3
  Denom = 2
  PromptRc = FALSE
  MaxLoss = 0
  MaxRateChange = 1
PROPERTY KeepsChunkUntilAcked
