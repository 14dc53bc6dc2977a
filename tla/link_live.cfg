SPECIFICATION FairSpec
CONSTANTS
  a = a
  b = b
  NoBody = NoBody
  Bodies <- MCBodies
  Body <- MCBodyTwo
  Length <- MCLengthTwo
  LinkLen = 1
  DataLen = 2
  BufLen = 3
  BurstMax = 2
  MaxPackageIndex = 9
  MaxWait = 1
  Denom = 3
  PromptRc = TRUE
  MaxLoss = 3
  MaxRateChange = 1
PROPERTIES TelemetryNeverWedges DeliveredOrGivenUp
