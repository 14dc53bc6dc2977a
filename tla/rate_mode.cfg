SPECIFICATION Spec
CONSTANTS
  r1 = r1
  r2 = r2
  r3 = r3
  wide = wide
  hybrid = hybrid
  Rates <- MCTwoRates
  Modes <- MCModes
  Wide = wide
  NoMode = NoMode
  FirstRate = r1
  FirstMode = hybrid
  Window = 3
  Guard = 3
  Tick = 2
  Latency = 1
  SyncSpam = 1
  SyncEvery = 2
  MaxRateEdits = 1
  MaxModeEdits = 0
  MaxLoss = 2
  MaxReboots = 0
PROPERTY PackAndUnpackMatch
