SPECIFICATION RxFairSpec
CONSTANTS
  RxRates = {r1, r2}
  RxBindRate = r1
  RxDenoms = {2, 4}
  RxStdDenom <- MCRxStdDenom
  RxPowers = {1}
PROPERTY LedShowsLoss
