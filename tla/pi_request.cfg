SPECIFICATION FairSpec
CONSTANTS
  Keys = {"6", "other"}
  Ids <- MCIds
  Amounts <- MCAmounts
  CounterMod = 2
  BurstCycles = 2
  MaySendFail = FALSE
PROPERTIES EveryGrantIsSent
