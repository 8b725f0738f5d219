SPECIFICATION TrafficSpec
CONSTANTS
  Keys = {"ESC", "6", "7"}
  Ids <- MCIds
  Amounts <- MCAmounts
  CounterMod = 2
  BurstCycles = 3
  MaySendFail = TRUE
PROPERTIES RoundEnds ExitTerminates
CHECK_DEADLOCK FALSE
