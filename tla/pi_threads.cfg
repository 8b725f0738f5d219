SPECIFICATION Spec
CONSTANTS
  Keys = {"ESC", "1", "2", "3", "4", "5", "6", "7", "other"}
  Ids <- MCIds
  Amounts <- MCAmounts
  CounterMod = 4
  BurstCycles = 6
  MaySendFail = TRUE
INVARIANTS TypeOK NoDatagramWithoutGrant BurstRoundExact OneDatagramPerRound
  ExitOnlyByEscape
PROPERTIES BurstNeverEnds FailedSendHangsBurst
CHECK_DEADLOCK FALSE
