SPECIFICATION Spec
CONSTANTS
  Address = {0, 1, 2}
  Word = {0, 1}
  Result <- MCResult
  MB_TIMEOUT = 1
  Breaks = 1
INVARIANTS
  TypeOK
  TapAgrees
  VirCacheTrue
PROPERTIES
  WordsMove
  NoStrayInstruction
  AnswerIsOwn
  CommandReturns
