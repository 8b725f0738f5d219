SPECIFICATION Spec
CONSTANTS
  Registers = 4
  Live = 3
  Words <- MCWords
  Garbage <- MCGarbage
  Lags = {0, 3, 99}
INVARIANTS
  TypeOK
  OneRequest
  AnswerDecoded
  ReadExactIff
PROPERTIES
  GetsToRegisters
