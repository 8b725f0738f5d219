SPECIFICATION Spec
CONSTANTS
  w1 = w1
  w2 = w2
  w3 = w3
  PowerUp = PowerUp
  Hello = Hello
  Words <- MCWords
  Like <- NoLetters
  Backlog = 4
  Lag = 3
INVARIANTS
  EndsInSyncData
