SPECIFICATION Spec
CONSTANTS
  w1 = w1
  w2 = w2
  w3 = w3
  PowerUp = PowerUp
  Hello = Hello
  Words <- MCWords
  Like <- MCLike
  Backlog = 3
  Lag = 3
INVARIANTS
  HostAligned
  FrameIsSnapshot
PROPERTIES
  FoundUnlessDeceived
