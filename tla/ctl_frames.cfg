SPECIFICATION ClientSpec
CONSTANTS
  CLKS_PER_BIT = 2
  LAST_BIT = 2
  Words <- MCWords
  PowerUp <- MCPowerUp
  Items <- MCItems
  LateHost = TRUE
INVARIANTS TypeOK NoLoadLost HostAligned FrameIsSnapshot
PROPERTIES FramesKeepComing EveryItemOnce
