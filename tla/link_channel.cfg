SPECIFICATION Spec
CONSTANTS
  CLKS_PER_BIT = 8
  LAST_BIT = 2
  Drift = 2
  Sent <- AllBytes
PROPERTIES TransmitterIsLine ImplementsChannel Delivered
