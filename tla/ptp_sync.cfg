SPECIFICATION Spec
CONSTANTS
  INIT_WAIT_DELAY = 1
  WAIT_DELAY = 3
  MAX_WAIT_CYCLES = 8
  CONV_CYCLES = 2
  Distances = {0, 2}
  Misses = 1
  Writes <- MCWrites
  MaxWrites = 3
INVARIANTS
  FinishedIsCurrent
  MeasuresRoundTrip
PROPERTIES
  ExchangeEnds
