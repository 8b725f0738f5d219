SPECIFICATION SampledSpec
CONSTANTS
  CLKS_PER_BIT = 4
  LAST_BIT = 1
INVARIANTS SamplesInMiddle
