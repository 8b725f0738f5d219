SPECIFICATION Spec
CONSTANTS
  Masters <- MCMasters
  Open = 2
INVARIANTS
  TypeOK
PROPERTIES
  ReportExactIff
  ExactNeedsThrees
