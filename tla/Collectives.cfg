SPECIFICATION Spec
CONSTANTS
  Cases <- MCCases
  RingDiff = 1
INVARIANTS
  DataRight
  WorkArrayClean
  NobodyStranded
