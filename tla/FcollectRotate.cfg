SPECIFICATION Spec
CHECK_DEADLOCK FALSE
CONSTANTS
  Cases <- LazyFcollect
  RingDiff = 1
INVARIANT
  DataRight
