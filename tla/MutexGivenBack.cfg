\* Any routine, with one thread and with two: the program may stop for good.
SPECIFICATION FairWaitSpec
CONSTANTS
  w1 = w1
  w2 = w2
  Waiter <- TwoWaiters
  NElems = 2
  MaxWaits = 2
  Used <- Everything
INVARIANT MutexGivenBack
CHECK_DEADLOCK FALSE
