\* One thread and any routine, or two threads and the routines that unlock.
SPECIFICATION FairWaitSpec
CONSTANTS
  w1 = w1
  w2 = w2
  Waiter <- TwoWaiters
  NElems = 2
  MaxWaits = 2
  Used <- Unlocking
INVARIANT AllMeansAll
