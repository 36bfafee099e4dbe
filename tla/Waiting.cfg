\* One thread that uses any wait or test, or two that use those that unlock,
\* two calls each; four threads on three PEs that contend for a lock on a heap
\* that is not aligned.
SPECIFICATION MCSpec
CONSTANTS
  w1 = w1
  w2 = w2
  Waiter <- TwoWaiters
  NElems = 2
  MaxWaits = 2
  Used <- Unlocking
  p1 = p1
  p2 = p2
  p3 = p3
  p4 = p4
  Proc <- FourThreads
  PeOf <- Threads
  NPes = 4
  Address <- HeapAddress
  Aligned = FALSE
  Global = FALSE
INVARIANT AnswersHold
PROPERTIES EveryWaitReturns ImplementsLock SomebodyGetsIn EveryClearReturns
