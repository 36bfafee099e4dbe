SPECIFICATION Spec
CONSTANTS
  Size = 3
  Threaded = {1}
  Block = 1
  Quitters = {1}
  MaxContexts <- MCMaxContexts
  MaxPuts <- MCMaxPuts
INVARIANTS
  FetchesFindTheirKeys
  NothingOutlivesItsMemory
  PollsALiveWorker
  ContextsApart
PROPERTY EverybodyGetsOut
