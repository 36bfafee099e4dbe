\* As Local.cfg, for one property of the settings.
SPECIFICATION MCSpec
CONSTANTS
  NPes = 3
  NHeaps = 2
  HeapSize <- HeapSizes
  GlobalsBase = 1
  GlobalsEnd = 2
  Page = 2
  Bases = {2, 6}
  Private = {4, 8, 10}
  SameNode <- Neighbours
  Multiplier = 4
  Chunk = 2
  PeerLists <- SomePeerLists
  ThreadLists <- SomeThreadLists
  SymmetricSizes <- SomeSizes
  DefaultHeapSize <- OneK
  Delays <- SomeDelays
  Units <- SomeUnits
  Thread <- TwoThreads
  Name <- Names
  TreeShift = 3
  TreeBins = 4
  WordBits = 7
  StateSize = 2
  TopFoot = 2
  Base <- PageBases
  Capacity = 60
  Sizes = {56, 136}
  Alignments = {64}
  Arrays <- SomeArrays
  MaxBlocks = 5
INVARIANT AllMeansEveryPE
CHECK_DEADLOCK FALSE
