\* Trees: two calls in a row of barrier and of sync on four PEs with puts around them,
\* and one call of each kind with clearing puts that may land late.
\* No tree: barrier, sync and team sync, three calls in a row on four PEs. A team sync
\* may stop for good; for the others EveryPEReturns says they don't.
CONSTANTS
  Size = 4
  Kind = "binomial"
  Degree = 2
  Node <- MCNode
  Root = 0
  Parent <- MCParent
  Children <- MCChildren
  Below <- MCBelow
  MaxRound = 2
  Writers = {0, 3}
  Uses <- MCUses
  SyncSize = 2
  FlatRounds = 3
  MaxSize = 12
  Degrees = {2, 3, 4}
SPECIFICATION BarriersSpec
INVARIANTS EveryPokeCounted BarrierCompletesStores CallsKeptApart TreesFit
PROPERTIES ImplementsBarrier OthersImplementBarrier EveryPEReturns
CHECK_DEADLOCK FALSE
