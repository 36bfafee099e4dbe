\* Team sync with its reset of the work array: a call need not return.
CONSTANTS
  Size = 4
  Kind = "binomial"
  Degree = 2
  Node <- MCNode
  Root = 0
  Parent <- MCParent
  Children <- MCChildren
  Below <- MCBelow
  MaxRound = 2
  Writers = {}
  Uses <- MCTeamSyncs
SPECIFICATION FairSpec
PROPERTIES EveryCallReturns
CHECK_DEADLOCK FALSE
