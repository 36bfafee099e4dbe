\* Programs of three calls on three PEs.
SPECIFICATION Spec
CONSTANTS
  Size = 3
  NodeOf <- MCNodeOf
  Cells = 5
  Menu <- MCMenu
  Nested = FALSE
  SyncAfterSplit = TRUE
  MaxCalls = 3
  MaxNet = 1
INVARIANTS
  SameAddress
  HandlesAgree
  PutsHitTheirObject
