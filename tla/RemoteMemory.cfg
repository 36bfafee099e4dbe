SPECIFICATION Spec
CONSTANTS
  t1 = t1
  t2 = t2
  t3 = t3
  X = X
  Y = Y
  Z = Z
  d = d
  e = e
  f = f
  g = g
  None = None
  Thread = {t1, t2, t3}
  Ctx = {X, Y, Z}
  NoStore = {Z}
  Word = {d, e, f, g}
  PEOf <- MCPEOf
  Beside <- MCBeside
  Value = {0, 1, 2, 3}
  Zero = 0
  One = 1
  Default = X
  Combine <- MCCombine
  Overwrite <- MCOverwrite
  Programs <- MCPrograms
  MaxCalls = 4
INVARIANTS
  SeenMeansThere
PROPERTIES
  ImplementsMemory
  EveryCallReturns
