SPECIFICATION Spec
CONSTANTS
  Name = {1, 2, 3, 4, 5}
  Index = {1, 2}
  PerBlock = 2
  Direct = 2
  Blocks = 3
  Stale <- MCStale
INVARIANTS
  ReopenFindsAll
  CrashKeepsNames
PROPERTY RemoveIsTotal
