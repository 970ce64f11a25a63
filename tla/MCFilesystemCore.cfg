SPECIFICATION Spec
CONSTANTS
  c1 = c1
  c2 = c2
  Total = 3
  TableSize = 2
  Cluster = {c1, c2}
  MaxSize = 1
  MaxLinks = 0
  MaxHandles = 2
INVARIANTS
  ListedAreFree
  OneHandle
  CountExact
  ClustersExclusive
  
  QuietCrashIsHarmless
SYMMETRY Symmetry
VIEW View
