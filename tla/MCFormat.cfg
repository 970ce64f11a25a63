SPECIFICATION FormatSpec
CONSTANTS
  InodeSize = 2
  TableSize = 3
  Word = 4096
  Option <- MCOptions
  Version = {1, 2}
INVARIANTS
  FormatSound
  Intact
\* A refused format is the end.
CHECK_DEADLOCK FALSE
