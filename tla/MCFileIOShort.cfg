SPECIFICATION TosSpec
CONSTANTS
  BSize = 2
  Wrap = 16
  Capacity = 3
  Byte = {1, 2}
  Stale = 9
  Counts = {1, 3}
  Sizes = {0, 3}
  Seeks = {0, 1, 4}
  PtrBound = 6
INVARIANT
  ReadFillsFront
