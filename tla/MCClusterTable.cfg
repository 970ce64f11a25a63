SPECIFICATION Spec
CONSTANTS
  FSize <- MCFSize
  Busy <- MCBusy
INVARIANTS
  FreeListExact
  TopCached
  PushHasRoom
PROPERTY Implements
