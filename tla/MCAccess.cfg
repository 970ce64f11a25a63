SPECIFICATION Spec
CONSTANTS
  Total = 3
  Name = {"a", "b"}
  LongName = {}
  Depth = 2
  Programs <- MCPrograms
  Asked <- MCAsked
  Caller <- MCCaller
  ChmodMode = {750}
  MaxStack = 2
INVARIANT
  HolderOwns
PROPERTIES
  NamesNeedWrite
  OpenedWithRights
