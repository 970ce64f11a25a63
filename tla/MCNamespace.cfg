SPECIFICATION Spec
CONSTANTS
  Total = 3
  Name = {"a", "b", "long"}
  LongName = {"long"}
  Depth = 2
  Programs <- MCPrograms
  Hosts <- MCHosts
INVARIANTS
  LinksExact
  NoDangling
  CachedAreLive
  HeldIsLive
  TreeExact
  AllNamed
  FreesOnce
  UploadComplete
  CwdIsCatalog
PROPERTY
  CommandsEnd
