SPECIFICATION AccountsSpec
CONSTANTS
  root = root
  anna = anna
  bert = bert
  Name = {root, anna, bert}
  Password = {"old", "new"}
  MaxId = 1
  RootName = root
  RootPassword = "old"
SYMMETRY Swap
INVARIANTS
  RecordsUnique
  EveryUserLogsIn
PROPERTY
  ShellForUsersOnly
