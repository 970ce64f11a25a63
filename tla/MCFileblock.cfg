SPECIFICATION BlockSpec
CONSTANTS
  File = {"f", "g"}
  Cluster = {1, 2, 3, 4, 5, 6, 7, 8}
  Zero = 0
  Text = 99
  Direct = 1
  ACount = 2
  MaxSize <- MCMaxSize
  Offer <- MCOffer
INVARIANTS
  NoSharing
  Accounted
  GetReturnsSet
