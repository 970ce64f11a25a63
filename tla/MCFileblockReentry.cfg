SPECIFICATION BlockSpec
CONSTANTS
  File = {"f"}
  Cluster = {1, 2, 3, 4, 5, 6, 7, 8, 9, 10}
  Zero = 0
  Text = 99
  Direct = 1
  ACount = 2
  MaxSize <- MCReentrySize
  Offer <- MCOffer
INVARIANT NoSharing
