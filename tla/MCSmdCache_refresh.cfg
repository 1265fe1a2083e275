SPECIFICATION FairSpec
CONSTANTS
  n1 = n1  r1 = r1  r2 = r2
  NoNode = NoNode
  Node <- MCNode1
  Reader <- MCReader2
  ErrorDocuments = TRUE
  MaxChanges = 3
  MaxFaults = 2
INVARIANT TypeOK NoSpuriousMiss NoPhantom
PROPERTY ImplementsCacheService RefreshNotStarved EventuallyFresh
