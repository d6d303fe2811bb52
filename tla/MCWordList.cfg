SPECIFICATION FairSpec
CONSTANTS
  Letters    <- MCLetters
  Separators <- MCSeparators
  Following  <- MCFollowing
  MaxLen     <- MCMaxLen
INVARIANTS
  IInv
  UniqueKeepsWords
  PoolFits
PROPERTIES
  Contract
