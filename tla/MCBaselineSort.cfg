SPECIFICATION FairSpec
CONSTANTS
  Counts <- MCCounts
  Word   <- MCWord
INVARIANTS
  IInv
  EqualsTogether
  UniqueWhenReturned
  DepthBounded
PROPERTIES
  Termination
