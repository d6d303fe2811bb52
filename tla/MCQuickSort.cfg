SPECIFICATION SortsSpec
CONSTANTS
  Counts <- MCCounts
  Word   <- MCWord
INVARIANTS
  IInv
  DepthBounded
PROPERTIES
  PlacedForGood
  Termination
  Contract
  InsertionContract
