SPECIFICATION FairSpec
CONSTANTS
  Counts <- MCCounts
  Word   <- MCWord
INVARIANTS
  NullIsBigger
