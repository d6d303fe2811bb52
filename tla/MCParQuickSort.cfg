SPECIFICATION FairSpec
CONSTANTS
  Counts    <- MCCounts
  Word      <- MCWord
  Threads   <- MCThreads
  threshold <- MCThreshold
INVARIANTS
  IInv
  EqualsStayBetween
PROPERTIES
  EndedForGood
  Termination
  Contract
