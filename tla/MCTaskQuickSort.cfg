SPECIFICATION FairSpec
CONSTANTS
  Counts    <- MCCounts
  Word      <- MCWord
  Threads   <- MCThreads
  threshold <- MCThreshold
INVARIANTS
  IInv
  NoDataRace
  SharedArrayAlive
  PartsSplit
PROPERTIES
  Termination
  Contract
