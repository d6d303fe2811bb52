SPECIFICATION FairSpec
CONSTANTS
  Counts     <- MCCounts
  Word       <- MCWord
  MaxThreads <- MCMaxThreads
INVARIANTS
  IInv
  PlacesPartitionTemp
  ThreeWaySplit
PROPERTIES
  Termination
