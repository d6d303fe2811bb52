SPECIFICATION Spec
CONSTANTS
  Contents         <- MCContents
  Letters          <- MCLetters
  Behind           <- MCBehind
  MaxRewrites      = 2
  MaxRuns          = 3
  LenBits          = 3
  CharSigned       = TRUE
  max_len          = 3
  Slack            = 2
  HashBits         = 8
  FNV_OFFSET_BASIS = 101
  FNV_PRIME        = 19
  XOR              <- MCXor
INVARIANTS
  IInv
  ResourcesOwned
  DocWasRead
  NothingLost
  OverrunAlone
  SuccessMeansSaved
  TimeVouchesForWords
