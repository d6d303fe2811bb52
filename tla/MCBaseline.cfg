SPECIFICATION BaseFairSpec
CONSTANTS
  Letters      <- MCLetters
  Separators   <- MCSeparators
  MaxLen       <- MCMaxLen
  MayEndInWord = FALSE
INVARIANTS
  WordsFit
PROPERTIES
  BaseContract
