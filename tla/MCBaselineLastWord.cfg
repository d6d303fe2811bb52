SPECIFICATION BaseFairSpec
CONSTANTS
  Letters      <- MCLetters
  Separators   <- MCSeparators
  MaxLen       <- MCMaxLen
  MayEndInWord = TRUE
INVARIANTS
  WordsFit
