SPECIFICATION FairSpec
CONSTANTS
  Letters    <- MCLetters
  Separators <- MCSeparators
  Following  <- MCFollowing
  MaxLen     <- MCMaxLen
INVARIANTS
  ListsTheWords
