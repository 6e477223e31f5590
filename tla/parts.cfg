SPECIFICATION MCSpec
CONSTANTS
  OffsetSpan = 17
  Contents <- MCContents
  Moves <- MCMoves
  Texts <- MCTexts
  Batches = {1, 3}
  AllowEmpty = TRUE
  MaxSteps = 4
  Unmarked = Unmarked
  Ranges <- MCRanges
  MaxSize = 4
INVARIANTS
  TellsPlace
  RunsOnce OccurrencesSound
  KeepsUnenclosed KeepsOrder NeverFreed FilterInv
PROPERTIES
  MovesBySymbols
  TurnsAdvance
