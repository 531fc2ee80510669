\* the index behind a chain that is reorganized
SPECIFICATION FairSpec
CONSTANTS
  NONE = NONE
  Blocks <- MCBlocks
  Genesis = 0
  Parent <- MCParent
  Path <- MCPath
  MaxPending = 1
  MaxMoves = 2
  MaxRestarts = 1
INVARIANTS
  IndexComplete
  LocatorIndexed
  WithChainWhenQuiet
  AnswerTrue
PROPERTIES
  PromisesKept
