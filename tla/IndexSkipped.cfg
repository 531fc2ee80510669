\* ThreadSync names a block in the locator before it writes the block
SPECIFICATION Spec
CONSTANTS
  NONE = NONE
  Blocks <- MCBlocks
  Genesis = 0
  Parent <- MCParent
  Path <- MCPath
  MaxPending = 1
  MaxMoves = 2
  MaxRestarts = 1
INVARIANTS
  TrueAnswerWritten
