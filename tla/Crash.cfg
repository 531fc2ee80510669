\* flushes in partial batches, process crashes and power failures
SPECIFICATION FairSpec
CONSTANTS
  Blocks <- MCBlocks
  Genesis = 0
  NONE = NONE
  Parent <- MCParent
  Path <- MCPath
  Outpoints <- MCOutpoints
  Spends <- MCSpends
  Creates <- MCCreates
  Fitting <- MCFitting
  MaxCrashes = 2
CHECK_DEADLOCK FALSE
INVARIANTS
  SameTransition
  CoinsExact
  Recoverable
PROPERTIES
  RecoveryEnds
