\* undo data that goes to a rev file before the last one, and a power failure
SPECIFICATION Spec
CONSTANTS
  Blocks <- MCBlocks
  Genesis = 0
  NONE = NONE
  Parent <- MCParent
  Path <- MCPath
  Outpoints <- MCOutpoints
  Spends <- MCSpends
  Creates <- MCCreates
  Fitting <- MCFitting
  MaxCrashes = 1
CHECK_DEADLOCK FALSE
INVARIANTS
  UndoOutlivesCrashes
