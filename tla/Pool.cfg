\* the pool over two branches
SPECIFICATION Spec
CONSTANTS
  NONE = NONE
  Blocks <- MCBlocks
  Genesis = 0
  Parent <- MCParent
  Height <- MCHeight
  Path <- MCPath
  Vtx <- MCVtx
  From <- MCFrom
  Tx <- MCTx
  Spends <- MCSpends
  Outputs <- MCOutputs
  LockTime <- MCLockTime
  Relative <- MCRelative
  Fee <- MCFee
  Relayable <- MCRelayable
  Replaceable = {"r"}
  Maturity = 2
  LimitAncestors = 3
  LimitDescendants = 3
  MaxReplaced = 2
  MaxDisconnected = 6
  MaxInvalidated = 1
  MaxFaults = 1
INVARIANTS
  CountsFollowLinks
  LinksExact
  ReadyForNextBlock
  StakeVerdictExact
CHECK_DEADLOCK FALSE
