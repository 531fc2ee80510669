\* operator calls during an activation
SPECIFICATION Spec
CONSTANTS
  Blocks <- SmallBlocks
  Genesis = 0
  NONE = NONE
  Parent <- SmallParent
  Height <- SmallHeight
  Path <- SmallPath
  ChainWork <- SmallHeight
  Addr <- SmallAddr
  BadContext = {}
  BadConnect = {}
  BatchSize = 2
  MinBlocksToKeep = 2
  MinimumChainWork = 1
  InvalidateTargets = {1, 2, 4}
  ReconsiderTargets = {1}
  PreciousTargets = {2,4}
  MaxRpc = 2
  QuietRpc = FALSE
INVARIANT InvalidatedStaysInactive
