\* operator calls on an idle node; what is reconsidered is what was invalidated
SPECIFICATION Spec
CONSTANTS
  Blocks <- SmallBlocks
  Genesis = 0
  NONE = NONE
  Parent <- SmallParent
  Height <- SmallHeight
  Path <- SmallPath
  ChainWork <- SmallHeight
  Addr <- SmallAddr
  BadContext = {}
  BadConnect = {}
  BatchSize = 2
  MinBlocksToKeep = 2
  MinimumChainWork = 1
  InvalidateTargets = {1, 4}
  ReconsiderTargets = {1, 4}
  PreciousTargets = {2, 4}
  MaxRpc = 3
  QuietRpc = TRUE
INVARIANTS
  FailureHasCause
  FailedBlocksAreFailed
  CandidatesComplete
  CandidatesUseful
  IdleOnBestChain
PROPERTY
  FailedNeverConnected
