\* headers and blocks from the network, no operator calls
SPECIFICATION FairSpec
CONSTANTS
  Blocks <- MCBlocks
  Genesis = 0
  NONE = NONE
  Parent <- MCParent
  Height <- MCHeight
  Path <- MCPath
  ChainWork <- MCHeight
  Addr <- MCAddr
  BadContext = {6}
  BadConnect = {2}
  BatchSize = 2
  MinBlocksToKeep = 2
  MinimumChainWork = 2
  InvalidateTargets = {}
  ReconsiderTargets = {}
  PreciousTargets = {}
  MaxRpc = 0
  QuietRpc = TRUE
INVARIANTS
  TypeOK
  LinkedWhenAncestorsArrived
  ActiveChainStored
  ValidityFollowsAncestors
  CandidatesComplete
  CandidatesNeverEmpty
PROPERTIES
  UnlockOnlyAfterProgress
  ActivationEnds
  BestChainWins
