\* one peer that answers and one that need not
SPECIFICATION FairSpec
CONSTANTS
  NONE = NONE
  Blocks <- MCBlocks
  Genesis = 0
  Path <- MCPath
  Bad <- MCBad
  Recent <- MCRecent
  Best = 2
  Peers = {prompt, slow}
  Prompt = {prompt}
  Window = 1
  MaxInTransit = 2
  MaxConnections = 2
INVARIANTS InFlightExact StallersOwe
PROPERTY Downloaded
