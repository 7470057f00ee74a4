SPECIFICATION FairSpec
CONSTANTS
  g = g
  a1 = a1
  a2 = a2
  a3 = a3
  b2 = b2
  b3 = b3
  Blocks = {g, a1, a2, a3, b2, b3}
  Genesis = g
  NonceOf <- MCNonceOf
  RoundOf <- MCRoundOf
  Proven = {a2, a3, b2, b3}
  Instant = {a3, b3}
  Prev <- MCPrev
  NotarizedByMeta = {a1, b2}
  Notarizes <- MCNotarizes
  MetasIn <- MCMetasIn
  NoBlock = NoBlock
  BootstrapRoundIndex = 3
  StateIsPruned = TRUE
  Interleaved = FALSE
  MaxLost = 1
  MaxCommits = 4
  MaxFailed = 1
  MaxCrashes = 1
INVARIANTS
  RecordsFollowTheChain
  
  FinalIsNotarized
  RestartFindsTheBlock
PROPERTIES
  LoadingEnds
CHECK_DEADLOCK FALSE
