SPECIFICATION FairSpec
CONSTANTS
  r0 = r0
  r1 = r1
  r2 = r2
  s2 = s2
  nk = nk
  na = na
  nb = nb
  nc = nc
  nd = nd
  Roots = {r0, r1, r2, s2}
  Nodes = {nk, na, nb, nc, nd}
  RootHashesSize = 4
  HashesSize = 3
  PruningBufferLen = 2
  NodesOf <- MCNodesOf
  Genesis = r0
  OldNodes = {nk}
  Children <- MCChildren
  NoRoot = NoRoot
  MaxEpoch = 2
  PruningDelay = 1
  Word = 16
  MaxCommits = 3
  StartNonce = 3
  UpSince = 1
  MaxUnfinal = 2
  MaxRestarts = 1
  MaxIterators = 1
  MaxPartial = 0
  Scheduled = TRUE
  PutsMayDiffer = FALSE
  BelowRestart = FALSE
INVARIANTS
  TypeOK
  
  
  
  NoMarkerOfFinished
PROPERTIES
  SnapshotSourceIsKept
  PruningIsUnblocked
CHECK_DEADLOCK FALSE
