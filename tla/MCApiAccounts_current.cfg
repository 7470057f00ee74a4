SPECIFICATION Spec
CONSTANTS
  r1 = r1
  r2 = r2
  Procs = {p1, p2}
  NoProc = NoProc
  MaxBlock = 3
  Roots <- MCRoots
  NoRoot = NoRoot
  RootOf <- MCRootOf
  NodesMayBeMissing = TRUE
SYMMETRY QuerySymmetry
INVARIANTS
  AccountMatchesBlockInfo
  NotOlderThanOverlapping
