SPECIFICATION Spec
CONSTANTS
  old = old
  split = split
  empty = empty
  Procs = {p1, p2}
  NoProc = NoProc
  NoRoot = NoRoot
  Roots <- MCRoots
  EmptyRoot = empty
  Present <- MCPresent
  RootNodeIn <- MCRootNodeIn
  LeafIn <- MCLeafIn
  HeaderEpochs <- MCHeaderEpochs
  Hintless = {split}
  NumActive = 2
  FirstEpoch = 2
  LastEpoch = 3
SYMMETRY QuerySymmetry
INVARIANTS
  BlockIsReadable
