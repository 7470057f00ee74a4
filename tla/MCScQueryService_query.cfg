SPECIFICATION Spec
CONSTANTS
  None = None
  g = g
  b1 = b1
  b2 = b2
  b3 = b3
  f3 = f3
  b4 = b4
  f4 = f4
  b5 = b5
  r0 = r0
  r2 = r2
  r3 = r3
  p3 = p3
  s3 = s3
  r5 = r5
  EmptyRoot = EmptyRoot
  Roots = {EmptyRoot, r0, r2, r3, p3, s3, r5}
  Present = {r3, r5}
  RootNodeIn <- MCRootNodeIn
  LeafIn <- MCLeafIn
  Blocks = {g, b1, b2, b3, f3, b4, f4, b5}
  Header <- MCHeader
  Genesis = g
  EpochStartHdrCacheSize = 1
  IsInHistoricalBalancesMode = TRUE
  NumActive = 2
  MaxEpoch = 3
  MaxNonce = 5
  FinalNonce = 2
  QueriedNonces = {0, 1, 2, 3}
  QueriedHashes = {f3}
INVARIANTS
  ReadsTheStateAskedFor
  NonceMeansItsState
  EpochStartIsOfTheEpoch
  KeptStateIsReadable
