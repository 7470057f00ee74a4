SPECIFICATION FairSpec
CONSTANTS
  m = m
  s1 = s1
  f1 = f1
  c1 = c1
  e1 = e1
  d1 = d1
  s2 = s2
  NoHash = NoHash
  MetaHashes = {m, s1, c1, s2}
  Canonical = {m, s1, c1, s2}
  MetaHdr <- MCTwoEpochs
  AndromedaEpoch = 2
  Kinds <- MCKinds
  InitPool = {m, c1}
  InitBodies <- MCBodies
  MaxEpoch = 2
  MaxRound = 7
  GracePeriod = 1
  BlockRounds = {}
  StartRounds <- MCStarts
  MaxRollBacks = 1
  MaxFailures = 1
  MaxRestarts = 0
  MaxFaults = 1
CHECK_DEADLOCK FALSE
INVARIANTS
  TypeOK
  
PROPERTIES
  MetaEpochGrows
  EpochIsEntered
