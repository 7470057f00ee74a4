SPECIFICATION Spec
CONSTANTS
  m = m
  s1 = s1
  f1 = f1
  c1 = c1
  e1 = e1
  d1 = d1
  s2 = s2
  NoHash = NoHash
  MetaHashes = {m, s1, f1, c1, e1, d1}
  Canonical = {m, s1, c1, d1}
  MetaHdr <- MCLegacy
  AndromedaEpoch = 2
  Kinds <- MCKinds
  InitPool = {m}
  InitBodies <- MCAllBodies
  MaxEpoch = 1
  MaxRound = 5
  GracePeriod = 1
  BlockRounds = {4}
  StartRounds <- MCOneStart
  MaxRollBacks = 1
  MaxFailures = 1
  MaxRestarts = 1
  MaxFaults = 2
CHECK_DEADLOCK FALSE
INVARIANTS
  ConfirmedIsCanonical
  FinalityIsAttested
  StartNamesConfirmed
  TriggerCoversChain
