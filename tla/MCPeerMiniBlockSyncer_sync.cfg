SPECIFICATION Spec
CONSTANTS
  a = a
  b = b
  c = c
  d = d
  s1 = s1
  f1 = f1
  s2 = s2
  Items = {a, b, c, d}
  Headers = {s1, f1, s2}
  PeerItems <- MCPeerItems
  MaxSyncs = 4
CHECK_DEADLOCK FALSE
INVARIANTS
  NumMissingIsExact
  WakeUpIsPending
  SyncedIsComplete
