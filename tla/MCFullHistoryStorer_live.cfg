SPECIFICATION Spec
CONSTANTS
  NumOfActivePersisters = 2
  NumOfEpochsToKeep = 2
  MaxStuck = 3
  Word = 16
  ShouldClean = FALSE
  RemoverEnabled = FALSE
  DivisibleEpochs = {}
  IsTrie = FALSE
  DiskMayFail = FALSE
  Procs = {p1, p2}
  Keys = {k1}
  NumOfOldActivePersisters = 1
  StartingEpoch = 1
  MaxEpoch = 2
  MinKeep = 1
  Ops = {"GetFromEpoch", "PutInEpoch", "Put", "Get", "Close"}
  Stored = {}
  Synced = {}
SYMMETRY ProcSymmetry
INVARIANTS
  TypeOK
  ActiveIsOpen
  OpenIsAccounted
  NewestIsCurrent
  CacheIsBacked
CHECK_DEADLOCK FALSE
