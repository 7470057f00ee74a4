SPECIFICATION Spec
CONSTANTS
  NumOfActivePersisters = 2
  NumOfEpochsToKeep = 2
  MaxStuck = 3
  Word = 16
  ShouldClean = FALSE
  RemoverEnabled = FALSE
  DivisibleEpochs = {}
  IsTrie = FALSE
  DiskMayFail = FALSE
  Procs = {p1, p2}
  Keys = {k1}
  NumOfOldActivePersisters = 1
  StartingEpoch = 2
  MaxEpoch = 4
  MinKeep = 0
  Ops = {"GetFromEpoch"}
  Stored = {0}
  Synced = {}
SYMMETRY ProcSymmetry
INVARIANTS
  FoundIfStored
