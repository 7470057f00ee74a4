SPECIFICATION Spec
CONSTANTS
  NumOfActivePersisters = 2
  NumOfEpochsToKeep = 2
  MaxStuck = 3
  Word = 16
  ShouldClean = TRUE
  RemoverEnabled = TRUE
  DivisibleEpochs = {3}
  IsTrie = TRUE
  DiskMayFail = TRUE
  Procs = {p1}
  Keys = {k1}
  NumOfOldActivePersisters = 1
  StartingEpoch = 2
  MaxEpoch = 4
  MinKeep = 2
  Ops = {"GetFromEpoch", "GetBulkFromEpoch", "PutInEpochWithoutCache", "Remove"}
  Stored = {0, 1}
  Synced = {0}
PROPERTIES
  KeepsTrieStateOpen
  DestroysOnlyOldEpochs
