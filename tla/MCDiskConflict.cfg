SPECIFICATION Spec
CONSTANTS
  LeaderLog <- MCLeaderLog
  LeaderCommit <- MCLeaderCommit
  TwoLeaders = TRUE
  SnapshotEvery = 1
  Installs = FALSE
  MaxFaults = 0
INVARIANTS Recoverable
CHECK_DEADLOCK FALSE
