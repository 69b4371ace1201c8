SPECIFICATION Spec
CONSTANTS
  LeaderLog <- MCLeaderLog
  LeaderCommit <- MCLeaderCommit
  TwoLeaders = FALSE
  SnapshotEvery = 1
  Installs = TRUE
  MaxFaults = 1
INVARIANTS CommittedRecovered
CHECK_DEADLOCK FALSE
