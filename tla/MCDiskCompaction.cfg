SPECIFICATION Spec
CONSTANTS
  LeaderLog <- MCLeaderLog
  LeaderCommit <- MCLeaderCommit
  TwoLeaders = FALSE
  SnapshotEvery = 1
  Installs = FALSE
  MaxFaults = 2
INVARIANTS  Recoverable LogRecovered
CHECK_DEADLOCK FALSE
