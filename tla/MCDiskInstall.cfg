SPECIFICATION Spec
CONSTANTS
  LeaderLog <- MCLeaderLog
  LeaderCommit <- MCLeaderCommit
  TwoLeaders = TRUE
  SnapshotEvery = 0
  Installs = TRUE
  MaxFaults = 2
INVARIANTS SuffixTrusted CommittedRecovered
CHECK_DEADLOCK FALSE
