SPECIFICATION Spec
CONSTANTS
  p = p
  key = key
  a = a
  b = b
  Proposal = {p}
  CommandOf <- MCCommandOf
  Foreign = Foreign
  NoOp = NoOp
  None = None
  Missing = Missing
  Deadlines = FALSE
  SnapshotEvery = 1
  MaxTerm = 2
  MaxLog = 3
PROPERTY CommittedAnswered
CHECK_DEADLOCK FALSE
