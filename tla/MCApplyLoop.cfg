SPECIFICATION Spec
CONSTANTS
  p = p
  key = key
  a = a
  b = b
  Proposal = {p}
  CommandOf <- MCCommandOf
  Foreign = Foreign
  NoOp = NoOp
  None = None
  Missing = Missing
  Deadlines = TRUE
  SnapshotEvery = 1
  MaxTerm = 2
  MaxLog = 3
INVARIANTS TypeOK StateMatchesLog OwnResult UnknownUnanswered
PROPERTIES AnsweredOnce CommittedApplied 
CHECK_DEADLOCK FALSE
