SPECIFICATION ReadSpec
CONSTANTS
  Node = {n1, n2, n3}
  Reader = {r1}
  Command = {c}
  None = None
  NoOp = NoOp
  SnapshotsOn = FALSE
  MaxTerm = 2
  MaxLog = 2
  MaxFaults = 0
  MaxAppends = 3
  FirstAppends = 1
  MaxElections = 2
SYMMETRY Symmetry
CONSTRAINT ReadBounded
INVARIANTS ReadsLinearizable
