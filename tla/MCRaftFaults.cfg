SPECIFICATION Spec
CONSTANTS
  Node = {n1, n2, n3}
  Command = {}
  None = None
  NoOp = NoOp
  SnapshotsOn = TRUE
  MaxTerm = 2
  MaxLog = 2
  MaxFaults = 1
  MaxAppends = 2
  MaxElections = 2
SYMMETRY Symmetry
CONSTRAINT Bounded
INVARIANTS TypeOK ElectionSafety GrantDurable   IndexesOrdered
 
