SPECIFICATION Spec
CONSTANTS
  Node = {n1, n2, n3}
  Command = {}
  None = None
  NoOp = NoOp
  SnapshotsOn = FALSE
  MaxTerm = 3
  MaxLog = 3
  MaxFaults = 0
  MaxAppends = 2
  MaxElections = 3
SYMMETRY Symmetry
CONSTRAINT Bounded
INVARIANTS StateMachineSafety LeaderCompleteness MatchIndexHeld LogMatching NextIndexInLog
