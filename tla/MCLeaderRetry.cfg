SPECIFICATION Spec
CONSTANTS
  n1 = n1
  n2 = n2
  n3 = n3
  n4 = n4
  key = key
  a = a
  b = b
  Missing = Missing
  None = None
  Address = {n1, n2, n3, n4}
  Endpoints <- MCEndpoints
  Command <- MCCommand
  Start <- MCStart
  Extra = 5
  MaxTerm = 3
INVARIANTS OnlyOpenRepeats 
CHECK_DEADLOCK FALSE
