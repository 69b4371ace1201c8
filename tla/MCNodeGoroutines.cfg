SPECIFICATION Spec
CONSTANTS
  Peer = {p1}
  MaxAttempts = 2
  MaxTerm = 3
  MaxDials = 2
  MaxReads = 2
INVARIANTS SlotHeld OneSender OpenIsPooled OnlyReadsOutliveStop
 
CHECK_DEADLOCK FALSE
