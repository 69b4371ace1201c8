SPECIFICATION Spec
CONSTANTS
  a = a
  Sender = {s1, s2}
  LeaderOf <- MCLeaderOf
  Size <- MCSize
  ChunkSize = 2
  None = None
  MaxCalls = 2
  MaxFaults = 1
INVARIANTS BufferIsPrefix RestoredWhole AcknowledgedHeld
PROPERTIES SendEnds 
CHECK_DEADLOCK FALSE
