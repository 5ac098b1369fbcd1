SPECIFICATION RunningSpec
CONSTANTS
  PQ = {q1, q2}
  NoPQ = NoPQ
  Cycle = {c1}
  Syncer = {s1}
  MaxDelivery = 3
  Bytes <- MCBytes
  Threshold = 3
  MemThreshold = 2
  BatchSize = 2
  Listener = "FIFO"
  RpcMayFail = TRUE
  UintMax = 15
SYMMETRY Symmetry
INVARIANT ReleasedIsSettled
