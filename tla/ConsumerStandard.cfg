SPECIFICATION Spec
CONSTANTS
  PQ = {q1, q2}
  NoPQ = NoPQ
  Cycle = {c1, c2}
  Syncer = {s1}
  MaxDelivery = 3
  Bytes <- MCBytes
  Threshold = 1
  MemThreshold = 0
  BatchSize = 1
  Listener = "STANDARD"
  RpcMayFail = TRUE
  UintMax = 15
SYMMETRY Symmetry
INVARIANT Inv
INVARIANT QuotaExact
INVARIANT MemoryExact
INVARIANT ThrottleBound
CHECK_DEADLOCK FALSE
