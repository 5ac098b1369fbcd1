SPECIFICATION FairSpec
CONSTANTS
  PQ = {q1, q2}
  NoPQ = NoPQ
  Cycle = {c1}
  Syncer = {s1}
  MaxDelivery = 2
  Bytes <- MCBytes
  Threshold = 1
  MemThreshold = 0
  BatchSize = 1
  Listener = "STANDARD"
  RpcMayFail = TRUE
  UintMax = 15
PROPERTY ProcessedIsReleased
