SPECIFICATION FairSpec
CONSTANTS
  PQ = {q1, q2}
  NoPQ = NoPQ
  Cycle = {c1, c2}
  Syncer = {s1}
  MaxDelivery = 2
  Bytes <- MCBytes
  Threshold = 1
  MemThreshold = 0
  BatchSize = 1
  Listener = "STANDARD"
  RpcMayFail = FALSE
  UintMax = 15
PROPERTY ThrottledCycleResumes
