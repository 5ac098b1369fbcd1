SPECIFICATION Spec
CONSTANTS
  Host = {h1}
  Call = {c1}
  Kind = {"send", "pullMessage"}
  Seen = {"OK", "UNIMPLEMENTED"}
  Endpoint = {e1, e2}
  MaxCycle = 2
  Listener = {"none", "FIFO", "STANDARD"}
  t1 = t1
  Txn = {t1}
  Ender <- EnderValue
  PoolSize = 1
  Thread = {x1, x2}
  MaxUse = 4
  MaxOffset = 3
  BatchSize = 2
  MaxCachedQuantity = 3
  Protocol = {"pool", "scheduler", "exporter", "latch", "pull", "listMessageQueue", "fetchRoutes",
              "admin"}
  Count = 2
INVARIANTS  PollInv TransactionInv  
PROPERTIES  EndTransactionReturns  WaitersReturn
CHECK_DEADLOCK FALSE
