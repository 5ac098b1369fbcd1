SPECIFICATION FairSpec
CONSTANTS
  Send = {s1, a1}
  Sync = {s1}
  Broker = {"b1", "b2", "b3"}
  Lists <- MCLists
  MaxAttempts = 3
INVARIANT RunningInv
INVARIANT FailureIsFinal
INVARIANT RetriesElsewhere
PROPERTY ContractSpec
PROPERTY SyncSendReturns
CHECK_DEADLOCK FALSE
