SPECIFICATION Spec
CONSTANTS
  Send = {s1, a1}
  Sync = {s1}
  Broker = {"b1", "b2", "b3"}
  Lists <- MCLists
  MaxAttempts = 2
INVARIANT SuccessIsStored
INVARIANT SecondCallbackOnlyStopped
CHECK_DEADLOCK FALSE
