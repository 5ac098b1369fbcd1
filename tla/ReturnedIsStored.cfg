SPECIFICATION RunningSpec
CONSTANTS
  Send = {s1}
  Sync = {s1}
  Broker = {"b1", "b2", "b3"}
  Lists <- MCLists
  MaxAttempts = 2
INVARIANT ReturnedIsStored
CHECK_DEADLOCK FALSE
