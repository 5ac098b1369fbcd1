SPECIFICATION Spec
CONSTANTS
  a = a
  c = c
  d = d
  Once = {a, d}
  Repeated = {c}
  SchedulerOf <- SchedulerOfValue
  MaxRuns = 2
  v1 = v1
  v2 = v2
  d1 = d1
  junk = junk
  Ipv4 = {v1, v2}
  Domain = {d1}
  Junk = {junk}
  Body <- BodyValue
  Resolver = {r1, r2}
  Timer = Timer
  None = None
  HoursPerDay = 2
  MinutesPerHour = 3
  Caller = {c1, c2}
  PARTITION = 4
  Permit = 5
  Acquirer = {x1, x2}
  MaxWant = 2
  MaxRefill = 3
  Range32 = 8
  ServerCall = {s1, s2, s3}
  Word = {"warn", "loud"}
  Mac = {0, 1}
  Pid = {1, 2, 5}
  Byte = 4
  Digit = 2
  MaxSequence = 1
  MaxClock = 2
  MaxIds = 3
  Capacity = 2
  MaxCount = 3
INVARIANTS  NameServerInv  RateLimiterInv AdminInv IdsUnique CountsKept 
CHECK_DEADLOCK FALSE
