SPECIFICATION FairSpec
CONSTANTS
  Topic = {t1}
  Caller = {c1}
  Query = {q1, q2}
  r1 = r1
  r2 = r2
  r3 = r3
  Route = {r1, r3}
  Partitions <- PartitionsValue
  EmptyRoute = EmptyRoute
  Failed = Failed
  NoRoute = NoRoute
  MayLackServer = FALSE
  MaxRefresh = 1
  MaxChange = 1
PROPERTY WaitEnds
