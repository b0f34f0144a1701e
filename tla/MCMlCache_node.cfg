SPECIFICATION FairSpec
CONSTANTS
  w1 = w1
  w2 = w2
  c1 = c1
  c2 = c2
  c3 = c3
  Nobody = Nobody
  Workers = {w1, w2}
  Clients = {c1, c2, c3}
  WorkerOf <- MCWorkerOf3
  Absent <- MCAbsent
  Warmers = {c2}
  Expiring = TRUE
  FailingReads = TRUE
  SlowReads = FALSE
  FailingPosts = TRUE
  MaxWrites = 1
  MaxCrashes = 1
INVARIANTS
  TypeOK
  SingleFlight
  StaleIsPending
PROPERTIES
  GetReturns
  EventuallyNew
