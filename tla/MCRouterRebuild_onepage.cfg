SPECIFICATION FairSpec
CONSTANTS
  timer = timer
  request = request
  Nobody = Nobody
  NumRoutes = 2
  PageSize = 2
  Timers = {timer}
  Requests = {request}
  SlowBuilds = TRUE
  FailingReads = TRUE
  BadVersions = {3}
  Matched = {1}
  MaxWrites = 3
  MaxSecond = 1
INVARIANTS
  TypeOK
  OneRebuildInPlace
  MatchersHaveRoutes
  RouterIsCurrent
  NoStaleMatch
PROPERTIES
  RouterCatchesUp
