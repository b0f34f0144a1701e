SPECIFICATION Spec
CONSTANTS
  timer = timer
  request = request
  Nobody = Nobody
  NumRoutes = 2
  PageSize = 1
  Timers = {timer}
  Requests = {request}
  SlowBuilds = FALSE
  FailingReads = FALSE
  BadVersions = {}
  Matched = {}
  MaxWrites = 4
  MaxSecond = 1
INVARIANTS
  RouterIsCurrent
