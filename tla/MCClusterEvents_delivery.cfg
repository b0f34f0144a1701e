SPECIFICATION Spec
CONSTANTS
  Nodes = {n1, n2}
  Pollers = {n1}
  PollInterval = 3
  PollOffset = 1
  PollDelay = 1
  PageSize = 1
  MaxCommitDelay = 1
  Slack = 1
  Failures = TRUE
  Reloads = 1
  MaxEvents = 2
  MaxTime = 10
INVARIANTS TypeOK HandledByNextPoll RunsAtMostOnce
