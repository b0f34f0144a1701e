SPECIFICATION Spec
CONSTANTS
  MaxBatchSize = 3
  MaxEntries = 3
  MaxBytes = 4
  Coalesce = TRUE
  MaxRetryTime = 1
  InitialRetryDelay = 1
  MaxRetryDelay = 1
  Sizes = {0, 1, 2, 5}
  HandlerTimes = {0, 1}
  MaxId = 5
INVARIANTS
  CapacityRespected
  NoBusyLoop
PROPERTY
  RaisesOnlyCoalescing
