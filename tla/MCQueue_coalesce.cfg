SPECIFICATION RoomyFairSpec
CONSTANTS
  MaxBatchSize = 3
  MaxEntries = 4
  MaxBytes = 5
  Coalesce = TRUE
  MaxRetryTime = 2
  InitialRetryDelay = 1
  MaxRetryDelay = 1
  Sizes = {0, 2}
  HandlerTimes = {0, 1}
  MaxId = 6
INVARIANTS
  TypeOK
  SemaphoreTracksEntries
  EnqueueNeverRaises
  NoEntryVanishes
  RetryBudgetRespected
PROPERTIES
  EveryEntrySettled
  ImplementsFifo
