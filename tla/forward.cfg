\* Two calls for one unit of the free budget, one of them streamed.
SPECIFICATION FairSpec
CONSTANTS
  r1 = r1 r2 = r2
  Calls = {r1, r2}
  Streamed = {r1}
  Deferred = {}
  HasCentral = TRUE
  Queueless = TRUE
  OkNeeded = 2
  FailNeeded = 2
  MaxRetries = 1
  Budget = 1
INVARIANTS OneAnswer RetriesAreAccounted
PROPERTIES CentralComesBack EveryCallEnds
CHECK_DEADLOCK FALSE
