SPECIFICATION FairSpec
CONSTANTS
  Hook = {h1}
  Backfill = {}
  Ids = {1, 2, 3}
  Batch = 2
  Permits <- MCPermits
  MAX_BACKOFF_SECS = 1
  RetryAfter = {2}
  OldRows = 2
  MaxTime = 1
  MaxStop = 1
  MaxDbFault = 1
INVARIANTS NothingPassedOver FiredOncePerLoss
PROPERTY EveryRowIsFired
CHECK_DEADLOCK FALSE
