SPECIFICATION FairSpec
CONSTANTS
  Job <- Recipients
  Letter <- BulkLetter
  JobsOf <- RecipientsOf
  Auth <- NoLetter
  Concurrency <- Together
  Delay <- Backoff
  MaxAttempts = 2
  MaxCrashes = 2
  MaxStops = 1
  Volume = 2
  Reset = 2
CHECK_DEADLOCK FALSE
INVARIANTS
  DuplicatesNeedDoubt
  AttemptsAreKept
PROPERTIES
  KeepsItsPromise
  EveryJobEnds
