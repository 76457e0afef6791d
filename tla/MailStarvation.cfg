SPECIFICATION Spec
CONSTANTS
  Job <- TwoNews
  Letter <- Letters
  JobsOf <- TwoNewsOf
  Auth <- AuthLetters
  Concurrency <- Parallel
  Delay <- Backoff
  MaxAttempts = 3
  MaxCrashes = 0
  MaxStops = 0
  Volume = 2
  Reset = 2
CHECK_DEADLOCK FALSE
INVARIANT AuthFailsOnItsOwn
