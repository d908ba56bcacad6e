SPECIFICATION FairSpec
CONSTANTS
  MaxCommands = 3
  MayThrow = TRUE
INVARIANTS
  TypeOK
  RunningIsPending
  RunningIffThread
  StopDropsOnlyLater
  OneMoreAfterCleanup
PROPERTIES
  StopTakesEffect
  CleanupReturns
  KeepsQueuePromise
\* After cleanup the session is gone and nothing happens any more.
CHECK_DEADLOCK FALSE
