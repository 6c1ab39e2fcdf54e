CONSTANTS
  InitialInterval = 0
  BackoffCoefficient = 0
  MaximumInterval = 20
  MaximumAttempts = 5
  ScheduleToClose = 30
  DefaultInterval = 4
  UnixSeconds = 1000
  MaxDuration = 100000
  Steps = {0, 3}
  AttemptBound = 6
SPECIFICATION Spec
INVARIANT TypeOK
INVARIANT AttemptLimit
INVARIANT BackoffGrows
CHECK_DEADLOCK FALSE
