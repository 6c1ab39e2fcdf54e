CONSTANTS
  InitialInterval = 4
  BackoffCoefficient = 2
  MaximumInterval = 20
  MaximumAttempts = 0
  ScheduleToClose = 30
  DefaultInterval = 4
  UnixSeconds = 1000
  MaxDuration = 100000
  Steps = {0, 3}
  AttemptBound = 8
SPECIFICATION Spec
INVARIANT WithinScheduleToClose
CHECK_DEADLOCK FALSE
