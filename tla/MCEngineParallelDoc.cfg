CONSTANTS
  x1 = x1
  x2 = x2
  Fn <- MCFn
  Workflow = {w1}
  Worker = {x1}
  Slot = {g1, g2}
  Program <- Parallel
  Policy <- NoPolicy
  Outcomes <- Reliable
  Polls <- EveryQueue
  Registry <- EveryFunction
  Faults <- NoFaults
  FetchLimit = 100
  MaxLen = 14
  MaxTasks = 6
SPECIFICATION FairSpec
PROPERTY EventuallyCompletes
CHECK_DEADLOCK FALSE
