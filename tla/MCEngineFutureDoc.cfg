CONSTANTS
  x1 = x1
  x2 = x2
  Fn <- MCFn
  Workflow = {w1}
  Worker = {x1, x2}
  Slot = {g1}
  Program <- FanOut
  Policy <- NoPolicy
  Outcomes <- Reliable
  Polls <- EveryQueue
  Registry <- EveryFunction
  Faults <- NoFaults
  FetchLimit = 100
  MaxLen = 10
  MaxTasks = 5
SPECIFICATION Spec
INVARIANT ResultsMatchCalls
CHECK_DEADLOCK FALSE
