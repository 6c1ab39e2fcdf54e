CONSTANTS
  x1 = x1
  x2 = x2
  Fn <- MCFn
  Workflow = {w1}
  Worker = {x1}
  Slot = {g1}
  Program <- Single
  Policy <- TwoTries
  Outcomes <- Unsteady
  Polls <- EveryQueue
  Registry <- EveryFunction
  Faults <- Losses
  FetchLimit = 100
  MaxLen = 6
  MaxTasks = 3
SPECIFICATION Spec
 
INVARIANT ResultIsReplay
CHECK_DEADLOCK FALSE
