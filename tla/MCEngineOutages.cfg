CONSTANTS
  x1 = x1
  x2 = x2
  Fn <- MCFn
  Workflow = {w1}
  Worker = {x1, x2}
  Slot = {g1}
  Program <- Order
  Policy <- NoPolicy
  Outcomes <- Reliable
  Polls <- EveryQueue
  Registry <- EveryFunction
  Faults <- Outages
  FetchLimit = 100
  MaxLen = 8
  MaxTasks = 4
SPECIFICATION Spec
INVARIANT TypeOK
 
INVARIANT InputBeforeHistory
PROPERTY ImplementsLog
 
CHECK_DEADLOCK FALSE
