CONSTANTS
  x1 = x1
  x2 = x2
  Fn <- MCFn
  Workflow = {w1, w2}
  Worker = {x1, x2}
  Slot = {g1}
  Program <- SingleB
  Policy <- NoPolicy
  Outcomes <- Crashing
  Polls <- WorkflowsOnly
  Registry <- OtherWorkflow
  Faults <- NoFaults
  FetchLimit = 100
  MaxLen = 5
  MaxTasks = 3
SPECIFICATION Spec
 
PROPERTY ImplementsLog
PROPERTY ImplementsHistories
CHECK_DEADLOCK FALSE
