CONSTANTS
  Fn <- Activities
  Component = {"command", "wf", "act", "retry"}
  Worker <- Processes
  Queues <- QueuesOf
  Namespace <- NamespaceOf
  MaxStarts = 2
  MaxFaults = 1
SPECIFICATION DeploymentSpec
 
INVARIANT ServingHasObjects
 
INVARIANT PollingIsFed
INVARIANT OrdersSucceed
PROPERTY FailureIsTotal
 
 
CHECK_DEADLOCK FALSE
