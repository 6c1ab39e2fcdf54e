CONSTANTS
  Workflow = {w1}
  Fn = {"A", "B"}
  Faults <- EveryFault
  MaxLen = 5
  Steps <- Listed
  Tales <- Stories
  Visits = {"completed"}
SPECIFICATION CallersSpec
INVARIANT CallersTypeOK
INVARIANT FutureIsReal
INVARIANT AnswerIsResult
INVARIANT NoOrphanWithoutFault
INVARIANT AttemptsNotOvercounted
PROPERTY FirstDeliveriesOnlyAdvance
PROPERTY PageIsConsistent
PROPERTY ViewCompletes
PROPERTY DemoRequestEnds
PROPERTY GetReturns
CHECK_DEADLOCK FALSE
