CONSTANTS
  Fn <- MCFn
  Programs <- MCPrograms
  Val = {3, 4}
  MaxRecords = 5
SPECIFICATION Spec
INVARIANT TypeOK
INVARIANT BlockedMeansScheduled
PROPERTY ReplayExtends
PROPERTY OutcomeIsFinal
CHECK_DEADLOCK FALSE
