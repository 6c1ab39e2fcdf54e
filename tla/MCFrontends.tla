---------------------------- MODULE MCFrontends -----------------------------
(* Small instances of Frontends.                                           *)
EXTENDS Frontends, TLC

\* A new view lists one activity; the workflow may call another.
Listed == <<"A">>

Scheduled(f) == <<"activity/scheduled", f>>
Retried(f)   == <<"activity/retried", f>>
Completed(f) == <<"activity/completed", f>>
Failed(f)    == <<"activity/failed", f>>
Ended        == <<"workflow/completed", NoFn>>
Attempted    == <<"workflow/failed", NoFn>>

\* A retry of a listed activity; an activity that is not listed and fails; a
\* first task that a worker without the workflow function received; an activity
\* whose future is not awaited.
Stories ==
  { <<Scheduled("A"), Retried("A"), Completed("A"), Ended>>,
    <<Scheduled("B"), Failed("B"), Ended>>,
    <<Attempted, Scheduled("A"), Completed("A"), Ended>>,
    <<Scheduled("A"), Ended, Completed("A")>> }

Budget(kinds) == [k \in FaultKind |-> IF k \in kinds THEN 1 ELSE 0]
EveryFault == Budget(FaultKind)
=============================================================================
