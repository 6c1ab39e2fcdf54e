------------------------------ MODULE MCReplay ------------------------------
(* The shapes of workflow functions the examples and the SDK docs show.    *)
EXTENDS ReplayStability

Exec(f, a) == [op |-> "exec", fn |-> f, arg |-> a]
Await(k, i) == [op |-> "get", of |-> k, ok |-> i + 1, err |-> 0]
AwaitElse(k, i, e) == [op |-> "get", of |-> k, ok |-> i, err |-> e]

\* examples/scenarios/order: charge, then ship.
Order == <<Exec("A", 1), Await(1, 2), Exec("B", 2), Await(3, 4)>>

\* sdk/workflow/future.go: two activities in parallel.
Parallel == <<Exec("A", 1), Exec("B", 2), Await(1, 3), Await(2, 4)>>

\* Two parallel calls of one activity.
FanOut == <<Exec("A", 1), Exec("A", 2), Await(1, 3), Await(2, 4)>>

\* examples/scenarios/recovery: charge again after a failure, then ship.
Recovery == <<Exec("A", 1), AwaitElse(1, 5, 3), Exec("A", 1), Await(3, 4),
              Exec("B", 2), Await(5, 6)>>

\* A future that is never awaited, and user code that panics.
FireAndForget == <<Exec("B", 1), Exec("A", 2), Await(2, 3)>>
Panics == <<Exec("A", 1), Await(1, 2), [op |-> "panic"]>>

MCPrograms == {Order, Parallel, FanOut, Recovery, FireAndForget, Panics}
MCFn == {"A", "B"}
=============================================================================
