------------------------------ MODULE MCEngine ------------------------------
(* Small instances of Engine: workflow functions, workers and failures.    *)
EXTENDS Engine, TLC

CONSTANTS x1, x2   \* worker processes

MCFn == {"A", "B"}

Exec(f, a) == [op |-> "exec", fn |-> f, arg |-> a]
Await(k, i) == [op |-> "get", of |-> k, ok |-> i + 1, err |-> 0]

\* Charge, then ship; and the same two activities in parallel.
Order    == <<Exec("A", 1), Await(1, 2), Exec("B", 2), Await(3, 4)>>
Parallel == <<Exec("A", 1), Exec("B", 2), Await(1, 3), Await(2, 4)>>
FanOut   == <<Exec("A", 1), Exec("A", 2), Await(1, 3), Await(2, 4)>>
Single   == <<Exec("A", 1), Await(1, 2)>>
Panics   == <<Exec("B", 1), Await(1, 2), [op |-> "panic"]>>
SingleB    == <<Exec("B", 1), Await(1, 2)>>
Twice    == <<Exec("A", 1), Await(1, 2), Exec("A", 2), Await(3, 4)>>

\* The functions for which a call is made once, and those for which it is not.
ASSUME SequentialInstances ==
  /\ \A p \in {Order, Single, SingleB, Twice, Panics} : IsSequential(p)
  /\ \A p \in {Parallel, FanOut} : ~IsSequential(p)

NoPolicy  == [f \in Fn |-> -1]
TwoTries  == [f \in Fn |-> 2]

Reliable == [f \in Fn |-> {"ok"}]
Unsteady == [f \in Fn |-> {"ok", "transient"}]
Flaky    == [f \in Fn |-> {"ok", "transient", "fatal"}]

EveryQueue    == [x \in Worker |-> {"wf", "act"}]
EveryFunction == [x \in Worker |-> Fn \union {WorkflowFn}]

\* x1 has everything; x2 has registered another workflow and no activity.
OtherWorkflow == [x \in Worker |-> IF x = x1 THEN Fn \union {WorkflowFn} ELSE {}]
WorkflowsOnly == [x \in Worker |-> IF x = x1 THEN {"wf", "act"} ELSE {"wf"}]

\* B sometimes panics.
Crashing == [f \in Fn |-> IF f = "B" THEN {"ok", "panic"} ELSE {"ok"}]

Budget(kinds) == [k \in FaultKind |-> IF k \in kinds THEN 1 ELSE 0]
NoFaults   == Budget({})
WorkerDies == Budget({"crash"})
Outages    == Budget({"crash", "server", "read", "save", "kv"})
ServerSide == Budget({"server", "publish"})
Losses     == Budget({"ackloss", "slow", "publish"})
=============================================================================
