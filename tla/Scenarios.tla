----------------------------- MODULE Scenarios ------------------------------
(***************************************************************************)
(* The example scenarios on a coarse engine: one order, whose workflow and *)
(* activity tasks are handled one after the other.  The activities fail on *)
(* purpose, by counters in the memory of the process that executes them;   *)
(* the counters are lost with the process, and OrderWithRetriesWorkflow    *)
(* resets the ones of its own process at the beginning of every replay.    *)
(***************************************************************************)
EXTENDS Replay, FiniteSetsExt

\* The activities of the examples, which their workers register.
Activities ==
  {"ChargeCreditCard", "ShipPackage", "ValidateOrderDetails", "TransientFailurePayment",
   "ReserveInventory", "PackageOrder", "EventuallySuccessfulShipping", "NotifyCustomer",
   "FlakyChargeCreditCard", "ShipAfterPayment"}

ASSUME ScenarioAssumption == Activities \subseteq Fn

VARIABLES
  scenario,   \* the scenario of the order
  colocated,  \* one process runs workflows and activities (-worker=both)
  history,    \* the history of the order
  seen,       \* the last event each projector of the server has turned into work
  wfTasks,    \* workflow tasks
  actTasks,   \* activity tasks [fn, attempt]
  sleeping,   \* retries waiting in the server
  count       \* executions that the process of the activities remembers

orderVars == <<scenario, colocated, history, seen, wfTasks, actTasks, sleeping, count>>

Scenario == {"order", "declined", "retries", "recovery"}

Ended(f) == {i \in DOMAIN history : IsRecord(history[i]) /\ history[i].fn = f}

Succeeded(f) == \E i \in Ended(f) : history[i].kind = "activity/completed"

Return(v) == WorkflowCompleted(v)

\* What a replay records that calls activities and awaits them one by one: the
\* next call, or the end; the first error is returned.
Sequential(acts) ==
  LET open == {k \in DOMAIN acts : ~Succeeded(acts[k])} IN
  CASE open = {}               -> Return(<<1>>)
    [] \E f \in Fn : Ended(f) # {} /\ ~Succeeded(f) -> Return(ErrorVal)
    [] OTHER                   -> ActivityScheduled(acts[Min(open)], 0)

OrderWorkflow == Sequential(<<"ChargeCreditCard", "ShipPackage">>)

OrderWithRetriesWorkflow ==
  Sequential(<<"ValidateOrderDetails", "TransientFailurePayment", "ReserveInventory",
               "PackageOrder", "EventuallySuccessfulShipping", "NotifyCustomer">>)

\* The loop makes up to three payments of its own; then the order is shipped.
RecoverableOrderWorkflow ==
  LET charge == "FlakyChargeCreditCard"
      ship   == "ShipAfterPayment"
  IN
  CASE Succeeded(charge) /\ Ended(ship) = {}  -> ActivityScheduled(ship, 0)
    [] Succeeded(charge) /\ Ended(ship) # {}  -> Return(IF Succeeded(ship) THEN <<1>> ELSE ErrorVal)
    [] ~Succeeded(charge) /\ Cardinality(Ended(charge)) < 3 -> ActivityScheduled(charge, 0)
    [] OTHER -> Return(ErrorVal)

Recorded ==
  CASE scenario \in {"order", "declined"} -> OrderWorkflow
    [] scenario = "retries"  -> OrderWithRetriesWorkflow
    [] scenario = "recovery" -> RecoverableOrderWorkflow

\* MaximumAttempts of the options each activity is called with; 1 without any.
MaximumAttempts(f) ==
  CASE f = "ChargeCreditCard"             -> 3
    [] f = "ShipPackage"                  -> 5
    [] f = "TransientFailurePayment"      -> 5
    [] f = "ReserveInventory"             -> 4
    [] f = "EventuallySuccessfulShipping" -> 10
    [] OTHER -> 1

-----------------------------------------------------------------------------
(* Whether the n-th execution in the memory of a process fails.            *)

\* Mutant: one more outage than the policy leaves room for after a restart.
TransientFailurePaymentLonger(n) == n <= 3

TransientFailurePayment(n)      == n <= 2

EventuallySuccessfulShipping(n) == n \in 1..3

ReserveInventory(n)             == n = 1

FlakyChargeCreditCard(n)        == n = 1

\* The customer fail_customer is declined every time.
ChargeCreditCard(n)             == scenario = "declined"

Fails(f, n) ==
  CASE f = "TransientFailurePayment"      -> TransientFailurePayment(n)
    [] f = "EventuallySuccessfulShipping" -> EventuallySuccessfulShipping(n)
    [] f = "ReserveInventory"             -> ReserveInventory(n)
    [] f = "FlakyChargeCreditCard"        -> FlakyChargeCreditCard(n)
    [] f = "ChargeCreditCard"             -> ChargeCreditCard(n)
    [] OTHER -> FALSE

Saturated == 4      \* bound: beyond it an execution succeeds like any other

Counters == {"TransientFailurePayment", "EventuallySuccessfulShipping", "ReserveInventory"}

\* The process that handles tasks of queue q.
Place(q) == IF colocated THEN "both" ELSE q

InitOrder ==
  /\ scenario \in Scenario
  /\ colocated \in BOOLEAN
  /\ history = <<>>
  /\ seen = [p \in {"wf", "act", "retry"} |-> 0]
  /\ wfTasks = 0
  /\ actTasks = {}
  /\ sleeping = {}
  /\ count = [f \in Fn |-> 0]

-----------------------------------------------------------------------------
\* RunClient: the order is accepted.
RunClient ==
  /\ history = <<>>
  /\ history' = <<WorkflowStarted>>
  /\ UNCHANGED <<scenario, colocated, seen, wfTasks, actTasks, sleeping, count>>

\* Mutant: a failed activity makes no workflow task.
ConcernsSuccess(p, e) ==
  CASE p = "wf"    -> e.kind \in {"workflow/started", "activity/completed"}
    [] p = "act"   -> e.kind = "activity/scheduled"
    [] p = "retry" -> e.kind = "activity/retried"

Concerns(p, e) ==
  CASE p = "wf"    -> e.kind \in {"workflow/started", "activity/completed", "activity/failed"}
    [] p = "act"   -> e.kind = "activity/scheduled"
    [] p = "retry" -> e.kind = "activity/retried"

Unseen(p) == {i \in DOMAIN history : i > seen[p] /\ Concerns(p, history[i])}

\* Projector p turns the next event that concerns it into work.
ProjectNext(p) ==
  LET i == Min(Unseen(p)) IN
  /\ Unseen(p) # {}
  /\ seen' = [seen EXCEPT ![p] = i]
  /\ wfTasks' = wfTasks + (IF p = "wf" THEN 1 ELSE 0)
  /\ actTasks' = actTasks \union
       IF p = "act" THEN {[fn |-> history[i].fn, attempt |-> 1]} ELSE {}
  /\ sleeping' = sleeping \union IF p = "retry" THEN {history[i]} ELSE {}
  /\ UNCHANGED <<scenario, colocated, history, count>>

\* A retry goroutine of the server wakes up.
WakeUp ==
  \E e \in sleeping :
    /\ sleeping' = sleeping \ {e}
    /\ actTasks' = actTasks \union {[fn |-> e.fn, attempt |-> e.attempt + 1]}
    /\ UNCHANGED <<scenario, colocated, history, seen, wfTasks, count>>

\* The counters after a run of the workflow function, which resets the ones of
\* its own process.
AfterReplay ==
  [f \in Fn |-> IF colocated /\ scenario = "retries" /\ f \in Counters THEN 0 ELSE count[f]]

\* A workflow task: replay, then what the function recorded is saved.
RunWorkflow ==
  /\ wfTasks > 0
  /\ wfTasks' = wfTasks - 1
  /\ history' = Append(history, Recorded)
  /\ count' = AfterReplay
  /\ UNCHANGED <<scenario, colocated, seen, actTasks, sleeping>>

\* Mutant: off by one, the attempt after the last one is allowed.
RetriesAgainOneMore(t) == t.attempt <= MaximumAttempts(t.fn)

RetriesAgain(t) == t.attempt < MaximumAttempts(t.fn)

\* An activity task: completed, retried or failed by its policy.
RunActivity(t) ==
  LET n == count[t.fn] + 1 IN
  /\ t \in actTasks
  /\ actTasks' = actTasks \ {t}
  /\ count' = [count EXCEPT ![t.fn] = Min({n, Saturated})]
  /\ history' = Append(history,
       CASE ~Fails(t.fn, n) -> ActivityCompleted(t.fn, <<>>)
         [] Fails(t.fn, n) /\ RetriesAgain(t) -> ActivityRetried(t.fn, t.attempt)
         [] OTHER -> ActivityFailed(t.fn))
  /\ UNCHANGED <<scenario, colocated, seen, wfTasks, sleeping>>

\* A process ends; a task it has acknowledged and not saved yet is lost.
ProcessEnds(p) ==
  /\ count' = IF p = Place("activity") THEN [f \in Fn |-> 0] ELSE count
  /\ \/ UNCHANGED <<wfTasks, actTasks>>
     \/ /\ p = Place("workflow") /\ wfTasks > 0
        /\ wfTasks' = wfTasks - 1 /\ UNCHANGED actTasks
     \/ /\ p = Place("activity")
        /\ \E t \in actTasks : actTasks' = actTasks \ {t}
        /\ UNCHANGED wfTasks
  /\ UNCHANGED <<scenario, colocated, history, seen, sleeping>>

\* The sleeping goroutines end with the server.
SleepersEnd ==
  /\ sleeping' = {}
  /\ UNCHANGED <<scenario, colocated, history, seen, wfTasks, actTasks, count>>
=============================================================================
