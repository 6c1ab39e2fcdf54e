------------------------------- MODULE Replay -------------------------------
(***************************************************************************)
(* Deterministic replay of a workflow function by a worker.                *)
(*                                                                         *)
(* A workflow function is a program: a sequence of steps                   *)
(*   [op |-> "exec", fn, arg]     ExecuteActivity(fn, arg), the future is  *)
(*                                known by the index of the step           *)
(*   [op |-> "get", of, ok, err]  Get on the future of step `of`; goes on  *)
(*                                at step `ok`, or at step `err` when the  *)
(*                                activity failed (0: the function returns *)
(*                                the error)                               *)
(*   [op |-> "panic"]             the user code panics                     *)
(* with forward jumps only; past the last step the function returns the    *)
(* values it got.                                                          *)
(*                                                                         *)
(* What earlier runs of the function left in the history is reduced to     *)
(* records[fn], the outcomes of the activity fn in the order in which they *)
(* were stored.                                                            *)
(***************************************************************************)
EXTENDS Integers, Sequences, SequencesExt

CONSTANT Fn        \* activity function names

NoFn == "-"        \* the fn field of an event that concerns no activity

\* Payloads are sequences of numbers; a returned error is the payload <<0>>.
ErrorVal == <<0>>

Ev(kind, fn, val, attempt) ==
  [kind |-> kind, fn |-> fn, val |-> val, attempt |-> attempt]

WorkflowStarted           == Ev("workflow/started", NoFn, <<>>, 0)
ActivityScheduled(fn, a)  == Ev("activity/scheduled", fn, <<a>>, 0)
ActivityCompleted(fn, v)  == Ev("activity/completed", fn, v, 0)
ActivityFailed(fn)        == Ev("activity/failed", fn, ErrorVal, 0)
ActivityRetried(fn, n)    == Ev("activity/retried", fn, ErrorVal, n)
WorkflowFailed            == Ev("workflow/failed", NoFn, ErrorVal, 0)
WorkflowCompleted(v)      == Ev("workflow/completed", NoFn, v, 0)

(***************************************************************************)
(* What a workflow function can be.  A future is only awaited where the    *)
(* call that returned it is in scope: no branch leads around the call to   *)
(* the Get.                                                                *)
(***************************************************************************)
ExecStep  == [op : {"exec"}, fn : Fn, arg : Nat]
GetStep   == [op : {"get"}, of : Nat \ {0}, ok : Nat \ {0}, err : Nat]
PanicStep == [op : {"panic"}]

Targets(step) == {step.ok, step.err} \ {0}

IsProgram(prog) ==
  /\ prog \in Seq(ExecStep \union GetStep \union PanicStep)
  /\ \A i \in DOMAIN prog : prog[i].op = "get" =>
       /\ prog[i].of < i /\ prog[prog[i].of].op = "exec"
       /\ Targets(prog[i]) \subseteq (i + 1)..(Len(prog) + 1)
       /\ \A j \in 1..(prog[i].of - 1) :
            prog[j].op = "get" => \A t \in Targets(prog[j]) : t <= prog[i].of \/ t > i

(***************************************************************************)
(* A function that awaits every call before it goes on, as the order       *)
(* examples do: at most one activity is under way.                         *)
(***************************************************************************)
IsSequential(prog) ==
  \A i \in DOMAIN prog : prog[i].op = "exec" =>
    i + 1 \in DOMAIN prog /\ prog[i + 1].op = "get" /\ prog[i + 1].of = i

(***************************************************************************)
(* Apply: completions and failures become replay records of their activity *)
(* function; every other event leaves the records alone.                   *)
(***************************************************************************)
IsRecord(e) == e.kind \in {"activity/completed", "activity/failed"}

Apply(records, e) ==
  IF IsRecord(e) THEN [records EXCEPT ![e.fn] = Append(@, e)] ELSE records

\* Applied(events)[i] is what the first i events leave.
Applied(events) ==
  LET applied[i \in 0..Len(events)] ==
        IF i = 0 THEN [f \in Fn |-> <<>>] ELSE Apply(applied[i - 1], events[i])
  IN  applied

Records(events) == Applied(events)[Len(events)]

-----------------------------------------------------------------------------
(***************************************************************************)
(* The state of one run: next step, ExecuteActivity calls made per         *)
(* function (`consumed`), the future of every exec step, recorded events,  *)
(* values got so far, and how the run stands.                              *)
(***************************************************************************)
Unresolved == [resolved |-> FALSE, record |-> ActivityFailed(NoFn)]

StartRun(prog) ==
  [pc |-> 1, consumed |-> [f \in Fn |-> 0],
   future |-> [i \in DOMAIN prog |-> Unresolved],
   events |-> <<>>, got |-> <<>>, out |-> "running"]

\* Mutant: every call is served the newest record of its function.
ExecuteActivityNewest(s, i, step, records) ==
  LET f == step.fn
      k == s.consumed[f] + 1
      r == [s EXCEPT !.pc = i + 1, !.consumed[f] = k]
  IN  IF records[f] # <<>>
      THEN [r EXCEPT !.future[i] = [resolved |-> TRUE, record |-> Last(records[f])]]
      ELSE [r EXCEPT !.events = Append(@, ActivityScheduled(f, step.arg))]

\* Mutant: a run schedules an activity function at most once.
ExecuteActivityOncePerFn(s, i, step, records) ==
  LET f == step.fn
      k == s.consumed[f] + 1
      r == [s EXCEPT !.pc = i + 1, !.consumed[f] = k]
  IN  CASE k <= Len(records[f]) ->
             [r EXCEPT !.future[i] = [resolved |-> TRUE, record |-> records[f][k]]]
        [] k > Len(records[f]) /\ k = 1 ->
             [r EXCEPT !.events = Append(@, ActivityScheduled(f, step.arg))]
        [] k > Len(records[f]) /\ k > 1 -> r

\* ExecuteActivity: the k-th call of a function takes the k-th record of that
\* function; a call beyond the records is scheduled, whether or not an earlier
\* run has scheduled it already.
ExecuteActivity(s, i, step, records) ==
  LET f == step.fn
      k == s.consumed[f] + 1
      r == [s EXCEPT !.pc = i + 1, !.consumed[f] = k]
  IN  IF k <= Len(records[f])
      THEN [r EXCEPT !.future[i] = [resolved |-> TRUE, record |-> records[f][k]]]
      ELSE [r EXCEPT !.events = Append(@, ActivityScheduled(f, step.arg))]

\* Mutant: the error of a failed activity is not returned by the function.
FutureGetUnreturned(s, step) ==
  LET fut == s.future[step.of] IN
  CASE ~fut.resolved -> [s EXCEPT !.out = "blocked"]
    [] fut.resolved /\ fut.record.kind = "activity/completed" ->
         [s EXCEPT !.got = @ \o fut.record.val, !.pc = step.ok]
    [] fut.resolved /\ fut.record.kind = "activity/failed" ->
         [s EXCEPT !.pc = step.err]

\* blocking.Get: an unresolved future panics out of the function.
FutureGet(s, step) ==
  LET fut == s.future[step.of] IN
  CASE ~fut.resolved -> [s EXCEPT !.out = "blocked"]
    [] fut.resolved /\ fut.record.kind = "activity/completed" ->
         [s EXCEPT !.got = @ \o fut.record.val, !.pc = step.ok]
    [] fut.resolved /\ fut.record.kind = "activity/failed" ->
         IF step.err = 0 THEN [s EXCEPT !.out = "error"]
                         ELSE [s EXCEPT !.pc = step.err]

StepOnce(s, i, step, records) ==
  CASE s.out # "running" \/ s.pc # i -> s
    [] s.out = "running" /\ s.pc = i ->
         CASE step.op = "exec"  -> ExecuteActivity(s, i, step, records)
           [] step.op = "get"   -> FutureGet(s, step)
           [] step.op = "panic" -> [s EXCEPT !.out = "panicked"]

\* After(prog, records)[i] is the run after its first i steps.
After(prog, records) ==
  LET after[i \in 0..Len(prog)] ==
        IF i = 0 THEN StartRun(prog)
        ELSE LET s == after[i - 1] IN StepOnce(s, i, prog[i], records)
  IN  after

\* The call of the workflow function.
RunProgram(prog, records) == After(prog, records)[Len(prog)]

(***************************************************************************)
(* processWorkflowTask: what is recorded after the run, and whether the    *)
(* worker sees an error (and sends NAK).  A function that returned, with   *)
(* or without an error, completes the workflow.                            *)
(***************************************************************************)
ProcessWorkflowTask(prog, records) ==
  LET s == RunProgram(prog, records) IN
  CASE s.out = "blocked"  -> [events |-> s.events, err |-> FALSE]
    [] s.out = "panicked" -> [events |-> Append(s.events, WorkflowFailed), err |-> TRUE]
    [] s.out = "error"    -> [events |-> Append(s.events, WorkflowCompleted(ErrorVal)), err |-> FALSE]
    [] s.out = "running"  -> [events |-> Append(s.events, WorkflowCompleted(<<1>> \o s.got)), err |-> FALSE]

\* The function is not registered in this worker: nothing runs.
WorkflowNotRegistered == [events |-> <<WorkflowFailed>>, err |-> TRUE]
=============================================================================
