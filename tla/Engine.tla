------------------------------- MODULE Engine -------------------------------
(***************************************************************************)
(* The engine as a whole: command handler, history stream, the four        *)
(* projectors of the server, the two task queues and the workers.          *)
(*                                                                         *)
(* Work moves through JetStream only.  The history stream is read by four  *)
(* durable consumers with explicit acknowledgement (projectors).  Workflow *)
(* and activity tasks live in work-queue streams: a task is delivered to   *)
(* one worker at a time, kept until it is acknowledged or terminated, and  *)
(* delivered again after a NAK or when its acknowledgement does not arrive *)
(* in time.  Everything a worker or the server holds in memory is lost     *)
(* when the process ends; worker processes are restarted at once.          *)
(*                                                                         *)
(* Failures are drawn from a budget, one count per kind, so that a run can *)
(* say which failures it admits.                                           *)
(***************************************************************************)
EXTENDS Replay, FiniteSetsExt

CONSTANTS Workflow,   \* workflow ids, fresh for every StartWorkflow command
          Worker,     \* worker processes
          Slot,       \* goroutines a worker process runs at a time
          Program,    \* the workflow function (module Replay)
          Policy,     \* MaximumAttempts per activity; 0 unlimited, -1 no policy
          Outcomes,   \* how an execution of an activity may end
          Polls,      \* the task queues each worker consumes
          Registry,   \* the functions registered in each worker
          Faults,     \* the budget of each kind of failure
          FetchLimit, \* events fetched to find the call of a retry (100 in the code)
          MaxLen,     \* bound: messages in the history stream
          MaxTasks    \* bound: task messages and held deliveries at a time

WorkflowFn == "workflow"            \* registry name of the workflow function
Projector  == {"wf", "act", "retry", "result"}
FaultKind  == {"crash",     \* a worker process is killed
               "server",    \* the server process is killed and restarted
               "read",      \* ReadEvents ends early
               "kv",        \* a KV read or write fails
               "publish",   \* a publish of the server fails
               "ackloss",   \* an acknowledgement is lost
               "save",      \* Save fails, or succeeds without the worker knowing
               "slow"}      \* a handler runs longer than AckWait

ASSUME EngineAssumption ==
  /\ MaxLen \in Nat /\ MaxTasks \in Nat /\ FetchLimit \in Nat
  /\ Faults \in [FaultKind -> Nat]
  /\ IsProgram(Program)
  /\ Policy \in [Fn -> Int]
  /\ Outcomes \in [Fn -> SUBSET {"ok", "transient", "fatal", "panic"}]
  /\ Polls \in [Worker -> SUBSET {"wf", "act"}]
  /\ Registry \in [Worker -> SUBSET (Fn \union {WorkflowFn})]
  /\ \A x \in Worker : WorkflowFn \in Registry[x] => "wf" \in Polls[x]
  /\ \A x \in Worker : Registry[x] \intersect Fn # {} => "act" \in Polls[x]

VARIABLES
  stream,      \* WORKFLOW_HISTORY: messages [wf, ver, ev], index = sequence
  subjects,    \* workflows whose subject the history stream listens on
  command,     \* progress of the StartWorkflow command of each id
  inputs,      \* ids with their arguments in the workflow-input bucket
  results,     \* workflow-result bucket; <<>> when there is no entry
  cons,        \* the projectors' consumers: last first delivery, unsettled messages
  timers,      \* retry goroutines sleeping in the server, per ActivityRetried
  tasks,       \* messages of the two task streams
  runs,        \* tasks being handled by worker goroutines
  budget       \* failures that may still happen

vars == <<stream, subjects, command, inputs, results, cons, timers, tasks, runs, budget>>

clientVars == <<command, inputs>>
serverVars == <<cons, timers, results>>

Spend(k) == budget[k] > 0 /\ budget' = [budget EXCEPT ![k] = @ - 1]

-----------------------------------------------------------------------------
(* The history of one workflow.                                            *)

Message(w, v, e) == [wf |-> w, ver |-> v, ev |-> e]

Positions(w) == {i \in DOMAIN stream : stream[i].wf = w}

LastSeq(w) == Max({0} \union Positions(w))

\* EventsIn(s, w)[n] is the events of w among the first n messages of s.
EventsIn(s, w) ==
  LET events[n \in 0..Len(s)] ==
        IF n = 0 THEN <<>>
        ELSE IF s[n].wf = w THEN Append(events[n - 1], s[n].ev) ELSE events[n - 1]
  IN  events

EventsOf(w, n) == EventsIn(stream, w)[n]

-----------------------------------------------------------------------------
(* Task messages.                                                          *)

Task(q, w, fn, val, attempt) ==
  [q |-> q, wf |-> w, fn |-> fn, val |-> val, attempt |-> attempt]

UsedIds == {m.id : m \in tasks} \union {r.tid : r \in runs}

\* A task is stored in its work-queue stream.  The message id that is published
\* with it differs for every delivery of the event, so nothing is deduplicated.
Enqueue(t) ==
  /\ (1..MaxTasks) \ UsedIds # {}
  /\ LET id == Min((1..MaxTasks) \ UsedIds)
     IN  tasks' = tasks \union {[id |-> id, task |-> t, ready |-> TRUE]}

SetReady(id, b) == {IF m.id = id THEN [m EXCEPT !.ready = b] ELSE m : m \in tasks}
Without(id)     == {m \in tasks : m.id # id}

RunsOf(x) == {r \in runs : r.at[1] = x}

-----------------------------------------------------------------------------
Init ==
  /\ stream = <<>>
  /\ subjects = Workflow
  /\ command = [w \in Workflow |-> "new"]
  /\ inputs = {}
  /\ results = [w \in Workflow |-> <<>>]
  /\ cons = [p \in Projector |-> [last |-> 0, unsettled |-> {}]]
  /\ timers = [i \in 1..MaxLen |-> 0]
  /\ tasks = {}
  /\ runs = {}
  /\ budget = Faults

-----------------------------------------------------------------------------
(* Command handler: HandleRequest for StartWorkflow, in two writes.        *)

\* Mutant: the workflow is started although its arguments were not stored.
StoreInputRegardless(w) ==
  /\ command[w] = "new"
  /\ command' = [command EXCEPT ![w] = "stored"]
  /\ \/ inputs' = inputs \union {w} /\ UNCHANGED budget
     \/ Spend("kv") /\ UNCHANGED inputs
  /\ UNCHANGED <<stream, subjects, serverVars, tasks, runs>>

\* The arguments are put into the workflow-input bucket.
StoreInput(w) ==
  /\ command[w] = "new"
  /\ \/ /\ command' = [command EXCEPT ![w] = "stored"]
        /\ inputs' = inputs \union {w}
        /\ UNCHANGED budget
     \/ /\ command' = [command EXCEPT ![w] = "refused"]
        /\ inputs' \in {inputs, inputs \union {w}}
        /\ Spend("kv")
  /\ UNCHANGED <<stream, subjects, serverVars, tasks, runs>>

\* Mutant: WorkflowStarted carries the version of an empty history.
PublishStartedUnversioned(w) ==
  /\ command[w] = "stored"
  /\ Len(stream) < MaxLen
  /\ stream' = Append(stream, Message(w, 0, WorkflowStarted))
  /\ command' = [command EXCEPT ![w] = "started"]
  /\ UNCHANGED <<subjects, inputs, serverVars, tasks, runs, budget>>

\* WorkflowStarted is published with version 1 and no expected sequence; the
\* stream does not answer when it no longer listens on the subject.
PublishStarted(w) ==
  /\ command[w] = "stored"
  /\ \/ /\ w \in subjects
        /\ Len(stream) < MaxLen
        /\ stream' = Append(stream, Message(w, 1, WorkflowStarted))
        /\ \/ command' = [command EXCEPT ![w] = "started"] /\ UNCHANGED budget
           \/ command' = [command EXCEPT ![w] = "refused"] /\ Spend("ackloss")
     \/ /\ w \notin subjects
        /\ command' = [command EXCEPT ![w] = "refused"]
        /\ UNCHANGED <<stream, budget>>
     \/ /\ command' = [command EXCEPT ![w] = "refused"]
        /\ Spend("publish")
        /\ UNCHANGED stream
  /\ UNCHANGED <<subjects, inputs, serverVars, tasks, runs>>

-----------------------------------------------------------------------------
(* Projectors.                                                             *)

\* Messages consumer p may hand to its callback: unsettled ones, or the next.
Deliverable(p) ==
  cons[p].unsettled \union ({cons[p].last + 1} \intersect DOMAIN stream)

\* Ack or Term: the message is not delivered to p again.
Settle(p, i) ==
  cons' = [cons EXCEPT ![p] = [last |-> Max({@.last, i}), unsettled |-> @.unsettled \ {i}]]

\* Nak, or an acknowledgement that does not arrive: delivered again later.
Keep(p, i) ==
  cons' = [cons EXCEPT ![p] = [last |-> Max({@.last, i}), unsettled |-> @.unsettled \union {i}]]

\* Mutant: the event is acknowledged whether or not the publish succeeded.
PublishTaskAckAlways(p, i, t) ==
  \/ Enqueue(t) /\ Settle(p, i) /\ UNCHANGED budget
  \/ Settle(p, i) /\ Spend("publish") /\ UNCHANGED tasks

\* Publish the task, then acknowledge the event; Nak when the publish fails.
PublishTask(p, i, t) ==
  \/ Enqueue(t) /\ Settle(p, i) /\ UNCHANGED budget
  \/ Enqueue(t) /\ Keep(p, i) /\ Spend("ackloss")
  \/ Keep(p, i) /\ Spend("publish") /\ UNCHANGED tasks

Ignore(p, i) == Settle(p, i) /\ UNCHANGED <<tasks, budget>>

(***************************************************************************)
(* WorkflowTasks: a workflow task per WorkflowStarted, ActivityCompleted   *)
(* and ActivityFailed.  For the latter two the arguments come from the     *)
(* bucket, and any failure to read them terminates the event.              *)
(***************************************************************************)
WorkflowTasks(i) ==
  LET m == stream[i] IN
  /\ i \in Deliverable("wf")
  /\ CASE m.ev.kind = "workflow/started" ->
            PublishTask("wf", i, Task("wf", m.wf, WorkflowFn, <<>>, 0))
       [] IsRecord(m.ev) ->
            \/ m.wf \in inputs /\ PublishTask("wf", i, Task("wf", m.wf, WorkflowFn, <<>>, 0))
            \/ /\ IF m.wf \in inputs THEN Spend("kv") ELSE UNCHANGED budget
               /\ Settle("wf", i)
               /\ UNCHANGED tasks
       [] OTHER -> Ignore("wf", i)
  /\ UNCHANGED <<stream, subjects, clientVars, results, timers, runs>>

\* ActivityTasks: a first attempt per ActivityScheduled.
ActivityTasks(i) ==
  LET m == stream[i] IN
  /\ i \in Deliverable("act")
  /\ IF m.ev.kind = "activity/scheduled"
     THEN PublishTask("act", i, Task("act", m.wf, m.ev.fn, m.ev.val, 1))
     ELSE Ignore("act", i)
  /\ UNCHANGED <<stream, subjects, clientVars, results, timers, runs>>

\* ActivityRetries: a goroutine is left sleeping and the event acknowledged.
ActivityRetries(i) ==
  /\ i \in Deliverable("retry")
  /\ IF stream[i].ev.kind = "activity/retried"
     THEN /\ timers' = [timers EXCEPT ![i] = @ + 1]
          /\ \/ Settle("retry", i) /\ UNCHANGED budget
             \/ Keep("retry", i) /\ Spend("ackloss")
     ELSE Settle("retry", i) /\ UNCHANGED <<timers, budget>>
  /\ UNCHANGED <<stream, subjects, clientVars, results, tasks, runs>>

(***************************************************************************)
(* The goroutine wakes up.  fetchActivityTaskFromHistory takes the first   *)
(* ActivityScheduled of the same function among the first FetchLimit       *)
(* events of the workflow; an error only ends the goroutine.               *)
(***************************************************************************)
Fetched(w, fn) ==
  {j \in Positions(w) :
     /\ stream[j].ev.kind = "activity/scheduled" /\ stream[j].ev.fn = fn
     /\ Cardinality({k \in Positions(w) : k <= j}) <= FetchLimit}

FireRetry(i) ==
  LET m    == stream[i]
      call == Fetched(m.wf, m.ev.fn)
  IN
  /\ timers[i] > 0
  /\ timers' = [timers EXCEPT ![i] = @ - 1]
  /\ \/ /\ call # {}
        /\ Enqueue(Task("act", m.wf, m.ev.fn, stream[Min(call)].ev.val, m.ev.attempt + 1))
        /\ UNCHANGED budget
     \/ call = {} /\ UNCHANGED <<tasks, budget>>
     \/ (Spend("read") \/ Spend("publish")) /\ UNCHANGED tasks
  /\ UNCHANGED <<stream, subjects, clientVars, results, cons, runs>>

\* WorkflowResults: only WorkflowCompleted reaches the result bucket.
WorkflowResults(i) ==
  LET m == stream[i] IN
  /\ i \in Deliverable("result")
  /\ IF m.ev.kind = "workflow/completed"
     THEN \/ /\ results' = [results EXCEPT ![m.wf] = m.ev.val]
             /\ \/ Settle("result", i) /\ UNCHANGED budget
                \/ Keep("result", i) /\ Spend("ackloss")
          \/ Keep("result", i) /\ Spend("kv") /\ UNCHANGED results
     ELSE Settle("result", i) /\ UNCHANGED <<results, budget>>
  /\ UNCHANGED <<stream, subjects, clientVars, timers, tasks, runs>>

\* The server dies and comes back: ensureStreams runs, the sleeping retry
\* goroutines are gone, and a command between its two writes is not finished.
ServerCrash ==
  /\ Spend("server")
  /\ timers' = [i \in 1..MaxLen |-> 0]
  /\ subjects' = Workflow
  /\ command' = [w \in Workflow |-> IF command[w] = "stored" THEN "refused" ELSE command[w]]
  /\ UNCHANGED <<stream, inputs, results, cons, tasks, runs>>
-----------------------------------------------------------------------------
(* Workers.                                                                *)

\* A run between ReceiveTask and its Ack, Nak or Term.
Held(m) == \E r \in runs : r.tid = m.id

(***************************************************************************)
(* The task queue delivers again what nobody acknowledged: at once when no *)
(* process works on it any more, and during a run only when the run is     *)
(* slower than the acknowledgement timeout of the consumer.                *)
(***************************************************************************)
Redeliver(m) ==
  /\ ~m.ready
  /\ IF Held(m) THEN Spend("slow") ELSE UNCHANGED budget
  /\ tasks' = SetReady(m.id, TRUE)
  /\ UNCHANGED <<stream, subjects, clientVars, serverVars, runs>>

\* Mutant: off by one, the attempt after the last one is allowed.
ShouldRetryOneMore(t, outcome) ==
  /\ Policy[t.fn] >= 0
  /\ Policy[t.fn] > 0 => t.attempt <= Policy[t.fn]
  /\ outcome # "fatal"

\* evaluateRetryDecision; a fatal error is one of the non-retryable ones.
ShouldRetry(t, outcome) ==
  /\ Policy[t.fn] >= 0
  /\ Policy[t.fn] > 0 => t.attempt < Policy[t.fn]
  /\ outcome # "fatal"

\* processActivityTask: the activity returns its argument or an error.
ProcessActivityTask(t, outcome) ==
  [err |-> FALSE,
   events |-> IF outcome = "ok" THEN <<ActivityCompleted(t.fn, t.val)>>
              ELSE IF ShouldRetry(t, outcome) THEN <<ActivityRetried(t.fn, t.attempt)>>
              ELSE <<ActivityFailed(t.fn)>>]

ActivityNotRegistered == [err |-> TRUE, events |-> <<>>]

\* What worker x may record for task t on the history up to sequence n.
Decisions(x, t, n) ==
  CASE t.fn \notin Registry[x] ->
         {IF t.q = "wf" THEN WorkflowNotRegistered ELSE ActivityNotRegistered}
    [] t.fn \in Registry[x] /\ t.q = "wf" ->
         {ProcessWorkflowTask(Program, Records(EventsOf(t.wf, n)))}
    [] t.fn \in Registry[x] /\ t.q = "act" ->
         {ProcessActivityTask(t, o) : o \in Outcomes[t.fn] \ {"panic"}}

CanReceive(x, m) == m.ready /\ m.task.q \in Polls[x]

(***************************************************************************)
(* A goroutine receives a task, reads the history of the workflow and runs *)
(* the function.  The read may end before the last event.                  *)
(***************************************************************************)
Receive(x, g, m) ==
  /\ CanReceive(x, m)
  /\ \A r \in runs : r.at # <<x, g>>
  /\ \E n \in Positions(m.task.wf) : \E d \in Decisions(x, m.task, n) :
       /\ IF n = LastSeq(m.task.wf) THEN UNCHANGED budget ELSE Spend("read")
       /\ runs' = runs \union
            {[at |-> <<x, g>>, tid |-> m.id, wf |-> m.task.wf, pos |-> n,
              pc |-> "decided", events |-> d.events, err |-> d.err]}
  /\ tasks' = SetReady(m.id, FALSE)
  /\ UNCHANGED <<stream, subjects, clientVars, serverVars>>

\* The history cannot be read: the task is terminated and the process ends.
ReadFails(x, m) ==
  /\ CanReceive(x, m)
  /\ Spend("read")
  /\ tasks' = Without(m.id)
  /\ runs' = runs \ RunsOf(x)
  /\ UNCHANGED <<stream, subjects, clientVars, serverVars>>

\* Nothing recovers from a panic of an activity: the process ends.
ActivityPanics(x, m) ==
  /\ CanReceive(x, m)
  /\ m.task.q = "act" /\ m.task.fn \in Registry[x]
  /\ "panic" \in Outcomes[m.task.fn]
  /\ tasks' = SetReady(m.id, FALSE)
  /\ runs' = runs \ RunsOf(x)
  /\ UNCHANGED <<stream, subjects, clientVars, serverVars, budget>>

\* Mutant: the task is not acknowledged after success.
RespondNak(r) ==
  /\ r.pc = "decided"
  /\ tasks' = SetReady(r.tid, TRUE)
  /\ runs' = (runs \ {r}) \union
       IF r.events = <<>> THEN {} ELSE {[r EXCEPT !.pc = "settled", !.tid = 0]}
  /\ UNCHANGED <<stream, subjects, clientVars, serverVars, budget>>

\* Ack, or Nak after an error, before anything is saved.  Without recorded
\* events Save has nothing to do.
Respond(r) ==
  /\ r.pc = "decided"
  /\ \/ ~r.err /\ tasks' = Without(r.tid) /\ UNCHANGED budget
     \/ r.err /\ tasks' = SetReady(r.tid, TRUE) /\ UNCHANGED budget
     \/ Spend("ackloss") /\ UNCHANGED tasks
  /\ runs' = (runs \ {r}) \union
       IF r.events = <<>> THEN {} ELSE {[r EXCEPT !.pc = "settled", !.tid = 0]}
  /\ UNCHANGED <<stream, subjects, clientVars, serverVars>>

\* Save, first half: the history stream is narrowed to this workflow.
EnsureStream(r) ==
  /\ r.pc = "settled"
  /\ subjects' = {r.wf}
  /\ runs' = (runs \ {r}) \union {[r EXCEPT !.pc = "ensured"]}
  /\ UNCHANGED <<stream, clientVars, serverVars, tasks, budget>>

\* Mutant: an older version than the last one is accepted too.
AcceptedOlder(r) == r.wf \in subjects /\ LastSeq(r.wf) >= stream[r.pos].ver

\* Mutant: the expected sequence is the sequence of the last event read.
AcceptedBySequence(r) == r.wf \in subjects /\ LastSeq(r.wf) = r.pos

\* The check of the append: the last sequence against the version read.
Accepted(r) == r.wf \in subjects /\ LastSeq(r.wf) = stream[r.pos].ver

\* Save, second half.  When its acknowledgement is lost the process ends.
Save(r) ==
  /\ r.pc = "ensured"
  /\ Accepted(r)
  /\ Len(stream) + Len(r.events) <= MaxLen
  /\ stream' = stream \o [i \in DOMAIN r.events |->
                            Message(r.wf, stream[r.pos].ver + i, r.events[i])]
  /\ \/ runs' = runs \ {r} /\ UNCHANGED budget
     \/ runs' = runs \ RunsOf(r.at[1]) /\ Spend("save")
  /\ UNCHANGED <<subjects, clientVars, serverVars, tasks>>

\* Save returns an error, which ends the process with all its goroutines.
SaveRefused(r) ==
  /\ r.pc = "ensured"
  /\ \/ ~Accepted(r) /\ UNCHANGED budget
     \/ Spend("save")
  /\ runs' = runs \ RunsOf(r.at[1])
  /\ UNCHANGED <<stream, subjects, clientVars, serverVars, tasks>>

\* The process is killed, or its context cancelled.
Crash(x) ==
  /\ RunsOf(x) # {}
  /\ Spend("crash")
  /\ runs' = runs \ RunsOf(x)
  /\ UNCHANGED <<stream, subjects, clientVars, serverVars, tasks>>

-----------------------------------------------------------------------------
StartWorkflow(w) == StoreInput(w) \/ PublishStarted(w)

Project(p) ==
  \E i \in DOMAIN stream :
    CASE p = "wf"     -> WorkflowTasks(i)
      [] p = "act"    -> ActivityTasks(i)
      [] p = "retry"  -> ActivityRetries(i)
      [] p = "result" -> WorkflowResults(i)

\* The goroutine at slot a goes on with the task it holds.
Handle(a) ==
  \E r \in runs :
    /\ r.at = a
    /\ Respond(r) \/ EnsureStream(r) \/ Save(r) \/ SaveRefused(r)

Take(id) ==
  \E m \in tasks : m.id = id /\ \E x \in Worker :
    \/ \E g \in Slot : Receive(x, g, m)
    \/ ReadFails(x, m)
    \/ ActivityPanics(x, m)

Next ==
  \/ \E w \in Workflow : StartWorkflow(w)
  \/ \E p \in Projector : Project(p)
  \/ \E i \in DOMAIN stream : FireRetry(i)
  \/ ServerCrash
  \/ \E m \in tasks : Redeliver(m)
  \/ \E id \in 1..MaxTasks : Take(id)
  \/ \E a \in Worker \X Slot : Handle(a)
  \/ \E x \in Worker : Crash(x)

Spec == Init /\ [][Next]_vars

(***************************************************************************)
(* The engine as a whole does not stop while one of its processes can go   *)
(* on: the server serves commands, its consumers deliver, a sleeping       *)
(* goroutine wakes up, the queues deliver to idle goroutines and deliver   *)
(* again what no process holds, and goroutines finish their tasks.  This   *)
(* is weaker than fairness to each process of its own.                     *)
(***************************************************************************)
Progress ==
  \/ \E w \in Workflow : StartWorkflow(w)
  \/ \E p \in Projector : Project(p)
  \/ \E i \in DOMAIN stream : FireRetry(i)
  \/ \E m \in tasks : ~Held(m) /\ Redeliver(m)
  \/ \E id \in 1..MaxTasks : Take(id)
  \/ \E a \in Worker \X Slot : Handle(a)

FairSpec == Spec /\ WF_vars(Progress)

-----------------------------------------------------------------------------
Attempts == 0..(MaxLen + 1)

EventType ==
  [kind : {"workflow/started", "activity/scheduled", "activity/completed", "activity/failed",
           "activity/retried", "workflow/failed", "workflow/completed"},
   fn : Fn \union {NoFn}, val : Seq(Nat), attempt : Attempts]

TaskType ==
  [q : {"wf", "act"}, wf : Workflow, fn : Fn \union {WorkflowFn}, val : Seq(Nat),
   attempt : Attempts]

\* Types of the streams, the buckets, the consumers and the goroutines; a slot
\* runs one task and a task message is identified by its id.
TypeOK ==
  /\ stream \in Seq([wf : Workflow, ver : Nat \ {0}, ev : EventType])
  /\ Len(stream) <= MaxLen
  /\ subjects \subseteq Workflow
  /\ command \in [Workflow -> {"new", "stored", "started", "refused"}]
  /\ inputs \subseteq Workflow
  /\ results \in [Workflow -> Seq(Nat)]
  /\ cons \in [Projector -> [last : 0..Len(stream), unsettled : SUBSET (1..Len(stream))]]
  /\ \A p \in Projector : cons[p].unsettled \subseteq 1..cons[p].last
  /\ timers \in [1..MaxLen -> Nat]
  /\ tasks \subseteq [id : 1..MaxTasks, task : TaskType, ready : BOOLEAN]
  /\ \A m, k \in tasks : k.id = m.id => k = m
  /\ runs \subseteq [at : Worker \X Slot, tid : 0..MaxTasks, wf : Workflow, pos : DOMAIN stream,
                    pc : {"decided", "settled", "ensured"}, events : Seq(EventType),
                    err : BOOLEAN]
  /\ \A r, q \in runs : q.at = r.at => q = r
  /\ budget \in [FaultKind -> Nat]

(***************************************************************************)
(* The engine uses the history as module HistoryLog describes it: the      *)
(* goroutines are its writers, their tasks its loaded aggregates.          *)
(***************************************************************************)
Opaque(m) == [m EXCEPT !.ev = "event"]

Log == INSTANCE HistoryLog WITH
         Host <- Worker, Event <- {"event"}, MaxBatch <- MaxLen,
         stream <- [i \in DOMAIN stream |-> Opaque(stream[i])],
         open <- {[by |-> r.at, wf |-> r.wf, pos |-> r.pos, version |-> stream[r.pos].ver,
                   ensured |-> r.pc = "ensured"] : r \in runs}

ImplementsLog == Log!Spec

(***************************************************************************)
(* Every history is one that module Histories allows: calls end as often   *)
(* as they were made and nothing but late outcomes follows the end.        *)
(***************************************************************************)
Told == INSTANCE Histories WITH
          stream <- [i \in DOMAIN stream |->
                       [wf |-> stream[i].wf, kind |-> stream[i].ev.kind, fn |-> stream[i].ev.fn]]

ImplementsHistories == Told!HistoriesSpec
-----------------------------------------------------------------------------
Count(w, f, kinds) ==
  Cardinality({i \in Positions(w) : stream[i].ev.fn = f /\ stream[i].ev.kind \in kinds})

CallsOf(f) == Cardinality({i \in DOMAIN Program : Program[i].op = "exec" /\ Program[i].fn = f})

\* No acknowledgement is lost, and none comes later than AckWait allows.
AcksArrive == Faults["ackloss"] = 0 /\ Faults["slow"] = 0

(***************************************************************************)
(* Every call of the workflow function is scheduled at most once and gets  *)
(* at most one outcome, although runs are repeated from the start and      *)
(* deliveries are cut short.  This is promised for sequential functions    *)
(* and while acknowledgements arrive.                                      *)
(***************************************************************************)
AtMostOnce ==
  \A w \in Workflow, f \in Fn :
    /\ Count(w, f, {"activity/scheduled"}) <= CallsOf(f)
    /\ Count(w, f, {"activity/completed", "activity/failed"}) <= CallsOf(f)

(***************************************************************************)
(* What the result bucket holds is what a replay of the complete history   *)
(* of the workflow returns, also after late and repeated completions.      *)
(***************************************************************************)
ResultIsReplay ==
  \A w \in Workflow :
    results[w] # <<>> =>
      LET run == ProcessWorkflowTask(Program, Records(EventsOf(w, Len(stream))))
      IN  ~run.err /\ Last(run.events) = WorkflowCompleted(results[w])

(***************************************************************************)
(* A workflow with a history has its arguments in the input bucket, so     *)
(* that the tasks of its later runs can be made.                           *)
(***************************************************************************)
InputBeforeHistory == \A i \in DOMAIN stream : stream[i].wf \in inputs

(***************************************************************************)
(* No activity is attempted more often than its policy allows, and one     *)
(* without a policy is never attempted again.                              *)
(***************************************************************************)
AttemptsWithinPolicy ==
  \A m \in tasks :
    m.task.q = "act" =>
      \/ Policy[m.task.fn] = 0
      \/ m.task.attempt = 1
      \/ m.task.attempt <= Policy[m.task.fn]

\* The arguments of the awaited calls, in the order the function awaits them.
AwaitedArgs ==
  LET gets == SelectSeq(Program, LAMBDA s : s.op = "get")
  IN  [i \in DOMAIN gets |-> Program[gets[i].of].arg]

(***************************************************************************)
(* A future returns the outcome of its own call: activities here return    *)
(* their argument, so a successful result lists the awaited arguments.     *)
(***************************************************************************)
ResultsMatchCalls ==
  \A w \in Workflow :
    results[w] \in {<<>>, ErrorVal, <<1>> \o AwaitedArgs}

(***************************************************************************)
(* Only the workflow that owns the first message of the history stream     *)
(* can get a result: every Save for any other workflow is refused.         *)
(***************************************************************************)
OnlyFirstCompletes ==
  \A w \in Workflow : results[w] # <<>> => w = stream[1].wf

\* The last event of w announces a retry that nothing in the system will make.
RetryLost(w) ==
  /\ Positions(w) # {}
  /\ stream[LastSeq(w)].ev.kind = "activity/retried"
  /\ LastSeq(w) \in 1..cons["retry"].last \ cons["retry"].unsettled
  /\ timers[LastSeq(w)] = 0
  /\ \A m \in tasks : m.task.wf # w
  /\ \A r \in runs : r.wf # w
  /\ \/ \E k \in {"server", "publish", "read"} : budget[k] < Faults[k]
     \/ Fetched(w, stream[LastSeq(w)].ev.fn) = {}

(***************************************************************************)
(* Every workflow whose start was confirmed gets a result, unless the      *)
(* server failed while it held or published a retry, or the retried call   *)
(* lies beyond the events that are searched for it.                        *)
(***************************************************************************)
CompletesUnlessRetryLost ==
  \A w \in Workflow : command[w] = "started" ~> (results[w] # <<>> \/ RetryLost(w))

\* Every workflow whose start was confirmed to the client gets a result.
EventuallyCompletes ==
  \A w \in Workflow : command[w] = "started" ~> results[w] # <<>>
=============================================================================
