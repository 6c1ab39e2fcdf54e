------------------------------ MODULE DemoView ------------------------------
(***************************************************************************)
(* The demo page of the server: it starts a workflow and shows what a      *)
(* background goroutine learns about it from the history stream.           *)
(*                                                                         *)
(* The view of a workflow is registered after the reply to its start, so   *)
(* events may be delivered before there is a view; they are acknowledged   *)
(* and ignored.  Views live in the memory of the server, the position of   *)
(* the consumer in JetStream.                                              *)
(***************************************************************************)
EXTENDS ClientCall

CONSTANTS Steps,   \* the activities a new view lists, in order
          Visits   \* bound: the statuses of a workflow at which its page is read

\* A new view lists every activity once.
ASSUME DemoViewAssumption ==
  Steps \in Seq(Fn) /\ \A j, k \in DOMAIN Steps : Steps[j] = Steps[k] => j = k

VARIABLES
  ui,       \* the consumer demo-ui-consumer: last first delivery, unsettled messages
  views,    \* the view of each workflow
  current,  \* currentWorkflow
  page      \* a status page being written: the workflow and the status written

demoVars == <<ui, views, current, page>>

NoWorkflow == "no_workflow"
NoPage     == [wf |-> NoWorkflow, status |-> "none"]
NoView     == [status |-> "none", current |-> 0, steps |-> <<>>]

PendingStep(f) == [name |-> f, status |-> "pending", attempts |-> 0, retries |-> 0]

NewView ==
  [status |-> "pending", current |-> 0,
   steps |-> [k \in DOMAIN Steps |-> PendingStep(Steps[k])]]

InitDemo ==
  /\ ui = [last |-> 0, unsettled |-> {}]
  /\ views = [w \in Workflow |-> NoView]
  /\ current = NoWorkflow
  /\ page = NoPage

\* The memory of the server is gone.
ForgetViews ==
  /\ views' = [w \in Workflow |-> NoView]
  /\ current' = NoWorkflow
  /\ page' = NoPage
  /\ UNCHANGED ui

-----------------------------------------------------------------------------
\* StartWorkflow, after its request: the reply is registered or reported.
Register(w) ==
  /\ up /\ caller[w] = "demo" /\ call[w] = "waiting"
  /\ \/ /\ mail[w] = "id"
        /\ call' = [call EXCEPT ![w] = "shown"]
        /\ views' = [views EXCEPT ![w] = NewView]
        /\ current' = w
     \/ /\ mail[w] = "error"
        /\ call' = [call EXCEPT ![w] = "failed"]
        /\ UNCHANGED <<views, current>>
  /\ UNCHANGED <<engineVars, budget, up, caller, mail, clientVars, ui, page>>

-----------------------------------------------------------------------------
(* handleEvent.                                                            *)

StepsNamed(steps, f) == {k \in DOMAIN steps : steps[k].name = f}

\* Mutant: the step is added although it is listed.
FindOrCreateStepAgain(steps, f) == Append(steps, PendingStep(f))

FindOrCreateStep(steps, f) ==
  IF StepsNamed(steps, f) = {} THEN Append(steps, PendingStep(f)) ELSE steps

\* Mutant: every retried event counts as two attempts.
StepAfterCountsTwice(s, e) ==
  CASE e.kind = "activity/scheduled" ->
         [s EXCEPT !.status = "running", !.attempts = @ + 1]
    [] e.kind = "activity/completed" -> [s EXCEPT !.status = "completed"]
    [] e.kind = "activity/failed"    -> [s EXCEPT !.status = "failed"]
    [] e.kind = "activity/retried"   ->
         [s EXCEPT !.status = "running", !.retries = @ + 1, !.attempts = @ + 2]

\* Step s after event e of its activity.
StepAfter(s, e) ==
  CASE e.kind = "activity/scheduled" ->
         [s EXCEPT !.status = "running", !.attempts = @ + 1]
    [] e.kind = "activity/completed" ->
         [s EXCEPT !.status = "completed", !.attempts = IF s.retries > 0 THEN s.retries + 1 ELSE @]
    [] e.kind = "activity/failed" ->
         [s EXCEPT !.status = "failed", !.attempts = Max({@, s.retries + 1})]
    [] e.kind = "activity/retried" ->
         [s EXCEPT !.status = "running", !.retries = @ + 1, !.attempts = Max({@, s.retries + 2})]

OnSteps(steps, e) ==
  [k \in DOMAIN steps |-> IF steps[k].name = e.fn THEN StepAfter(steps[k], e) ELSE steps[k]]

\* Mutant: only a workflow whose start was seen can be shown as completed.
ViewAfterRunningOnly(v, e) ==
  CASE e.kind = "workflow/started"   -> [v EXCEPT !.status = "running"]
    [] e.kind = "workflow/completed" /\ v.status = "running" -> [v EXCEPT !.status = "completed"]
    [] e.kind = "activity/scheduled" -> [v EXCEPT !.steps = OnSteps(FindOrCreateStep(@, e.fn), e)]
    [] OTHER -> v

\* Mutant: an event of an activity shows that its workflow is running.
ViewAfterActivity(v, e) ==
  CASE e.kind \in {"workflow/completed", "workflow/failed"} -> [v EXCEPT !.status = "completed"]
    [] e.kind = "workflow/started" -> [v EXCEPT !.status = "running"]
    [] OTHER -> [v EXCEPT !.status = "running", !.steps = OnSteps(FindOrCreateStep(@, e.fn), e)]

\* View v after event e.
ViewAfter(v, e) ==
  CASE e.kind = "workflow/started"   -> [v EXCEPT !.status = "running"]
    [] e.kind = "workflow/completed" -> [v EXCEPT !.status = "completed"]
    [] e.kind = "workflow/failed"    -> [v EXCEPT !.status = "failed"]
    [] e.kind = "activity/scheduled" ->
         LET steps == FindOrCreateStep(v.steps, e.fn)
         IN  [v EXCEPT !.steps = OnSteps(steps, e), !.current = Min(StepsNamed(steps, e.fn))]
    [] OTHER -> [v EXCEPT !.steps = OnSteps(@, e)]

\* Mutant: messages are handled in goroutines of their own, in any order.
UiDeliverableAnyOrder == {i \in DOMAIN stream : i > ui.last \/ i \in ui.unsettled}

UiDeliverable == DeliverableTo(ui)

\* An event of a workflow without a view is ignored.  The result of Ack is not
\* looked at: when it does not arrive the event is handled a second time.
HandleEvent(i) ==
  LET m == stream[i] IN
  /\ up /\ i \in UiDeliverable
  /\ views' = [views EXCEPT ![m.wf] = IF @ = NoView THEN @ ELSE ViewAfter(@, m)]
  /\ \/ ui' = Settled(ui, i) /\ UNCHANGED budget
     \/ ui' = Kept(ui, i) /\ Spend("answer")
  /\ UNCHANGED <<engineVars, up, caller, mail, call, clientVars, current, page>>

-----------------------------------------------------------------------------
(***************************************************************************)
(* GetStatus takes the current view under the lock and encodes it without: *)
(* the status is written first, the steps later, while the watcher may     *)
(* change both.                                                            *)
(***************************************************************************)
GetStatus ==
  /\ up /\ page = NoPage /\ current # NoWorkflow
  /\ views[current].status \in Visits
  /\ page' = [wf |-> current, status |-> views[current].status]
  /\ UNCHANGED <<engineVars, budget, up, caller, mail, call, clientVars, ui, views, current>>

WriteSteps ==
  /\ page # NoPage
  /\ page' = NoPage
  /\ UNCHANGED <<engineVars, budget, up, caller, mail, call, clientVars, ui, views, current>>
=============================================================================
