----------------------------- MODULE Frontends ------------------------------
(***************************************************************************)
(* The callers together: the clients of the SDK, which wait for a result,  *)
(* and the demo page, which follows the history, with one server that they *)
(* share and that may die.                                                 *)
(***************************************************************************)
EXTENDS DemoView

allVars == <<engineVars, budget, up, caller, mail, call, clientVars, demoVars>>

CONSTANT Tales      \* bound: the histories that workers write, without the start

HistoryKind ==
  Outcome \union {"workflow/started", "workflow/completed", "workflow/failed",
                  "activity/scheduled", "activity/retried"}

ASSUME FrontendsAssumption == Tales \subseteq Seq(HistoryKind \X (Fn \union {NoFn}))

\* What the workers have written for w.
Written(w) ==
  LET ms == SelectSeq(stream, LAMBDA m : m.wf = w)
  IN  [i \in 1..(Len(ms) - 1) |-> <<ms[i + 1].kind, ms[i + 1].fn>>]

(***************************************************************************)
(* The workers append a message that the workflow can have next.  They do  *)
(* not notice when the server is away.                                     *)
(***************************************************************************)
WorkersAppend(w) ==
  \E t \in Tales :
    /\ Len(stream) < MaxLen /\ Positions(w) # {}
    /\ Len(Written(w)) + 1 \in DOMAIN t /\ Written(w) = SubSeq(t, 1, Len(Written(w)))
    /\ LET e == t[Len(Written(w)) + 1]
           m == Message(w, e[1], e[2])
       IN  Legal(stream, m) /\ stream' = Append(stream, m)
    /\ UNCHANGED <<inputs, results, done, budget, up, caller, mail, call, clientVars, demoVars>>

\* The server dies, or is told to by the demo page: requests it held are lost.
ServerDown ==
  /\ up /\ Spend("server")
  /\ up' = FALSE
  /\ mail' = [w \in Workflow |->
                IF mail[w] \in InHandler \union {"request"} THEN "lost" ELSE mail[w]]
  /\ call' = [w \in Workflow |->
                IF caller[w] = "demo" /\ call[w] = "waiting" THEN "failed" ELSE call[w]]
  /\ ForgetViews
  /\ UNCHANGED <<engineVars, caller, clientVars>>

ServerUp ==
  /\ ~up
  /\ up' = TRUE
  /\ UNCHANGED <<engineVars, budget, caller, mail, call, clientVars, demoVars>>

CallersInit == InitCalls /\ InitDemo

\* What happens as long as the server runs and the callers wait.
CallersProgress ==
  \/ \E w \in Workflow :
       /\ \/ SendRequest(w) \/ NoResponders(w)
          \/ StoreInput(w) \/ PublishStarted(w) \/ Reply(w)
          \/ ExecuteWorkflow(w) \/ Watch(w) \/ NextUpdate(w)
          \/ caller[w] = "demo" /\ RequestEnds(w)
       /\ UNCHANGED demoVars
  \/ \E w \in Workflow : Register(w)
  \/ \E i \in DOMAIN stream : WorkflowResults(i) /\ UNCHANGED demoVars
  \/ \E i \in DOMAIN stream : HandleEvent(i)
  \/ WriteSteps
  \/ ServerUp

CallersNext ==
  \/ CallersProgress
  \/ \E w \in Workflow : WorkersAppend(w)
  \/ \E w \in Workflow : /\ \/ caller[w] = "sdk" /\ RequestEnds(w)
                            \/ GetEnds(w)
                         /\ UNCHANGED demoVars
  \/ GetStatus
  \/ ServerDown

(***************************************************************************)
(* Fairness: the callers and the server as a whole do not stop while one   *)
(* of them can go on.  The timeout of the demo page is part of it; ending  *)
(* contexts, visits of the status page and the workers are not.  That a    *)
(* server that died is started again is an assumption about its operator.  *)
(***************************************************************************)
CallersSpec == CallersInit /\ [][CallersNext]_allVars /\ WF_allVars(CallersProgress)

-----------------------------------------------------------------------------
\* Types; a view lists every activity once and its current step is a step.
CallersTypeOK ==
  /\ stream \in Seq([wf : Workflow, kind : HistoryKind, fn : Fn \union {NoFn}])
  /\ budget \in [FaultKind -> Nat] /\ inputs \subseteq Workflow
  /\ up \in BOOLEAN /\ caller \in [Workflow -> {"sdk", "demo"}]
  /\ mail \in [Workflow -> InHandler \union {"none", "request", "id", "error", "lost"}]
  /\ results \in [Workflow -> 0..Len(stream)] /\ answer \in [Workflow -> 0..Len(stream)]
  /\ call \in [Workflow -> {"idle", "waiting", "panicked", "failed", "future", "watching",
                            "done", "shown"}]
  /\ \A w \in Workflow : updates[w] \in Seq({Marker} \union DOMAIN stream)
  /\ \A c \in {ui, done} : c.last \in 0..Len(stream) /\ c.unsettled \subseteq 1..c.last
  /\ current \in Workflow \union {NoWorkflow}
  /\ \A w \in Workflow : LET v == views[w] IN
       /\ v.status \in {"none", "pending", "running", "completed", "failed"}
       /\ v.current \in 0..Len(v.steps)
       /\ \A k \in DOMAIN v.steps : StepsNamed(v.steps, v.steps[k].name) = {k}

(***************************************************************************)
(* A client that holds a future started a workflow that exists: its        *)
(* arguments are stored and its history has begun.                         *)
(***************************************************************************)
FutureIsReal ==
  \A w \in Workflow :
    call[w] \in {"future", "watching", "done", "shown"} => w \in inputs /\ Positions(w) # {}

(***************************************************************************)
(* Get returns the result with which its own workflow completed, also when *)
(* that is stored while the watch is being opened, or stored twice.        *)
(***************************************************************************)
AnswerIsResult ==
  \A w \in Workflow :
    call[w] = "done" => answer[w] \in Having(stream, w, {"workflow/completed"})

(***************************************************************************)
(* The handler tells a caller that the start failed although the workflow  *)
(* runs only when the acknowledgement of the publish was lost.             *)
(***************************************************************************)
NoOrphanWithoutFault ==
  \A w \in Workflow :
    call[w] = "failed" /\ caller[w] = "sdk" /\ mail[w] = "error" /\ Positions(w) # {}
      => budget["answer"] < Faults["answer"]

Called(w, f) == Cardinality(OfFn(stream, w, f, {"activity/scheduled", "activity/retried"}))

(***************************************************************************)
(* The page shows no more attempts than calls and retries together, and    *)
(* one more for every acknowledgement of the page that was lost.           *)
(***************************************************************************)
AttemptsNotOvercounted ==
  \A w \in Workflow : \A k \in DOMAIN views[w].steps :
    LET s == views[w].steps[k]
    IN  s.attempts <= Called(w, s.name) + (Faults["answer"] - budget["answer"])

(***************************************************************************)
(* What is shown as completed goes back to running only when an event is   *)
(* delivered a second time, or when the history itself goes back: an       *)
(* activity executed twice may fail after it has succeeded.                *)
(***************************************************************************)
HistoryGoesBack(w) ==
  \E i, j \in Positions(w) :
    /\ i < j /\ stream[i].fn = stream[j].fn
    /\ stream[i].kind = "activity/completed"
    /\ stream[j].kind \in {"activity/scheduled", "activity/retried"}

GoesBack(old, new) == old.status = "completed" /\ new.status = "running"

FirstDeliveriesOnlyAdvance ==
  [][\A w \in Workflow :
       \/ ui'.last = ui.last
       \/ HistoryGoesBack(w)
       \/ /\ ~GoesBack(views[w], views'[w])
          /\ \A k \in DOMAIN views[w].steps \intersect DOMAIN views'[w].steps :
               ~GoesBack(views[w].steps[k], views'[w].steps[k])]_allVars

(***************************************************************************)
(* A status page that says completed shows no activity as running that the *)
(* history has ended, although status and steps are read at two times and  *)
(* the view may have missed events; as long as no acknowledgement is lost. *)
(***************************************************************************)
PageIsConsistent ==
  [][page.status = "completed" /\ page' = NoPage /\ up' /\ budget["answer"] = Faults["answer"]
       => \A k \in DOMAIN views[page.wf].steps :
            LET s == views[page.wf].steps[k] IN
            \/ s.status # "running"
            \/ IsOpen(SubSeq(stream, 1, ui.last), page.wf, s.name)]_allVars

(***************************************************************************)
(* A workflow whose view exists before its completion is delivered is      *)
(* shown as completed in the end, even when the view missed its start;     *)
(* only a restart of the server takes the view away.                       *)
(***************************************************************************)
ViewCompletes ==
  \A w \in Workflow :
    /\ views[w] # NoView
    /\ \E i \in Positions(w) : i > ui.last /\ stream[i].kind = "workflow/completed"
    ~> views[w].status = "completed" \/ views[w] = NoView

\* A start request of the demo page ends, whatever happens to the server.
DemoRequestEnds ==
  \A w \in Workflow : caller[w] = "demo" /\ call[w] = "waiting" ~> call[w] # "waiting"

(***************************************************************************)
(* A client that waits for the result of a workflow that has completed     *)
(* gets it, whether it is stored before, while or after it starts to wait. *)
(***************************************************************************)
GetReturns ==
  \A w \in Workflow :
    call[w] = "watching" /\ Having(stream, w, {"workflow/completed"}) # {}
      ~> call[w] \in {"done", "failed"}
=============================================================================
