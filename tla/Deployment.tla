----------------------------- MODULE Deployment -----------------------------
(***************************************************************************)
(* An example order in a deployment whose processes start, fail and are    *)
(* started again: the projectors work while their component serves, tasks  *)
(* are handled while a worker polls their stream, and what a process knows *)
(* is lost with it.                                                        *)
(***************************************************************************)
EXTENDS Lifecycle, Scenarios

deploymentVars == <<lifeVars, orderVars>>

\* The workers: one process for everything, or two, or one in a namespace.
Deployments == {{"both"}, {"workflow", "activity"}, {"tenant"}}

InitDeployment ==
  /\ InitLife
  /\ InitOrder
  /\ \E d \in Deployments :
       /\ workers = [x \in Worker |-> IF x \in d THEN "down" ELSE "absent"]
       /\ colocated <=> Cardinality(d) = 1

Serves(c) == broker /\ conn /\ comp[c] = "serving"

Handles(q) == broker /\ workers[Place(q)] = "polling"

-----------------------------------------------------------------------------
ServerProgress ==
  \/ /\ Connect \/ EnsureNext \/ RunManager \/ Shutdown
     /\ UNCHANGED orderVars
  \/ \E c \in Component : (StartComponent(c) \/ StopComponent(c)) /\ UNCHANGED orderVars
  \/ Exit /\ SleepersEnd

WorkerProgress(x) == (WorkerConnect(x) \/ WorkerPoll(x)) /\ UNCHANGED orderVars

OrderProgress ==
  /\ \/ Serves("command") /\ RunClient
     \/ \E p \in {"wf", "act", "retry"} : Serves(p) /\ ProjectNext(p)
     \/ broker /\ conn /\ ~cancelled /\ WakeUp
     \/ Handles("workflow") /\ RunWorkflow
     \/ Handles("activity") /\ \E t \in actTasks : RunActivity(t)
  /\ UNCHANGED lifeVars

\* A retry that is due while the broker is away, or after the context was
\* cancelled, is not published.
RetryDropped ==
  /\ ~broker \/ cancelled
  /\ sleeping # {}
  /\ SleepersEnd
  /\ UNCHANGED lifeVars

Failures ==
  \/ \E c \in Component : ComponentFails(c) /\ UNCHANGED orderVars
  \/ Signal /\ (IF server = "setup" THEN SleepersEnd ELSE UNCHANGED orderVars)
  \/ ServerCrash /\ SleepersEnd
  \/ BrokerDown /\ UNCHANGED orderVars
  \/ RetryDropped
  \/ \E x \in Worker : WorkerCrash(x) /\ ProcessEnds(x)

Progress ==
  \/ ServerProgress
  \/ OrderProgress
  \/ BrokerUp /\ UNCHANGED orderVars

NextDeployment ==
  \/ Progress
  \/ \E x \in Worker : WorkerProgress(x)
  \/ Failures

(***************************************************************************)
(* Fairness: the server and the order do not stop while one of them can go *)
(* on, and the workers do not; the restart policy of the workers is part   *)
(* of what a worker does.  That NATS comes back, and that a server that    *)
(* exited is started again, are assumptions about the operator.            *)
(***************************************************************************)
DeploymentSpec ==
  /\ InitDeployment /\ [][NextDeployment]_deploymentVars
  /\ WF_deploymentVars(Progress)
  /\ WF_deploymentVars(\E x \in Worker : WorkerProgress(x))

-----------------------------------------------------------------------------
\* Types; there is at most one workflow task, and no attempt beyond the policy.
DeploymentTypeOK ==
  /\ broker \in BOOLEAN /\ cancelled \in BOOLEAN /\ conn \in BOOLEAN
  /\ objects \subseteq EnsuredObjects
  /\ server \in {"down", "setup", "running", "leaving"}
  /\ ensured \in 0..Len(Ensures)
  /\ comp \in [Component -> {"off", "serving", "stopped"}]
  /\ workers \in [Worker -> {"down", "connected", "polling", "idle", "absent"}]
  /\ starts \in 0..MaxStarts /\ faults \in 0..MaxFaults
  /\ wfTasks \in 0..1
  /\ \A t \in actTasks : t.fn \in Fn /\ t.attempt \in 1..MaximumAttempts(t.fn)
  /\ count \in [Fn -> 0..Saturated]

(***************************************************************************)
(* A component serves only after every stream and bucket exists, although  *)
(* an earlier start may have ended between any two of them.                *)
(***************************************************************************)
ServingHasObjects ==
  (\E c \in Component : comp[c] = "serving") => EnsuredObjects \subseteq objects

\* Nothing serves on a connection that is closed.
NoServiceOnClosedConnection == ~conn => \A c \in Component : comp[c] # "serving"

\* A worker polls only streams that the server fills, whatever its namespace.
PollingIsFed ==
  \A x \in Worker :
    workers[x] = "polling" => \A q \in Queues[x] : StreamName(Namespace[x], q) \in EnsuredObjects

Completed == history # <<>> /\ Last(history).kind = "workflow/completed"

(***************************************************************************)
(* The policies of the examples leave room for one restart: an order that  *)
(* ends, ends with an error only for the customer who is always declined,  *)
(* although the restart makes the activities fail from the beginning.      *)
(***************************************************************************)
OrdersSucceed ==
  Completed /\ faults >= MaxFaults - 1
    => (Last(history).val = ErrorVal <=> scenario = "declined")

(***************************************************************************)
(* The failure of one component ends the server, and does not leave it     *)
(* running with the others.                                                *)
(***************************************************************************)
FailureIsTotal == (server = "running" /\ cancelled) ~> server = "down"

(***************************************************************************)
(* Once the streams exist every worker without a namespace polls them, no  *)
(* matter in which order the processes were started, except when the       *)
(* closing of the task channel overtakes the start of its consumers.       *)
(***************************************************************************)
WorkersPoll ==
  EnsuredObjects \subseteq objects
    ~> \A x \in Worker : Namespace[x] = NoNamespace => workers[x] \in {"polling", "idle", "absent"}

(***************************************************************************)
(* An order that was accepted comes to its end when nothing fails and its  *)
(* workers were not given a namespace.                                     *)
(***************************************************************************)
OrderCompletes ==
  history # <<>> /\ (\A x \in Worker : Namespace[x] # NoNamespace => workers[x] = "absent")
    ~> Completed \/ faults < MaxFaults
=============================================================================
