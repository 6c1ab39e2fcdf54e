-------------------------- MODULE DeploymentProofs --------------------------
(***************************************************************************)
(* Proofs about Deployment, for every set of components and workers, every *)
(* number of starts and every number of faults.                            *)
(***************************************************************************)
EXTENDS Deployment, ReplayProofs, FiniteSetTheorems

-----------------------------------------------------------------------------
(* The processes.                                                          *)

LifeFlags == broker \in BOOLEAN /\ cancelled \in BOOLEAN /\ conn \in BOOLEAN

LifeTypes ==
  /\ objects \subseteq EnsuredObjects
  /\ server \in {"down", "setup", "running", "leaving"}
  /\ ensured \in 0..Len(Ensures)
  /\ comp \in [Component -> {"off", "serving", "stopped"}]
  /\ workers \in [Worker -> {"down", "connected", "polling", "idle", "absent"}]
  /\ starts \in 0..MaxStarts /\ faults \in 0..MaxFaults

\* What this start of the server has ensured exists.
EnsuredExist == \A k \in 1..ensured : StreamName(NoNamespace, Ensures[k]) \in objects

\* The manager runs after everything was ensured.
RunsEnsured == server \in {"running", "leaving"} => ensured = Len(Ensures)

\* A component serves in a running process, with an open connection.
ServesInProcess ==
  \A c \in Component : comp[c] = "serving" => server \in {"running", "leaving"} /\ conn = TRUE

\* A worker that polls has found its streams.
PollsFound == \A x \in Worker : workers[x] = "polling" => StreamsFound(x)

LifeInv == LifeFlags /\ LifeTypes /\ EnsuredExist /\ RunsEnsured /\ ServesInProcess /\ PollsFound

\* The streams and buckets, by number.
LEMMA FiveObjects ==
  /\ Len(Ensures) = 5 /\ DOMAIN Ensures = 1..5
  /\ EnsuredObjects = {StreamName(NoNamespace, Ensures[k]) : k \in 1..5}
  BY DEF Ensures, EnsuredObjects

\* Before the first start nothing is running and no object exists.
LEMMA InitLifeInv == InitLife => LifeInv
<1> SUFFICES ASSUME InitLife PROVE LifeInv
  OBVIOUS
<1>1. LifeFlags
  BY DEF InitLife, LifeFlags
<1>2. LifeTypes
  BY FiveObjects, LifecycleAssumption DEF InitLife, LifeTypes
<1>3. EnsuredExist /\ RunsEnsured /\ ServesInProcess /\ PollsFound
  BY DEF InitLife, EnsuredExist, RunsEnsured, ServesInProcess, PollsFound
<1> QED
  BY <1>1, <1>2, <1>3 DEF LifeInv

\* The process of the server ends.
LEMMA GoneStep ==
  ASSUME LifeInv, ServerGone, UNCHANGED <<objects, workers>>, broker' \in BOOLEAN,
         starts' \in 0..MaxStarts, faults' \in 0..MaxFaults
  PROVE  LifeInv'
<1>0. LifeFlags'
  BY DEF LifeFlags, ServerGone
<1>1. LifeTypes'
  BY FiveObjects DEF LifeInv, LifeTypes, ServerGone
<1>2. EnsuredExist' /\ RunsEnsured' /\ ServesInProcess' /\ PollsFound'
  BY DEF LifeInv, EnsuredExist, RunsEnsured, ServesInProcess, PollsFound, ServerGone, StreamsFound
<1> QED
  BY <1>0, <1>1, <1>2 DEF LifeInv

\* A fault is taken from those that can still happen.
LEMMA FaultType ==
  ASSUME LifeInv, Fault PROVE faults' \in 0..MaxFaults
  BY LifecycleAssumption DEF LifeInv, LifeTypes, Fault

\* Connecting starts a process afresh: nothing is ensured yet.
LEMMA ConnectStep ==
  ASSUME LifeInv, Connect PROVE LifeInv'
<1>0. LifeFlags'
  BY DEF LifeInv, LifeFlags, Connect
<1>1. LifeTypes'
  BY LifecycleAssumption DEF LifeInv, LifeTypes, Connect
<1>2. RunsEnsured' /\ ServesInProcess'
  BY DEF LifeInv, LifeTypes, RunsEnsured, ServesInProcess, Connect
<1>3. EnsuredExist' /\ PollsFound'
  BY DEF LifeInv, EnsuredExist, PollsFound, Connect, StreamsFound
<1> QED
  BY <1>0, <1>1, <1>2, <1>3 DEF LifeInv

\* Creating the next object keeps the objects and the count in step.
LEMMA EnsureNextStep ==
  ASSUME LifeInv, EnsureNext PROVE LifeInv'
<1>1. CASE ~broker
  BY <1>1, GoneStep DEF EnsureNext, LifeInv, LifeFlags, LifeTypes
<1>2. CASE broker
  <2>1. /\ objects' = objects \union {StreamName(NoNamespace, Ensures[ensured + 1])}
        /\ ensured' = ensured + 1 /\ ensured \in 0..4 /\ server = "setup"
        /\ UNCHANGED <<server, comp, cancelled, conn, broker, workers, starts, faults>>
    BY <1>2, FiveObjects DEF EnsureNext, LifeInv, LifeFlags, LifeTypes
  <2>2. StreamName(NoNamespace, Ensures[ensured + 1]) \in EnsuredObjects
    BY <2>1, FiveObjects
  <2>3. LifeFlags' /\ LifeTypes'
    BY <2>1, <2>2, FiveObjects DEF LifeInv, LifeFlags, LifeTypes
  <2>4. EnsuredExist'
    <3>1. \A k \in 1..(ensured + 1) : k \in 1..ensured \/ k = ensured + 1
      BY <2>1
    <3> QED
      BY <2>1, <3>1 DEF LifeInv, EnsuredExist
  <2>5. RunsEnsured' /\ ServesInProcess'
    BY <2>1 DEF LifeInv, RunsEnsured, ServesInProcess
  <2>6. PollsFound'
    BY <2>1 DEF LifeInv, PollsFound, StreamsFound
  <2> QED
    BY <2>3, <2>4, <2>5, <2>6 DEF LifeInv
<1> QED
  BY <1>1, <1>2

\* Steps of the manager and its components.
LEMMA ManagerStep ==
  ASSUME LifeInv,
         \/ RunManager \/ Shutdown
         \/ \E c \in Component : StartComponent(c) \/ StopComponent(c) \/ ComponentFails(c)
  PROVE  LifeInv'
<1>1. CASE RunManager
  BY <1>1 DEF RunManager, LifeInv, LifeFlags, LifeTypes, EnsuredExist, RunsEnsured, ServesInProcess,
     PollsFound, StreamsFound
<1>2. CASE Shutdown
  BY <1>2 DEF Shutdown, LifeInv, LifeFlags, LifeTypes, EnsuredExist, RunsEnsured, ServesInProcess,
     PollsFound, StreamsFound
<1>3. ASSUME NEW c \in Component, StartComponent(c) \/ StopComponent(c) \/ ComponentFails(c)
      PROVE  LifeInv'
  <2>1. /\ UNCHANGED <<broker, objects, server, ensured, conn, workers, starts>>
        /\ cancelled' \in BOOLEAN
        /\ faults' \in 0..MaxFaults
    BY <1>3, FaultType DEF StartComponent, StopComponent, ComponentFails, LifeInv, LifeFlags, LifeTypes
  <2>2. PICK v \in {"serving", "stopped"} :
          /\ comp' = [comp EXCEPT ![c] = v]
          /\ v = "serving" => server \in {"running", "leaving"} /\ conn = TRUE
    BY <1>3 DEF StartComponent, StopComponent, ComponentFails, Live, LifeInv, LifeFlags, LifeTypes
  <2>3. LifeFlags' /\ LifeTypes'
    BY <2>1, <2>2 DEF LifeInv, LifeFlags, LifeTypes
  <2>4. ServesInProcess'
    BY <2>1, <2>2 DEF LifeInv, LifeFlags, LifeTypes, ServesInProcess
  <2>5. EnsuredExist' /\ RunsEnsured' /\ PollsFound'
    BY <2>1 DEF LifeInv, EnsuredExist, RunsEnsured, PollsFound, StreamsFound
  <2> QED
    BY <2>3, <2>4, <2>5 DEF LifeInv
<1> QED
  BY <1>1, <1>2, <1>3

\* The server exits, is told to, or is killed.
LEMMA ExitStep ==
  ASSUME LifeInv, Exit \/ Signal \/ ServerCrash PROVE LifeInv'
<1>1. CASE Exit
  BY <1>1, GoneStep DEF Exit, LifeInv, LifeFlags, LifeTypes
<1>2. CASE ServerCrash
  BY <1>2, GoneStep, FaultType DEF ServerCrash, LifeInv, LifeFlags, LifeTypes
<1>3. CASE Signal /\ server # "running"
  BY <1>3, GoneStep, FaultType DEF Signal, LifeInv, LifeFlags, LifeTypes
<1>4. CASE Signal /\ server = "running"
  <2>1. faults' \in 0..MaxFaults
    BY <1>4, FaultType DEF Signal
  <2>2. LifeFlags' /\ LifeTypes'
    BY <1>4, <2>1 DEF Signal, LifeInv, LifeFlags, LifeTypes
  <2>3. EnsuredExist' /\ RunsEnsured' /\ ServesInProcess' /\ PollsFound'
    BY <1>4 DEF Signal, LifeInv, EnsuredExist, RunsEnsured, ServesInProcess, PollsFound, StreamsFound
  <2> QED
    BY <2>2, <2>3 DEF LifeInv
<1> QED
  BY <1>1, <1>2, <1>3, <1>4

\* The broker goes away or comes back.
LEMMA BrokerStep ==
  ASSUME LifeInv, BrokerDown \/ BrokerUp PROVE LifeInv'
<1>1. /\ broker' \in BOOLEAN /\ faults' \in 0..MaxFaults
      /\ UNCHANGED <<objects, server, ensured, comp, cancelled, conn, starts, workers>>
  BY FaultType DEF BrokerDown, BrokerUp, serverVars, LifeInv, LifeFlags, LifeTypes
<1> QED
  BY <1>1 DEF LifeInv, LifeFlags, LifeTypes, EnsuredExist, RunsEnsured, ServesInProcess, PollsFound, StreamsFound

\* A worker connects, begins to poll or ends.
LEMMA WorkerStep ==
  ASSUME LifeInv, NEW x \in Worker, WorkerConnect(x) \/ WorkerPoll(x) \/ WorkerCrash(x)
  PROVE  LifeInv'
<1>1. /\ UNCHANGED <<broker, objects, server, ensured, comp, cancelled, conn, starts>>
      /\ faults' \in 0..MaxFaults
  BY FaultType DEF WorkerConnect, WorkerPoll, WorkerCrash, serverVars, LifeInv, LifeFlags, LifeTypes
<1>2. PICK v \in {"down", "connected", "polling", "idle"} :
        workers' = [workers EXCEPT ![x] = v] /\ (v = "polling" => StreamsFound(x))
  BY DEF WorkerConnect, WorkerPoll, WorkerCrash
<1>3. LifeFlags' /\ LifeTypes'
  BY <1>1, <1>2 DEF LifeInv, LifeFlags, LifeTypes
<1>4. PollsFound'
  BY <1>1, <1>2 DEF LifeInv, LifeFlags, LifeTypes, PollsFound, StreamsFound
<1>5. EnsuredExist' /\ RunsEnsured' /\ ServesInProcess'
  BY <1>1 DEF LifeInv, EnsuredExist, RunsEnsured, ServesInProcess
<1> QED
  BY <1>3, <1>4, <1>5 DEF LifeInv

\* Every step of a deployment keeps LifeInv.
LEMMA LifeInvNext ==
  ASSUME LifeInv, [NextDeployment]_deploymentVars
  PROVE  LifeInv'
<1>1. CASE UNCHANGED lifeVars
  BY <1>1 DEF lifeVars, serverVars, LifeInv, LifeFlags, LifeTypes, EnsuredExist, RunsEnsured, ServesInProcess,
     PollsFound, StreamsFound
<1>2. CASE ServerProgress
  BY <1>2, ConnectStep, EnsureNextStep, ManagerStep, ExitStep DEF ServerProgress
<1>3. CASE Failures
  BY <1>1, <1>3, ManagerStep, ExitStep, BrokerStep, WorkerStep DEF Failures, RetryDropped
<1>4. CASE \E x \in Worker : WorkerProgress(x)
  BY <1>4, WorkerStep DEF WorkerProgress
<1>5. CASE OrderProgress
  BY <1>1, <1>5 DEF OrderProgress
<1>6. CASE BrokerUp
  BY <1>6, BrokerStep
<1> QED
  BY <1>1, <1>2, <1>3, <1>4, <1>5, <1>6 DEF NextDeployment, Progress, deploymentVars

-----------------------------------------------------------------------------
(* The order.                                                              *)

Entry ==
  [kind : {"workflow/started", "activity/scheduled", "activity/completed", "activity/failed",
           "activity/retried", "workflow/completed"},
   fn : Fn \union {NoFn}, val : Seq(Nat), attempt : Nat]

\* A call names an activity, and a retry leaves an attempt to be made.
Planned(e) ==
  /\ e.kind \in {"activity/scheduled", "activity/retried"} => e.fn \in Fn
  /\ e.kind = "activity/retried" => e.attempt \in 1..(MaximumAttempts(e.fn) - 1)

OrderProjector == {"wf", "act", "retry"}

OrderTypes ==
  /\ scenario \in Scenario
  /\ history \in Seq(Entry) /\ \A i \in DOMAIN history : Planned(history[i])
  /\ seen \in [OrderProjector -> Nat]
  /\ \A t \in actTasks : t.fn \in Fn /\ t.attempt \in 1..MaximumAttempts(t.fn)
  /\ \A e \in sleeping : e.fn \in Fn /\ e.attempt \in 1..(MaximumAttempts(e.fn) - 1)
  /\ count \in [Fn -> 0..Saturated]

Idle == wfTasks = 0 /\ actTasks = {} /\ sleeping = {}

(***************************************************************************)
(* The order is at one place at a time: an event that its projector has    *)
(* not seen is the last one, and there is no task and no sleeping retry    *)
(* besides it; and there is one task, or one sleeping retry, or none.      *)
(***************************************************************************)
OnePlace ==
  /\ wfTasks \in 0..1
  /\ history = <<>> => Idle
  /\ \A p \in OrderProjector : \A i \in Unseen(p) : i = Len(history) /\ Idle
  /\ wfTasks > 0 => actTasks = {} /\ sleeping = {}
  /\ actTasks # {} => sleeping = {}
  /\ \A t, u \in actTasks : t = u
  /\ \A d, e \in sleeping : d = e

OrderInv == OrderTypes /\ OnePlace

\* Every activity of the scenarios has a policy with a maximum.
LEMMA SomeAttempts == \A f : MaximumAttempts(f) \in 1..10
  BY DEF MaximumAttempts

\* A set of numbers that is not empty holds its least element.
LEMMA LeastIsMember ==
  ASSUME NEW S, S \subseteq Nat, S # {}
  PROVE  Min(S) \in S
<1>1. \E x \in S : \A y \in S : x <= y
  BY LeastNumber
<1> QED
  BY <1>1 DEF Min

\* The events that a task can add to the history.
LEMMA EntriesPlanned ==
  /\ WorkflowStarted \in Entry /\ Planned(WorkflowStarted)
  /\ \A v \in Seq(Nat) : Return(v) \in Entry /\ Planned(Return(v))
  /\ \A f \in Fn :
       /\ ActivityScheduled(f, 0) \in Entry /\ Planned(ActivityScheduled(f, 0))
       /\ ActivityCompleted(f, <<>>) \in Entry /\ Planned(ActivityCompleted(f, <<>>))
       /\ ActivityFailed(f) \in Entry /\ Planned(ActivityFailed(f))
       /\ \A n \in 1..(MaximumAttempts(f) - 1) :
            ActivityRetried(f, n) \in Entry /\ Planned(ActivityRetried(f, n))
<1>1. WorkflowStarted \in Entry /\ Planned(WorkflowStarted)
  BY DEF WorkflowStarted, Ev, Entry, Planned
<1>2. ASSUME NEW v \in Seq(Nat) PROVE Return(v) \in Entry /\ Planned(Return(v))
  BY DEF Return, WorkflowCompleted, Ev, Entry, Planned
<1>3. ASSUME NEW f \in Fn
      PROVE  /\ ActivityScheduled(f, 0) \in Entry /\ Planned(ActivityScheduled(f, 0))
             /\ ActivityCompleted(f, <<>>) \in Entry /\ Planned(ActivityCompleted(f, <<>>))
  BY DEF ActivityScheduled, ActivityCompleted, Ev, Entry, Planned
<1>4. ASSUME NEW f \in Fn
      PROVE  ActivityFailed(f) \in Entry /\ Planned(ActivityFailed(f))
  BY DEF ActivityFailed, ErrorVal, Ev, Entry, Planned
<1>5. ASSUME NEW f \in Fn, NEW n \in 1..(MaximumAttempts(f) - 1)
      PROVE  ActivityRetried(f, n) \in Entry /\ Planned(ActivityRetried(f, n))
  <2>1. n \in Nat
    BY SomeAttempts
  <2> QED
    BY <2>1 DEF ActivityRetried, ErrorVal, Ev, Entry, Planned
<1> QED
  BY <1>1, <1>2, <1>3, <1>4, <1>5

\* A workflow that calls its activities in turn records an event of the plan.
LEMMA SequentialPlanned ==
  ASSUME NEW acts, DOMAIN acts \subseteq Nat, \A k \in DOMAIN acts : acts[k] \in Fn
  PROVE  Sequential(acts) \in Entry /\ Planned(Sequential(acts))
<1> DEFINE open == {k \in DOMAIN acts : ~Succeeded(acts[k])}
<1>1. <<1>> \in Seq(Nat) /\ ErrorVal \in Seq(Nat)
  BY DEF ErrorVal
<1>2. open # {} => Min(open) \in open
  <2>1. open \subseteq Nat
    OBVIOUS
  <2> HIDE DEF open
  <2> QED
    BY <2>1, LeastIsMember
<1>3. open # {} => acts[Min(open)] \in Fn
  BY <1>2
<1>4. \/ Sequential(acts) = Return(<<1>>) \/ Sequential(acts) = Return(ErrorVal)
      \/ open # {} /\ Sequential(acts) = ActivityScheduled(acts[Min(open)], 0)
  BY DEF Sequential
<1> HIDE DEF open
<1> QED
  BY <1>1, <1>3, <1>4, EntriesPlanned

\* Whatever the workflow function of the scenario records.
LEMMA RecordedPlanned ==
  ASSUME OrderTypes
  PROVE  Recorded \in Entry /\ Planned(Recorded)
<1>1. OrderWorkflow \in Entry /\ Planned(OrderWorkflow)
  <2> DEFINE acts == <<"ChargeCreditCard", "ShipPackage">>
  <2>1. DOMAIN acts \subseteq Nat /\ \A k \in DOMAIN acts : acts[k] \in Fn
    BY ScenarioAssumption DEF Activities
  <2> QED
    BY <2>1, SequentialPlanned DEF OrderWorkflow
<1>2. OrderWithRetriesWorkflow \in Entry /\ Planned(OrderWithRetriesWorkflow)
  <2> DEFINE acts == <<"ValidateOrderDetails", "TransientFailurePayment", "ReserveInventory",
                       "PackageOrder", "EventuallySuccessfulShipping", "NotifyCustomer">>
  <2>1. DOMAIN acts \subseteq Nat /\ \A k \in DOMAIN acts : acts[k] \in Fn
    BY ScenarioAssumption DEF Activities
  <2> QED
    BY <2>1, SequentialPlanned DEF OrderWithRetriesWorkflow
<1>3. RecoverableOrderWorkflow \in Entry /\ Planned(RecoverableOrderWorkflow)
  <2>1. <<1>> \in Seq(Nat) /\ ErrorVal \in Seq(Nat)
    BY DEF ErrorVal
  <2>2. "FlakyChargeCreditCard" \in Fn /\ "ShipAfterPayment" \in Fn
    BY ScenarioAssumption DEF Activities
  <2>3. RecoverableOrderWorkflow \in {ActivityScheduled("ShipAfterPayment", 0),
          ActivityScheduled("FlakyChargeCreditCard", 0), Return(<<1>>), Return(ErrorVal)}
    BY DEF RecoverableOrderWorkflow
  <2> QED
    BY <2>1, <2>2, <2>3, EntriesPlanned
<1> QED
  BY <1>1, <1>2, <1>3 DEF OrderTypes, Scenario, Recorded

\* Before the client calls there is no order anywhere.
LEMMA InitOrderInv == InitOrder => OrderInv
<1> SUFFICES ASSUME InitOrder PROVE OrderInv
  OBVIOUS
<1>1. OrderTypes
  BY DEF InitOrder, OrderTypes, OrderProjector, Saturated
<1>2. OnePlace
  BY DEF InitOrder, OnePlace, Idle, Unseen
<1> QED
  BY <1>1, <1>2 DEF OrderInv

\* Work is lost, with the process that held it.
LEMMA LossStep ==
  ASSUME OrderInv, UNCHANGED <<scenario, history, seen>>, wfTasks' \in 0..wfTasks,
         actTasks' \subseteq actTasks, sleeping' \subseteq sleeping,
         count' \in [Fn -> 0..Saturated]
  PROVE  OrderInv'
<1>1. OrderTypes'
  BY DEF OrderInv, OrderTypes
<1>2. Idle => Idle'
  BY DEF Idle
<1>3. \A p : Unseen(p)' = Unseen(p)
  BY DEF Unseen
<1>4. OnePlace'
  BY <1>2, <1>3 DEF OrderInv, OnePlace
<1> QED
  BY <1>1, <1>4 DEF OrderInv

\* An event follows the last one when the work for it is done.
LEMMA AppendStep ==
  ASSUME OrderInv, NEW e \in Entry, Planned(e), ~Idle \/ history = <<>>, Idle',
         history' = Append(history, e), UNCHANGED <<scenario, seen>>,
         count' \in [Fn -> 0..Saturated]
  PROVE  OrderInv'
<1>1. history \in Seq(Entry) /\ \A i \in DOMAIN history : Planned(history[i])
  BY DEF OrderInv, OrderTypes
<1>2. /\ history' \in Seq(Entry) /\ Len(history') = Len(history) + 1 /\ Len(history) \in Nat
      /\ DOMAIN history' = 1..(Len(history) + 1) /\ DOMAIN history = 1..Len(history)
      /\ \A i \in DOMAIN history : history'[i] = history[i]
      /\ history'[Len(history) + 1] = e
  BY <1>1
<1>3. \A i \in DOMAIN history' : Planned(history'[i])
  <2>1. \A i \in DOMAIN history' : i \in DOMAIN history \/ i = Len(history) + 1
    BY <1>2
  <2> QED
    BY <1>1, <1>2, <2>1
<1>4. OrderTypes'
  BY <1>2, <1>3 DEF OrderInv, OrderTypes, Idle
<1>5. ASSUME NEW p \in OrderProjector, NEW i \in Unseen(p)' PROVE i = Len(history') /\ Idle'
  <2>1. i \in DOMAIN history' /\ i > seen[p] /\ Concerns(p, history'[i])
    BY <1>5 DEF Unseen, Concerns
  <2>2. CASE i \in DOMAIN history
    <3>1. i \in Unseen(p)
      BY <1>2, <2>1, <2>2 DEF Unseen
    <3>2. Idle
      BY <3>1 DEF OrderInv, OnePlace
    <3>3. history # <<>>
      BY <1>2, <2>2
    <3> QED
      BY <3>2, <3>3
  <2>3. CASE i = Len(history) + 1
    BY <1>2, <2>3
  <2> QED
    BY <1>2, <2>1, <2>2, <2>3
<1>6. OnePlace'
  BY <1>5 DEF OnePlace, Idle
<1> QED
  BY <1>4, <1>6 DEF OrderInv

\* The start of the order puts its first event in the log and nowhere else.
LEMMA RunClientStep ==
  ASSUME OrderInv, RunClient PROVE OrderInv'
<1>1. Idle'
  BY DEF RunClient, OrderInv, OnePlace, Idle
<1>2. history' = Append(history, WorkflowStarted)
  BY DEF RunClient
<1>3. WorkflowStarted \in Entry /\ Planned(WorkflowStarted)
  BY EntriesPlanned
<1>4. UNCHANGED <<scenario, seen>> /\ count' \in [Fn -> 0..Saturated] /\ history = <<>>
  BY DEF RunClient, OrderInv, OrderTypes
<1> QED
  BY <1>1, <1>2, <1>3, <1>4, AppendStep

\* A workflow task is used up by the one event it records.
LEMMA RunWorkflowStep ==
  ASSUME OrderInv, RunWorkflow PROVE OrderInv'
<1>1. Idle' /\ ~Idle
  BY DEF RunWorkflow, OrderInv, OnePlace, Idle
<1>2. Recorded \in Entry /\ Planned(Recorded)
  BY RecordedPlanned DEF OrderInv
<1>3. count' \in [Fn -> 0..Saturated]
  BY DEF RunWorkflow, AfterReplay, OrderInv, OrderTypes, Saturated
<1>4. UNCHANGED <<scenario, seen>> /\ history' = Append(history, Recorded)
  BY DEF RunWorkflow
<1>5. PICK e \in Entry : e = Recorded
  BY <1>2
<1> QED
  BY <1>1, <1>2, <1>3, <1>4, <1>5, AppendStep

\* An activity task is used up by its event or by the sleeper of its retry.
LEMMA RunActivityStep ==
  ASSUME OrderInv, NEW t, RunActivity(t) PROVE OrderInv'
<1>1. t \in actTasks /\ t.fn \in Fn /\ t.attempt \in 1..MaximumAttempts(t.fn)
  BY DEF RunActivity, OrderInv, OrderTypes
<1>2. Idle' /\ ~Idle
  BY <1>1 DEF RunActivity, OrderInv, OnePlace, Idle
<1>3. count' \in [Fn -> 0..Saturated]
  <2>1. count \in [Fn -> 0..Saturated] /\ count[t.fn] \in 0..4 /\ Saturated = 4
    BY <1>1 DEF OrderInv, OrderTypes, Saturated
  <2>2. Min({count[t.fn] + 1, Saturated}) \in 0..4
    BY <2>1 DEF Min
  <2> QED
    BY <1>1, <2>1, <2>2 DEF RunActivity
<1>4. PICK e : /\ history' = Append(history, e)
               /\ \/ e = ActivityCompleted(t.fn, <<>>) \/ e = ActivityFailed(t.fn)
                  \/ RetriesAgain(t) /\ e = ActivityRetried(t.fn, t.attempt)
  BY DEF RunActivity
<1>5. RetriesAgain(t) => t.attempt \in 1..(MaximumAttempts(t.fn) - 1)
  <2>1. MaximumAttempts(t.fn) \in 1..10
    BY SomeAttempts
  <2> QED
    BY <1>1, <2>1 DEF RetriesAgain
<1>6. e \in Entry /\ Planned(e)
  BY <1>1, <1>4, <1>5, EntriesPlanned
<1>7. UNCHANGED <<scenario, seen>>
  BY DEF RunActivity
<1> QED
  BY <1>2, <1>3, <1>4, <1>6, <1>7, AppendStep

\* Projector p has turned the last event into work.
LEMMA SeenStep ==
  ASSUME OrderInv, NEW p \in OrderProjector, ProjectNext(p)
  PROVE  /\ Idle /\ history # <<>> /\ Len(history) \in DOMAIN history
         /\ Min(Unseen(p)) = Len(history) /\ Concerns(p, history[Len(history)])
         /\ seen' \in [OrderProjector -> Nat]
         /\ \A q \in OrderProjector : Unseen(q)' = {}
<1>1. history \in Seq(Entry) /\ Len(history) \in Nat /\ DOMAIN history = 1..Len(history)
  BY DEF OrderInv, OrderTypes
<1>2. Unseen(p) # {} /\ Unseen(p) \subseteq Nat
  BY <1>1 DEF ProjectNext, Unseen
<1>3. Min(Unseen(p)) \in Unseen(p)
  BY <1>2, LeastIsMember
<1>4. Min(Unseen(p)) = Len(history) /\ Idle
  BY <1>3 DEF OrderInv, OnePlace
<1>5. /\ Len(history) \in DOMAIN history /\ Concerns(p, history[Len(history)]) /\ history # <<>>
  BY <1>1, <1>3, <1>4 DEF Unseen
<1>6. seen' = [seen EXCEPT ![p] = Len(history)] /\ history' = history
  BY <1>4 DEF ProjectNext
<1>7. seen \in [OrderProjector -> Nat]
  BY DEF OrderInv, OrderTypes
<1>8. seen' \in [OrderProjector -> Nat] /\ seen'[p] = Len(history)
      /\ \A q \in OrderProjector : q # p => seen'[q] = seen[q]
  BY <1>1, <1>6, <1>7
<1>9. ASSUME NEW q \in OrderProjector, NEW i \in Unseen(q)' PROVE FALSE
  <2>1. i \in DOMAIN history /\ i > seen'[q] /\ Concerns(q, history[i])
    BY <1>6, <1>9 DEF Unseen, Concerns
  <2>2. CASE q = p
    BY <1>1, <1>8, <2>1, <2>2
  <2>3. CASE q # p
    <3>1. i \in Unseen(q)
      BY <1>8, <2>1, <2>3 DEF Unseen
    <3>2. i = Len(history)
      BY <3>1 DEF OrderInv, OnePlace
    <3> QED
      BY <1>5, <2>1, <2>3, <3>2 DEF Concerns, OrderProjector
  <2> QED
    BY <2>2, <2>3
<1> QED
  BY <1>4, <1>5, <1>8, <1>9

\* A projected event becomes one task: the event is no longer unseen.
LEMMA ProjectNextStep ==
  ASSUME OrderInv, NEW p \in OrderProjector, ProjectNext(p)
  PROVE  OrderInv'
<1> DEFINE e == history[Len(history)]
<1>1. /\ Idle /\ history # <<>> /\ Len(history) \in DOMAIN history /\ Concerns(p, e)
      /\ Min(Unseen(p)) = Len(history) /\ seen' \in [OrderProjector -> Nat]
      /\ \A q \in OrderProjector : Unseen(q)' = {}
  BY SeenStep
<1>2. e \in Entry /\ Planned(e)
  BY <1>1 DEF OrderInv, OrderTypes
<1> HIDE DEF e
<1>3. /\ wfTasks' = IF p = "wf" THEN 1 ELSE 0
      /\ actTasks' = IF p = "act" THEN {[fn |-> e.fn, attempt |-> 1]} ELSE {}
      /\ sleeping' = IF p = "retry" THEN {e} ELSE {}
      /\ UNCHANGED <<scenario, colocated, history, count>>
  BY <1>1 DEF ProjectNext, Idle, e
<1>4. ASSUME NEW t \in actTasks' PROVE t.fn \in Fn /\ t.attempt \in 1..MaximumAttempts(t.fn)
  <2>1. p = "act" /\ t = [fn |-> e.fn, attempt |-> 1]
    BY <1>3, <1>4
  <2>2. e.fn \in Fn
    BY <1>1, <1>2, <2>1 DEF Concerns, Planned
  <2>3. MaximumAttempts(e.fn) \in 1..10
    BY SomeAttempts
  <2>4. t.fn = e.fn /\ t.attempt = 1
    BY <2>1
  <2> QED
    BY <2>2, <2>3, <2>4
<1>5. ASSUME NEW d \in sleeping' PROVE d.fn \in Fn /\ d.attempt \in 1..(MaximumAttempts(d.fn) - 1)
  <2>1. p = "retry" /\ d = e
    BY <1>3, <1>5
  <2> QED
    BY <1>1, <1>2, <2>1 DEF Concerns, Planned
<1>6. OrderTypes'
  BY <1>1, <1>3, <1>4, <1>5 DEF OrderInv, OrderTypes
<1>7. OnePlace'
  BY <1>1, <1>3 DEF OnePlace, OrderProjector
<1> QED
  BY <1>6, <1>7 DEF OrderInv

\* A sleeper becomes the task of the next attempt.
LEMMA WakeUpStep ==
  ASSUME OrderInv, WakeUp PROVE OrderInv'
<1>1. PICK e \in sleeping :
        /\ sleeping' = sleeping \ {e}
        /\ actTasks' = actTasks \union {[fn |-> e.fn, attempt |-> e.attempt + 1]}
        /\ UNCHANGED <<scenario, colocated, history, seen, wfTasks, count>>
  BY DEF WakeUp
<1>2. wfTasks = 0 /\ actTasks = {} /\ sleeping = {e} /\ ~Idle
  BY <1>1 DEF OrderInv, OnePlace, Idle
<1>3. e.fn \in Fn /\ e.attempt \in 1..(MaximumAttempts(e.fn) - 1) /\ MaximumAttempts(e.fn) \in 1..10
  BY <1>1, SomeAttempts DEF OrderInv, OrderTypes
<1>4. PICK t : t = [fn |-> e.fn, attempt |-> e.attempt + 1]
  OBVIOUS
<1>5. t.fn \in Fn /\ t.attempt \in 1..MaximumAttempts(t.fn)
  <2>1. t.fn = e.fn /\ t.attempt = e.attempt + 1
    BY <1>4
  <2> QED
    BY <1>3, <2>1
<1>6. actTasks' = {t} /\ sleeping' = {} /\ wfTasks' = 0
  BY <1>1, <1>2, <1>4
<1>7. OrderTypes'
  BY <1>1, <1>5, <1>6 DEF OrderInv, OrderTypes
<1>8. \A p \in OrderProjector : Unseen(p)' = {}
  <2>1. \A p \in OrderProjector : Unseen(p) = {}
    BY <1>2 DEF OrderInv, OnePlace
  <2> QED
    BY <1>1, <2>1 DEF Unseen
<1>9. history' # <<>>
  BY <1>1, <1>2 DEF OrderInv, OnePlace
<1>10. OnePlace'
  BY <1>6, <1>8, <1>9 DEF OnePlace
<1> QED
  BY <1>7, <1>10 DEF OrderInv

\* What a process takes with it when it ends leaves the order with nothing.
LEMMA LosingStep ==
  ASSUME OrderInv, SleepersEnd \/ \E x : ProcessEnds(x)
  PROVE  OrderInv'
<1>1. wfTasks \in 0..1 /\ count \in [Fn -> 0..Saturated]
  BY DEF OrderInv, OnePlace, OrderTypes
<1>2. CASE SleepersEnd
  BY <1>1, <1>2, LossStep DEF SleepersEnd
<1>3. ASSUME NEW x, ProcessEnds(x) PROVE OrderInv'
  <2>1. count' \in [Fn -> 0..Saturated]
    BY <1>1, <1>3 DEF ProcessEnds, Saturated
  <2>2. wfTasks' \in 0..wfTasks /\ actTasks' \subseteq actTasks
    BY <1>1, <1>3 DEF ProcessEnds
  <2> QED
    BY <1>3, <2>1, <2>2, LossStep DEF ProcessEnds
<1> QED
  BY <1>2, <1>3

\* Every step of a deployment keeps OrderInv.
LEMMA OrderInvNext ==
  ASSUME OrderInv, [NextDeployment]_deploymentVars
  PROVE  OrderInv'
<1>1. CASE UNCHANGED orderVars
  <2>1. wfTasks \in 0..1 /\ count \in [Fn -> 0..Saturated]
    BY DEF OrderInv, OnePlace, OrderTypes
  <2> QED
    BY <1>1, <2>1, LossStep DEF orderVars
<1>2. CASE ServerProgress
  BY <1>1, <1>2, LosingStep DEF ServerProgress
<1>3. CASE Failures
  BY <1>1, <1>3, LosingStep DEF Failures, RetryDropped
<1>4. CASE \E x \in Worker : WorkerProgress(x)
  BY <1>1, <1>4 DEF WorkerProgress
<1>5. CASE OrderProgress
  BY <1>5, RunClientStep, ProjectNextStep, WakeUpStep, RunWorkflowStep, RunActivityStep
     DEF OrderProgress, OrderProjector
<1>6. CASE BrokerUp /\ UNCHANGED orderVars
  BY <1>1, <1>6
<1> QED
  BY <1>1, <1>2, <1>3, <1>4, <1>5, <1>6 DEF NextDeployment, Progress, deploymentVars

-----------------------------------------------------------------------------
\* The first state satisfies the invariant of the processes.
LEMMA InitDeploymentLife == InitDeployment => LifeInv
  BY InitLifeInv DEF InitDeployment

\* The first state satisfies the invariant of the order.
LEMMA InitDeploymentOrder == InitDeployment => OrderInv
  BY InitOrderInv DEF InitDeployment

(***************************************************************************)
(* A deployment keeps its types: among them, an order is never handled by  *)
(* two workflow tasks, and no activity task exceeds the attempts of its    *)
(* policy, however the server, the workers and the broker fail.            *)
(***************************************************************************)
THEOREM DeploymentTypeCorrect == DeploymentSpec => []DeploymentTypeOK
<1>1. LifeInv /\ OrderInv => DeploymentTypeOK
  BY DEF LifeInv, LifeFlags, LifeTypes, OrderInv, OrderTypes, OnePlace, DeploymentTypeOK
<1>2. LifeInv /\ OrderInv /\ [NextDeployment]_deploymentVars => (LifeInv /\ OrderInv)'
  BY LifeInvNext, OrderInvNext
<1> QED
  BY <1>1, <1>2, InitDeploymentLife, InitDeploymentOrder, PTL DEF DeploymentSpec

(***************************************************************************)
(* Whenever a component serves, all streams and buckets exist, although an *)
(* earlier start of the server may have ended between any two of them.     *)
(***************************************************************************)
THEOREM ServiceHasObjects == DeploymentSpec => []ServingHasObjects
<1>1. LifeInv => ServingHasObjects
  BY FiveObjects DEF LifeInv, ServesInProcess, RunsEnsured, EnsuredExist, ServingHasObjects
<1> QED
  BY <1>1, InitDeploymentLife, LifeInvNext, PTL DEF DeploymentSpec

(***************************************************************************)
(* No component serves after the connection of the server was closed.      *)
(***************************************************************************)
THEOREM ServiceIsConnected == DeploymentSpec => []NoServiceOnClosedConnection
<1>1. LifeInv => NoServiceOnClosedConnection
  BY DEF LifeInv, ServesInProcess, NoServiceOnClosedConnection
<1> QED
  BY <1>1, InitDeploymentLife, LifeInvNext, PTL DEF DeploymentSpec

(***************************************************************************)
(* A worker polls only streams that the server fills: one whose namespace  *)
(* renames its streams does not get there.                                 *)
(***************************************************************************)
THEOREM PollersAreFed == DeploymentSpec => []PollingIsFed
<1>1. LifeInv => PollingIsFed
  BY DEF LifeInv, LifeFlags, LifeTypes, PollsFound, StreamsFound, PollingIsFed
<1> QED
  BY <1>1, InitDeploymentLife, LifeInvNext, PTL DEF DeploymentSpec
-----------------------------------------------------------------------------
(* The outcome of the order.                                               *)

\* How often an activity with a counter fails in the memory of one process.
Room(f) ==
  CASE f = "TransientFailurePayment"      -> 2
    [] f = "EventuallySuccessfulShipping" -> 3
    [] f = "ReserveInventory"             -> 1
    [] OTHER -> 0

(***************************************************************************)
(* Attempt a of f is still to be made, c executions of f are remembered    *)
(* and m faults are left.  Before the first fault the process remembers    *)
(* every failed attempt of the call; one fault can make it forget as many  *)
(* as it can have seen.                                                    *)
(***************************************************************************)
Fits(f, a, c, m) ==
  f \in Counters =>
    /\ m = MaxFaults => a - 1 <= c /\ a - 1 <= Room(f)
    /\ m = MaxFaults - 1 => a - 1 <= c + Room(f)

PendingFits ==
  /\ \A t \in actTasks : Fits(t.fn, t.attempt, count[t.fn], faults)
  /\ \A e \in sleeping : Fits(e.fn, e.attempt + 1, count[e.fn], faults)
  /\ \A i \in Unseen("retry") :
       Fits(history[i].fn, history[i].attempt + 1, count[history[i].fn], faults)

Flaky == "FlakyChargeCreditCard"

\* The flaky payment is called by its own scenario only.
FlakyIsRecovery ==
  /\ \A t \in actTasks : t.fn = Flaky => scenario = "recovery"
  /\ \A i \in DOMAIN history :
       history[i].kind = "activity/scheduled" /\ history[i].fn = Flaky => scenario = "recovery"

FailedCharges == {i \in DOMAIN history : history[i].kind = "activity/failed" /\ history[i].fn = Flaky}

\* The payment fails once in the memory of each process, and one fault makes
\* two processes.
ChargesFit ==
  /\ faults = MaxFaults => \E i : FailedCharges \subseteq {i}
  /\ faults = MaxFaults /\ count[Flaky] = 0 => FailedCharges = {}
  /\ faults = MaxFaults - 1 => \E i, j : FailedCharges \subseteq {i, j}
  /\ faults = MaxFaults - 1 /\ count[Flaky] = 0 => \E i : FailedCharges \subseteq {i}

\* What an entry of the history says about the end of its order.
Expected(e, s) ==
  /\ e.kind = "activity/failed" =>
       \/ s = "declined" /\ e.fn = "ChargeCreditCard"
       \/ s = "recovery" /\ e.fn = Flaky
  /\ e.kind = "activity/completed" => ~(s = "declined" /\ e.fn = "ChargeCreditCard")
  /\ e.kind = "workflow/completed" => (e.val = ErrorVal <=> s = "declined")

FewFaults == faults >= MaxFaults - 1

SuccessInv ==
  /\ PendingFits /\ FlakyIsRecovery /\ ChargesFit
  /\ FewFaults => \A i \in DOMAIN history : Expected(history[i], scenario)

\* The failures that fit into one process are numbers; two processes fail less
\* often than the policy has attempts.
LEMMA RoomBounds ==
  /\ \A f : Room(f) \in 0..3
  /\ \A f \in Counters : 2 * Room(f) < MaximumAttempts(f)
  BY DEF Room, Counters, MaximumAttempts

\* A fault that makes a process forget, or not, leaves room for the attempt.
LEMMA FitsLosing ==
  ASSUME NEW f, NEW a \in Nat, NEW c \in Nat, NEW m \in 0..MaxFaults, NEW d, NEW l,
         Fits(f, a, c, m),
         (d = c /\ l = m) \/ (l = m - 1 /\ (d = c \/ d = 0))
  PROVE  Fits(f, a, d, l)
<1>1. MaxFaults \in Nat /\ m \in Nat /\ m <= MaxFaults
  BY LifecycleAssumption
<1>2. PICK r \in Nat : r = Room(f)
  BY RoomBounds
<1>3. CASE d = c /\ l = m
  BY <1>3
<1>4. CASE l = m - 1 /\ (d = c \/ d = 0)
  <2>1. l # MaxFaults
    BY <1>1, <1>4
  <2>2. ASSUME f \in Counters, l = MaxFaults - 1 PROVE a - 1 <= d + r
    <3>1. m = MaxFaults
      BY <1>1, <1>4, <2>2
    <3>2. a - 1 <= c /\ a - 1 <= r
      BY <1>2, <2>2, <3>1 DEF Fits
    <3> QED
      BY <1>4, <3>2
  <2> QED
    BY <1>2, <2>1, <2>2 DEF Fits
<1> QED
  BY <1>3, <1>4

\* Faults and lost work: what a process remembered is kept, or forgotten with a
\* fault.
LEMMA LosingFits ==
  ASSUME LifeInv, OrderInv, SuccessInv, UNCHANGED <<scenario, history, seen>>,
         actTasks' \subseteq actTasks, sleeping' \subseteq sleeping,
         \/ count' = count /\ faults' \in {faults, faults - 1}
         \/ count' = [f \in Fn |-> 0] /\ faults' = faults - 1
  PROVE  SuccessInv'
<1>1. /\ count \in [Fn -> 0..4] /\ faults \in 0..MaxFaults /\ MaxFaults \in Nat
      /\ history \in Seq(Entry)
  BY LifecycleAssumption DEF LifeInv, LifeTypes, OrderInv, OrderTypes, Saturated
<1>2. ASSUME NEW f \in Fn, NEW a \in Nat, Fits(f, a, count[f], faults)
      PROVE  Fits(f, a, count'[f], faults')
  <2>1. PICK c \in Nat : c = count[f]
    BY <1>1
  <2>2. (count'[f] = c /\ faults' = faults) \/ (faults' = faults - 1 /\ (count'[f] = c \/ count'[f] = 0))
    BY <1>1, <2>1
  <2>3. PICK m \in 0..MaxFaults : m = faults
    BY <1>1
  <2>4. PICK d, l : d = count'[f] /\ l = faults'
    OBVIOUS
  <2>5. Fits(f, a, d, l)
    BY <1>2, <2>1, <2>2, <2>3, <2>4, FitsLosing
  <2> QED
    BY <2>4, <2>5
<1>3. Unseen("retry")' = Unseen("retry")
  BY DEF Unseen, Concerns
<1>4. PendingFits'
  <2>1. ASSUME NEW t \in actTasks' PROVE Fits(t.fn, t.attempt, count'[t.fn], faults')
    <3>1. t.fn \in Fn /\ t.attempt \in Nat /\ Fits(t.fn, t.attempt, count[t.fn], faults)
      BY SomeAttempts DEF SuccessInv, PendingFits, OrderInv, OrderTypes
    <3> QED
      BY <1>2, <3>1
  <2>2. ASSUME NEW e \in sleeping' PROVE Fits(e.fn, e.attempt + 1, count'[e.fn], faults')
    <3>1. e.fn \in Fn /\ e.attempt \in Nat /\ Fits(e.fn, e.attempt + 1, count[e.fn], faults)
      BY SomeAttempts DEF SuccessInv, PendingFits, OrderInv, OrderTypes
    <3>2. e.attempt + 1 \in Nat
      BY <3>1
    <3> QED
      BY <1>2, <3>1, <3>2
  <2>3. ASSUME NEW i \in Unseen("retry")
        PROVE  Fits(history[i].fn, history[i].attempt + 1, count'[history[i].fn], faults')
    <3>1. PICK e \in Entry : e = history[i] /\ e.kind = "activity/retried" /\ Planned(e)
      BY <1>1 DEF Unseen, Concerns, OrderInv, OrderTypes
    <3>2. e.fn \in Fn /\ e.attempt + 1 \in Nat /\ Fits(e.fn, e.attempt + 1, count[e.fn], faults)
      BY <3>1 DEF Planned, Entry, SuccessInv, PendingFits
    <3>3. Fits(e.fn, e.attempt + 1, count'[e.fn], faults')
      BY <1>2, <3>2
    <3> QED
      BY <3>1, <3>3
  <2> QED
    BY <1>3, <2>1, <2>2, <2>3 DEF PendingFits, Fits
<1>5. FlakyIsRecovery'
  BY DEF SuccessInv, FlakyIsRecovery
<1>6. ChargesFit'
  <2>1. FailedCharges' = FailedCharges
    BY DEF FailedCharges
  <2>2. Flaky \in Fn
    BY ScenarioAssumption DEF Flaky, Activities
  <2>3. CASE faults' = faults
    <3>1. count' = count
      BY <1>1, <2>3
    <3>2. ChargesFit
      BY DEF SuccessInv
    <3> QED
      BY <2>1, <2>3, <3>1, <3>2 DEF ChargesFit
  <2>4. CASE faults' = faults - 1
    <3>1. faults' # MaxFaults
      BY <1>1, <2>4
    <3>2. faults' = MaxFaults - 1 => faults = MaxFaults
      BY <1>1, <2>4
    <3>3. faults = MaxFaults => \E i : FailedCharges \subseteq {i}
      BY DEF SuccessInv, ChargesFit
    <3>4. faults = MaxFaults => \E i, j : FailedCharges \subseteq {i, j}
      BY <3>3
    <3> QED
      BY <2>1, <3>1, <3>2, <3>3, <3>4 DEF ChargesFit
  <2> QED
    BY <2>3, <2>4
<1>7. FewFaults' => FewFaults
  BY <1>1 DEF FewFaults
<1>8. FewFaults' => \A i \in DOMAIN history' : Expected(history'[i], scenario')
  BY <1>7 DEF SuccessInv
<1> QED
  BY <1>4, <1>5, <1>6, <1>8 DEF SuccessInv, Expected

\* An event is appended that is not the failure of a flaky payment.
LEMMA ChargesKept ==
  ASSUME ChargesFit, history \in Seq(Entry), NEW e \in Entry, history' = Append(history, e),
         e.kind = "activity/failed" => e.fn # Flaky,
         UNCHANGED faults, count'[Flaky] = count[Flaky] \/ count'[Flaky] # 0
  PROVE  ChargesFit'
<1>1. FailedCharges' = FailedCharges
  <2>1. /\ DOMAIN history' = 1..(Len(history) + 1) /\ DOMAIN history = 1..Len(history)
        /\ Len(history) \in Nat /\ history'[Len(history) + 1] = e
        /\ \A i \in DOMAIN history : history'[i] = history[i]
    OBVIOUS
  <2>2. \A i \in DOMAIN history' : i \in DOMAIN history \/ i = Len(history) + 1
    BY <2>1
  <2>3. DOMAIN history \subseteq DOMAIN history'
    BY <2>1
  <2> QED
    BY <2>1, <2>2, <2>3 DEF FailedCharges
<1>2. count'[Flaky] = 0 => count[Flaky] = 0
  OBVIOUS
<1> QED
  BY <1>1, <1>2 DEF ChargesFit

\* An event is appended when the work for the last one is done.
LEMMA AppendFits ==
  ASSUME OrderInv, OrderInv', SuccessInv, NEW e \in Entry, history' = Append(history, e),
         Idle', UNCHANGED <<scenario, faults>>, ChargesFit',
         FewFaults => Expected(e, scenario),
         e.kind = "activity/scheduled" /\ e.fn = Flaky => scenario = "recovery",
         e.kind = "activity/retried" => Fits(e.fn, e.attempt + 1, count'[e.fn], faults)
  PROVE  SuccessInv'
<1>1. /\ history \in Seq(Entry) /\ DOMAIN history' = 1..(Len(history) + 1)
      /\ DOMAIN history = 1..Len(history) /\ Len(history) \in Nat
      /\ Len(history') = Len(history) + 1 /\ history'[Len(history) + 1] = e
      /\ \A i \in DOMAIN history : history'[i] = history[i]
  <2>1. history \in Seq(Entry)
    BY DEF OrderInv, OrderTypes
  <2> QED
    BY <2>1
<1>2. \A i \in DOMAIN history' : i \in DOMAIN history \/ i = Len(history) + 1
  BY <1>1
<1>3. actTasks' = {} /\ sleeping' = {}
  BY DEF Idle
<1>4. ASSUME NEW i \in Unseen("retry")'
      PROVE  Fits(history'[i].fn, history'[i].attempt + 1, count'[history'[i].fn], faults')
  <2>1. i = Len(history) + 1
    BY <1>1, <1>4 DEF OrderInv, OnePlace, OrderProjector
  <2>2. e.kind = "activity/retried" /\ history'[i] = e
    BY <1>1, <1>4, <2>1 DEF Unseen, Concerns
  <2> QED
    BY <2>2
<1>5. PendingFits'
  BY <1>3, <1>4 DEF PendingFits, Fits
<1>6. FlakyIsRecovery'
  BY <1>1, <1>2, <1>3 DEF SuccessInv, FlakyIsRecovery
<1>7. FewFaults' => \A i \in DOMAIN history' : Expected(history'[i], scenario')
  <2>1. FewFaults' => FewFaults
    BY DEF FewFaults
  <2>2. FewFaults => \A i \in DOMAIN history : Expected(history[i], scenario)
    BY DEF SuccessInv
  <2> QED
    BY <1>1, <1>2, <2>1, <2>2
<1> QED
  BY <1>5, <1>6, <1>7 DEF SuccessInv, Expected

\* The order is accepted.
LEMMA RunClientFits ==
  ASSUME OrderInv, SuccessInv, RunClient, UNCHANGED faults PROVE SuccessInv'
<1>1. OrderInv'
  BY RunClientStep
<1>2. PICK e \in Entry : e = WorkflowStarted
  BY EntriesPlanned
<1>3. e.kind = "workflow/started"
  BY <1>2 DEF WorkflowStarted, Ev
<1>4. /\ history' = Append(history, e) /\ UNCHANGED <<scenario, count>> /\ Idle'
      /\ history \in Seq(Entry)
  BY <1>2 DEF RunClient, OrderInv, OrderTypes, OnePlace, Idle
<1>5. Expected(e, scenario)
  BY <1>3 DEF Expected
<1>6. ChargesFit'
  BY <1>3, <1>4, ChargesKept DEF SuccessInv
<1> QED
  BY <1>1, <1>3, <1>4, <1>5, <1>6, AppendFits

\* A projector makes a task of a call, or a sleeper of a retry.
LEMMA ProjectNextFits ==
  ASSUME LifeInv, OrderInv, SuccessInv, NEW p \in OrderProjector, ProjectNext(p), UNCHANGED faults
  PROVE  SuccessInv'
<1> DEFINE e == history[Len(history)]
<1>1. /\ Idle /\ Len(history) \in DOMAIN history /\ Concerns(p, e)
      /\ Min(Unseen(p)) = Len(history) /\ Unseen("retry")' = {}
      /\ Unseen(p) # {}
  BY SeenStep DEF OrderProjector, ProjectNext
<1>2. e \in Entry /\ Planned(e)
  BY <1>1 DEF OrderInv, OrderTypes
<1>3. Len(history) \in Unseen(p)
  <2>1. Unseen(p) \subseteq Nat
    BY DEF Unseen, OrderInv, OrderTypes
  <2> QED
    BY <1>1, <2>1, LeastIsMember
<1>4. p = "retry" => Fits(e.fn, e.attempt + 1, count[e.fn], faults)
  BY <1>3 DEF SuccessInv, PendingFits
<1>5. e.kind = "activity/scheduled" /\ e.fn = Flaky => scenario = "recovery"
  BY <1>1 DEF SuccessInv, FlakyIsRecovery
<1> HIDE DEF e
<1>6. /\ actTasks' = IF p = "act" THEN {[fn |-> e.fn, attempt |-> 1]} ELSE {}
      /\ sleeping' = IF p = "retry" THEN {e} ELSE {}
      /\ UNCHANGED <<scenario, history, count>>
  BY <1>1 DEF ProjectNext, Idle, e
<1>7. ASSUME NEW t \in actTasks'
      PROVE  Fits(t.fn, t.attempt, count'[t.fn], faults') /\ (t.fn = Flaky => scenario' = "recovery")
  <2>1. p = "act" /\ t = [fn |-> e.fn, attempt |-> 1]
    BY <1>6, <1>7
  <2>2. t.fn = e.fn /\ t.attempt = 1 /\ e.kind = "activity/scheduled" /\ e.fn \in Fn
    BY <1>1, <1>2, <2>1 DEF Concerns, Planned
  <2>3. Fits(e.fn, 1, count[e.fn], faults)
    <3>1. count[e.fn] \in Nat /\ Room(e.fn) \in Nat
      BY <2>2, RoomBounds DEF OrderInv, OrderTypes, Saturated
    <3> QED
      BY <3>1 DEF Fits
  <2> QED
    BY <1>5, <1>6, <2>2, <2>3
<1>8. \A d \in sleeping' : Fits(d.fn, d.attempt + 1, count'[d.fn], faults')
  BY <1>4, <1>6
<1>9. PendingFits'
  BY <1>1, <1>7, <1>8 DEF PendingFits, Fits
<1>10. FlakyIsRecovery'
  BY <1>6, <1>7 DEF SuccessInv, FlakyIsRecovery
<1>11. ChargesFit'
  BY <1>6 DEF SuccessInv, ChargesFit, FailedCharges
<1>12. FewFaults' => \A i \in DOMAIN history' : Expected(history'[i], scenario')
  BY <1>6 DEF SuccessInv, FewFaults
<1> QED
  BY <1>9, <1>10, <1>11, <1>12 DEF SuccessInv, Expected

\* A sleeper becomes the attempt it waited for.
LEMMA WakeUpFits ==
  ASSUME OrderInv, SuccessInv, WakeUp, UNCHANGED faults PROVE SuccessInv'
<1>1. PICK e \in sleeping :
        /\ sleeping' = sleeping \ {e}
        /\ actTasks' = actTasks \union {[fn |-> e.fn, attempt |-> e.attempt + 1]}
        /\ UNCHANGED <<scenario, colocated, history, seen, wfTasks, count>>
  BY DEF WakeUp
<1>2. actTasks = {} /\ sleeping' = {}
  BY <1>1 DEF OrderInv, OnePlace
<1>3. Fits(e.fn, e.attempt + 1, count[e.fn], faults)
  BY DEF SuccessInv, PendingFits
<1>4. e.fn # Flaky
  <2>1. MaximumAttempts(Flaky) = 1
    BY DEF MaximumAttempts, Flaky
  <2>2. e.attempt \in 1..(MaximumAttempts(e.fn) - 1)
    BY DEF OrderInv, OrderTypes
  <2> QED
    BY <2>1, <2>2
<1>5. ASSUME NEW t \in actTasks'
      PROVE  Fits(t.fn, t.attempt, count'[t.fn], faults') /\ t.fn # Flaky
  <2>1. t.fn = e.fn /\ t.attempt = e.attempt + 1
    BY <1>1, <1>2
  <2> QED
    BY <1>1, <1>3, <1>4, <2>1
<1>6. Unseen("retry")' = {}
  <2>1. Unseen("retry") = {}
    BY <1>1 DEF OrderInv, OnePlace, OrderProjector, Idle
  <2> QED
    BY <1>1, <2>1 DEF Unseen, Concerns
<1>7. PendingFits'
  BY <1>2, <1>5, <1>6 DEF PendingFits, Fits
<1>8. FlakyIsRecovery'
  BY <1>1, <1>5 DEF SuccessInv, FlakyIsRecovery
<1>9. ChargesFit'
  BY <1>1 DEF SuccessInv, ChargesFit, FailedCharges
<1>10. FewFaults' => \A i \in DOMAIN history' : Expected(history'[i], scenario')
  BY <1>1 DEF SuccessInv, FewFaults
<1> QED
  BY <1>7, <1>8, <1>9, <1>10 DEF SuccessInv, Expected

\* An execution that fails is one of the first in the memory of its process, or
\* a payment of the customer who is always declined.
LEMMA FailingExecution ==
  ASSUME NEW f, NEW n \in Nat \ {0}, Fails(f, n)
  PROVE  \/ f \in Counters /\ n <= Room(f)
         \/ f = Flaky /\ n = 1
         \/ f = "ChargeCreditCard" /\ scenario = "declined"
  BY DEF Fails, TransientFailurePayment, EventuallySuccessfulShipping, ReserveInventory,
         FlakyChargeCreditCard, ChargeCreditCard, Counters, Room, Flaky

\* The last attempt of a policy does not fail after a single fault, but for the
\* scenarios that are meant to.
LEMMA LastAttemptSucceeds ==
  ASSUME LifeInv, OrderInv, SuccessInv, FewFaults, NEW t \in actTasks, ~RetriesAgain(t),
         NEW n \in Nat, n = count[t.fn] + 1, Fails(t.fn, n)
  PROVE  \/ scenario = "declined" /\ t.fn = "ChargeCreditCard"
         \/ scenario = "recovery" /\ t.fn = Flaky
<1>1. /\ t.fn \in Fn /\ t.attempt \in 1..MaximumAttempts(t.fn) /\ count[t.fn] \in Nat
      /\ MaximumAttempts(t.fn) \in 1..10
  <2>1. t.fn \in Fn /\ t.attempt \in 1..MaximumAttempts(t.fn) /\ count \in [Fn -> 0..4]
    BY DEF OrderInv, OrderTypes, Saturated
  <2>2. MaximumAttempts(t.fn) \in 1..10
    BY SomeAttempts
  <2> QED
    BY <2>1, <2>2
<1>2. CASE t.fn \in Counters /\ n <= Room(t.fn)
  <2>1. PICK c \in Nat, r \in Nat, a \in Nat, m \in Nat :
          c = count[t.fn] /\ r = Room(t.fn) /\ a = t.attempt /\ m = MaximumAttempts(t.fn)
    BY <1>1, RoomBounds
  <2>2. 2 * r < m /\ a >= m /\ c + 1 <= r
    BY <1>1, <1>2, <2>1, RoomBounds DEF RetriesAgain
  <2>3. faults = MaxFaults \/ faults = MaxFaults - 1
    BY LifecycleAssumption DEF LifeInv, LifeTypes, FewFaults
  <2>4. Fits(t.fn, a, c, faults)
    BY <2>1 DEF SuccessInv, PendingFits
  <2>5. a - 1 <= c + r
    BY <1>2, <2>1, <2>3, <2>4 DEF Fits
  <2> QED
    BY <2>2, <2>5
<1>3. CASE t.fn = Flaky
  BY <1>3 DEF SuccessInv, FlakyIsRecovery
<1>4. n \in Nat \ {0}
  BY <1>1
<1> QED
  BY <1>2, <1>3, <1>4, FailingExecution

\* One more failed payment of the flaky activity.
LEMMA ChargeFails ==
  ASSUME LifeInv, OrderInv, ChargesFit, NEW e, history' = Append(history, e), e \in Entry,
         UNCHANGED faults, count[Flaky] = 0, count'[Flaky] = 1
  PROVE  ChargesFit'
<1>1. /\ history \in Seq(Entry) /\ DOMAIN history' = 1..(Len(history) + 1)
      /\ DOMAIN history = 1..Len(history) /\ Len(history) \in Nat
      /\ \A i \in DOMAIN history : history'[i] = history[i]
  <2>1. history \in Seq(Entry)
    BY DEF OrderInv, OrderTypes
  <2> QED
    BY <2>1
<1>2. FailedCharges' \subseteq FailedCharges \union {Len(history) + 1}
  <2>1. \A i \in DOMAIN history' : i \in DOMAIN history \/ i = Len(history) + 1
    BY <1>1
  <2> QED
    BY <1>1, <2>1 DEF FailedCharges
<1>3. ASSUME faults = MaxFaults PROVE \E i : FailedCharges' \subseteq {i}
  <2>1. FailedCharges = {}
    BY <1>3 DEF ChargesFit
  <2> QED
    BY <1>2, <2>1
<1>4. ASSUME faults = MaxFaults - 1 PROVE \E i, j : FailedCharges' \subseteq {i, j}
  <2>1. PICK i : FailedCharges \subseteq {i}
    BY <1>4 DEF ChargesFit
  <2> QED
    BY <1>2, <2>1
<1>5. count'[Flaky] # 0
  OBVIOUS
<1> QED
  BY <1>3, <1>4, <1>5 DEF ChargesFit

\* The counter of an execution.
LEMMA CountStep ==
  ASSUME OrderInv, NEW t, RunActivity(t)
  PROVE  \E n \in 1..5 :
           /\ n = count[t.fn] + 1
           /\ count' = [count EXCEPT ![t.fn] = IF n <= 4 THEN n ELSE 4]
<1>1. t.fn \in Fn /\ count \in [Fn -> 0..4] /\ Saturated = 4
  BY DEF RunActivity, OrderInv, OrderTypes, Saturated
<1>2. PICK n \in 1..5 : n = count[t.fn] + 1
  BY <1>1
<1>3. Min({n, 4}) = IF n <= 4 THEN n ELSE 4
  <2>1. {n, 4} \subseteq Nat /\ {n, 4} # {}
    OBVIOUS
  <2>2. \E x \in {n, 4} : \A y \in {n, 4} : x <= y
    BY <2>1, LeastNumber
  <2>3. Min({n, 4}) \in {n, 4} /\ \A y \in {n, 4} : Min({n, 4}) <= y
    BY <2>2 DEF Min
  <2>4. PICK x : x = Min({n, 4})
    OBVIOUS
  <2> QED
    BY <2>3, <2>4
<1> QED
  BY <1>1, <1>2, <1>3 DEF RunActivity

\* An execution completes, or fails and leaves room for the next attempt.
LEMMA RunActivityFits ==
  ASSUME LifeInv, OrderInv, SuccessInv, NEW t, RunActivity(t), UNCHANGED faults
  PROVE  SuccessInv'
<1>1. OrderInv'
  BY RunActivityStep
<1>2. /\ t \in actTasks /\ t.fn \in Fn /\ t.attempt \in 1..MaximumAttempts(t.fn)
      /\ history \in Seq(Entry) /\ count \in [Fn -> 0..4] /\ Flaky \in Fn
  BY ScenarioAssumption DEF RunActivity, OrderInv, OrderTypes, Saturated, Flaky, Activities
<1>3. Idle' /\ UNCHANGED scenario
  BY <1>2 DEF RunActivity, OrderInv, OnePlace, Idle
<1>4. PICK n \in 1..5 :
        /\ n = count[t.fn] + 1
        /\ count' = [count EXCEPT ![t.fn] = IF n <= 4 THEN n ELSE 4]
  BY CountStep
<1>5. PICK e : /\ history' = Append(history, e)
               /\ \/ ~Fails(t.fn, n) /\ e = ActivityCompleted(t.fn, <<>>)
                  \/ Fails(t.fn, n) /\ RetriesAgain(t) /\ e = ActivityRetried(t.fn, t.attempt)
                  \/ Fails(t.fn, n) /\ ~RetriesAgain(t) /\ e = ActivityFailed(t.fn)
  BY <1>4 DEF RunActivity
<1>6. count'[Flaky] = count[Flaky] \/ count'[Flaky] # 0
  BY <1>2, <1>4
<1>7. ChargesFit
  BY DEF SuccessInv
<1>8. CASE ~Fails(t.fn, n) /\ e = ActivityCompleted(t.fn, <<>>)
  <2>1. e \in Entry
    BY <1>2, <1>8, EntriesPlanned
  <2>2. e.kind = "activity/completed" /\ e.fn = t.fn
    BY <1>8 DEF ActivityCompleted, Ev
  <2>3. ~(scenario = "declined" /\ t.fn = "ChargeCreditCard")
    BY <1>8 DEF Fails, ChargeCreditCard
  <2>4. Expected(e, scenario)
    BY <2>2, <2>3 DEF Expected
  <2>5. ChargesFit'
    BY <1>2, <1>5, <1>6, <1>7, <2>1, <2>2, ChargesKept
  <2> QED
    BY <1>1, <1>3, <1>5, <2>1, <2>2, <2>4, <2>5, AppendFits
<1>9. CASE Fails(t.fn, n) /\ RetriesAgain(t) /\ e = ActivityRetried(t.fn, t.attempt)
  <2>1. MaximumAttempts(t.fn) \in 1..10
    BY SomeAttempts
  <2>2. t.attempt \in 1..(MaximumAttempts(t.fn) - 1)
    BY <1>2, <1>9, <2>1 DEF RetriesAgain
  <2>3. e \in Entry
    BY <1>2, <1>9, <2>2, EntriesPlanned
  <2>4. e.kind = "activity/retried" /\ e.fn = t.fn /\ e.attempt = t.attempt
    BY <1>9 DEF ActivityRetried, Ev
  <2>5. Expected(e, scenario)
    BY <2>4 DEF Expected
  <2>6. ChargesFit'
    BY <1>2, <1>5, <1>6, <1>7, <2>3, <2>4, ChargesKept
  <2>7. Fits(t.fn, t.attempt + 1, count'[t.fn], faults)
    <3>1. CASE t.fn \in Counters
      <4>1. PICK c \in Nat, r \in 0..3, a \in Nat :
              c = count[t.fn] /\ r = Room(t.fn) /\ a = t.attempt
        BY <1>2, <2>1, RoomBounds
      <4>2. c + 1 <= r
        <5>1. n <= Room(t.fn)
          BY <1>9, <3>1, FailingExecution DEF Counters, Flaky
        <5> QED
          BY <1>4, <4>1, <5>1
      <4>3. count'[t.fn] = c + 1
        BY <1>2, <1>4, <4>1, <4>2
      <4>4. Fits(t.fn, a, c, faults)
        BY <1>2, <4>1 DEF SuccessInv, PendingFits
      <4>5. faults = MaxFaults => a - 1 <= c
        BY <3>1, <4>4 DEF Fits
      <4>6. faults = MaxFaults - 1 => a - 1 <= c + r
        BY <3>1, <4>1, <4>4 DEF Fits
      <4>7. Fits(t.fn, a + 1, c + 1, faults)
        <5>1. faults = MaxFaults => (a + 1) - 1 <= c + 1 /\ (a + 1) - 1 <= r
          BY <4>2, <4>5
        <5>2. faults = MaxFaults - 1 => (a + 1) - 1 <= (c + 1) + r
          BY <4>6
        <5> QED
          BY <4>1, <5>1, <5>2 DEF Fits
      <4> QED
        BY <4>1, <4>3, <4>7
    <3> QED
      BY <3>1 DEF Fits
  <2> QED
    BY <1>1, <1>3, <1>5, <2>3, <2>4, <2>5, <2>6, <2>7, AppendFits
<1>10. CASE Fails(t.fn, n) /\ ~RetriesAgain(t) /\ e = ActivityFailed(t.fn)
  <2>1. e \in Entry
    BY <1>2, <1>10, EntriesPlanned
  <2>2. e.kind = "activity/failed" /\ e.fn = t.fn
    BY <1>10 DEF ActivityFailed, Ev
  <2>3. FewFaults => Expected(e, scenario)
    BY <1>2, <1>4, <1>10, <2>2, LastAttemptSucceeds DEF Expected
  <2>4. ChargesFit'
    <3>1. CASE t.fn = Flaky
      <4>1. n = 1
        BY <1>10, <3>1 DEF Fails, Flaky, FlakyChargeCreditCard
      <4>2. count[Flaky] = 0 /\ count'[Flaky] = 1
        BY <1>2, <1>4, <3>1, <4>1
      <4> QED
        BY <1>5, <1>7, <2>1, <4>2, ChargeFails
    <3>2. CASE t.fn # Flaky
      BY <1>2, <1>5, <1>6, <1>7, <2>1, <2>2, <3>2, ChargesKept
    <3> QED
      BY <3>1, <3>2
  <2> QED
    BY <1>1, <1>3, <1>5, <2>1, <2>2, <2>3, <2>4, AppendFits
<1> QED
  BY <1>5, <1>8, <1>9, <1>10

\* The two ends of an order differ.
LEMMA EndsDiffer ==
  /\ <<1>> # ErrorVal
  /\ \A v : Return(v).kind = "workflow/completed" /\ Return(v).val = v
  /\ \A f : /\ ActivityScheduled(f, 0).kind = "activity/scheduled"
            /\ ActivityScheduled(f, 0).fn = f
  BY DEF ErrorVal, Return, WorkflowCompleted, ActivityScheduled, Ev

\* An activity that ended in a history without failures has succeeded.
LEMMA EndedSucceeded ==
  ASSUME history \in Seq(Entry), NEW f,
         \A i \in Ended(f) : history[i].kind # "activity/failed", Ended(f) # {}
  PROVE  Succeeded(f)
<1>1. PICK i \in Ended(f) : history[i].kind # "activity/failed"
  OBVIOUS
<1>2. history[i].kind = "activity/completed"
  BY <1>1 DEF Ended, IsRecord
<1> QED
  BY <1>2 DEF Succeeded

\* What a replay of a sequential order may record.
LEMMA SequentialCases ==
  ASSUME NEW acts, DOMAIN acts \subseteq Nat
  PROVE  \/ (\A k \in DOMAIN acts : Succeeded(acts[k])) /\ Sequential(acts) = Return(<<1>>)
         \/ /\ \E f \in Fn : Ended(f) # {} /\ ~Succeeded(f)
            /\ Sequential(acts) = Return(ErrorVal)
         \/ \E k \in DOMAIN acts : Sequential(acts) = ActivityScheduled(acts[k], 0)
<1> DEFINE open == {k \in DOMAIN acts : ~Succeeded(acts[k])}
<1>1. \/ open = {} /\ Sequential(acts) = Return(<<1>>)
      \/ (\E f \in Fn : Ended(f) # {} /\ ~Succeeded(f)) /\ Sequential(acts) = Return(ErrorVal)
      \/ open # {} /\ Sequential(acts) = ActivityScheduled(acts[Min(open)], 0)
  BY DEF Sequential
<1>2. open = {} => \A k \in DOMAIN acts : Succeeded(acts[k])
  OBVIOUS
<1>3. open \subseteq DOMAIN acts /\ open \subseteq Nat
  OBVIOUS
<1> HIDE DEF open
<1>4. open # {} => Min(open) \in DOMAIN acts
  BY <1>3, LeastIsMember
<1> QED
  BY <1>1, <1>2, <1>4

\* What it records without an unexpected failure.
LEMMA SequentialExpected ==
  ASSUME OrderInv, NEW acts, DOMAIN acts \subseteq Nat,
         \A i \in DOMAIN history : Expected(history[i], scenario),
         scenario # "recovery",
         scenario = "declined" => \E k \in DOMAIN acts : acts[k] = "ChargeCreditCard"
  PROVE  Expected(Sequential(acts), scenario)
<1>1. history \in Seq(Entry)
  BY DEF OrderInv, OrderTypes
<1>2. scenario = "declined" => \E k \in DOMAIN acts : ~Succeeded(acts[k])
  <2>1. scenario = "declined" => ~Succeeded("ChargeCreditCard")
    BY DEF Succeeded, Ended, Expected
  <2> QED
    BY <2>1
<1>3. scenario # "declined" => \A f : Ended(f) # {} => Succeeded(f)
  <2>1. ASSUME scenario # "declined", NEW f, NEW i \in Ended(f)
        PROVE  history[i].kind # "activity/failed"
    BY <2>1 DEF Ended, Expected
  <2> QED
    BY <1>1, <2>1, EndedSucceeded
<1>4. PICK e : e = Sequential(acts)
  OBVIOUS
<1>5. CASE (\A k \in DOMAIN acts : Succeeded(acts[k])) /\ e = Return(<<1>>)
  <2>1. e.kind = "workflow/completed" /\ e.val # ErrorVal /\ scenario # "declined"
    BY <1>2, <1>5, EndsDiffer
  <2> QED
    BY <1>4, <2>1 DEF Expected
<1>6. CASE (\E f \in Fn : Ended(f) # {} /\ ~Succeeded(f)) /\ e = Return(ErrorVal)
  <2>1. e.kind = "workflow/completed" /\ e.val = ErrorVal /\ scenario = "declined"
    BY <1>3, <1>6, EndsDiffer
  <2> QED
    BY <1>4, <2>1 DEF Expected
<1>7. CASE \E k \in DOMAIN acts : e = ActivityScheduled(acts[k], 0)
  <2>1. e.kind = "activity/scheduled"
    BY <1>7, EndsDiffer
  <2> QED
    BY <1>4, <2>1 DEF Expected
<1> QED
  BY <1>4, <1>5, <1>6, <1>7, SequentialCases

\* The loop of the recoverable order does not run out of payments.
LEMMA ChargesLeft ==
  ASSUME LifeInv, OrderInv, ChargesFit, FewFaults, ~Succeeded(Flaky)
  PROVE  Cardinality(Ended(Flaky)) < 3
<1>1. Ended(Flaky) = FailedCharges
  BY DEF Ended, FailedCharges, Succeeded, IsRecord
<1>2. faults = MaxFaults \/ faults = MaxFaults - 1
  BY LifecycleAssumption DEF LifeInv, LifeTypes, FewFaults
<1>3. PICK i, j : FailedCharges \subseteq {i, j}
  <2>1. CASE faults = MaxFaults
    BY <2>1 DEF ChargesFit
  <2>2. CASE faults = MaxFaults - 1
    BY <2>2 DEF ChargesFit
  <2> QED
    BY <1>2, <2>1, <2>2
<1>4. IsFiniteSet({i, j}) /\ Cardinality({i, j}) \in 1..2
  <2>1. IsFiniteSet({i}) /\ Cardinality({i}) = 1
    BY FS_Singleton
  <2>2. {i, j} = {i} \union {j}
    OBVIOUS
  <2>3. /\ IsFiniteSet({i} \union {j})
        /\ \/ j \in {i} /\ Cardinality({i} \union {j}) = Cardinality({i})
           \/ j \notin {i} /\ Cardinality({i} \union {j}) = Cardinality({i}) + 1
    BY <2>1, FS_AddElement
  <2> QED
    BY <2>1, <2>2, <2>3
<1>5. Cardinality(FailedCharges) \in Nat /\ Cardinality(FailedCharges) <= Cardinality({i, j})
  <2>1. IsFiniteSet(FailedCharges) /\ Cardinality(FailedCharges) <= Cardinality({i, j})
    BY <1>3, <1>4, FS_Subset
  <2> QED
    BY <2>1, FS_CardinalityType
<1> QED
  BY <1>1, <1>4, <1>5

\* What a replay of the recoverable order records.
LEMMA RecoverableExpected ==
  ASSUME LifeInv, OrderInv, SuccessInv, FewFaults, scenario = "recovery"
  PROVE  Expected(RecoverableOrderWorkflow, scenario)
<1>1. history \in Seq(Entry)
  BY DEF OrderInv, OrderTypes
<1>2. Ended("ShipAfterPayment") # {} => Succeeded("ShipAfterPayment")
  <2>1. \A i \in Ended("ShipAfterPayment") : history[i].kind # "activity/failed"
    BY DEF Ended, SuccessInv, Expected, Flaky
  <2> QED
    BY <1>1, <2>1, EndedSucceeded
<1>3. ~Succeeded(Flaky) => Cardinality(Ended(Flaky)) < 3
  BY ChargesLeft DEF SuccessInv
<1>4. RecoverableOrderWorkflow \in {ActivityScheduled("ShipAfterPayment", 0),
        ActivityScheduled(Flaky, 0), Return(<<1>>)}
  BY <1>2, <1>3 DEF RecoverableOrderWorkflow, Flaky
<1>5. PICK e : e = RecoverableOrderWorkflow
  OBVIOUS
<1>6. CASE e = Return(<<1>>)
  <2>1. e.kind = "workflow/completed" /\ e.val # ErrorVal
    BY <1>6, EndsDiffer
  <2> QED
    BY <1>5, <2>1 DEF Expected
<1>7. CASE e.kind = "activity/scheduled"
  BY <1>5, <1>7 DEF Expected
<1> QED
  BY <1>4, <1>5, <1>6, <1>7, EndsDiffer

\* What a replay records, whatever the scenario.
LEMMA RecordedExpected ==
  ASSUME LifeInv, OrderInv, SuccessInv
  PROVE  /\ Recorded.kind \in {"activity/scheduled", "workflow/completed"}
         /\ Recorded.kind = "activity/scheduled" /\ Recorded.fn = Flaky => scenario = "recovery"
         /\ FewFaults => Expected(Recorded, scenario)
<1>1. FewFaults => \A i \in DOMAIN history : Expected(history[i], scenario)
  BY DEF SuccessInv
<1>2. CASE scenario = "recovery"
  <2>1. Recorded = RecoverableOrderWorkflow
    BY <1>2 DEF Recorded
  <2>2. RecoverableOrderWorkflow \in {ActivityScheduled("ShipAfterPayment", 0),
          ActivityScheduled("FlakyChargeCreditCard", 0), Return(<<1>>), Return(ErrorVal)}
    BY DEF RecoverableOrderWorkflow
  <2>3. Recorded.kind \in {"activity/scheduled", "workflow/completed"}
    BY <2>1, <2>2, EndsDiffer
  <2> QED
    BY <1>2, <2>1, <2>3, RecoverableExpected
<1>3. ASSUME NEW acts, DOMAIN acts \subseteq Nat, Recorded = Sequential(acts),
             \A k \in DOMAIN acts : acts[k] # Flaky, scenario # "recovery",
             scenario = "declined" => \E k \in DOMAIN acts : acts[k] = "ChargeCreditCard"
      PROVE  /\ Recorded.kind \in {"activity/scheduled", "workflow/completed"}
             /\ Recorded.kind = "activity/scheduled" => Recorded.fn # Flaky
             /\ FewFaults => Expected(Recorded, scenario)
  <2>1. \/ Sequential(acts) = Return(<<1>>) \/ Sequential(acts) = Return(ErrorVal)
        \/ \E k \in DOMAIN acts : Sequential(acts) = ActivityScheduled(acts[k], 0)
    BY <1>3, SequentialCases
  <2>2. /\ Recorded.kind \in {"activity/scheduled", "workflow/completed"}
        /\ Recorded.kind = "activity/scheduled" => Recorded.fn # Flaky
    BY <1>3, <2>1, EndsDiffer
  <2>3. FewFaults => Expected(Recorded, scenario)
    BY <1>1, <1>3, SequentialExpected
  <2> QED
    BY <2>2, <2>3
<1>4. CASE scenario \in {"order", "declined"}
  <2> DEFINE acts == <<"ChargeCreditCard", "ShipPackage">>
  <2>1. DOMAIN acts \subseteq Nat /\ \A k \in DOMAIN acts : acts[k] # Flaky
    BY DEF Flaky
  <2>2. 1 \in DOMAIN acts /\ acts[1] = "ChargeCreditCard"
    OBVIOUS
  <2>3. Recorded = Sequential(acts)
    BY <1>4 DEF Recorded, OrderWorkflow
  <2> HIDE DEF acts
  <2> QED
    BY <1>3, <1>4, <2>1, <2>2, <2>3
<1>5. CASE scenario = "retries"
  <2> DEFINE acts == <<"ValidateOrderDetails", "TransientFailurePayment", "ReserveInventory",
                       "PackageOrder", "EventuallySuccessfulShipping", "NotifyCustomer">>
  <2>1. DOMAIN acts \subseteq Nat /\ \A k \in DOMAIN acts : acts[k] # Flaky
    BY DEF Flaky
  <2>2. Recorded = Sequential(acts)
    BY <1>5 DEF Recorded, OrderWithRetriesWorkflow
  <2> HIDE DEF acts
  <2> QED
    BY <1>3, <1>5, <2>1, <2>2
<1> QED
  BY <1>2, <1>4, <1>5 DEF OrderInv, OrderTypes, Scenario

\* A replay records the next call or the expected end.
LEMMA RunWorkflowFits ==
  ASSUME LifeInv, OrderInv, SuccessInv, RunWorkflow, UNCHANGED faults PROVE SuccessInv'
<1>1. OrderInv'
  BY RunWorkflowStep
<1>2. PICK e \in Entry : e = Recorded
  BY RecordedPlanned DEF OrderInv
<1>3. /\ e.kind \in {"activity/scheduled", "workflow/completed"}
      /\ e.kind = "activity/scheduled" /\ e.fn = Flaky => scenario = "recovery"
      /\ FewFaults => Expected(e, scenario)
  BY <1>2, RecordedExpected
<1>4. /\ history' = Append(history, e) /\ UNCHANGED scenario /\ Idle' /\ history \in Seq(Entry)
  BY <1>2 DEF RunWorkflow, OrderInv, OrderTypes, OnePlace, Idle
<1>5. count'[Flaky] = count[Flaky]
  BY ScenarioAssumption DEF RunWorkflow, AfterReplay, Counters, Flaky, Activities
<1>6. ChargesFit'
  BY <1>3, <1>4, <1>5, ChargesKept DEF SuccessInv
<1> QED
  BY <1>1, <1>3, <1>4, <1>6, AppendFits

\* A step spends one fault or none.
LEMMA FaultsSpent ==
  ASSUME LifeInv, [NextDeployment]_deploymentVars
  PROVE  faults' \in {faults, faults - 1}
<1>1. CASE UNCHANGED lifeVars
  BY <1>1 DEF lifeVars
<1>2. CASE ServerProgress
  BY <1>2 DEF ServerProgress, Connect, EnsureNext, RunManager, Shutdown, StartComponent,
     StopComponent, Exit, ServerGone
<1>3. CASE Failures
  BY <1>1, <1>3 DEF Failures, ComponentFails, Signal, ServerCrash, BrokerDown, RetryDropped,
     WorkerCrash, Fault
<1>4. CASE \E x \in Worker : WorkerProgress(x)
  BY <1>4 DEF WorkerProgress, WorkerConnect, WorkerPoll, Fault
<1>5. CASE OrderProgress
  BY <1>1, <1>5 DEF OrderProgress
<1>6. CASE BrokerUp
  BY <1>6 DEF BrokerUp
<1> QED
  BY <1>1, <1>2, <1>3, <1>4, <1>5, <1>6 DEF NextDeployment, Progress, deploymentVars

\* Every step of a deployment keeps SuccessInv.
LEMMA SuccessInvNext ==
  ASSUME LifeInv, OrderInv, SuccessInv, [NextDeployment]_deploymentVars
  PROVE  SuccessInv'
<1>1. faults' \in {faults, faults - 1}
  BY FaultsSpent
<1>2. CASE UNCHANGED orderVars
  BY <1>1, <1>2, LosingFits DEF orderVars
<1>3. CASE SleepersEnd
  BY <1>1, <1>3, LosingFits DEF SleepersEnd
<1>4. CASE ServerProgress
  BY <1>2, <1>3, <1>4 DEF ServerProgress
<1>5. ASSUME NEW x, WorkerCrash(x), ProcessEnds(x) PROVE SuccessInv'
  <2>1. faults' = faults - 1
    BY <1>5 DEF WorkerCrash, Fault
  <2>2. count' = count \/ count' = [f \in Fn |-> 0]
    BY <1>5 DEF ProcessEnds
  <2>3. actTasks' \subseteq actTasks /\ UNCHANGED <<scenario, history, seen, sleeping>>
    BY <1>5 DEF ProcessEnds
  <2> QED
    BY <2>1, <2>2, <2>3, LosingFits
<1>6. CASE Failures
  BY <1>2, <1>3, <1>5, <1>6 DEF Failures, RetryDropped
<1>7. CASE \E x \in Worker : WorkerProgress(x)
  BY <1>2, <1>7 DEF WorkerProgress
<1>8. CASE OrderProgress
  <2>1. UNCHANGED faults
    BY <1>8 DEF OrderProgress, lifeVars
  <2> QED
    BY <1>8, <2>1, RunClientFits, ProjectNextFits, WakeUpFits, RunWorkflowFits, RunActivityFits
       DEF OrderProgress, OrderProjector
<1>9. CASE BrokerUp /\ UNCHANGED orderVars
  BY <1>2, <1>9
<1> QED
  BY <1>2, <1>4, <1>6, <1>7, <1>8, <1>9 DEF NextDeployment, Progress, deploymentVars

\* Nothing has happened at first.
LEMMA InitSuccess == InitDeployment => SuccessInv
<1> SUFFICES ASSUME InitDeployment PROVE SuccessInv
  OBVIOUS
<1>1. history = <<>> /\ DOMAIN history = {} /\ actTasks = {} /\ sleeping = {}
  BY DEF InitDeployment, InitOrder
<1>2. FailedCharges = {} /\ Unseen("retry") = {}
  BY <1>1 DEF FailedCharges, Unseen
<1>3. ChargesFit
  BY <1>2 DEF ChargesFit
<1> QED
  BY <1>1, <1>2, <1>3 DEF SuccessInv, PendingFits, FlakyIsRecovery

(***************************************************************************)
(* The policies of the example scenarios leave room for one fault anywhere *)
(* in the deployment: whatever the order in which processes start, and     *)
(* whenever the counters of an activity are lost or reset, an order that   *)
(* ends has failed only when its customer is always declined.              *)
(***************************************************************************)
THEOREM OneFaultIsTolerated == DeploymentSpec => []OrdersSucceed
<1> DEFINE I == LifeInv /\ OrderInv /\ SuccessInv
<1>1. InitDeployment => I
  BY InitDeploymentLife, InitDeploymentOrder, InitSuccess
<1>2. I /\ [NextDeployment]_deploymentVars => I'
  BY LifeInvNext, OrderInvNext, SuccessInvNext
<1>3. I => OrdersSucceed
  <2> SUFFICES ASSUME OrderInv, SuccessInv, FewFaults, Completed
               PROVE  Last(history).val = ErrorVal <=> scenario = "declined"
    BY DEF OrdersSucceed, FewFaults
  <2>1. history \in Seq(Entry) /\ history # <<>>
    BY DEF OrderInv, OrderTypes, Completed
  <2>2. Len(history) \in DOMAIN history /\ Last(history) = history[Len(history)]
    BY <2>1 DEF Last
  <2>3. Expected(Last(history), scenario)
    BY <2>2 DEF SuccessInv
  <2> QED
    BY <2>3 DEF Completed, Expected
<1> HIDE DEF I
<1> QED
  BY <1>1, <1>2, <1>3, PTL DEF DeploymentSpec
=============================================================================
