----------------------------- MODULE Lifecycle ------------------------------
(***************************************************************************)
(* How the processes of a deployment come up and go down: the server,      *)
(* which creates the streams and buckets before it starts its components,  *)
(* and the workers, which need the task streams and are restarted whenever *)
(* they exit.  The server connects once per start; its components form an  *)
(* error group, in which the first error cancels the rest.                 *)
(*                                                                         *)
(* The client options of a worker may name a namespace, which prefixes the *)
(* names of the task streams on the side of the worker only.               *)
(***************************************************************************)
EXTENDS Integers, Sequences, FiniteSets

CONSTANTS Component,  \* components of the manager
          Worker,     \* worker processes
          Queues,     \* the task streams each worker consumes
          Namespace,  \* the namespace in the client options of each worker
          MaxStarts,  \* bound: times the server is started
          MaxFaults   \* bound: faults in a behaviour

ASSUME LifecycleAssumption ==
  /\ MaxStarts \in Nat /\ MaxFaults \in Nat
  /\ Queues \in [Worker -> SUBSET {"workflow_tasks", "activity_tasks"}]

VARIABLES
  broker,     \* NATS can be reached
  objects,    \* streams and buckets that exist
  server,     \* the server process
  ensured,    \* streams and buckets that this start has ensured
  comp,       \* the components of the manager
  cancelled,  \* their context is cancelled
  conn,       \* the connection of the server is open
  workers,    \* the worker processes
  starts,     \* times the server can still be started
  faults      \* faults that can still happen

serverVars == <<server, ensured, comp, cancelled, conn, starts>>
lifeVars   == <<broker, objects, serverVars, workers, faults>>

\* What NewManager ensures, in order: three streams and two buckets.
Ensures == <<"history", "workflow_tasks", "activity_tasks", "results", "inputs">>

NoNamespace == ""

\* A stream is known by its namespace and its name; the server uses none.
StreamName(ns, q) == <<ns, q>>

EnsuredObjects == {StreamName(NoNamespace, Ensures[k]) : k \in DOMAIN Ensures}

Fault == faults > 0 /\ faults' = faults - 1

InitLife ==
  /\ broker \in BOOLEAN
  /\ objects = {}
  /\ server = "down" /\ ensured = 0
  /\ comp = [c \in Component |-> "off"]
  /\ cancelled = FALSE /\ conn = FALSE
  /\ workers \in [Worker -> {"down", "absent"}]   \* absent: not in this deployment
  /\ starts = MaxStarts
  /\ faults = MaxFaults

-----------------------------------------------------------------------------
(* The server.                                                             *)

\* The process is gone, whatever it was doing.
ServerGone ==
  /\ server' = "down" /\ ensured' = 0
  /\ comp' = [c \in Component |-> "off"]
  /\ cancelled' = FALSE /\ conn' = FALSE

\* Connect: one attempt; the process exits when there is no broker.
Connect ==
  /\ server = "down" /\ starts > 0
  /\ starts' = starts - 1
  /\ IF broker THEN server' = "setup" /\ conn' = TRUE
               ELSE UNCHANGED <<server, conn>>
  /\ UNCHANGED <<broker, objects, ensured, comp, cancelled, workers, faults>>

\* ensureStreams and ensureKV: the next object is created or updated; without
\* the broker the connection is closed and the process exits.
EnsureNext ==
  /\ server = "setup" /\ ensured < Len(Ensures)
  /\ \/ /\ broker
        /\ objects' = objects \union {StreamName(NoNamespace, Ensures[ensured + 1])}
        /\ ensured' = ensured + 1
        /\ UNCHANGED <<server, comp, cancelled, conn>>
     \/ ~broker /\ ServerGone /\ UNCHANGED objects
  /\ UNCHANGED <<broker, workers, starts, faults>>

\* Mutant: the components are started while the buckets are being created.
RunManagerEarly ==
  /\ server = "setup" /\ ensured >= 3
  /\ server' = "running"
  /\ UNCHANGED <<broker, objects, ensured, comp, cancelled, conn, workers, starts, faults>>

RunManager ==
  /\ server = "setup" /\ ensured = Len(Ensures)
  /\ server' = "running"
  /\ UNCHANGED <<broker, objects, ensured, comp, cancelled, conn, workers, starts, faults>>

Live == server \in {"running", "leaving"}

\* The projectors ensure a consumer; a port and a subscription need no answer.
NeedsBroker(c) == c \notin {"http", "command"}

\* A component opens its port, subscribes or ensures its consumer.
StartComponent(c) ==
  /\ Live /\ comp[c] = "off" /\ conn /\ ~cancelled
  /\ NeedsBroker(c) => broker
  /\ comp' = [comp EXCEPT ![c] = "serving"]
  /\ UNCHANGED <<broker, objects, server, ensured, cancelled, conn, workers, starts, faults>>

\* It cannot: the error cancels the context of the group.
ComponentFails(c) ==
  /\ Live /\ comp[c] \in {"off", "serving"} /\ ~cancelled
  /\ IF comp[c] = "off" /\ NeedsBroker(c) /\ ~broker THEN UNCHANGED faults ELSE Fault
  /\ comp' = [comp EXCEPT ![c] = "stopped"]
  /\ cancelled' = TRUE
  /\ UNCHANGED <<broker, objects, server, ensured, conn, workers, starts>>

\* Mutant: a component that has not started yet does not look at the context.
StopComponentServing(c) ==
  /\ Live /\ cancelled /\ comp[c] = "serving"
  /\ comp' = [comp EXCEPT ![c] = "stopped"]
  /\ UNCHANGED <<broker, objects, server, ensured, cancelled, conn, workers, starts, faults>>

\* A component returns when the context is cancelled.
StopComponent(c) ==
  /\ Live /\ cancelled /\ comp[c] \in {"off", "serving"}
  /\ comp' = [comp EXCEPT ![c] = "stopped"]
  /\ UNCHANGED <<broker, objects, server, ensured, cancelled, conn, workers, starts, faults>>

\* Mutant: the connection is closed as soon as one component has returned.
ShutdownFirst ==
  /\ Live /\ conn /\ \E c \in Component : comp[c] = "stopped"
  /\ conn' = FALSE
  /\ UNCHANGED <<broker, objects, server, ensured, comp, cancelled, workers, starts, faults>>

\* After the last component has returned the connection is closed.
Shutdown ==
  /\ Live /\ conn /\ \A c \in Component : comp[c] = "stopped"
  /\ conn' = FALSE
  /\ UNCHANGED <<broker, objects, server, ensured, comp, cancelled, workers, starts, faults>>

\* Run returns after Shutdown, or after a signal without waiting for it.
Exit ==
  /\ \/ server = "running" /\ ~conn
     \/ server = "leaving"
  /\ ServerGone
  /\ UNCHANGED <<broker, objects, workers, starts, faults>>

\* SIGINT or SIGTERM; before Run selects on it the signal ends the process.
Signal ==
  /\ server \in {"setup", "running"} /\ Fault
  /\ IF server = "running"
     THEN server' = "leaving" /\ cancelled' = TRUE /\ UNCHANGED <<ensured, comp, conn>>
     ELSE ServerGone
  /\ UNCHANGED <<broker, objects, workers, starts>>

\* The process is killed, or exits through the demo page.
ServerCrash ==
  /\ server # "down" /\ Fault
  /\ ServerGone
  /\ UNCHANGED <<broker, objects, workers, starts>>

\* NATS goes away and comes back with its stored streams.
BrokerDown ==
  /\ broker /\ Fault
  /\ broker' = FALSE
  /\ UNCHANGED <<objects, serverVars, workers>>

BrokerUp ==
  /\ ~broker
  /\ broker' = TRUE
  /\ UNCHANGED <<objects, serverVars, workers, faults>>

-----------------------------------------------------------------------------
(* The workers.                                                            *)

\* main: one attempt to connect; log.Fatal when there is no broker.
WorkerConnect(x) ==
  /\ workers[x] = "down" /\ broker
  /\ workers' = [workers EXCEPT ![x] = "connected"]
  /\ UNCHANGED <<broker, objects, serverVars, faults>>

\* Mutant: EnsureConsumer creates a stream that does not exist.
StreamsFoundOrMade(x) == TRUE

StreamsFound(x) == \A q \in Queues[x] : StreamName(Namespace[x], q) \in objects

\* Mutant: a worker that finds no stream waits for its operator.
WorkerPollGivesUp(x) ==
  /\ workers[x] = "connected"
  /\ workers' = [workers EXCEPT ![x] = IF broker /\ StreamsFound(x) THEN "polling" ELSE "gone"]
  /\ UNCHANGED <<broker, objects, serverVars, faults>>

(***************************************************************************)
(* Run: ReceiveTask ensures a consumer per queue, and the process exits    *)
(* when a stream is missing.  The goroutine that closes the task channel   *)
(* waits for the consumers before they are counted: when it runs first the *)
(* channel is closed, Run returns without an error and the process lives   *)
(* on as an HTTP server without a worker.                                  *)
(***************************************************************************)
WorkerPoll(x) ==
  /\ workers[x] = "connected"
  /\ \/ /\ broker /\ StreamsFound(x)
        /\ \/ workers' = [workers EXCEPT ![x] = "polling"] /\ UNCHANGED faults
           \/ workers' = [workers EXCEPT ![x] = "idle"] /\ Fault
     \/ /\ ~(broker /\ StreamsFound(x))
        /\ workers' = [workers EXCEPT ![x] = "down"]
        /\ UNCHANGED faults
  /\ UNCHANGED <<broker, objects, serverVars>>

\* The process is killed, or exits through its crash endpoint.
WorkerCrash(x) ==
  /\ workers[x] \in {"connected", "polling", "idle"} /\ Fault
  /\ workers' = [workers EXCEPT ![x] = "down"]
  /\ UNCHANGED <<broker, objects, serverVars>>
=============================================================================
