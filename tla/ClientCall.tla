----------------------------- MODULE ClientCall -----------------------------
(***************************************************************************)
(* Callers of the engine: how the request that starts a workflow travels,  *)
(* and how the client of the SDK waits for the result of a workflow.       *)
(*                                                                         *)
(* Request and reply are plain NATS messages, delivered at most once: a    *)
(* request that the server held when it died is gone, and so is its reply. *)
(* The result comes through a watch of the result bucket, which first      *)
(* delivers the value stored already, then a marker, then every put.       *)
(* Workers are represented by what they do to the history.                 *)
(***************************************************************************)
EXTENDS Histories, FiniteSetsExt

CONSTANTS Faults,    \* the budget of each kind of failure
          MaxLen     \* bound: messages in the history stream

FaultKind == {"server",    \* the server process is killed and restarted
              "answer",    \* a reply or an acknowledgement does not arrive
              "kv",        \* a KV operation fails
              "publish"}   \* WorkflowStarted cannot be published

ASSUME ClientCallAssumption == MaxLen \in Nat /\ Faults \in [FaultKind -> Nat]

VARIABLES
  up,       \* the server process runs
  caller,   \* who starts each workflow: the SDK ("sdk") or the demo page ("demo")
  mail,     \* the start request of each workflow: how far the handler is, its reply
  call,     \* where the caller of each workflow stands
  inputs,   \* workflows with their arguments in the input bucket
  results,  \* the result bucket: the sequence of the WorkflowCompleted stored
  done,     \* the consumer of WorkflowResults: last first delivery, unsettled messages
  updates,  \* updates of the result watch that the client has not read
  answer,   \* what Get returned to the client
  budget    \* failures that may still happen

engineVars == <<stream, inputs, results, done>>
clientVars == <<updates, answer>>

NoResult == 0
Marker   == -1      \* the nil update that ends the initial values of a watch

Spend(k) == budget[k] > 0 /\ budget' = [budget EXCEPT ![k] = @ - 1]

Message(w, kind, f) == [wf |-> w, kind |-> kind, fn |-> f]
NoFn == "-"

Positions(w) == {i \in DOMAIN stream : stream[i].wf = w}

InitCalls ==
  /\ stream = <<>>
  /\ up = TRUE
  /\ caller \in [Workflow -> {"sdk", "demo"}]
  /\ mail = [w \in Workflow |-> "none"]
  /\ call = [w \in Workflow |-> "idle"]
  /\ inputs = {}
  /\ results = [w \in Workflow |-> NoResult]
  /\ done = [last |-> 0, unsettled |-> {}]
  /\ updates = [w \in Workflow |-> <<>>]
  /\ answer = [w \in Workflow |-> NoResult]
  /\ budget = Faults

-----------------------------------------------------------------------------
(* Consumers of the history stream with explicit acknowledgement.          *)

DeliverableTo(c) == c.unsettled \union ({c.last + 1} \intersect DOMAIN stream)

\* Consumer c after message i was acknowledged, or not.
Settled(c, i) == [last |-> Max({c.last, i}), unsettled |-> c.unsettled \ {i}]
Kept(c, i)    == [last |-> Max({c.last, i}), unsettled |-> c.unsettled \union {i}]

-----------------------------------------------------------------------------
(* The request.                                                            *)

\* The command is sent and waits in the subscription of the server.
SendRequest(w) ==
  /\ call[w] = "idle" /\ up
  /\ call' = [call EXCEPT ![w] = "waiting"]
  /\ mail' = [mail EXCEPT ![w] = "request"]
  /\ UNCHANGED <<engineVars, budget, up, caller, clientVars>>

\* A request that returns an error: ExecuteWorkflow goes on with the nil reply
\* and panics, the demo page answers with an error.
RequestError(w) ==
  call' = [call EXCEPT ![w] = IF caller[w] = "sdk" THEN "panicked" ELSE "failed"]

\* No server listens.
NoResponders(w) ==
  /\ call[w] = "idle" /\ ~up
  /\ RequestError(w)
  /\ UNCHANGED <<engineVars, budget, up, caller, mail, clientVars>>

\* Mutant: the request of the page has no timeout and waits for its reply.
RequestEndsAnswered(w) ==
  /\ call[w] = "waiting" /\ mail[w] \in {"id", "error"}
  /\ RequestError(w)
  /\ UNCHANGED <<engineVars, budget, up, caller, mail, clientVars>>

\* The caller's context ends, or the timeout of the demo page passes.
RequestEnds(w) ==
  /\ call[w] = "waiting"
  /\ RequestError(w)
  /\ UNCHANGED <<engineVars, budget, up, caller, mail, clientVars>>

\* ExecuteWorkflow returns a future, or the error in the reply.
ExecuteWorkflow(w) ==
  /\ caller[w] = "sdk" /\ call[w] = "waiting"
  /\ \/ mail[w] = "id" /\ call' = [call EXCEPT ![w] = "future"]
     \/ mail[w] = "error" /\ call' = [call EXCEPT ![w] = "failed"]
  /\ UNCHANGED <<engineVars, budget, up, caller, mail, clientVars>>

-----------------------------------------------------------------------------
(* HandleRequest, a callback that handles one request at a time.           *)

InHandler == {"stored", "started", "refused"}

\* Mutant: the workflow is started although its arguments were not stored.
StoreInputRegardless(w) ==
  /\ up /\ mail[w] = "request"
  /\ \A v \in Workflow : mail[v] \notin InHandler
  /\ mail' = [mail EXCEPT ![w] = "stored"]
  /\ \/ inputs' = inputs \union {w} /\ UNCHANGED budget
     \/ Spend("kv") /\ UNCHANGED inputs
  /\ UNCHANGED <<stream, results, done, up, caller, call, clientVars>>

\* The arguments are put into the workflow-input bucket.
StoreInput(w) ==
  /\ up /\ mail[w] = "request"
  /\ \A v \in Workflow : mail[v] \notin InHandler
  /\ \/ /\ mail' = [mail EXCEPT ![w] = "stored"]
        /\ inputs' = inputs \union {w}
        /\ UNCHANGED budget
     \/ /\ mail' = [mail EXCEPT ![w] = "refused"]
        /\ inputs' \in {inputs, inputs \union {w}}
        /\ Spend("kv")
  /\ UNCHANGED <<stream, results, done, up, caller, call, clientVars>>

PublishStarted(w) ==
  /\ up /\ mail[w] = "stored"
  /\ \/ /\ Len(stream) < MaxLen
        /\ stream' = Append(stream, Message(w, "workflow/started", NoFn))
        /\ \/ mail' = [mail EXCEPT ![w] = "started"] /\ UNCHANGED budget
           \/ mail' = [mail EXCEPT ![w] = "refused"] /\ Spend("answer")
     \/ /\ mail' = [mail EXCEPT ![w] = "refused"]
        /\ Spend("publish")
        /\ UNCHANGED stream
  /\ UNCHANGED <<inputs, results, done, up, caller, call, clientVars>>

\* Mutant: the error of a failed publish is not noticed.
ReplyRegardless(w) ==
  /\ up /\ mail[w] \in {"started", "refused"}
  /\ mail' = [mail EXCEPT ![w] = "id"]
  /\ UNCHANGED <<engineVars, budget, up, caller, call, clientVars>>

\* Mutant: a start that succeeded is answered with an error.
ReplyAlwaysError(w) ==
  /\ up /\ mail[w] \in {"started", "refused"}
  /\ mail' = [mail EXCEPT ![w] = "error"]
  /\ UNCHANGED <<engineVars, budget, up, caller, call, clientVars>>

\* The handler responds with the id or an error; the response may not arrive.
Reply(w) ==
  /\ up /\ mail[w] \in {"started", "refused"}
  /\ \/ /\ mail' = [mail EXCEPT ![w] = IF mail[w] = "started" THEN "id" ELSE "error"]
        /\ UNCHANGED budget
     \/ mail' = [mail EXCEPT ![w] = "lost"] /\ Spend("answer")
  /\ UNCHANGED <<engineVars, up, caller, call, clientVars>>

-----------------------------------------------------------------------------
(* The result.                                                             *)

Opened(w) == call[w] = "watching"

(***************************************************************************)
(* WorkflowResults stores the result of a WorkflowCompleted, and the watch *)
(* that is open on it sees the put; NAK when the put fails.                *)
(***************************************************************************)
WorkflowResults(i) ==
  LET m == stream[i] IN
  /\ up /\ i \in DeliverableTo(done)
  /\ IF m.kind = "workflow/completed"
     THEN \/ /\ results' = [results EXCEPT ![m.wf] = i]
             /\ updates' = [updates EXCEPT ![m.wf] = IF Opened(m.wf) THEN Append(@, i) ELSE @]
             /\ \/ done' = Settled(done, i) /\ UNCHANGED budget
                \/ done' = Kept(done, i) /\ Spend("answer")
          \/ done' = Kept(done, i) /\ Spend("kv") /\ UNCHANGED <<results, updates>>
     ELSE done' = Settled(done, i) /\ UNCHANGED <<results, updates, budget>>
  /\ UNCHANGED <<stream, inputs, up, caller, mail, call, answer>>

\* Mutant: the watch delivers new puts only.
WatchNewOnly(w) ==
  /\ call[w] = "future"
  /\ call' = [call EXCEPT ![w] = "watching"]
  /\ updates' = [updates EXCEPT ![w] = <<Marker>>]
  /\ UNCHANGED <<engineVars, budget, up, caller, mail, answer>>

\* Get opens a watch on the key of its workflow, or fails to.
Watch(w) ==
  /\ call[w] = "future"
  /\ \/ /\ call' = [call EXCEPT ![w] = "watching"]
        /\ updates' = [updates EXCEPT ![w] =
             IF results[w] = NoResult THEN <<Marker>> ELSE <<results[w], Marker>>]
        /\ UNCHANGED budget
     \/ /\ call' = [call EXCEPT ![w] = "failed"]
        /\ Spend("kv")
        /\ UNCHANGED updates
  /\ UNCHANGED <<engineVars, up, caller, mail, answer>>

\* Mutant: the marker is taken for an update.
NextUpdateAny(w) ==
  /\ call[w] = "watching" /\ updates[w] # <<>>
  /\ updates' = [updates EXCEPT ![w] = <<>>]
  /\ answer' = [answer EXCEPT ![w] = Head(updates[w])]
  /\ call' = [call EXCEPT ![w] = "done"]
  /\ UNCHANGED <<engineVars, budget, up, caller, mail>>

\* The loop over the updates skips the marker and returns the first put, which
\* Get splits into a result and an error.
NextUpdate(w) ==
  LET u == Head(updates[w]) IN
  /\ call[w] = "watching" /\ updates[w] # <<>>
  /\ IF u = Marker
     THEN /\ updates' = [updates EXCEPT ![w] = Tail(@)]
          /\ UNCHANGED <<call, answer>>
     ELSE /\ updates' = [updates EXCEPT ![w] = <<>>]
          /\ answer' = [answer EXCEPT ![w] = u]
          /\ call' = [call EXCEPT ![w] = "done"]
  /\ UNCHANGED <<engineVars, budget, up, caller, mail>>

\* The context of Get ends while it waits.
GetEnds(w) ==
  /\ call[w] = "watching"
  /\ call' = [call EXCEPT ![w] = "failed"]
  /\ updates' = [updates EXCEPT ![w] = <<>>]
  /\ UNCHANGED <<engineVars, budget, up, caller, mail, answer>>
=============================================================================
