----------------------------- MODULE HistoryLog -----------------------------
(***************************************************************************)
(* The workflow history: the JetStream stream WORKFLOW_HISTORY as the      *)
(* server and the workers use it through chronicle's NATS event log.       *)
(*                                                                         *)
(* The server publishes WorkflowStarted with the version header "1" and no *)
(* sequence check.  A worker goroutine reads the events of one workflow    *)
(* (repo.Get), lets user code decide, and appends the recorded events      *)
(* (repo.Save).  The append is guarded by the expected *stream* sequence   *)
(* of the last message on the workflow's subject, and the number the code  *)
(* passes there is the aggregate *version* of the last event it read.      *)
(***************************************************************************)
EXTENDS Integers, Sequences

CONSTANTS Workflow,    \* workflow identifiers (fresh UUIDs)
          Host,        \* worker processes
          Slot,        \* goroutines of one worker process
          Event,       \* event payloads, opaque to the log
          MaxLen,      \* bound: messages in the stream
          MaxBatch     \* bound: events one Save appends

ASSUME LogAssumption == MaxLen \in Nat /\ MaxBatch \in Nat

VARIABLES stream,      \* the messages; the index is the stream sequence
          subjects,    \* workflows whose subject the stream listens on
          open         \* loaded aggregates whose Save has not returned

vars == <<stream, subjects, open>>

Message == [wf : Workflow, ver : Nat \ {0}, ev : Event]

\* A worker goroutine that may hold a loaded aggregate.
Writer == Host \X Slot

\* `pos` is the stream sequence of the last event read, `version` the version
\* header found on it, `ensured` whether ensureStream has been called.
Session == [by : Writer, wf : Workflow, pos : Nat, version : Nat, ensured : BOOLEAN]

\* The last message on the subject of w has stream sequence n (0: there is none).
LastSeqIs(w, n) ==
  /\ \A j \in DOMAIN stream : stream[j].wf = w => j <= n
  /\ n = 0 \/ (n \in DOMAIN stream /\ stream[n].wf = w)

IdleWriter(x) == \A s \in open : s.by # x

\* The aggregates loaded by the goroutines of worker process h.
Of(h) == {s \in open : s.by[1] = h}

-----------------------------------------------------------------------------
Init ==
  /\ stream = <<>>
  /\ subjects = Workflow        \* history.> , set up by ensureStreams
  /\ open = {}

(***************************************************************************)
(* The command handler publishes WorkflowStarted for a fresh id.  A stream *)
(* that no longer listens on the subject does not answer the publish.      *)
(***************************************************************************)
Start(w, e) ==
  /\ Len(stream) < MaxLen
  /\ LastSeqIs(w, 0)
  /\ w \in subjects
  /\ stream' = Append(stream, [wf |-> w, ver |-> 1, ev |-> e])
  /\ UNCHANGED <<subjects, open>>

\* A (re)started server sets the subjects of the stream to history.> again.
EnsureStreams ==
  /\ subjects' = Workflow
  /\ UNCHANGED <<stream, open>>

\* Mutant: the version of the aggregate is the stream sequence it was read at.
GetBySequence(x, w, n) ==
  /\ IdleWriter(x)
  /\ stream[n].wf = w
  /\ open' = open \union
       {[by |-> x, wf |-> w, pos |-> n, version |-> n, ensured |-> FALSE]}
  /\ UNCHANGED <<stream, subjects>>

(***************************************************************************)
(* repo.Get: ReadEvents yields the events of w in stream order until none  *)
(* arrives within the read timeout, so the read may end before the last    *)
(* one; an empty read is ErrRootNotFound and opens nothing.                *)
(***************************************************************************)
Get(x, w, n) ==
  /\ IdleWriter(x)
  /\ stream[n].wf = w
  /\ open' = open \union
       {[by |-> x, wf |-> w, pos |-> n, version |-> stream[n].ver, ensured |-> FALSE]}
  /\ UNCHANGED <<stream, subjects>>

(***************************************************************************)
(* AppendEvents, first half: ensureStream updates the shared stream so     *)
(* that it listens on the subject of this workflow only.                   *)
(***************************************************************************)
EnsureStream(s) ==
  /\ ~s.ensured
  /\ subjects' = {s.wf}
  /\ open' = (open \ {s}) \union {[s EXCEPT !.ensured = TRUE]}
  /\ UNCHANGED stream

\* Mutant: the publish options drop the expected-sequence check.
AcceptsUnchecked(s) == s.wf \in subjects

\* Mutant: the check accepts any version up to the last sequence.
AcceptsOlder(s) ==
  /\ s.wf \in subjects
  /\ \E n \in DOMAIN stream : n >= s.version /\ LastSeqIs(s.wf, n)

\* The version check of the append, done by the JetStream server.
Accepts(s) == s.wf \in subjects /\ LastSeqIs(s.wf, s.version)

\* Mutant: recording an event does not advance the version of the aggregate, so
\* that the expected version, version - #uncommitted, comes out too small.
StampUnadvanced(w, v, evs) ==
  [i \in 1..Len(evs) |-> [wf |-> w, ver |-> v - Len(evs) + i, ev |-> evs[i]]]

\* The version headers of the appended events: expected + 1, expected + 2, ...
Stamp(w, v, evs) ==
  [i \in 1..Len(evs) |-> [wf |-> w, ver |-> v + i, ev |-> evs[i]]]

(***************************************************************************)
(* AppendEvents, second half: one publish, or one atomic batch, stored as  *)
(* a whole or refused as a whole.                                          *)
(***************************************************************************)
Store(s, evs) ==
  /\ s.ensured
  /\ Accepts(s)
  /\ Len(stream) + Len(evs) <= MaxLen
  /\ stream' = stream \o Stamp(s.wf, s.version, evs)
  /\ UNCHANGED subjects

\* The append is acknowledged and Save returns.
Publish(s, evs) ==
  /\ Store(s, evs)
  /\ open' = open \ {s}

\* The append is stored but its acknowledgement is lost.  Save returns an error,
\* which ends the worker process with all its goroutines.
PublishUnacked(s, evs) ==
  /\ Store(s, evs)
  /\ open' = open \ Of(s.by[1])

\* The append is refused; Save returns the conflict and the worker process ends.
PublishRefused(s) ==
  /\ s.ensured
  /\ ~Accepts(s)
  /\ open' = open \ Of(s.by[1])
  /\ UNCHANGED <<stream, subjects>>

\* Nothing was recorded: CommitEvents returns at once.
Close(s) ==
  /\ open' = open \ {s}
  /\ UNCHANGED <<stream, subjects>>

\* A worker process crashes or is stopped.
Exit(h) ==
  /\ open' = open \ Of(h)
  /\ UNCHANGED <<stream, subjects>>

Batch == UNION {[1..n -> Event] : n \in 1..MaxBatch}

Next ==
  \/ \E w \in Workflow, e \in Event : Start(w, e)
  \/ EnsureStreams
  \/ \E x \in Writer, w \in Workflow : \E n \in DOMAIN stream : Get(x, w, n)
  \/ \E s \in open :
       \/ EnsureStream(s)
       \/ \E evs \in Batch : Publish(s, evs) \/ PublishUnacked(s, evs)
       \/ PublishRefused(s)
       \/ Close(s)
  \/ \E h \in Host : Exit(h)

Spec == Init /\ [][Next]_vars

-----------------------------------------------------------------------------
\* Types of the stream, its subjects and the loaded aggregates.
TypeOK ==
  /\ stream \in Seq(Message)
  /\ subjects \subseteq Workflow
  /\ open \subseteq Session

\* j is the message of the same workflow directly before message i.
Precedes(j, i) ==
  /\ j < i
  /\ stream[j].wf = stream[i].wf
  /\ \A k \in (j + 1)..(i - 1) : stream[k].wf # stream[i].wf

(***************************************************************************)
(* The versions of every workflow count 1, 2, 3, ... without gap or        *)
(* repetition: two goroutines that decided on the same history never both  *)
(* append, although the check compares a version with a sequence.          *)
(***************************************************************************)
VersionsContiguous ==
  \A i \in DOMAIN stream :
    \/ stream[i].ver = 1 /\ \A j \in 1..(i - 1) : stream[j].wf # stream[i].wf
    \/ \E j \in DOMAIN stream : Precedes(j, i) /\ stream[i].ver = stream[j].ver + 1

(***************************************************************************)
(* Only the workflow that owns the first message of the shared stream ever *)
(* gets an event beyond its WorkflowStarted: for every other workflow the  *)
(* sequence and the version have drifted apart and each Save is refused.   *)
(***************************************************************************)
OnlyFirstWorkflowAdvances ==
  \A i \in DOMAIN stream : stream[i].ver > 1 => stream[i].wf = stream[1].wf

(***************************************************************************)
(* A version never exceeds the sequence it is stored at, and it equals the *)
(* sequence only while every message up to it belongs to the workflow.     *)
(***************************************************************************)
VersionBehindSequence ==
  \A i \in DOMAIN stream :
    /\ stream[i].ver \in 1..i
    /\ stream[i].ver = i => \A j \in 1..i : stream[j].wf = stream[i].wf

\* A loaded aggregate carries the version of an event of its own workflow.
SessionsMatchStream ==
  \A s \in open :
    /\ s.pos \in DOMAIN stream
    /\ stream[s.pos].wf = s.wf
    /\ s.version = stream[s.pos].ver

\* The inductive invariant behind the two invariants above.
IInv ==
  /\ TypeOK
  /\ VersionsContiguous
  /\ VersionBehindSequence
  /\ OnlyFirstWorkflowAdvances
  /\ SessionsMatchStream

(***************************************************************************)
(* No lost update: whenever a Save appends, an aggregate that leaves the   *)
(* worker in this step had been loaded from the complete history of the    *)
(* workflow, and the new event is numbered after the last one it had seen. *)
(* A read may stop early and other goroutines append meanwhile.            *)
(***************************************************************************)
SavesCompleteReads ==
  [][(stream' # stream /\ stream'[Len(stream) + 1].ver > 1) =>
       \E s \in open \ open' :
         /\ LastSeqIs(s.wf, s.pos)
         /\ stream'[Len(stream) + 1].wf = s.wf
         /\ stream'[Len(stream) + 1].ver = stream[s.pos].ver + 1]_vars
=============================================================================
