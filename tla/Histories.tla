------------------------------ MODULE Histories ------------------------------
(***************************************************************************)
(* What the rest of the system can rely on in the history stream, when no  *)
(* task is executed twice: the histories of all workflows share one stream *)
(* that only grows, and every message is one that its workflow can have at *)
(* that place.  Module Engine implements this specification; modules that  *)
(* only read histories are built on it.                                    *)
(***************************************************************************)
EXTENDS Integers, Sequences, FiniteSets

CONSTANTS Workflow, Fn

VARIABLE stream    \* messages [wf, kind, fn]; the index is the sequence

Having(s, w, kinds) == {i \in DOMAIN s : s[i].wf = w /\ s[i].kind \in kinds}

OfFn(s, w, f, kinds) == {i \in Having(s, w, kinds) : s[i].fn = f}

Outcome == {"activity/completed", "activity/failed"}

\* Activity f of w has been called more often than it has ended.
IsOpen(s, w, f) ==
  Cardinality(OfFn(s, w, f, {"activity/scheduled"})) > Cardinality(OfFn(s, w, f, Outcome))

\* Message m may follow the messages s.
Legal(s, m) ==
  IF m.kind = "workflow/started"
  THEN Having(s, m.wf, {m.kind}) = {}
  ELSE /\ Having(s, m.wf, {"workflow/started"}) # {}
       /\ IF m.kind \in Outcome \union {"activity/retried"}
          THEN IsOpen(s, m.wf, m.fn)
          ELSE Having(s, m.wf, {"workflow/completed"}) = {}

Grow ==
  /\ Len(stream') > Len(stream)
  /\ SubSeq(stream', 1, Len(stream)) = stream
  /\ \A i \in (Len(stream) + 1)..Len(stream') : Legal(SubSeq(stream', 1, i - 1), stream'[i])

HistoriesSpec == stream = <<>> /\ [][Grow]_stream
=============================================================================
