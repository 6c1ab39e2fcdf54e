-------------------------- MODULE EngineLogProofs --------------------------
(***************************************************************************)
(* The engine implements HistoryLog, step by step, and inherits what       *)
(* HistoryLogProofs shows about the history: only the first workflow of    *)
(* the stream can complete, and a Save is accepted only from a goroutine   *)
(* that has read the whole history of its workflow.  On this rests the     *)
(* second half: a sequential workflow is at one place at a time while      *)
(* acknowledgements arrive, so its calls happen at most once and its       *)
(* histories are those of module Histories.                                *)
(***************************************************************************)
EXTENDS EngineProofs

-----------------------------------------------------------------------------
(* The history and the goroutines, seen as HistoryLog sees them.           *)

Plain(s) == [i \in DOMAIN s |-> Opaque(s[i])]

\* The loaded aggregate of goroutine r, when the stream is s.
Loaded(s, r) ==
  [by |-> r.at, wf |-> r.wf, pos |-> r.pos, version |-> s[r.pos].ver,
   ensured |-> r.pc = "ensured"]

LoadedBy(s, rs) == {Loaded(s, r) : r \in rs}

PlainMsg == [wf : Workflow, ver : Nat \ {0}, ev : {"event"}]

\* A message without its event.
LEMMA OpaqueFields ==
  ASSUME NEW m \in Msg
  PROVE  /\ Opaque(m) \in PlainMsg
         /\ Opaque(m) = [wf |-> m.wf, ver |-> m.ver, ev |-> "event"]
         /\ Opaque(m).wf = m.wf /\ Opaque(m).ver = m.ver
  BY DEF Opaque, Msg, PlainMsg

\* A stream without its events.
LEMMA PlainFields ==
  ASSUME NEW s \in Seq(Msg)
  PROVE  /\ Plain(s) \in Seq(PlainMsg)
         /\ Len(Plain(s)) = Len(s) /\ DOMAIN Plain(s) = DOMAIN s
         /\ DOMAIN s = 1..Len(s) /\ Len(s) \in Nat
         /\ \A i \in DOMAIN s : /\ s[i] \in Msg
                                /\ Plain(s)[i] = Opaque(s[i])
                                /\ Plain(s)[i].wf = s[i].wf
                                /\ Plain(s)[i].ver = s[i].ver
<1>1. DOMAIN s = 1..Len(s) /\ Len(s) \in Nat /\ \A i \in DOMAIN s : s[i] \in Msg
  OBVIOUS
<1>2. \A i \in DOMAIN s : /\ Opaque(s[i]) \in PlainMsg
                          /\ Opaque(s[i]).wf = s[i].wf /\ Opaque(s[i]).ver = s[i].ver
  BY <1>1, OpaqueFields
<1>3. Plain(s) \in [1..Len(s) -> PlainMsg] /\ \A i \in DOMAIN s : Plain(s)[i] = Opaque(s[i])
  BY <1>1, <1>2 DEF Plain
<1>4. Plain(s) \in Seq(PlainMsg) /\ Len(Plain(s)) = Len(s) /\ DOMAIN Plain(s) = 1..Len(s)
  BY <1>1, <1>3
<1> QED
  BY <1>1, <1>2, <1>3, <1>4

\* Two sequences of the same length and elements are the same.
LEMMA SameSequence ==
  ASSUME NEW S, NEW a \in Seq(S), NEW b \in Seq(S), Len(a) = Len(b),
         \A i \in 1..Len(a) : a[i] = b[i]
  PROVE  a = b
  OBVIOUS

\* Hiding the events commutes with appending to the stream.
LEMMA PlainConcat ==
  ASSUME NEW s \in Seq(Msg), NEW t \in Seq(Msg)
  PROVE  Plain(s \o t) = Plain(s) \o Plain(t)
<1> DEFINE u == s \o t
<1>1. /\ u \in Seq(Msg) /\ Len(u) = Len(s) + Len(t)
      /\ \A i \in 1..(Len(s) + Len(t)) :
           u[i] = IF i <= Len(s) THEN s[i] ELSE t[i - Len(s)]
  BY ConcatProperties, Zenon
<1> HIDE DEF u
<1> DEFINE a == Plain(u)
           b == Plain(s)
           c == Plain(t)
<1>2. /\ a \in Seq(PlainMsg) /\ Len(a) = Len(u) /\ \A i \in 1..Len(u) : a[i] = Opaque(u[i])
      /\ b \in Seq(PlainMsg) /\ Len(b) = Len(s) /\ \A i \in 1..Len(s) : b[i] = Opaque(s[i])
      /\ c \in Seq(PlainMsg) /\ Len(c) = Len(t) /\ \A i \in 1..Len(t) : c[i] = Opaque(t[i])
      /\ Len(s) \in Nat /\ Len(t) \in Nat
  BY <1>1, PlainFields
<1> HIDE DEF a, b, c
<1> DEFINE d == b \o c
<1>a. b \in Seq(PlainMsg) /\ c \in Seq(PlainMsg)
  BY <1>2
<1>3. /\ d \in Seq(PlainMsg) /\ Len(d) = Len(b) + Len(c)
      /\ \A i \in 1..(Len(b) + Len(c)) : d[i] = IF i <= Len(b) THEN b[i] ELSE c[i - Len(b)]
  BY <1>a, ConcatProperties, Zenon
<1> HIDE DEF d
<1>4. Len(a) = Len(d)
  BY <1>1, <1>2, <1>3
<1>5. ASSUME NEW i \in 1..Len(a) PROVE a[i] = d[i]
  <2>1. i \in 1..(Len(s) + Len(t)) /\ i \in 1..(Len(b) + Len(c))
    BY <1>1, <1>2
  <2>2. CASE i <= Len(s)
    <3>1. i \in 1..Len(s)
      BY <1>2, <2>1, <2>2
    <3>2. u[i] = s[i] /\ d[i] = b[i]
      BY <1>1, <1>2, <1>3, <2>1, <2>2
    <3> QED
      BY <1>1, <1>2, <2>1, <3>1, <3>2
  <2>3. CASE ~(i <= Len(s))
    <3>1. i - Len(s) \in 1..Len(t)
      BY <1>2, <2>1, <2>3
    <3>2. u[i] = t[i - Len(s)] /\ d[i] = c[i - Len(s)]
      BY <1>1, <1>2, <1>3, <2>1, <2>3
    <3> QED
      BY <1>1, <1>2, <2>1, <3>1, <3>2
  <2> QED
    BY <2>2, <2>3
<1> QED
  BY <1>2, <1>3, <1>4, <1>5, SameSequence DEF a, b, c, d, u

\* An appended message is appended to the view of the abstract log.
LEMMA PlainAppend ==
  ASSUME NEW s \in Seq(Msg), NEW m \in Msg
  PROVE  Plain(Append(s, m)) = Append(Plain(s), Opaque(m))
<1> DEFINE a == Plain(Append(s, m))
           b == Plain(s)
           o == Opaque(m)
<1>1. /\ Append(s, m) \in Seq(Msg) /\ Len(Append(s, m)) = Len(s) + 1 /\ Len(s) \in Nat
      /\ \A i \in 1..Len(s) : Append(s, m)[i] = s[i]
      /\ Append(s, m)[Len(s) + 1] = m
  OBVIOUS
<1>2. /\ a \in Seq(PlainMsg) /\ Len(a) = Len(s) + 1
      /\ \A i \in 1..(Len(s) + 1) : a[i] = Opaque(Append(s, m)[i])
      /\ b \in Seq(PlainMsg) /\ Len(b) = Len(s) /\ \A i \in 1..Len(s) : b[i] = Opaque(s[i])
      /\ o \in PlainMsg
  BY <1>1, PlainFields, OpaqueFields
<1>3. /\ \A i \in 1..Len(s) : a[i] = b[i]
      /\ a[Len(s) + 1] = o
  BY <1>1, <1>2
<1> HIDE DEF a, b, o
<1>4. /\ Append(b, o) \in Seq(PlainMsg) /\ Len(Append(b, o)) = Len(s) + 1
      /\ \A i \in 1..Len(s) : Append(b, o)[i] = b[i]
      /\ Append(b, o)[Len(s) + 1] = o
  BY <1>2
<1>5. \A i \in 1..Len(a) : a[i] = Append(b, o)[i]
  BY <1>1, <1>2, <1>3, <1>4
<1> QED
  BY <1>2, <1>4, <1>5, SameSequence DEF a, b, o

-----------------------------------------------------------------------------
(* The last sequence of a subject, and the loaded aggregates.              *)

\* A bounded set of numbers that is not empty holds its largest element.
LEMMA MaxOfBounded ==
  ASSUME NEW n \in Nat, NEW S, S \subseteq 0..n, S # {}
  PROVE  Max(S) \in S /\ \A y \in S : y <= Max(S)
<1> DEFINE T == {n - x : x \in S}
<1>1. T \subseteq Nat /\ T # {}
  <2>1. \A x \in S : n - x \in Nat
    OBVIOUS
  <2>2. PICK x : x \in S
    OBVIOUS
  <2>3. n - x \in T
    BY <2>2
  <2> QED
    BY <2>1, <2>3
<1>2. PICK t \in T : \A y \in T : t <= y
  <2> HIDE DEF T
  <2> QED
    BY <1>1, LeastNumber
<1>3. PICK x \in S : t = n - x
  OBVIOUS
<1>4. \A y \in S : x >= y
  BY <1>2, <1>3
<1> QED
  BY <1>3, <1>4 DEF Max

\* The sequence that the append is checked against is the last one of the subject.
LEMMA LastSeqIsLast ==
  ASSUME EngineInv, NEW w
  PROVE  Log!LastSeqIs(w, LastSeq(w))
<1>1. /\ Len(stream) \in Nat /\ DOMAIN stream = 1..Len(stream) /\ stream \in Seq(Msg)
  BY EngineTypes DEF Msg
<1>2. {0} \union Positions(w) \subseteq 0..Len(stream) /\ {0} \union Positions(w) # {}
  BY <1>1 DEF Positions
<1>3. /\ LastSeq(w) \in {0} \union Positions(w)
      /\ \A y \in {0} \union Positions(w) : y <= LastSeq(w)
  BY <1>1, <1>2, MaxOfBounded DEF LastSeq
<1>4. /\ DOMAIN Plain(stream) = DOMAIN stream
      /\ \A i \in DOMAIN stream : Plain(stream)[i].wf = stream[i].wf
  BY <1>1, PlainFields
<1>5. \A j \in DOMAIN Plain(stream) : Plain(stream)[j].wf = w => j <= LastSeq(w)
  BY <1>3, <1>4 DEF Positions
<1>6. \/ LastSeq(w) = 0
      \/ LastSeq(w) \in DOMAIN Plain(stream) /\ Plain(stream)[LastSeq(w)].wf = w
  BY <1>3, <1>4 DEF Positions
<1> QED
  BY <1>5, <1>6 DEF Log!LastSeqIs, Plain

\* Growth of the stream does not touch a loaded aggregate.
LEMMA LoadedKept ==
  ASSUME EngineInv, StreamEffect, NEW R, R \subseteq runs
  PROVE  LoadedBy(stream', R) = LoadedBy(stream, R)
<1>1. ASSUME NEW r \in R PROVE Loaded(stream', r) = Loaded(stream, r)
  <2>1. r.pos \in 1..Len(stream)
    BY RunFields, EngineTypes
  <2>2. stream'[r.pos] = stream[r.pos]
    BY <2>1, StreamStep
  <2> QED
    BY <2>2 DEF Loaded
<1> QED
  BY <1>1 DEF LoadedBy

\* A loaded aggregate belongs to one goroutine.
LEMMA LoadedByOne ==
  ASSUME EngineInv, NEW r \in runs, NEW q \in runs, Loaded(stream, r) = Loaded(stream, q)
  PROVE  r = q
<1>1. r.at = q.at
  <2>1. Loaded(stream, r).by = r.at /\ Loaded(stream, q).by = q.at
    BY DEF Loaded
  <2> QED
    BY <2>1
<1> QED
  BY <1>1 DEF EngineInv, TypeOK

\* Goroutines that end take their aggregates with them.
LEMMA LoadedWithout ==
  ASSUME EngineInv, NEW R, R \subseteq runs
  PROVE  LoadedBy(stream, runs \ R) = LoadedBy(stream, runs) \ LoadedBy(stream, R)
<1>1. \A r \in runs \ R, q \in R : Loaded(stream, r) # Loaded(stream, q)
  BY LoadedByOne
<1>2. LoadedBy(stream, runs \ R) \subseteq LoadedBy(stream, runs) \ LoadedBy(stream, R)
  BY <1>1 DEF LoadedBy
<1>3. LoadedBy(stream, runs) \ LoadedBy(stream, R) \subseteq LoadedBy(stream, runs \ R)
  BY DEF LoadedBy
<1> QED
  BY <1>2, <1>3

\* The aggregates of one worker process.
LEMMA LoadedInProcess ==
  ASSUME EngineInv, NEW x
  PROVE  LoadedBy(stream, RunsOf(x)) = {s \in LoadedBy(stream, runs) : s.by[1] = x}
<1>1. \A r : Loaded(stream, r).by[1] = r.at[1]
  BY DEF Loaded
<1> QED
  BY <1>1 DEF LoadedBy, RunsOf

-----------------------------------------------------------------------------
(* The steps.                                                              *)

\* A step that leaves the history and the goroutines alone.
LEMMA StutterStep ==
  ASSUME UNCHANGED <<stream, subjects, runs>>
  PROVE  UNCHANGED Log!vars
  BY DEF Log!vars

\* A step of one loaded aggregate.
LEMMA AggregateStep ==
  ASSUME NEW l \in LoadedBy(stream, runs),
         \/ Log!EnsureStream(l) \/ Log!Close(l)
         \/ \E evs \in Log!Batch : Log!Publish(l, evs) \/ Log!PublishUnacked(l, evs)
  PROVE  Log!Next
  BY DEF Log!Next, LoadedBy, Loaded

\* A worker process ends: Exit.
LEMMA ExitStep ==
  ASSUME EngineInv, NEW x \in Worker, UNCHANGED <<stream, subjects>>, runs' = runs \ RunsOf(x)
  PROVE  Log!Next
<1>1. StreamEffect
  BY DEF StreamEffect
<1>2. RunsOf(x) \subseteq runs
  BY DEF RunsOf
<1>3. LoadedBy(stream', runs') = LoadedBy(stream, runs) \ {s \in LoadedBy(stream, runs) : s.by[1] = x}
  BY <1>2, LoadedWithout, LoadedInProcess
<1>4. Log!Exit(x)
  BY <1>3 DEF Log!Exit, Log!Of, LoadedBy, Loaded
<1> QED
  BY <1>4 DEF Log!Next

\* A goroutine receives a task: Get.
LEMMA ReceiveStep ==
  ASSUME EngineInv, NEW x \in Worker, NEW g \in Slot, NEW m \in tasks, Receive(x, g, m)
  PROVE  Log!Next
<1>1. /\ \A r \in runs : r.at # <<x, g>>
      /\ UNCHANGED <<stream, subjects>>
      /\ \E n \in Positions(m.task.wf) : \E d \in Decisions(x, m.task, n) :
           runs' = runs \union {[at |-> <<x, g>>, tid |-> m.id, wf |-> m.task.wf, pos |-> n,
                                 pc |-> "decided", events |-> d.events, err |-> d.err]}
  BY DEF Receive
<1>2. PICK n \in Positions(m.task.wf) : \E d \in Decisions(x, m.task, n) :
           runs' = runs \union {[at |-> <<x, g>>, tid |-> m.id, wf |-> m.task.wf, pos |-> n,
                                 pc |-> "decided", events |-> d.events, err |-> d.err]}
  BY <1>1
<1>3. PICK d \in Decisions(x, m.task, n) :
           runs' = runs \union {[at |-> <<x, g>>, tid |-> m.id, wf |-> m.task.wf, pos |-> n,
                                 pc |-> "decided", events |-> d.events, err |-> d.err]}
  BY <1>2
<1> DEFINE w == m.task.wf
           r == [at |-> <<x, g>>, tid |-> m.id, wf |-> w, pos |-> n,
                 pc |-> "decided", events |-> d.events, err |-> d.err]
<1>4. w \in Workflow
  BY DEF EngineInv, TypeOK, TaskType
<1>5. n \in DOMAIN stream /\ stream[n].wf = w
  BY <1>2 DEF Positions
<1>6. /\ n \in DOMAIN Plain(stream) /\ Plain(stream)[n].wf = w
      /\ Plain(stream)[n].ver = stream[n].ver
  <2>1. stream \in Seq(Msg)
    BY EngineTypes DEF Msg
  <2> QED
    BY <1>5, <2>1, PlainFields
<1>7. \A s \in LoadedBy(stream, runs) : s.by # <<x, g>>
  BY <1>1 DEF LoadedBy, Loaded
<1>8. Loaded(stream, r) = [by |-> <<x, g>>, wf |-> w, pos |-> n,
                           version |-> Plain(stream)[n].ver, ensured |-> FALSE]
  BY <1>6 DEF Loaded
<1> HIDE DEF r
<1>9. runs' = runs \union {r} /\ stream' = stream
  BY <1>1, <1>3 DEF r
<1> HIDE DEF w
<1>10. LoadedBy(stream', runs') = LoadedBy(stream, runs) \union {Loaded(stream, r)}
  BY <1>9 DEF LoadedBy
<1>11. LoadedBy(stream', runs') = LoadedBy(stream, runs) \union
         {[by |-> <<x, g>>, wf |-> w, pos |-> n, version |-> Plain(stream)[n].ver,
           ensured |-> FALSE]}
  BY <1>8, <1>10
<1>12. Log!Get(<<x, g>>, w, n)
  BY <1>1, <1>6, <1>7, <1>11 DEF Log!Get, Log!IdleWriter, Plain, LoadedBy, Loaded
<1>13. <<x, g>> \in Log!Writer
  BY DEF Log!Writer
<1> QED
  BY <1>4, <1>6, <1>12, <1>13 DEF Log!Next, Plain

\* The goroutine replaced by one with the same aggregate.
LEMMA LoadedReplaced ==
  ASSUME EngineInv, NEW r \in runs, NEW s
  PROVE  LoadedBy(stream, (runs \ {r}) \union {s}) =
           (LoadedBy(stream, runs) \ {Loaded(stream, r)}) \union {Loaded(stream, s)}
<1>1. LoadedBy(stream, runs \ {r}) = LoadedBy(stream, runs) \ LoadedBy(stream, {r})
  BY LoadedWithout
<1>2. LoadedBy(stream, {r}) = {Loaded(stream, r)}
  BY DEF LoadedBy
<1>3. LoadedBy(stream, (runs \ {r}) \union {s}) = LoadedBy(stream, runs \ {r}) \union {Loaded(stream, s)}
  BY DEF LoadedBy
<1> QED
  BY <1>1, <1>2, <1>3

\* Ack or Nak: nothing changes for the history, unless there is nothing to save.
LEMMA RespondStep ==
  ASSUME EngineInv, NEW r \in runs, Respond(r)
  PROVE  Log!Next \/ UNCHANGED Log!vars
<1>1. /\ r.pc = "decided" /\ UNCHANGED <<stream, subjects>>
      /\ runs' = (runs \ {r}) \union
           IF r.events = <<>> THEN {} ELSE {[r EXCEPT !.pc = "settled", !.tid = 0]}
  BY DEF Respond
<1>2. r \in Goroutine /\ MaxTasks \in Nat
  BY EngineTypes DEF EngineInv, TypeOK, Goroutine
<1>3. CASE r.events = <<>>
  <2>1. runs' = runs \ {r}
    BY <1>1, <1>3
  <2>2. LoadedBy(stream, {r}) = {Loaded(stream, r)}
    BY DEF LoadedBy
  <2>3. LoadedBy(stream', runs') = LoadedBy(stream, runs) \ {Loaded(stream, r)}
    BY <1>1, <2>1, <2>2, LoadedWithout
  <2>4. PICK l : l = Loaded(stream, r)
    OBVIOUS
  <2>5. l \in LoadedBy(stream, runs)
    BY <2>4 DEF LoadedBy
  <2>6. Log!Close(l)
    BY <1>1, <2>3, <2>4 DEF Log!Close, LoadedBy, Loaded
  <2> QED
    BY <2>5, <2>6, AggregateStep
<1>4. CASE r.events # <<>>
  <2> DEFINE s == [r EXCEPT !.pc = "settled", !.tid = 0]
  <2>1. runs' = (runs \ {r}) \union {s}
    BY <1>1, <1>4
  <2>2. s.at = r.at /\ s.wf = r.wf /\ s.pos = r.pos
    BY <1>2, GoroutineGoesOn
  <2>3. s.pc = "settled"
    BY <1>2 DEF Goroutine
  <2> HIDE DEF s
  <2>4. Loaded(stream, s) = Loaded(stream, r)
    BY <1>1, <2>2, <2>3 DEF Loaded
  <2>5. Loaded(stream, r) \in LoadedBy(stream, runs)
    BY DEF LoadedBy
  <2>6. LoadedBy(stream, (runs \ {r}) \union {s}) =
          (LoadedBy(stream, runs) \ {Loaded(stream, r)}) \union {Loaded(stream, s)}
    BY LoadedReplaced
  <2>7. LoadedBy(stream, (runs \ {r}) \union {s}) = LoadedBy(stream, runs)
    BY <2>4, <2>5, <2>6
  <2>8. LoadedBy(stream', runs') = LoadedBy(stream, runs)
    BY <1>1, <2>1, <2>7
  <2> QED
    BY <1>1, <2>8 DEF Log!vars, LoadedBy, Loaded
<1> QED
  BY <1>3, <1>4

\* The first half of Save: EnsureStream.
LEMMA EnsureStreamStep ==
  ASSUME EngineInv, NEW r \in runs, EnsureStream(r)
  PROVE  Log!Next
<1>1. /\ r.pc = "settled" /\ UNCHANGED stream /\ subjects' = {r.wf}
      /\ runs' = (runs \ {r}) \union {[r EXCEPT !.pc = "ensured"]}
  BY DEF EnsureStream
<1>2. r \in Goroutine /\ MaxTasks \in Nat
  BY EngineTypes DEF EngineInv, TypeOK, Goroutine
<1> DEFINE s == [r EXCEPT !.pc = "ensured"]
<1>3. s.at = r.at /\ s.wf = r.wf /\ s.pos = r.pos /\ s.pc = "ensured"
  BY <1>2 DEF Goroutine
<1>4. runs' = (runs \ {r}) \union {s}
  BY <1>1
<1> HIDE DEF s
<1>5. PICK l : l = Loaded(stream, r)
  OBVIOUS
<1>6. l.ensured = FALSE /\ l.wf = r.wf /\ l \in LoadedBy(stream, runs)
  BY <1>1, <1>5 DEF Loaded, LoadedBy
<1>7. Loaded(stream, s) = [l EXCEPT !.ensured = TRUE]
  <2>1. (s.pc = "ensured") = TRUE
    BY <1>3
  <2>2. Loaded(stream, s) = [by |-> r.at, wf |-> r.wf, pos |-> r.pos,
                             version |-> stream[r.pos].ver, ensured |-> TRUE]
    BY <1>3, <2>1 DEF Loaded
  <2>3. l = [by |-> r.at, wf |-> r.wf, pos |-> r.pos,
             version |-> stream[r.pos].ver, ensured |-> FALSE]
    <3>1. (r.pc = "ensured") = FALSE
      BY <1>1
    <3> QED
      BY <1>5, <3>1 DEF Loaded
  <2> DEFINE S == [by : {r.at}, wf : {r.wf}, pos : {r.pos}, version : {stream[r.pos].ver},
                   ensured : BOOLEAN]
  <2>4. l \in S
    BY <2>3
  <2>5. [l EXCEPT !.ensured = TRUE] \in S /\ [l EXCEPT !.ensured = TRUE].ensured = TRUE
    BY <2>4
  <2>6. Loaded(stream, s) \in S /\ Loaded(stream, s).ensured = TRUE
    BY <2>2
  <2>7. \A k, j \in S : k.ensured = j.ensured => k = j
    OBVIOUS
  <2> HIDE DEF S
  <2> QED
    BY <2>5, <2>6, <2>7
<1>8. LoadedBy(stream, (runs \ {r}) \union {s}) =
        (LoadedBy(stream, runs) \ {l}) \union {[l EXCEPT !.ensured = TRUE]}
  BY <1>5, <1>7, LoadedReplaced
<1>9. LoadedBy(stream', runs') = (LoadedBy(stream, runs) \ {l}) \union {[l EXCEPT !.ensured = TRUE]}
  BY <1>1, <1>4, <1>8
<1>10. Log!EnsureStream(l)
  BY <1>1, <1>6, <1>9 DEF Log!EnsureStream, LoadedBy, Loaded
<1> QED
  BY <1>6, <1>10, AggregateStep

\* What a goroutine stores, seen as HistoryLog sees it.
LEMMA StampedEvents ==
  ASSUME EngineInv, NEW r \in runs, r.events # <<>>, Len(stream) + Len(r.events) <= MaxLen
  PROVE  /\ [i \in DOMAIN r.events |-> Message(r.wf, stream[r.pos].ver + i, r.events[i])] \in Seq(Msg)
         /\ \E evs \in Log!Batch :
              /\ Len(evs) = Len(r.events)
              /\ Log!Stamp(r.wf, stream[r.pos].ver, evs) =
                   Plain([i \in DOMAIN r.events |->
                            Message(r.wf, stream[r.pos].ver + i, r.events[i])])
<1>1. PICK n : n = Len(r.events)
  OBVIOUS
<1>2. PICK v : v = stream[r.pos].ver
  OBVIOUS
<1>3. /\ n \in Nat /\ n > 0 /\ n <= MaxLen /\ DOMAIN r.events = 1..n /\ v \in Nat \ {0}
      /\ r.wf \in Workflow /\ \A k \in 1..n : r.events[k] \in EventType
  BY <1>1, <1>2, RunFields, EngineTypes
<1>4. PICK t : t = [i \in DOMAIN r.events |-> Message(r.wf, v + i, r.events[i])]
  OBVIOUS
<1>5. \A i \in 1..n : /\ Message(r.wf, v + i, r.events[i]) \in Msg
                       /\ Opaque(Message(r.wf, v + i, r.events[i])) =
                            [wf |-> r.wf, ver |-> v + i, ev |-> "event"]
  <2>1. ASSUME NEW i \in 1..n PROVE Message(r.wf, v + i, r.events[i]) \in Msg
    BY <1>3 DEF Message, Msg
  <2>2. ASSUME NEW i \in 1..n
        PROVE  Opaque(Message(r.wf, v + i, r.events[i])) = [wf |-> r.wf, ver |-> v + i, ev |-> "event"]
    <3>1. PICK m : m = Message(r.wf, v + i, r.events[i])
      OBVIOUS
    <3>2. m \in Msg /\ m.wf = r.wf /\ m.ver = v + i
      BY <2>1, <3>1 DEF Message
    <3> QED
      BY <3>1, <3>2, OpaqueFields
  <2> QED
    BY <2>1, <2>2
<1>6. t \in [1..n -> Msg] /\ \A i \in 1..n : t[i] = Message(r.wf, v + i, r.events[i])
  BY <1>3, <1>4, <1>5
<1>7. t \in Seq(Msg) /\ DOMAIN t = 1..n
  BY <1>3, <1>6
<1>8. PICK evs : evs = [k \in 1..n |-> "event"]
  OBVIOUS
<1>9. evs \in [1..n -> {"event"}] /\ Len(evs) = n /\ \A k \in 1..n : evs[k] = "event"
  BY <1>3, <1>8
<1>10. evs \in Log!Batch
  BY <1>3, <1>9, EngineTypes DEF Log!Batch
<1>11. Log!Stamp(r.wf, v, evs) = [i \in 1..n |-> [wf |-> r.wf, ver |-> v + i, ev |-> "event"]]
  BY <1>9 DEF Log!Stamp
<1>12. Plain(t) = [i \in 1..n |-> [wf |-> r.wf, ver |-> v + i, ev |-> "event"]]
  BY <1>5, <1>6, <1>7 DEF Plain
<1>13. Log!Stamp(r.wf, v, evs) = Plain(t)
  BY <1>11, <1>12
<1> QED
  BY <1>1, <1>2, <1>4, <1>7, <1>9, <1>10, <1>13

\* The second half of Save: Publish, or PublishUnacked when its answer is lost.
LEMMA SaveStep ==
  ASSUME EngineInv, NEW r \in runs, Save(r)
  PROVE  Log!Next
<1>1. /\ r.pc = "ensured" /\ Accepted(r) /\ Len(stream) + Len(r.events) <= MaxLen
      /\ stream' = stream \o [i \in DOMAIN r.events |->
                                Message(r.wf, stream[r.pos].ver + i, r.events[i])]
      /\ UNCHANGED subjects
      /\ runs' = runs \ {r} \/ runs' = runs \ RunsOf(r.at[1])
  BY DEF Save
<1>2. r.events # <<>>
  BY <1>1 DEF EngineInv, RunsSound
<1>3. PICK t : t = [i \in DOMAIN r.events |-> Message(r.wf, stream[r.pos].ver + i, r.events[i])]
  OBVIOUS
<1>4. PICK evs \in Log!Batch :
        Len(evs) = Len(r.events) /\ Log!Stamp(r.wf, stream[r.pos].ver, evs) = Plain(t)
  BY <1>1, <1>2, <1>3, StampedEvents
<1>5. t \in Seq(Msg) /\ stream \in Seq(Msg)
  BY <1>1, <1>2, <1>3, StampedEvents, EngineTypes DEF Msg
<1>6. Plain(stream') = Plain(stream) \o Log!Stamp(r.wf, stream[r.pos].ver, evs)
  BY <1>1, <1>3, <1>4, <1>5, PlainConcat
<1>7. Len(Plain(stream)) = Len(stream)
  BY <1>5, PlainFields
<1>8. r.wf \in subjects /\ Log!LastSeqIs(r.wf, stream[r.pos].ver)
  <2>1. r.wf \in subjects /\ LastSeq(r.wf) = stream[r.pos].ver
    BY <1>1 DEF Accepted
  <2>2. Log!LastSeqIs(r.wf, LastSeq(r.wf))
    BY LastSeqIsLast
  <2> QED
    BY <2>1, <2>2 DEF Log!LastSeqIs
<1>9. PICK l : l = Loaded(stream, r)
  OBVIOUS
<1>10. /\ l.ensured /\ l.wf = r.wf /\ l.version = stream[r.pos].ver /\ l.by = r.at
       /\ l \in LoadedBy(stream, runs)
  BY <1>1, <1>9 DEF Loaded, LoadedBy
<1>11. Log!Store(l, evs)
  <2>1. Log!Accepts(l)
    BY <1>8, <1>10 DEF Log!Accepts, Log!LastSeqIs
  <2>2. Plain(stream') = Plain(stream) \o Log!Stamp(l.wf, l.version, evs)
    BY <1>6, <1>10 DEF Log!Stamp
  <2>3. Len(Plain(stream)) + Len(evs) <= MaxLen
    BY <1>1, <1>4, <1>7
  <2> QED
    BY <1>1, <1>10, <2>1, <2>2, <2>3 DEF Log!Store, Plain
<1>12. StreamEffect
  BY <1>1 DEF StreamEffect
<1>13. CASE runs' = runs \ {r}
  <2>1. LoadedBy(stream', runs') = LoadedBy(stream, runs')
    BY <1>12, <1>13, LoadedKept
  <2>2. LoadedBy(stream, {r}) = {l}
    BY <1>9 DEF LoadedBy
  <2>3. LoadedBy(stream, runs \ {r}) = LoadedBy(stream, runs) \ {l}
    BY <2>2, LoadedWithout
  <2>4. LoadedBy(stream', runs') = LoadedBy(stream, runs) \ {l}
    BY <1>13, <2>1, <2>3
  <2>5. Log!Publish(l, evs)
    BY <1>11, <2>4 DEF Log!Publish, LoadedBy, Loaded
  <2> QED
    BY <1>10, <2>5, AggregateStep
<1>14. CASE runs' = runs \ RunsOf(r.at[1])
  <2>1. RunsOf(r.at[1]) \subseteq runs
    BY DEF RunsOf
  <2>2. LoadedBy(stream', runs') = LoadedBy(stream, runs')
    BY <1>12, <1>14, LoadedKept
  <2>3. LoadedBy(stream, runs \ RunsOf(r.at[1])) =
          LoadedBy(stream, runs) \ {s \in LoadedBy(stream, runs) : s.by[1] = r.at[1]}
    BY <2>1, LoadedWithout, LoadedInProcess
  <2>4. LoadedBy(stream', runs') =
          LoadedBy(stream, runs) \ {s \in LoadedBy(stream, runs) : s.by[1] = l.by[1]}
    BY <1>10, <1>14, <2>2, <2>3
  <2>5. Log!PublishUnacked(l, evs)
    BY <1>11, <2>4 DEF Log!PublishUnacked, Log!Of, LoadedBy, Loaded
  <2> QED
    BY <1>10, <2>5, AggregateStep
<1> QED
  BY <1>1, <1>13, <1>14

\* The command handler publishes WorkflowStarted: Start.
LEMMA PublishStartedStep ==
  ASSUME EngineInv, NEW w \in Workflow, PublishStarted(w)
  PROVE  Log!Next \/ UNCHANGED Log!vars
<1>1. CASE UNCHANGED <<stream, subjects, runs>>
  BY <1>1, StutterStep
<1>2. CASE /\ w \in subjects /\ Len(stream) < MaxLen /\ UNCHANGED <<subjects, runs>>
           /\ stream' = Append(stream, Message(w, 1, WorkflowStarted))
  <2>1. PICK m : m = Message(w, 1, WorkflowStarted)
    OBVIOUS
  <2>2. m \in Msg /\ m.wf = w /\ m.ver = 1
    BY <2>1, EngineAssumption DEF Message, Msg, WorkflowStarted, Ev, EventType, Attempts
  <2>3. stream \in Seq(Msg)
    BY EngineTypes DEF Msg
  <2>4. Plain(stream') = Append(Plain(stream), [wf |-> w, ver |-> 1, ev |-> "event"])
    BY <1>2, <2>1, <2>2, <2>3, PlainAppend, OpaqueFields
  <2>5. Positions(w) = {}
    BY DEF PublishStarted, EngineInv, CommandsSound
  <2>6. \A j \in DOMAIN Plain(stream) : Plain(stream)[j].wf = w => j <= 0
    BY <2>3, <2>5, PlainFields DEF Positions
  <2>7. Log!LastSeqIs(w, 0)
    BY <2>6 DEF Log!LastSeqIs, Plain
  <2>8. Len(Plain(stream)) < MaxLen
    BY <1>2, <2>3, PlainFields
  <2>9. StreamEffect
    BY <1>2 DEF PublishStarted, StreamEffect, EngineInv, TypeOK
  <2>10. LoadedBy(stream', runs') = LoadedBy(stream, runs)
    BY <1>2, <2>9, LoadedKept
  <2>11. Log!Start(w, "event")
    BY <1>2, <2>4, <2>7, <2>8, <2>10 DEF Log!Start, Plain, LoadedBy, Loaded
  <2> QED
    BY <2>11 DEF Log!Next
<1> QED
  BY <1>1, <1>2 DEF PublishStarted

\* The server comes back and ensures its streams.
LEMMA ServerCrashStep ==
  ASSUME ServerCrash
  PROVE  Log!Next
<1>1. subjects' = Workflow /\ UNCHANGED <<stream, runs>>
  BY DEF ServerCrash
<1>2. Log!EnsureStreams
  BY <1>1 DEF Log!EnsureStreams
<1> QED
  BY <1>2 DEF Log!Next

\* A goroutine goes on with its task.
LEMMA HandleStep ==
  ASSUME EngineInv, NEW a \in Worker \X Slot, Handle(a)
  PROVE  Log!Next \/ UNCHANGED Log!vars
<1>1. PICK r \in runs : Respond(r) \/ EnsureStream(r) \/ Save(r) \/ SaveRefused(r)
  BY DEF Handle
<1>2. ASSUME SaveRefused(r) PROVE Log!Next
  <2>1. r.at[1] \in Worker
    BY DEF EngineInv, TypeOK
  <2>2. PICK x \in Worker : x = r.at[1]
    BY <2>1
  <2>3. UNCHANGED <<stream, subjects>> /\ runs' = runs \ RunsOf(x)
    BY <1>2, <2>2 DEF SaveRefused
  <2> QED
    BY <2>3, ExitStep
<1> QED
  BY <1>1, <1>2, RespondStep, EnsureStreamStep, SaveStep

\* A worker takes a task.
LEMMA TakeStep ==
  ASSUME EngineInv, NEW id, Take(id)
  PROVE  Log!Next
<1>1. PICK m \in tasks, x \in Worker :
        \/ \E g \in Slot : Receive(x, g, m)
        \/ ReadFails(x, m)
        \/ ActivityPanics(x, m)
  BY DEF Take
<1>2. ASSUME ReadFails(x, m) \/ ActivityPanics(x, m) PROVE Log!Next
  BY <1>2, ExitStep DEF ReadFails, ActivityPanics
<1> QED
  BY <1>1, <1>2, ReceiveStep

\* The projectors and the retry goroutines only read the history.
LEMMA ProjectStep ==
  ASSUME \E p \in Projector : Project(p)
  PROVE  UNCHANGED Log!vars
<1>1. ASSUME NEW i, WorkflowTasks(i) \/ ActivityTasks(i) \/ ActivityRetries(i) \/ WorkflowResults(i)
      PROVE  UNCHANGED <<stream, subjects, runs>>
  BY <1>1 DEF WorkflowTasks, ActivityTasks, ActivityRetries, WorkflowResults
<1>2. UNCHANGED <<stream, subjects, runs>>
  BY <1>1 DEF Project, Projector
<1> QED
  BY <1>2, StutterStep

\* Every step of the engine is a step of HistoryLog, or leaves it alone.
LEMMA LogStep ==
  ASSUME EngineInv, [Next]_vars
  PROVE  [Log!Next]_(Log!vars)
<1>1. CASE UNCHANGED vars
  BY <1>1, StutterStep DEF vars
<1>2. CASE Next
  <2>1. ASSUME NEW w \in Workflow, StartWorkflow(w) PROVE Log!Next \/ UNCHANGED Log!vars
    <3>1. ASSUME StoreInput(w) PROVE UNCHANGED <<stream, subjects, runs>>
      BY <3>1 DEF StoreInput
    <3> QED
      BY <2>1, <3>1, StutterStep, PublishStartedStep DEF StartWorkflow
  <2>2. ASSUME NEW i, FireRetry(i) PROVE UNCHANGED <<stream, subjects, runs>>
    BY <2>2 DEF FireRetry
  <2>3. ASSUME NEW m, Redeliver(m) PROVE UNCHANGED <<stream, subjects, runs>>
    BY <2>3 DEF Redeliver
  <2>4. ASSUME NEW x \in Worker, Crash(x) PROVE Log!Next
    BY <2>4, ExitStep DEF Crash
  <2> QED
    BY <1>2, <2>1, <2>2, <2>3, <2>4, StutterStep, ProjectStep, ServerCrashStep, TakeStep, HandleStep
       DEF Next
<1> QED
  BY <1>1, <1>2

-----------------------------------------------------------------------------
(***************************************************************************)
(* The engine writes its histories as HistoryLog describes it: no          *)
(* interleaving of the server, the goroutines and their crashes appends in *)
(* another way than the log allows.                                        *)
(***************************************************************************)
THEOREM EngineImplementsLog == Spec => ImplementsLog
<1>1. Init => Log!Init
  BY DEF Init, Log!Init
<1> QED
  BY <1>1, EngineInvInit, EngineInvNext, LogStep, PTL DEF Spec, ImplementsLog, Log!Spec

\* The proofs about HistoryLog, for the history of the engine.
LogProofs == INSTANCE HistoryLogProofs WITH
               Host <- Worker, Event <- {"event"}, MaxBatch <- MaxLen,
               stream <- [i \in DOMAIN stream |-> Opaque(stream[i])],
               open <- {[by |-> r.at, wf |-> r.wf, pos |-> r.pos, version |-> stream[r.pos].ver,
                         ensured |-> r.pc = "ensured"] : r \in runs}

\* The history begins as HistoryLogProofs demands.
LEMMA LogInvInit == Init => LogProofs!IInv
<1>1. MaxLen \in Nat /\ MaxLen \in Nat
  BY EngineAssumption
<1>2. Init => LogProofs!Init
  BY DEF Init, LogProofs!Init
<1> QED
  BY <1>1, <1>2, LogProofs!InitIInv

\* The invariant of HistoryLogProofs survives every step of the engine.
LEMMA LogInvNext ==
  ASSUME EngineInv, LogProofs!IInv, [Next]_vars
  PROVE  LogProofs!IInv'
<1>1. MaxLen \in Nat /\ MaxLen \in Nat
  BY EngineAssumption
<1>2. [Log!Next]_(Log!vars)
  BY LogStep
<1>3. Log!Next => LogProofs!Next
  BY DEF Log!Next, Log!Start, Log!EnsureStreams, Log!Get, Log!EnsureStream, Log!Publish,
         Log!PublishUnacked, Log!PublishRefused, Log!Close, Log!Exit, Log!Store, Log!Accepts,
         Log!LastSeqIs, Log!Stamp, Log!Of, Log!IdleWriter, Log!Batch, Log!Writer,
         LogProofs!Next, LogProofs!Start, LogProofs!EnsureStreams, LogProofs!Get,
         LogProofs!EnsureStream, LogProofs!Publish, LogProofs!PublishUnacked,
         LogProofs!PublishRefused, LogProofs!Close, LogProofs!Exit, LogProofs!Store,
         LogProofs!Accepts, LogProofs!LastSeqIs, LogProofs!Stamp, LogProofs!Of,
         LogProofs!IdleWriter, LogProofs!Batch, LogProofs!Writer
<1>4. UNCHANGED Log!vars => UNCHANGED LogProofs!vars
  BY DEF Log!vars, LogProofs!vars
<1>5. [LogProofs!Next]_(LogProofs!vars)
  BY <1>2, <1>3, <1>4
<1> QED
  BY <1>1, <1>5, LogProofs!NextIInv

(***************************************************************************)
(* In a shared history stream only the workflow of its first message can   *)
(* get a result, however many workflows were started: a corollary of the   *)
(* refinement and of FirstWorkflowOnly of HistoryLogProofs.                *)
(***************************************************************************)
THEOREM OnlyFirstWorkflowCompletes == Spec => []OnlyFirstCompletes
<1>1. EngineInv /\ LogProofs!IInv => OnlyFirstCompletes
  <2> SUFFICES ASSUME EngineInv, LogProofs!IInv, NEW w \in Workflow, results[w] # <<>>
               PROVE  w = stream[1].wf
    BY DEF OnlyFirstCompletes
  <2>1. PICK i \in DOMAIN stream : stream[i].wf = w /\ stream[i].ev.kind = "workflow/completed"
    BY DEF EngineInv, ResultsSound
  <2>2. stream[i].ver > 1
    BY <2>1 DEF EngineInv, StreamSound
  <2>3. stream \in Seq(Msg)
    BY EngineTypes DEF Msg
  <2>4. \A j \in DOMAIN Plain(stream) :
          Plain(stream)[j].ver > 1 => Plain(stream)[j].wf = Plain(stream)[1].wf
    BY DEF LogProofs!IInv, LogProofs!OnlyFirstWorkflowAdvances, Plain
  <2>5. 1 \in DOMAIN stream
    BY <2>1, EngineTypes
  <2> QED
    BY <2>1, <2>2, <2>3, <2>4, <2>5, PlainFields
<1> QED
  BY <1>1, LogInvInit, LogInvNext, EngineInvInit, EngineInvNext, PTL DEF Spec

-----------------------------------------------------------------------------
(***************************************************************************)
(* At most once.  A workflow whose function is sequential is at one place  *)
(* at a time, as long as acknowledgements arrive: an event that a          *)
(* projector still has to answer, a sleeping retry, a task in a queue, or  *)
(* a goroutine that is saving.  Each of these is a piece of work, and      *)
(* carries the activities that were called and have not ended.             *)
(***************************************************************************)

\* The activity whose end event e announces to a reader.
Expecting(e) == IF e.kind \in {"activity/scheduled", "activity/retried"} THEN {e.fn} ELSE {}

\* The activity that event e is about the end of an attempt of.
Ending(e) ==
  IF e.kind \in {"activity/completed", "activity/failed", "activity/retried"} THEN {e.fn} ELSE {}

\* The activity that task t is to execute.
Asked(t) == IF t.q = "act" THEN {t.fn} ELSE {}

\* Projector p goes on with the workflow when it is delivered event e.
Reads(p, e) ==
  \/ p = "wf"    /\ (e.kind = "workflow/started" \/ IsRecord(e))
  \/ p = "act"   /\ e.kind = "activity/scheduled"
  \/ p = "retry" /\ e.kind = "activity/retried"

Pending(p, i) == i > cons[p].last \/ i \in cons[p].unsettled

Unanswered(i) == \E p \in Projector : Reads(p, stream[i].ev) /\ Pending(p, i)

EventWork(w) == {<<"event", i, Expecting(stream[i].ev)>> : i \in {j \in Positions(w) : Unanswered(j)}}
TimerWork(w) == {<<"timer", i, Expecting(stream[i].ev)>> : i \in {j \in Positions(w) : timers[j] > 0}}
TaskWork(w)  == {<<"task", m.id, Asked(m.task)>> : m \in {k \in tasks : k.task.wf = w}}
SaveWork(w)  == {<<"save", r.at, Ending(r.events[1])>> :
                   r \in {q \in runs : q.wf = w /\ q.pc # "decided" /\ ~q.err}}

Work(w) == EventWork(w) \union TimerWork(w) \union TaskWork(w) \union SaveWork(w)

Scheduled(w, f) == Count(w, f, {"activity/scheduled"})
Ended(w, f)     == Count(w, f, {"activity/completed", "activity/failed"})

\* The calls of w that have not ended are one of each activity in C.
CallsAre(w, C) == \A f \in Fn : Scheduled(w, f) = Ended(w, f) + IF f \in C THEN 1 ELSE 0

\* The outcomes of activity f in the history of w up to sequence n.
OutcomesUpTo(w, n, f) ==
  {i \in Positions(w) : i <= n /\ IsRecord(stream[i].ev) /\ stream[i].ev.fn = f}

\* A decision that is taken on the history of w up to n records one event, and
\* schedules only a call that the function still has to make after the outcomes
\* in there.
DecisionFits(w, n, d) ==
  /\ Len(d.events) <= 1
  /\ \A k \in DOMAIN d.events :
       /\ d.err => d.events[k].kind = "workflow/failed"
       /\ d.events[k].kind = "activity/scheduled" =>
            Cardinality(OutcomesUpTo(w, n, d.events[k].fn)) + 1 <= CallsOf(d.events[k].fn)

\* Goroutine r works on task m, which nobody else can receive.
HasTask(r, m) ==
  /\ m.id = r.tid /\ m.task.wf = r.wf /\ ~m.ready
  /\ \A k \in DOMAIN r.events : Ending(r.events[k]) = Asked(m.task)

OnePlace == \A w \in Workflow : \A a, b \in Work(w) : a = b
WorkFits == \A w \in Workflow : \A a \in Work(w) : CallsAre(w, a[3])
OneTimer == \A i \in 1..MaxLen : timers[i] <= 1
CallsFit ==
  \A w \in Workflow, f \in Fn : Ended(w, f) <= Scheduled(w, f) /\ Scheduled(w, f) <= CallsOf(f)

RunsHaveTasks ==
  /\ \A r \in runs : r.pc = "decided" => \E m \in tasks : HasTask(r, m)
  /\ \A r \in runs : r.pc # "decided" => r.tid = 0
  /\ \A r, q \in runs : r.pc = "decided" /\ q.pc = "decided" /\ r.tid = q.tid => r = q

TasksBegun == \A m \in tasks : Positions(m.task.wf) # {}

Begun ==
  \A i \in DOMAIN stream :
    \E j \in Positions(stream[i].wf) : stream[j].ev.kind = "workflow/started"

\* Nothing is left to do for a completed workflow.
Final ==
  \A i \in DOMAIN stream : stream[i].ev.kind = "workflow/completed" => Work(stream[i].wf) = {}

\* What still runs for a completed workflow has read less than its whole history.
RunFits(r) ==
  /\ DecisionFits(r.wf, r.pos, r)
  /\ \A i \in Positions(r.wf) : stream[i].ev.kind = "workflow/completed" => r.pos < i

Acknowledged == budget["ackloss"] = 0 /\ budget["slow"] = 0

OnceInv ==
  /\ OnePlace /\ WorkFits /\ OneTimer /\ CallsFit
  /\ \A r \in runs : RunFits(r)
  /\ RunsHaveTasks /\ TasksBegun /\ Begun /\ Final /\ Acknowledged

-----------------------------------------------------------------------------
(* A Save that is accepted, and the outcomes that a replay has read.       *)

\* The JetStream server accepts a Save only from a goroutine that has read the
\* whole history of its workflow.
LEMMA SaveIsCurrent ==
  ASSUME EngineInv, LogProofs!IInv, NEW r \in runs, Accepted(r)
  PROVE  \A j \in Positions(r.wf) : j <= r.pos
<1>1. PICK l : l = Loaded(stream, r)
  OBVIOUS
<1>2. l \in LoadedBy(stream, runs) /\ l.wf = r.wf /\ l.pos = r.pos /\ l.version = stream[r.pos].ver
  BY <1>1 DEF LoadedBy, Loaded
<1>3. Log!LastSeqIs(r.wf, LastSeq(r.wf)) /\ LastSeq(r.wf) = stream[r.pos].ver
  BY LastSeqIsLast DEF Accepted
<1>4. LogProofs!LastSeqIs(l.wf, l.version)
  BY <1>2, <1>3 DEF Log!LastSeqIs, LogProofs!LastSeqIs
<1>5. l \in {[by |-> q.at, wf |-> q.wf, pos |-> q.pos, version |-> stream[q.pos].ver,
              ensured |-> q.pc = "ensured"] : q \in runs}
  BY <1>2 DEF LoadedBy, Loaded
<1>6. MaxLen \in Nat /\ MaxLen \in Nat
  BY EngineAssumption
<1>7. \A j \in DOMAIN Plain(stream) : Plain(stream)[j].wf = l.wf => j <= l.pos
  BY <1>4, <1>5, <1>6, LogProofs!AcceptedIsComplete DEF Plain
<1>8. stream \in Seq(Msg)
  BY EngineTypes DEF Msg
<1> QED
  BY <1>2, <1>7, <1>8, PlainFields DEF Positions

\* The positions of a workflow are finitely many.
LEMMA PositionsFinite ==
  ASSUME EngineInv, NEW w
  PROVE  Positions(w) \subseteq 1..Len(stream) /\ IsFiniteSet(Positions(w))
<1>1. Len(stream) \in Nat /\ Positions(w) \subseteq 1..Len(stream)
  BY EngineTypes DEF Positions
<1>2. IsFiniteSet(1..Len(stream))
  BY <1>1, FS_Interval
<1> QED
  BY <1>1, <1>2, FS_Subset

\* What is counted in a history is a number.
LEMMA CountType ==
  ASSUME EngineInv, NEW w, NEW f, NEW kinds
  PROVE  Count(w, f, kinds) \in Nat
<1> DEFINE S == {i \in Positions(w) : stream[i].ev.fn = f /\ stream[i].ev.kind \in kinds}
<1>1. IsFiniteSet(S)
  BY PositionsFinite, FS_Subset
<1> QED
  BY <1>1, FS_CardinalityType DEF Count

\* A message that is appended is counted once.
LEMMA CountAppend ==
  ASSUME EngineInv, NEW msg \in Msg, stream' = Append(stream, msg),
         NEW w, NEW f, NEW kinds
  PROVE  Count(w, f, kinds)' =
           IF msg.wf = w /\ msg.ev.fn = f /\ msg.ev.kind \in kinds
           THEN Count(w, f, kinds) + 1 ELSE Count(w, f, kinds)
<1> DEFINE n == Len(stream)
           S == {i \in Positions(w) : stream[i].ev.fn = f /\ stream[i].ev.kind \in kinds}
           T == {i \in Positions(w)' : stream'[i].ev.fn = f /\ stream'[i].ev.kind \in kinds}
<1>1. /\ n \in Nat /\ DOMAIN stream = 1..n /\ DOMAIN stream' = 1..(n + 1)
      /\ stream'[n + 1] = msg /\ \A i \in 1..n : stream'[i] = stream[i]
  BY EngineTypes DEF Msg
<1>2. IsFiniteSet(S) /\ S \subseteq 1..n
  BY PositionsFinite, FS_Subset
<1>3. n + 1 \notin 1..n /\ n + 1 \in 1..(n + 1) /\ \A i : i \in 1..(n + 1) <=> i \in 1..n \/ i = n + 1
  BY <1>1
<1>4. T = IF msg.wf = w /\ msg.ev.fn = f /\ msg.ev.kind \in kinds THEN S \union {n + 1} ELSE S
  <2> HIDE DEF n
  <2> QED
    BY <1>1, <1>3 DEF Positions
<1>5. n + 1 \notin S
  BY <1>2, <1>3
<1> HIDE DEF S, n
<1>6. Cardinality(S \union {n + 1}) = Cardinality(S) + 1
  BY <1>2, <1>5, FS_AddElement
<1> QED
  BY <1>4, <1>6 DEF Count, S

\* The outcomes of an activity among the first n messages.
RecordsAt(s, w, f, n) ==
  {i \in 1..n : s[i].wf = w /\ IsRecord(s[i].ev) /\ s[i].ev.fn = f}

\* A replay has as many records of an activity as the history it read has outcomes.
LEMMA RecordsCount ==
  ASSUME NEW s, Len(s) \in Nat, NEW w, NEW f \in Fn,
         \A i \in 1..Len(s) : s[i].ev \in EventType
  PROVE  \A n \in 0..Len(s) :
           /\ IsFiniteSet(RecordsAt(s, w, f, n))
           /\ Len(Records(EventsIn(s, w)[n])[f]) = Cardinality(RecordsAt(s, w, f, n))
<1> DEFINE l == Len(s)
           a == EventsIn(s, w)
           R(n) == RecordsAt(s, w, f, n)
           S == {i \in 0..l : IsFiniteSet(R(i)) /\ Len(Records(a[i])[f]) = Cardinality(R(i))}
<1>1. \A i \in 0..l : a[i] \in Seq(EventType) /\ AreRecords(Records(a[i]))
  BY EventsType, RecordsGrow
<1>2. a[0] = <<>>
  BY EventsUnfold
<1>3. \A i \in 0..(l - 1) : a[i + 1] = IF s[i + 1].wf = w THEN Append(a[i], s[i + 1].ev) ELSE a[i]
  BY EventsUnfold
<1> HIDE DEF a
<1>4. 0 \in S
  <2>1. R(0) = {}
    BY DEF RecordsAt
  <2>2. Records(<<>>) = [g \in Fn |-> <<>>]
    <3>1. Len(<<>>) = 0 /\ Len(<<>>) \in Nat
      OBVIOUS
    <3> QED
      BY <3>1, AppliedUnfolds DEF Records, IsApplied
  <2>3. Len(Records(a[0])[f]) = 0
    BY <1>2, <2>2
  <2>4. IsFiniteSet(R(0)) /\ Cardinality(R(0)) = 0
    BY <2>1, FS_EmptySet
  <2>5. 0 \in 0..l
    OBVIOUS
  <2> HIDE DEF R, l
  <2> QED
    BY <2>3, <2>4, <2>5
<1>5. ASSUME NEW i \in 0..(l - 1), i \in S PROVE i + 1 \in S
  <2>1. /\ i \in 0..l /\ i + 1 \in 0..l /\ i + 1 \in 1..l /\ i + 1 \notin 1..i
        /\ \A k : k \in 1..(i + 1) <=> k \in 1..i \/ k = i + 1
    OBVIOUS
  <2>2. IsFiniteSet(R(i)) /\ Len(Records(a[i])[f]) = Cardinality(R(i)) /\ i + 1 \notin R(i)
    BY <1>5, <2>1 DEF RecordsAt
  <2>3. R(i + 1) = IF s[i + 1].wf = w /\ IsRecord(s[i + 1].ev) /\ s[i + 1].ev.fn = f
                   THEN R(i) \union {i + 1} ELSE R(i)
    BY <2>1 DEF RecordsAt
  <2>4. a[i] \in Seq(EventType) /\ AreRecords(Records(a[i])) /\ s[i + 1].ev \in EventType
    BY <1>1, <2>1
  <2>5. a[i + 1] = IF s[i + 1].wf = w THEN Append(a[i], s[i + 1].ev) ELSE a[i]
    BY <1>3
  <2> DEFINE e == s[i + 1].ev
             rs == Records(a[i])
  <2> HIDE DEF R, l
  <2>6. s[i + 1].wf = w => Records(a[i + 1]) = Apply(rs, e)
    BY <2>4, <2>5, RecordsAppend
  <2>7. rs[f] \in Seq(OutcomeType) /\ f \in DOMAIN rs
    BY <2>4 DEF AreRecords
  <2>8. IsRecord(e) /\ e.fn = f => Len(Apply(rs, e)[f]) = Len(rs[f]) + 1
    <3> HIDE DEF rs, e
    <3>1. ASSUME IsRecord(e), e.fn = f PROVE Apply(rs, e)[f] = Append(rs[f], e)
      BY <2>7, <3>1 DEF Apply
    <3>2. Len(Append(rs[f], e)) = Len(rs[f]) + 1
      BY <2>7
    <3> QED
      BY <3>1, <3>2
  <2>9. ~(IsRecord(e) /\ e.fn = f) => Apply(rs, e)[f] = rs[f]
    <3> HIDE DEF rs, e
    <3> QED
      BY <2>7 DEF Apply
  <2>10. Cardinality(R(i) \union {i + 1}) = Cardinality(R(i)) + 1 /\ IsFiniteSet(R(i) \union {i + 1})
    BY <2>2, FS_AddElement
  <2>11. CASE s[i + 1].wf = w /\ IsRecord(e) /\ e.fn = f
    BY <2>1, <2>2, <2>3, <2>6, <2>8, <2>10, <2>11
  <2>12. CASE ~(s[i + 1].wf = w /\ IsRecord(e) /\ e.fn = f)
    <3>1. Records(a[i + 1])[f] = rs[f]
      BY <2>5, <2>6, <2>9, <2>12
    <3> QED
      BY <2>1, <2>2, <2>3, <2>12, <3>1
  <2> QED
    BY <2>11, <2>12
<1>6. 0..l \subseteq S
  <2> HIDE DEF S, l
  <2> QED
    BY <1>4, <1>5, InductUpTo DEF l
<1>7. \A n \in 0..l : IsFiniteSet(R(n)) /\ Len(Records(a[n])[f]) = Cardinality(R(n))
  BY <1>6
<1> QED
  BY <1>7 DEF a

\* What a worker decides for a sequential function: one event at most, about the
\* activity it was asked to execute, or one call that is still to be made.
LEMMA DecisionShape ==
  ASSUME EngineInv, IsSequential(Program), NEW x \in Worker, NEW m \in tasks,
         NEW n \in Positions(m.task.wf), NEW d \in Decisions(x, m.task, n)
  PROVE  /\ DecisionFits(m.task.wf, n, d)
         /\ \A k \in DOMAIN d.events : Ending(d.events[k]) = Asked(m.task)
<1> DEFINE t == m.task
           w == m.task.wf
           rs == Records(EventsOf(w, n))
<1>1. t.q \in {"wf", "act"} /\ (t.q = "act" => t.fn \in Fn)
  BY DEF EngineInv, TypeOK, TaskType, TasksSound
<1>2. /\ n \in DOMAIN stream /\ n \in 0..Len(stream) /\ Len(stream) \in Nat
      /\ DOMAIN stream = 1..Len(stream)
      /\ \A i \in 1..Len(stream) : stream[i].ev \in EventType
  BY EngineTypes DEF Positions
<1>3. CASE t.q = "wf" /\ d = WorkflowNotRegistered
  <2>1. d.events = <<WorkflowFailed>>
    BY <1>3 DEF WorkflowNotRegistered
  <2>2. Len(d.events) = 1 /\ \A k \in DOMAIN d.events : d.events[k] = WorkflowFailed
    BY <2>1
  <2>3. WorkflowFailed.kind = "workflow/failed"
    BY DEF WorkflowFailed, Ev
  <2> QED
    BY <1>3, <2>2, <2>3 DEF DecisionFits, Ending, Asked
<1>4. CASE d = ActivityNotRegistered
  <2>1. d.events = <<>>
    BY <1>4 DEF ActivityNotRegistered
  <2>2. Len(d.events) = 0 /\ DOMAIN d.events = {}
    BY <2>1
  <2> QED
    BY <2>2 DEF DecisionFits
<1>5. CASE t.q = "wf" /\ d = ProcessWorkflowTask(Program, rs)
  <2>1. AreRecords(rs)
    BY <1>2, RecordsGrow DEF EventsOf
  <2>2. PICK s : s = RunProgram(Program, rs)
    OBVIOUS
  <2>3. /\ s.events \in Seq(CallType)
        /\ s.out \in {"running", "blocked", "panicked", "error"} /\ DecidedBy(s, d)
    BY <1>5, <2>1, <2>2, RunIsTyped
  <2>4. s.events # <<>> =>
          /\ Len(s.events) = 1 /\ s.out = "blocked"
          /\ Len(rs[s.events[1].fn]) + 1
               <= Cardinality(CallsUpTo(Program, s.events[1].fn, Len(Program)))
    BY <2>1, <2>2, SequentialRun, EngineAssumption
  <2>5. \A f \in Fn : Len(rs[f]) = Cardinality(OutcomesUpTo(w, n, f))
    <3>1. ASSUME NEW f \in Fn PROVE OutcomesUpTo(w, n, f) = RecordsAt(stream, w, f, n)
      BY <1>2 DEF OutcomesUpTo, RecordsAt, Positions
    <3> QED
      BY <1>2, <3>1, RecordsCount DEF EventsOf
  <2>6. \A f \in Fn : CallsOf(f) = Cardinality(CallsUpTo(Program, f, Len(Program)))
    <3>1. DOMAIN Program = 1..Len(Program)
      BY EngineAssumption DEF IsProgram
    <3> QED
      BY <3>1 DEF CallsOf, CallsUpTo
  <2> HIDE DEF rs, w, t
  <2>7. CASE s.events # <<>>
    <3>1. d.events = s.events /\ d.err = FALSE /\ Len(s.events) = 1
      BY <2>3, <2>4, <2>7 DEF DecidedBy
    <3>2. DOMAIN s.events = {1} /\ s.events[1] \in CallType
      BY <2>3, <3>1
    <3>3. s.events[1].kind = "activity/scheduled" /\ s.events[1].fn \in Fn
      BY <3>2 DEF CallType
    <3>4. Cardinality(OutcomesUpTo(w, n, s.events[1].fn)) + 1 <= CallsOf(s.events[1].fn)
      BY <2>4, <2>5, <2>6, <2>7, <3>3
    <3> QED
      BY <1>5, <3>1, <3>2, <3>3, <3>4 DEF DecisionFits, Ending, Asked, t, w
  <2>8. CASE s.events = <<>> /\ s.out = "blocked"
    <3>1. Len(d.events) = 0 /\ DOMAIN d.events = {}
      BY <2>3, <2>8 DEF DecidedBy
    <3> QED
      BY <3>1 DEF DecisionFits
  <2>9. CASE s.events = <<>> /\ s.out # "blocked"
    <3>1. PICK e : /\ d.events = Append(s.events, e)
                   /\ e.kind \in {"workflow/failed", "workflow/completed"}
                   /\ d.err => e.kind = "workflow/failed"
      BY <2>3, <2>9 DEF DecidedBy, WorkflowFailed, WorkflowCompleted, Ev
    <3>2. Len(d.events) = 1 /\ \A k \in DOMAIN d.events : d.events[k] = e
      BY <2>9, <3>1
    <3> QED
      BY <1>5, <3>1, <3>2 DEF DecisionFits, Ending, Asked, t, w
  <2> QED
    BY <2>7, <2>8, <2>9
<1>6. ASSUME t.q = "act", NEW o, d = ProcessActivityTask(t, o)
      PROVE  /\ DecisionFits(w, n, d)
             /\ \A k \in DOMAIN d.events : Ending(d.events[k]) = Asked(t)
  <2> HIDE DEF t, w
  <2>1. d.err = FALSE
    BY <1>6 DEF ProcessActivityTask
  <2>2. PICK e : /\ d.events = <<e>> /\ e.fn = t.fn
                 /\ e.kind \in {"activity/completed", "activity/failed", "activity/retried"}
    <3>1. PICK e \in {ActivityCompleted(t.fn, t.val), ActivityFailed(t.fn),
                      ActivityRetried(t.fn, t.attempt)} : d.events = <<e>>
      BY <1>6 DEF ProcessActivityTask
    <3>2. e.fn = t.fn /\ e.kind \in {"activity/completed", "activity/failed", "activity/retried"}
      BY DEF ActivityCompleted, ActivityFailed, ActivityRetried, Ev
    <3> QED
      BY <3>1, <3>2
  <2>3. Len(d.events) = 1 /\ \A k \in DOMAIN d.events : d.events[k] = e
    BY <2>2
  <2> QED
    BY <1>6, <2>1, <2>2, <2>3 DEF DecisionFits, Ending, Asked
<1>7. \/ t.q = "wf" /\ d = WorkflowNotRegistered
      \/ d = ActivityNotRegistered
      \/ t.q = "wf" /\ d = ProcessWorkflowTask(Program, rs)
      \/ t.q = "act" /\ \E o : d = ProcessActivityTask(t, o)
  <2>1. CASE t.fn \notin Registry[x]
    <3>1. d \in {IF t.q = "wf" THEN WorkflowNotRegistered ELSE ActivityNotRegistered}
      BY <2>1 DEF Decisions
    <3> QED
      BY <3>1
  <2>2. CASE t.fn \in Registry[x] /\ t.q = "wf"
    <3>1. d \in {ProcessWorkflowTask(Program, rs)}
      BY <2>2 DEF Decisions
    <3> QED
      BY <2>2, <3>1
  <2>3. CASE t.fn \in Registry[x] /\ t.q = "act"
    <3>1. d \in {ProcessActivityTask(t, o) : o \in Outcomes[t.fn] \ {"panic"}}
      BY <2>3 DEF Decisions
    <3> QED
      BY <2>3, <3>1
  <2> QED
    BY <1>1, <2>1, <2>2, <2>3
<1> QED
  BY <1>3, <1>4, <1>5, <1>6, <1>7

-----------------------------------------------------------------------------
(* Steps that append nothing: work is dropped or handed on.                *)

\* The work of w shrinks, or a piece of it becomes another one with the same calls.
Handed(w) ==
  \/ Work(w)' \subseteq Work(w)
  \/ \E a \in Work(w) : \E b : b[3] = a[3] /\ Work(w)' \subseteq (Work(w) \ {a}) \union {b}

\* Handing work on keeps a workflow at one place, with the calls it has.
LEMMA HandOver ==
  ASSUME EngineInv, OnceInv, UNCHANGED stream, \A w \in Workflow : Handed(w),
         \A r \in runs' : RunFits(r), OneTimer', RunsHaveTasks', TasksBegun', Acknowledged'
  PROVE  OnceInv'
<1>1. \A w : Positions(w)' = Positions(w)
  BY DEF Positions
<1>2. \A w, f, kinds : Count(w, f, kinds)' = Count(w, f, kinds)
  BY <1>1 DEF Count
<1>3. \A w, C : CallsAre(w, C)' <=> CallsAre(w, C)
  BY <1>2 DEF CallsAre, Scheduled, Ended
<1>4. ASSUME NEW w \in Workflow
      PROVE  /\ \A a, b \in Work(w)' : a = b
             /\ \A b \in Work(w)' : CallsAre(w, b[3])'
             /\ Work(w) = {} => Work(w)' = {}
  <2>1. (\A a, b \in Work(w) : a = b) /\ (\A a \in Work(w) : CallsAre(w, a[3]))
    BY DEF OnceInv, OnePlace, WorkFits
  <2>2. Handed(w)
    OBVIOUS
  <2>3. CASE Work(w)' \subseteq Work(w)
    BY <1>3, <2>1, <2>3
  <2>4. CASE \E a \in Work(w) : \E b : b[3] = a[3] /\ Work(w)' \subseteq (Work(w) \ {a}) \union {b}
    <3>1. PICK a \in Work(w) :
            \E b : b[3] = a[3] /\ Work(w)' \subseteq (Work(w) \ {a}) \union {b}
      BY <2>4
    <3>2. PICK b : b[3] = a[3] /\ Work(w)' \subseteq (Work(w) \ {a}) \union {b}
      BY <3>1
    <3>3. Work(w)' \subseteq {b} /\ CallsAre(w, b[3])
      BY <2>1, <3>1, <3>2
    <3> QED
      BY <1>3, <3>1, <3>3
  <2> QED
    BY <2>2, <2>3, <2>4 DEF Handed
<1>5. OnePlace' /\ WorkFits'
  BY <1>4 DEF OnePlace, WorkFits
<1>6. CallsFit'
  BY <1>2 DEF OnceInv, CallsFit, Scheduled, Ended
<1>7. \A r \in runs' : RunFits(r)'
  <2>1. \A w, n, f : OutcomesUpTo(w, n, f)' = OutcomesUpTo(w, n, f)
    BY <1>1 DEF OutcomesUpTo
  <2> QED
    BY <1>1, <2>1 DEF RunFits, DecisionFits
<1>8. Begun'
  BY <1>1 DEF OnceInv, Begun
<1>9. Final'
  BY <1>4, EngineTypes DEF OnceInv, Final
<1> QED
  BY <1>5, <1>6, <1>7, <1>8, <1>9 DEF OnceInv

\* The pieces of work are told apart by their kind.
LEMMA WorkKinds ==
  ASSUME NEW w
  PROVE  /\ \A a \in EventWork(w) : a[1] = "event"
         /\ \A a \in TimerWork(w) : a[1] = "timer"
         /\ \A a \in TaskWork(w) : a[1] = "task"
         /\ \A a \in SaveWork(w) : a[1] = "save"
  BY DEF EventWork, TimerWork, TaskWork, SaveWork

\* What a step leaves alone makes no work.
LEMMA QuietWork ==
  ASSUME UNCHANGED stream, NEW w
  PROVE  /\ UNCHANGED cons => EventWork(w)' = EventWork(w)
         /\ UNCHANGED timers => TimerWork(w)' = TimerWork(w)
         /\ UNCHANGED tasks => TaskWork(w)' = TaskWork(w)
         /\ UNCHANGED runs => SaveWork(w)' = SaveWork(w)
<1>1. Positions(w)' = Positions(w)
  BY DEF Positions
<1>2. UNCHANGED cons => EventWork(w)' = EventWork(w)
  BY <1>1 DEF EventWork, Unanswered, Pending
<1>3. UNCHANGED timers => TimerWork(w)' = TimerWork(w)
  BY <1>1 DEF TimerWork
<1>4. UNCHANGED tasks => TaskWork(w)' = TaskWork(w)
  BY DEF TaskWork
<1>5. UNCHANGED runs => SaveWork(w)' = SaveWork(w)
  BY DEF SaveWork
<1> QED
  BY <1>2, <1>3, <1>4, <1>5

\* A consumer that settles or keeps a message has no more to deliver than before.
LEMMA EventWorkShrinks ==
  ASSUME EngineInv, UNCHANGED stream, NEW p \in Projector, NEW i \in Deliverable(p),
         Settle(p, i) \/ Keep(p, i), NEW w
  PROVE  EventWork(w)' \subseteq EventWork(w)
<1>1. PICK c : cons' = [cons EXCEPT ![p] = c] /\ c.last = Max({cons[p].last, i})
                /\ c.unsettled \subseteq cons[p].unsettled \union {i}
  BY DEF Settle, Keep
<1>2. i \in Nat /\ cons[p].last \in Nat /\ (i = cons[p].last + 1 \/ i \in cons[p].unsettled)
  BY DeliverableStored, EngineTypes DEF EngineInv, TypeOK, Deliverable
<1>3. cons[p].last <= c.last /\ c.last \in Nat
  BY <1>1, <1>2, MaxOfTwo
<1>4. cons \in [Projector -> [last : 0..Len(stream), unsettled : SUBSET (1..Len(stream))]]
  BY DEF EngineInv, TypeOK
<1>5. cons'[p] = c /\ \A q \in Projector : q # p => cons'[q] = cons[q]
  BY <1>1, <1>4
<1>6. \A q \in Projector, j \in DOMAIN stream : Pending(q, j)' => Pending(q, j)
  BY <1>1, <1>2, <1>3, <1>5, EngineTypes DEF Pending
<1>7. Positions(w)' = Positions(w) /\ Positions(w) \subseteq DOMAIN stream
  BY DEF Positions
<1>8. \A j \in Positions(w) : Unanswered(j)' => Unanswered(j)
  BY <1>6, <1>7 DEF Unanswered
<1> QED
  BY <1>7, <1>8 DEF EventWork

\* The event that a projector settles is no longer work, and was.
LEMMA EventWorkLeaves ==
  ASSUME EngineInv, UNCHANGED stream, NEW p \in Projector, NEW i \in Deliverable(p),
         Settle(p, i), Reads(p, stream[i].ev)
  PROVE  LET a == <<"event", i, Expecting(stream[i].ev)>> IN
         /\ a \in EventWork(stream[i].wf)
         /\ \A w : EventWork(w)' \subseteq EventWork(w) \ {a}
<1> DEFINE a == <<"event", i, Expecting(stream[i].ev)>>
<1>1. i \in DOMAIN stream /\ i \in Nat
  BY DeliverableStored, EngineTypes
<1>2. i = cons[p].last + 1 \/ i \in cons[p].unsettled
  BY DEF Deliverable
<1>3. cons \in [Projector -> [last : 0..Len(stream), unsettled : SUBSET (1..Len(stream))]]
  BY DEF EngineInv, TypeOK
<1>4. Pending(p, i)
  BY <1>1, <1>2, <1>3, EngineTypes DEF Pending
<1>5. a \in EventWork(stream[i].wf)
  BY <1>1, <1>4 DEF EventWork, Unanswered, Positions
<1>6. PICK c : cons' = [cons EXCEPT ![p] = c] /\ c.last = Max({cons[p].last, i})
                /\ c.unsettled = cons[p].unsettled \ {i}
  <2>1. PICK c : c = [last |-> Max({cons[p].last, i}), unsettled |-> cons[p].unsettled \ {i}]
    OBVIOUS
  <2>2. cons' = [cons EXCEPT ![p] = c]
    BY <2>1 DEF Settle
  <2>3. c.last = Max({cons[p].last, i}) /\ c.unsettled = cons[p].unsettled \ {i}
    BY <2>1
  <2> QED
    BY <2>2, <2>3
<1>7. i <= c.last /\ c.last \in Nat
  <2>1. cons[p].last \in Nat
    BY <1>3, EngineTypes
  <2> QED
    BY <1>1, <1>6, <2>1, MaxOfTwo
<1>8. ~Pending(p, i)'
  BY <1>1, <1>3, <1>6, <1>7 DEF Pending
<1>9. ~Unanswered(i)'
  <2>1. \A q \in Projector : Reads(q, stream[i].ev) => q = p
    BY DEF Reads, IsRecord
  <2> QED
    BY <1>8, <2>1 DEF Unanswered
<1>10. ASSUME NEW w PROVE EventWork(w)' \subseteq EventWork(w) \ {a}
  <2>1. EventWork(w)' \subseteq EventWork(w)
    BY EventWorkShrinks
  <2>2. a \notin EventWork(w)'
    BY <1>9 DEF EventWork
  <2> QED
    BY <2>1, <2>2
<1> QED
  BY <1>5, <1>10

\* A task that is published is the only new work.
LEMMA TaskWorkGrows ==
  ASSUME EngineInv, NEW t, Enqueue(t)
  PROVE  \E id : /\ id \in (1..MaxTasks) \ UsedIds
                 /\ tasks' = tasks \union {[id |-> id, task |-> t, ready |-> TRUE]}
                 /\ TaskWork(t.wf)' \subseteq TaskWork(t.wf) \union {<<"task", id, Asked(t)>>}
                 /\ \A w : w # t.wf => TaskWork(w)' \subseteq TaskWork(w)
<1>1. PICK id : /\ id = Min((1..MaxTasks) \ UsedIds)
                /\ tasks' = tasks \union {[id |-> id, task |-> t, ready |-> TRUE]}
  BY DEF Enqueue
<1>2. id \in (1..MaxTasks) \ UsedIds
  <2>1. (1..MaxTasks) \ UsedIds \subseteq Nat /\ (1..MaxTasks) \ UsedIds # {}
    BY DEF Enqueue
  <2> QED
    BY <1>1, <2>1, MinOfSome
<1>3. PICK m : m = [id |-> id, task |-> t, ready |-> TRUE]
  OBVIOUS
<1>4. m.id = id /\ m.task = t /\ tasks' = tasks \union {m}
  BY <1>1, <1>3
<1>5. TaskWork(t.wf)' \subseteq TaskWork(t.wf) \union {<<"task", id, Asked(t)>>}
  BY <1>4 DEF TaskWork
<1>6. \A w : w # t.wf => TaskWork(w)' \subseteq TaskWork(w)
  BY <1>4 DEF TaskWork
<1> QED
  BY <1>1, <1>2, <1>5, <1>6

\* While acknowledgements arrive, the other failures change nothing about that.
LEMMA SpendKeeps ==
  ASSUME EngineInv, Acknowledged
  PROVE  /\ UNCHANGED budget => Acknowledged'
         /\ \A k \in FaultKind : Spend(k) => k \notin {"ackloss", "slow"} /\ Acknowledged'
<1>1. budget \in [FaultKind -> Nat] /\ "ackloss" \in FaultKind /\ "slow" \in FaultKind
  BY DEF EngineInv, TypeOK, FaultKind
<1>2. ASSUME NEW k \in FaultKind, Spend(k) PROVE k \notin {"ackloss", "slow"} /\ Acknowledged'
  <2>1. k # "ackloss" /\ k # "slow"
    BY <1>1, <1>2 DEF Spend, Acknowledged
  <2> QED
    BY <1>1, <1>2, <2>1 DEF Spend, Acknowledged
<1> QED
  BY <1>2 DEF Acknowledged

\* Each kind of work shrinks.
LEMMA WorkDropped ==
  ASSUME NEW w, EventWork(w)' \subseteq EventWork(w), TimerWork(w)' \subseteq TimerWork(w),
         TaskWork(w)' \subseteq TaskWork(w), SaveWork(w)' \subseteq SaveWork(w)
  PROVE  Handed(w)
<1>1. Work(w)' \subseteq Work(w)
  BY DEF Work
<1> QED
  BY <1>1 DEF Handed

\* One piece of work gives way to another.
LEMMA WorkMoved ==
  ASSUME NEW w, NEW a \in Work(w), NEW b, b[3] = a[3],
         EventWork(w)' \subseteq (EventWork(w) \ {a}) \union {b},
         TimerWork(w)' \subseteq (TimerWork(w) \ {a}) \union {b},
         TaskWork(w)' \subseteq (TaskWork(w) \ {a}) \union {b},
         SaveWork(w)' \subseteq (SaveWork(w) \ {a}) \union {b}
  PROVE  Handed(w)
<1>1. Work(w)' \subseteq (Work(w) \ {a}) \union {b}
  BY DEF Work
<1> QED
  BY <1>1 DEF Handed

\* A step of the server that hands work on.
LEMMA ServerKeepsOnce ==
  ASSUME EngineInv, OnceInv, UNCHANGED <<stream, runs>>,
         UNCHANGED tasks \/ \E t : Enqueue(t) /\ Positions(t.wf) # {},
         OneTimer', Acknowledged', \A w \in Workflow : Handed(w)
  PROVE  OnceInv'
<1>1. \A w : Positions(w)' = Positions(w)
  BY DEF Positions
<1>2. \/ tasks' = tasks
      \/ \E m : Positions(m.task.wf) # {} /\ tasks' = tasks \union {m}
  <2>1. CASE UNCHANGED tasks
    BY <2>1
  <2>2. CASE \E t : Enqueue(t) /\ Positions(t.wf) # {}
    <3>1. PICK t : Enqueue(t) /\ Positions(t.wf) # {}
      BY <2>2
    <3>2. PICK id : tasks' = tasks \union {[id |-> id, task |-> t, ready |-> TRUE]}
      BY <3>1, TaskWorkGrows
    <3>3. PICK m : m = [id |-> id, task |-> t, ready |-> TRUE]
      OBVIOUS
    <3>4. m.task = t /\ tasks' = tasks \union {m}
      BY <3>2, <3>3
    <3> QED
      BY <3>1, <3>4
  <2> QED
    BY <2>1, <2>2
<1>3. TasksBegun'
  BY <1>1, <1>2 DEF OnceInv, TasksBegun
<1>4. RunsHaveTasks'
  BY <1>2 DEF OnceInv, RunsHaveTasks, HasTask
<1>5. \A r \in runs' : RunFits(r)
  BY DEF OnceInv
<1> QED
  BY <1>3, <1>4, <1>5, HandOver

\* A projector lets an event go, or keeps it.
LEMMA LetGoOnce ==
  ASSUME EngineInv, OnceInv, UNCHANGED <<stream, timers, tasks, runs>>, NEW p \in Projector,
         NEW i \in Deliverable(p), Settle(p, i) \/ Keep(p, i), Acknowledged'
  PROVE  OnceInv'
<1>1. \A w : Handed(w)
  BY QuietWork, EventWorkShrinks, WorkDropped
<1>2. OneTimer'
  BY DEF OnceInv, OneTimer
<1> QED
  BY <1>1, <1>2, ServerKeepsOnce

\* A projector answers an event with a task: the event is handed on to the queue.
LEMMA PublishTaskOnce ==
  ASSUME EngineInv, OnceInv, UNCHANGED <<stream, timers, runs>>, NEW p \in Projector,
         NEW i \in Deliverable(p), Reads(p, stream[i].ev), NEW t, PublishTask(p, i, t),
         t.wf = stream[i].wf, Asked(t) = Expecting(stream[i].ev)
  PROVE  OnceInv'
<1>1. Acknowledged /\ "ackloss" \in FaultKind /\ "publish" \in FaultKind
  BY DEF OnceInv, FaultKind
<1>2. CASE Enqueue(t) /\ Settle(p, i) /\ UNCHANGED budget
  <2> DEFINE v == stream[i].wf
             a == <<"event", i, Expecting(stream[i].ev)>>
  <2>1. i \in Positions(v)
    BY DeliverableStored DEF Positions
  <2>2. PICK id : /\ TaskWork(v)' \subseteq TaskWork(v) \union {<<"task", id, Asked(t)>>}
                  /\ \A w : w # v => TaskWork(w)' \subseteq TaskWork(w)
    BY <1>2, TaskWorkGrows
  <2>3. a \in EventWork(v) /\ \A w : EventWork(w)' \subseteq EventWork(w) \ {a}
    BY <1>2, EventWorkLeaves
  <2>4. \A w : TimerWork(w)' = TimerWork(w) /\ SaveWork(w)' = SaveWork(w)
    BY QuietWork
  <2>5. a[1] = "event" /\ a[3] = Expecting(stream[i].ev)
    OBVIOUS
  <2> DEFINE b == <<"task", id, Asked(t)>>
  <2>6. b[3] = a[3]
    BY <2>5
  <2> HIDE DEF a, b
  <2>7. Handed(v)
    <3>1. a \in Work(v)
      BY <2>3 DEF Work
    <3>2. a \notin TimerWork(v) /\ a \notin TaskWork(v) /\ a \notin SaveWork(v)
      BY <2>5, WorkKinds
    <3>3. TaskWork(v)' \subseteq (TaskWork(v) \ {a}) \union {b}
      BY <2>2, <3>2 DEF b
    <3> QED
      BY <2>3, <2>4, <2>6, <3>1, <3>2, <3>3, WorkMoved
  <2>8. ASSUME NEW w, w # v PROVE Handed(w)
    BY <2>2, <2>3, <2>4, <2>8, WorkDropped
  <2>9. OneTimer' /\ Acknowledged'
    BY <1>1, <1>2 DEF OnceInv, OneTimer, Acknowledged
  <2> QED
    BY <1>2, <2>1, <2>7, <2>8, <2>9, ServerKeepsOnce
<1>3. CASE Enqueue(t) /\ Keep(p, i) /\ Spend("ackloss")
  BY <1>1, <1>3, SpendKeeps
<1>4. CASE Keep(p, i) /\ Spend("publish") /\ UNCHANGED tasks
  BY <1>1, <1>4, SpendKeeps, LetGoOnce
<1> QED
  BY <1>2, <1>3, <1>4 DEF PublishTask

\* WorkflowTasks hands an event on, or lets it go.
LEMMA WorkflowTasksOnce ==
  ASSUME EngineInv, OnceInv, NEW i \in DOMAIN stream, WorkflowTasks(i)
  PROVE  OnceInv'
<1> DEFINE t == Task("wf", stream[i].wf, WorkflowFn, <<>>, 0)
<1>1. i \in Deliverable("wf") /\ "wf" \in Projector /\ Acknowledged /\ "kv" \in FaultKind
  BY DEF WorkflowTasks, Projector, OnceInv, FaultKind
<1>2. UNCHANGED <<stream, timers, runs>>
  BY DEF WorkflowTasks
<1>3. \/ /\ stream[i].ev.kind = "workflow/started" \/ IsRecord(stream[i].ev)
         /\ PublishTask("wf", i, t)
      \/ Settle("wf", i) /\ (UNCHANGED budget \/ Spend("kv")) /\ UNCHANGED tasks
  BY DEF WorkflowTasks, Ignore
<1>4. t.wf = stream[i].wf /\ t.q = "wf"
  BY DEF Task
<1> HIDE DEF t
<1>5. CASE /\ stream[i].ev.kind = "workflow/started" \/ IsRecord(stream[i].ev)
           /\ PublishTask("wf", i, t)
  <2>1. Asked(t) = Expecting(stream[i].ev) /\ Reads("wf", stream[i].ev)
    BY <1>4, <1>5 DEF Asked, Expecting, Reads, IsRecord
  <2> QED
    BY <1>1, <1>2, <1>4, <1>5, <2>1, PublishTaskOnce
<1>6. CASE Settle("wf", i) /\ (UNCHANGED budget \/ Spend("kv")) /\ UNCHANGED tasks
  BY <1>1, <1>2, <1>6, SpendKeeps, LetGoOnce
<1> QED
  BY <1>3, <1>5, <1>6

\* ActivityTasks hands a scheduled call on to the queue.
LEMMA ActivityTasksOnce ==
  ASSUME EngineInv, OnceInv, NEW i \in DOMAIN stream, ActivityTasks(i)
  PROVE  OnceInv'
<1> DEFINE m == stream[i]
           t == Task("act", m.wf, m.ev.fn, m.ev.val, 1)
<1>1. i \in Deliverable("act") /\ "act" \in Projector /\ Acknowledged
  BY DEF ActivityTasks, Projector, OnceInv
<1>2. UNCHANGED <<stream, timers, runs>>
  BY DEF ActivityTasks
<1>3. IF m.ev.kind = "activity/scheduled" THEN PublishTask("act", i, t)
      ELSE Settle("act", i) /\ UNCHANGED <<tasks, budget>>
  BY DEF ActivityTasks, Ignore
<1>4. t.wf = stream[i].wf /\ t.q = "act" /\ t.fn = stream[i].ev.fn
  BY DEF Task
<1> HIDE DEF t
<1>5. CASE m.ev.kind = "activity/scheduled"
  <2>1. Asked(t) = Expecting(stream[i].ev) /\ Reads("act", stream[i].ev)
    BY <1>4, <1>5 DEF Asked, Expecting, Reads
  <2> QED
    BY <1>1, <1>2, <1>3, <1>4, <1>5, <2>1, PublishTaskOnce
<1>6. CASE m.ev.kind # "activity/scheduled"
  BY <1>1, <1>2, <1>3, <1>6, SpendKeeps, LetGoOnce
<1> QED
  BY <1>5, <1>6

\* WorkflowResults only reads events that nothing waits for.
LEMMA WorkflowResultsOnce ==
  ASSUME EngineInv, OnceInv, NEW i \in DOMAIN stream, WorkflowResults(i)
  PROVE  OnceInv'
<1>1. /\ i \in Deliverable("result") /\ "result" \in Projector /\ Acknowledged
      /\ "kv" \in FaultKind /\ "ackloss" \in FaultKind
  BY DEF WorkflowResults, Projector, OnceInv, FaultKind
<1>2. UNCHANGED <<stream, timers, tasks, runs>>
  BY DEF WorkflowResults
<1>3. /\ Settle("result", i) \/ Keep("result", i)
      /\ UNCHANGED budget \/ Spend("kv") \/ Spend("ackloss")
  BY DEF WorkflowResults
<1> QED
  BY <1>1, <1>2, <1>3, SpendKeeps, LetGoOnce

\* ActivityRetries hands a retried attempt on to a sleeping goroutine, its only one.
LEMMA ActivityRetriesOnce ==
  ASSUME EngineInv, OnceInv, NEW i \in DOMAIN stream, ActivityRetries(i)
  PROVE  OnceInv'
<1>1. /\ i \in Deliverable("retry") /\ "retry" \in Projector /\ Acknowledged
      /\ "ackloss" \in FaultKind
  BY DEF ActivityRetries, Projector, OnceInv, FaultKind
<1>2. UNCHANGED <<stream, tasks, runs>>
  BY DEF ActivityRetries
<1>3. CASE stream[i].ev.kind # "activity/retried"
  <2>1. Settle("retry", i) /\ UNCHANGED <<timers, budget>>
    BY <1>3 DEF ActivityRetries
  <2> QED
    BY <1>1, <1>2, <2>1, SpendKeeps, LetGoOnce
<1>4. CASE stream[i].ev.kind = "activity/retried"
  <2> DEFINE v == stream[i].wf
             a == <<"event", i, Expecting(stream[i].ev)>>
             b == <<"timer", i, Expecting(stream[i].ev)>>
  <2>1. Settle("retry", i) /\ UNCHANGED budget /\ timers' = [timers EXCEPT ![i] = @ + 1]
    BY <1>1, <1>4, SpendKeeps DEF ActivityRetries
  <2>2. a \in EventWork(v) /\ \A w : EventWork(w)' \subseteq EventWork(w) \ {a}
    BY <1>1, <1>2, <1>4, <2>1, EventWorkLeaves DEF Reads
  <2>3. i \in 1..MaxLen /\ timers \in [1..MaxLen -> Nat] /\ v \in Workflow
    BY StoredEvent DEF EngineInv, TypeOK
  <2>4. a \in Work(v) /\ a[1] = "event" /\ b[1] = "timer" /\ b[3] = a[3]
    BY <2>2 DEF Work
  <2>5. timers[i] = 0
    <3>1. SUFFICES ASSUME timers[i] > 0 PROVE FALSE
      BY <2>3
    <3>2. b \in TimerWork(v)
      BY <3>1 DEF TimerWork, Positions
    <3>3. a = b
      BY <2>3, <2>4, <3>2 DEF OnceInv, OnePlace, Work
    <3> QED
      BY <2>4, <3>3
  <2>6. timers'[i] = 1 /\ \A j \in 1..MaxLen : j # i => timers'[j] = timers[j]
    BY <2>1, <2>3, <2>5
  <2>7. OneTimer' /\ Acknowledged'
    BY <1>1, <2>1, <2>6 DEF OnceInv, OneTimer, Acknowledged
  <2>8. ASSUME NEW w PROVE TimerWork(w)' \subseteq TimerWork(w) \union (IF w = v THEN {b} ELSE {})
    <3>1. Positions(w)' = Positions(w) /\ Positions(w) \subseteq 1..MaxLen
      BY <1>2, EngineTypes DEF Positions
    <3>2. ASSUME NEW j \in Positions(w), timers'[j] > 0
          PROVE  timers[j] > 0 \/ (j = i /\ w = v)
      BY <2>6, <3>1, <3>2 DEF Positions
    <3> QED
      BY <1>2, <3>1, <3>2 DEF TimerWork
  <2>9. \A w : TaskWork(w)' = TaskWork(w) /\ SaveWork(w)' = SaveWork(w)
    BY <1>2, QuietWork
  <2> HIDE DEF a, b
  <2>10. Handed(v)
    <3>1. a \notin TimerWork(v) /\ a \notin TaskWork(v) /\ a \notin SaveWork(v)
      BY <2>4, WorkKinds
    <3> QED
      BY <2>2, <2>4, <2>8, <2>9, <3>1, WorkMoved
  <2>11. ASSUME NEW w, w # v PROVE Handed(w)
    BY <2>2, <2>8, <2>9, <2>11, WorkDropped
  <2> QED
    BY <1>2, <2>7, <2>10, <2>11, ServerKeepsOnce
<1> QED
  BY <1>3, <1>4

\* FireRetry hands the retry of a sleeping goroutine on to the queue, or loses it.
LEMMA FireRetryOnce ==
  ASSUME EngineInv, OnceInv, NEW i \in DOMAIN stream, FireRetry(i)
  PROVE  OnceInv'
<1>1. PICK v, e : v = stream[i].wf /\ e = stream[i].ev
  OBVIOUS
<1>2. PICK t : /\ \E val : t = Task("act", v, e.fn, val, e.attempt + 1)
               /\ (Enqueue(t) /\ UNCHANGED budget) \/
                  (UNCHANGED tasks /\ (UNCHANGED budget \/ Spend("read") \/ Spend("publish")))
  BY <1>1 DEF FireRetry
<1>3. /\ timers[i] > 0 /\ timers' = [timers EXCEPT ![i] = @ - 1]
      /\ UNCHANGED <<stream, cons, runs>>
  BY DEF FireRetry
<1>4. i \in 1..MaxLen /\ timers \in [1..MaxLen -> Nat] /\ i \in Positions(v)
  BY <1>1, StoredEvent DEF EngineInv, TypeOK, Positions
<1>5. timers[i] = 1
  BY <1>3, <1>4 DEF OnceInv, OneTimer
<1>6. timers'[i] = 0 /\ \A j \in 1..MaxLen : j # i => timers'[j] = timers[j]
  BY <1>3, <1>4, <1>5
<1>7. e.kind = "activity/retried"
  BY <1>1, <1>3, <1>4 DEF EngineInv, TimersSound
<1>8. PICK a : a = <<"timer", i, Expecting(e)>>
  OBVIOUS
<1>9. a \in TimerWork(v) /\ a \in Work(v) /\ a[1] = "timer" /\ a[3] = {e.fn}
  BY <1>1, <1>3, <1>4, <1>7, <1>8 DEF TimerWork, Work, Expecting
<1>10. ASSUME NEW w PROVE TimerWork(w)' \subseteq TimerWork(w) \ {a}
  <2>1. Positions(w)' = Positions(w) /\ Positions(w) \subseteq 1..MaxLen
    BY <1>3, EngineTypes DEF Positions
  <2>2. \A j \in Positions(w) : timers'[j] > 0 => timers[j] > 0 /\ j # i
    BY <1>6, <2>1
  <2> QED
    BY <1>3, <1>8, <2>1, <2>2 DEF TimerWork
<1>11. \A w : EventWork(w)' = EventWork(w) /\ SaveWork(w)' = SaveWork(w)
  BY <1>3, QuietWork
<1>12. OneTimer'
  BY <1>6 DEF OnceInv, OneTimer
<1>13. Acknowledged'
  BY <1>2, SpendKeeps DEF OnceInv, FaultKind
<1>14. t.wf = v /\ t.q = "act" /\ t.fn = e.fn
  BY <1>2 DEF Task
<1>15. CASE Enqueue(t)
  <2>1. PICK id : /\ TaskWork(v)' \subseteq TaskWork(v) \union {<<"task", id, Asked(t)>>}
                  /\ \A w : w # v => TaskWork(w)' \subseteq TaskWork(w)
    BY <1>14, <1>15, TaskWorkGrows
  <2>2. PICK b : b = <<"task", id, Asked(t)>>
    OBVIOUS
  <2>3. b[3] = a[3]
    BY <1>9, <1>14, <2>2 DEF Asked
  <2>4. Handed(v)
    <3>1. a \notin EventWork(v) /\ a \notin TaskWork(v) /\ a \notin SaveWork(v)
      BY <1>9, WorkKinds
    <3>2. TaskWork(v)' \subseteq (TaskWork(v) \ {a}) \union {b}
      BY <2>1, <2>2, <3>1
    <3>3. /\ EventWork(v)' \subseteq (EventWork(v) \ {a}) \union {b}
          /\ TimerWork(v)' \subseteq (TimerWork(v) \ {a}) \union {b}
          /\ SaveWork(v)' \subseteq (SaveWork(v) \ {a}) \union {b}
      BY <1>10, <1>11, <3>1
    <3> QED
      BY <1>9, <2>3, <3>2, <3>3, WorkMoved
  <2>5. ASSUME NEW w, w # v PROVE Handed(w)
    BY <1>10, <1>11, <2>1, <2>5, WorkDropped
  <2> QED
    BY <1>3, <1>4, <1>12, <1>13, <1>14, <1>15, <2>4, <2>5, ServerKeepsOnce
<1>16. CASE UNCHANGED tasks
  <2>1. \A w : Handed(w)
    BY <1>3, <1>10, <1>11, <1>16, QuietWork, WorkDropped
  <2> QED
    BY <1>3, <1>12, <1>13, <1>16, <2>1, ServerKeepsOnce
<1> QED
  BY <1>2, <1>15, <1>16

\* StoreInput and ServerCrash: sleeping retries are lost with the server.
LEMMA QuietServerOnce ==
  ASSUME EngineInv, OnceInv, ServerCrash \/ \E w \in Workflow : StoreInput(w)
  PROVE  OnceInv'
<1>1. /\ UNCHANGED <<stream, cons, tasks, runs>>
      /\ UNCHANGED timers \/ timers' = [i \in 1..MaxLen |-> 0]
      /\ UNCHANGED budget \/ Spend("kv") \/ Spend("server")
  BY DEF ServerCrash, StoreInput, serverVars
<1>2. Acknowledged'
  BY <1>1, SpendKeeps DEF OnceInv, FaultKind
<1>3. \A i \in 1..MaxLen : timers'[i] = timers[i] \/ timers'[i] = 0
  BY <1>1
<1>a. OneTimer'
  BY <1>3 DEF OnceInv, OneTimer
<1>4. ASSUME NEW w PROVE TimerWork(w)' \subseteq TimerWork(w)
  <2>1. Positions(w)' = Positions(w) /\ Positions(w) \subseteq 1..MaxLen
    BY <1>1, EngineTypes DEF Positions
  <2>2. \A i \in Positions(w) : timers'[i] > 0 => timers[i] > 0
    BY <1>3, <2>1
  <2> QED
    BY <1>1, <2>1, <2>2 DEF TimerWork
<1>5. \A w : Handed(w)
  BY <1>1, <1>4, QuietWork, WorkDropped
<1> QED
  BY <1>1, <1>2, <1>a, <1>5, ServerKeepsOnce

\* Changing who may receive a task moves no work.
LEMMA ReadyChanged ==
  ASSUME EngineInv, NEW id, NEW b \in BOOLEAN, tasks' = SetReady(id, b)
  PROVE  /\ \A k \in tasks' : \E m \in tasks : k.id = m.id /\ k.task = m.task
         /\ \A m \in tasks : m.id # id => m \in tasks'
<1>1. tasks \subseteq TaskMsg
  BY DEF EngineInv, TypeOK, TaskMsg
<1>2. ASSUME NEW m \in tasks
      PROVE  [m EXCEPT !.ready = b].id = m.id /\ [m EXCEPT !.ready = b].task = m.task
  BY <1>1 DEF TaskMsg
<1> QED
  BY <1>2 DEF SetReady

\* A task that is taken cannot be received by another goroutine.
LEMMA TaskTaken ==
  ASSUME EngineInv, NEW m \in tasks, tasks' = SetReady(m.id, FALSE)
  PROVE  \E k \in tasks' : k.id = m.id /\ k.task = m.task /\ ~k.ready
<1>1. m \in TaskMsg
  BY DEF EngineInv, TypeOK, TaskMsg
<1>2. PICK k : k = [m EXCEPT !.ready = FALSE]
  OBVIOUS
<1>3. k.id = m.id /\ k.task = m.task /\ k.ready = FALSE
  BY <1>1, <1>2 DEF TaskMsg
<1>4. k \in tasks'
  BY <1>2 DEF SetReady
<1> QED
  BY <1>3, <1>4

\* A step of the workers that drops work or hands it on.
LEMMA WorkerKeepsOnce ==
  ASSUME EngineInv, OnceInv, UNCHANGED <<stream, timers>>,
         \A k \in tasks' : \E m \in tasks : k.id = m.id /\ k.task = m.task,
         \A r \in runs' : RunFits(r), RunsHaveTasks', Acknowledged', \A w \in Workflow : Handed(w)
  PROVE  OnceInv'
<1>1. \A w : Positions(w)' = Positions(w)
  BY DEF Positions
<1>2. TasksBegun'
  BY <1>1 DEF OnceInv, TasksBegun
<1>3. OneTimer'
  BY DEF OnceInv, OneTimer
<1> QED
  BY <1>2, <1>3, HandOver

\* A task that can be received is in the hands of no goroutine.
LEMMA ReadyIsFree ==
  ASSUME EngineInv, OnceInv, NEW m \in tasks, m.ready, NEW r \in runs, r.pc = "decided"
  PROVE  r.tid # m.id
<1>1. PICK k \in tasks : HasTask(r, k)
  BY DEF OnceInv, RunsHaveTasks
<1>2. k.id = r.tid /\ ~k.ready
  BY <1>1 DEF HasTask
<1>3. k.id = m.id => k = m
  BY DEF EngineInv, TypeOK
<1> QED
  BY <1>2, <1>3

\* Goroutines that go on keep their tasks when other tasks are settled.
LEMMA TasksStay ==
  ASSUME EngineInv, OnceInv, NEW r \in runs, r.pc = "decided",
         \/ UNCHANGED tasks
         \/ \E id : \/ tasks' = SetReady(id, FALSE)
                    \/ r.tid # id /\ (tasks' = SetReady(id, TRUE) \/ tasks' = Without(id))
  PROVE  \E m \in tasks' : HasTask(r, m)
<1>1. PICK m \in tasks : HasTask(r, m)
  BY DEF OnceInv, RunsHaveTasks
<1>2. CASE UNCHANGED tasks
  BY <1>1, <1>2
<1>3. CASE \E id : tasks' = SetReady(id, FALSE)
  <2>1. PICK id : tasks' = SetReady(id, FALSE)
    BY <1>3
  <2>2. m.id # id => m \in tasks'
    BY <2>1, ReadyChanged
  <2>3. m.id = id => \E k \in tasks' : k.id = m.id /\ k.task = m.task /\ ~k.ready
    BY <2>1, TaskTaken
  <2> QED
    BY <1>1, <2>2, <2>3 DEF HasTask
<1>4. CASE \E id : r.tid # id /\ (tasks' = SetReady(id, TRUE) \/ tasks' = Without(id))
  <2>1. PICK id : r.tid # id /\ (tasks' = SetReady(id, TRUE) \/ tasks' = Without(id))
    BY <1>4
  <2>2. m.id # id
    BY <1>1, <2>1 DEF HasTask
  <2>3. m \in tasks'
    BY <2>1, <2>2, ReadyChanged DEF Without
  <2> QED
    BY <1>1, <2>3
<1> QED
  BY <1>2, <1>3, <1>4

\* A subset of the goroutines goes on, and no task of theirs is settled.
LEMMA RunsEndOnce ==
  ASSUME EngineInv, OnceInv, UNCHANGED <<stream, cons, timers>>, runs' \subseteq runs, Acknowledged',
         \/ UNCHANGED tasks
         \/ \E id : \/ tasks' = SetReady(id, FALSE)
                    \/ /\ \A r \in runs' : r.pc = "decided" => r.tid # id
                       /\ tasks' = SetReady(id, TRUE) \/ tasks' = Without(id)
  PROVE  OnceInv'
<1>1. \A k \in tasks' : \E m \in tasks : k.id = m.id /\ k.task = m.task
  BY ReadyChanged DEF Without
<1>2. \A w : TaskWork(w)' \subseteq TaskWork(w)
  BY <1>1 DEF TaskWork
<1>3. \A w : SaveWork(w)' \subseteq SaveWork(w)
  BY DEF SaveWork
<1>4. \A w : EventWork(w)' = EventWork(w) /\ TimerWork(w)' = TimerWork(w)
  BY QuietWork
<1>5. \A w : Handed(w)
  BY <1>2, <1>3, <1>4, WorkDropped
<1>6. ASSUME NEW r \in runs', r.pc = "decided" PROVE \E m \in tasks' : HasTask(r, m)
  <2>1. r \in runs
    OBVIOUS
  <2> QED
    BY <1>6, <2>1, TasksStay
<1>7. RunsHaveTasks'
  BY <1>6 DEF OnceInv, RunsHaveTasks, HasTask
<1>8. \A r \in runs' : RunFits(r)
  BY DEF OnceInv
<1> QED
  BY <1>1, <1>5, <1>7, <1>8, WorkerKeepsOnce

\* Redeliver: a task that nobody works on can be received again.
LEMMA RedeliverOnce ==
  ASSUME EngineInv, OnceInv, NEW m \in tasks, Redeliver(m)
  PROVE  OnceInv'
<1>1. UNCHANGED <<stream, cons, timers, runs>> /\ tasks' = SetReady(m.id, TRUE)
  BY DEF Redeliver, serverVars
<1>2. ~Held(m) /\ UNCHANGED budget
  BY SpendKeeps DEF Redeliver, OnceInv, FaultKind
<1>3. \A r \in runs' : r.pc = "decided" => r.tid # m.id
  BY <1>1, <1>2 DEF Held
<1>4. Acknowledged'
  BY <1>2, SpendKeeps DEF OnceInv
<1> QED
  BY <1>1, <1>3, <1>4, RunsEndOnce

\* A worker process ends, with or without a task that it has received.
LEMMA ProcessEndsOnce ==
  ASSUME EngineInv, OnceInv,
         \/ \E x \in Worker : Crash(x)
         \/ \E r \in runs : SaveRefused(r)
         \/ \E x \in Worker, m \in tasks : ReadFails(x, m) \/ ActivityPanics(x, m)
  PROVE  OnceInv'
<1>1. /\ UNCHANGED <<stream, cons, timers>> /\ runs' \subseteq runs
      /\ UNCHANGED budget \/ Spend("crash") \/ Spend("save") \/ Spend("read")
  BY DEF Crash, SaveRefused, ReadFails, ActivityPanics, serverVars
<1>2. Acknowledged'
  BY <1>1, SpendKeeps DEF OnceInv, FaultKind
<1>3. \/ UNCHANGED tasks
      \/ \E m \in tasks : m.ready /\ (tasks' = Without(m.id) \/ tasks' = SetReady(m.id, FALSE))
  BY DEF Crash, SaveRefused, ReadFails, ActivityPanics, CanReceive
<1>4. \A m \in tasks : m.ready => \A r \in runs' : r.pc = "decided" => r.tid # m.id
  BY <1>1, ReadyIsFree
<1> QED
  BY <1>1, <1>2, <1>3, <1>4, RunsEndOnce

\* Receive: a goroutine takes a task that is free, and the task stays work.
LEMMA ReceiveOnce ==
  ASSUME EngineInv, OnceInv, IsSequential(Program),
         NEW x \in Worker, NEW g \in Slot, NEW m \in tasks, Receive(x, g, m)
  PROVE  OnceInv'
<1>1. /\ UNCHANGED <<stream, cons, timers>> /\ tasks' = SetReady(m.id, FALSE)
      /\ UNCHANGED budget \/ Spend("read")
      /\ m.ready
  BY DEF Receive, CanReceive, serverVars
<1>2. PICK n \in Positions(m.task.wf) : \E d \in Decisions(x, m.task, n) :
        runs' = runs \union {[at |-> <<x, g>>, tid |-> m.id, wf |-> m.task.wf, pos |-> n,
                              pc |-> "decided", events |-> d.events, err |-> d.err]}
  BY DEF Receive
<1>3. PICK d \in Decisions(x, m.task, n) :
        runs' = runs \union {[at |-> <<x, g>>, tid |-> m.id, wf |-> m.task.wf, pos |-> n,
                              pc |-> "decided", events |-> d.events, err |-> d.err]}
  BY <1>2
<1>4. PICK r : r = [at |-> <<x, g>>, tid |-> m.id, wf |-> m.task.wf, pos |-> n,
                    pc |-> "decided", events |-> d.events, err |-> d.err]
  OBVIOUS
<1>5. /\ runs' = runs \union {r} /\ r.pc = "decided" /\ r.tid = m.id /\ r.wf = m.task.wf
      /\ r.pos = n /\ r.events = d.events /\ r.err = d.err
  BY <1>3, <1>4
<1>6. /\ DecisionFits(m.task.wf, n, d)
      /\ \A k \in DOMAIN d.events : Ending(d.events[k]) = Asked(m.task)
  BY DecisionShape
<1>7. \A i \in Positions(r.wf) : stream[i].ev.kind # "workflow/completed"
  <2>1. Work(m.task.wf) # {}
    BY DEF Work, TaskWork
  <2> QED
    BY <1>5, <2>1 DEF OnceInv, Final, Positions
<1>8. RunFits(r)
  BY <1>5, <1>6, <1>7 DEF RunFits, DecisionFits
<1>9. PICK k \in tasks' : k.id = m.id /\ k.task = m.task /\ ~k.ready
  BY <1>1, TaskTaken
<1>10. HasTask(r, k)
  BY <1>5, <1>6, <1>9 DEF HasTask
<1>11. RunsHaveTasks'
  <2>1. \A q \in runs' : q.pc = "decided" => \E c \in tasks' : HasTask(q, c)
    BY <1>1, <1>5, <1>9, <1>10, TasksStay
  <2>2. \A q \in runs' : q.pc # "decided" => q.tid = 0
    BY <1>5 DEF OnceInv, RunsHaveTasks
  <2>3. \A q \in runs : q.pc = "decided" => q.tid # r.tid
    BY <1>1, <1>5, ReadyIsFree
  <2>4. \A p, q \in runs' : p.pc = "decided" /\ q.pc = "decided" /\ p.tid = q.tid => p = q
    BY <1>5, <2>3 DEF OnceInv, RunsHaveTasks
  <2> QED
    BY <2>1, <2>2, <2>4 DEF RunsHaveTasks, HasTask
<1>12. \A c \in tasks' : \E b \in tasks : c.id = b.id /\ c.task = b.task
  BY <1>1, ReadyChanged
<1>13. \A w : TaskWork(w)' \subseteq TaskWork(w)
  BY <1>12 DEF TaskWork
<1>14. \A w : SaveWork(w)' \subseteq SaveWork(w)
  BY <1>5 DEF SaveWork
<1>15. \A w : Handed(w)
  BY <1>1, <1>13, <1>14, QuietWork, WorkDropped
<1>16. Acknowledged'
  BY <1>1, SpendKeeps DEF OnceInv, FaultKind
<1>17. \A q \in runs' : RunFits(q)
  BY <1>5, <1>8 DEF OnceInv
<1> QED
  BY <1>1, <1>11, <1>12, <1>15, <1>16, <1>17, WorkerKeepsOnce

\* A goroutine that goes on keeps its decision, and has given its task back.
LEMMA GoesOnFields ==
  ASSUME EngineInv, NEW r \in runs, NEW s,
         \/ s = [r EXCEPT !.pc = "settled", !.tid = 0]
         \/ s = [r EXCEPT !.pc = "ensured"] /\ r.tid = 0
  PROVE  /\ s.at = r.at /\ s.wf = r.wf /\ s.pos = r.pos /\ s.events = r.events /\ s.err = r.err
         /\ s.pc # "decided" /\ s.tid = 0
<1>1. r \in Goroutine
  BY DEF EngineInv, TypeOK, Goroutine
<1>2. CASE s = [r EXCEPT !.pc = "settled", !.tid = 0]
  BY <1>1, <1>2 DEF Goroutine
<1>3. CASE s = [r EXCEPT !.pc = "ensured"] /\ r.tid = 0
  BY <1>1, <1>3 DEF Goroutine
<1> QED
  BY <1>2, <1>3

\* EnsureStream: the goroutine is still saving.
LEMMA EnsureStreamOnce ==
  ASSUME EngineInv, OnceInv, NEW r \in runs, EnsureStream(r)
  PROVE  OnceInv'
<1>1. /\ r.pc = "settled" /\ UNCHANGED <<stream, cons, timers, tasks, budget>>
      /\ runs' = (runs \ {r}) \union {[r EXCEPT !.pc = "ensured"]}
  BY DEF EnsureStream, serverVars
<1>2. r.tid = 0
  BY <1>1 DEF OnceInv, RunsHaveTasks
<1>3. PICK s : s = [r EXCEPT !.pc = "ensured"]
  OBVIOUS
<1>4. /\ s.at = r.at /\ s.wf = r.wf /\ s.pos = r.pos /\ s.events = r.events /\ s.err = r.err
      /\ s.pc # "decided" /\ s.tid = 0 /\ runs' = (runs \ {r}) \union {s}
  BY <1>1, <1>2, <1>3, GoesOnFields
<1>5. \A w : SaveWork(w)' \subseteq SaveWork(w)
  BY <1>1, <1>4 DEF SaveWork
<1>6. \A w : Handed(w)
  BY <1>1, <1>5, QuietWork, WorkDropped
<1>7. RunFits(s)
  BY <1>4 DEF OnceInv, RunFits, DecisionFits
<1>8. \A q \in runs' : RunFits(q)
  BY <1>4, <1>7 DEF OnceInv
<1>9. RunsHaveTasks'
  BY <1>1, <1>4 DEF OnceInv, RunsHaveTasks, HasTask
<1>10. Acknowledged'
  BY <1>1 DEF OnceInv, Acknowledged
<1> QED
  BY <1>1, <1>6, <1>8, <1>9, <1>10, WorkerKeepsOnce

\* Respond: the task is handed on to the save of what was decided for it.
LEMMA RespondOnce ==
  ASSUME EngineInv, OnceInv, NEW r \in runs, Respond(r)
  PROVE  OnceInv'
<1>1. /\ r.pc = "decided" /\ UNCHANGED <<stream, cons, timers>>
      /\ runs' = (runs \ {r}) \union
           IF r.events = <<>> THEN {} ELSE {[r EXCEPT !.pc = "settled", !.tid = 0]}
  BY DEF Respond, serverVars
<1>2. /\ UNCHANGED budget
      /\ (~r.err /\ tasks' = Without(r.tid)) \/ (r.err /\ tasks' = SetReady(r.tid, TRUE))
  BY SpendKeeps DEF Respond, OnceInv, FaultKind
<1>3. PICK m \in tasks : HasTask(r, m)
  BY <1>1 DEF OnceInv, RunsHaveTasks
<1>4. PICK s : s = [r EXCEPT !.pc = "settled", !.tid = 0]
  OBVIOUS
<1>5. /\ s.at = r.at /\ s.wf = r.wf /\ s.pos = r.pos /\ s.events = r.events /\ s.err = r.err
      /\ s.pc # "decided" /\ s.tid = 0
  BY <1>4, GoesOnFields
<1>6. runs' \subseteq (runs \ {r}) \union {s} /\ (r.events = <<>> => runs' = runs \ {r})
  BY <1>1, <1>4
<1>7. \A q \in runs' : RunFits(q)
  <2>1. RunFits(s)
    BY <1>5 DEF OnceInv, RunFits, DecisionFits
  <2> QED
    BY <1>6, <2>1 DEF OnceInv
<1>8. \A q \in runs : q # r /\ q.pc = "decided" => q.tid # r.tid
  BY <1>1 DEF OnceInv, RunsHaveTasks
<1>9. RunsHaveTasks'
  <2>1. \A q \in runs : q # r /\ q.pc = "decided" => \E k \in tasks' : HasTask(q, k)
    BY <1>2, <1>8, TasksStay
  <2>2. \A q \in runs' : q.pc = "decided" => q \in runs /\ q # r
    BY <1>5, <1>6
  <2>3. \A q \in runs' : q.pc # "decided" => q.tid = 0
    BY <1>5, <1>6 DEF OnceInv, RunsHaveTasks
  <2>4. \A p, q \in runs' : p.pc = "decided" /\ q.pc = "decided" /\ p.tid = q.tid => p = q
    BY <2>2 DEF OnceInv, RunsHaveTasks
  <2> QED
    BY <2>1, <2>2, <2>3, <2>4 DEF RunsHaveTasks, HasTask
<1>10. \A k \in tasks' : \E c \in tasks : k.id = c.id /\ k.task = c.task
  BY <1>2, ReadyChanged DEF Without
<1>11. \A w : TaskWork(w)' \subseteq TaskWork(w)
  BY <1>10 DEF TaskWork
<1>12. \A w : EventWork(w)' = EventWork(w) /\ TimerWork(w)' = TimerWork(w)
  BY <1>1, QuietWork
<1>13. Acknowledged'
  BY <1>2 DEF OnceInv, Acknowledged
<1>14. ASSUME r.err \/ r.events = <<>> PROVE \A w : Handed(w)
  <2>1. \A w : SaveWork(w)' \subseteq SaveWork(w)
    BY <1>5, <1>6, <1>14 DEF SaveWork
  <2> QED
    BY <1>11, <1>12, <2>1, WorkDropped
<1>15. ASSUME ~r.err, r.events # <<>> PROVE \A w : Handed(w)
  <2>1. PICK a, b, v : /\ a = <<"task", m.id, Asked(m.task)>>
                       /\ b = <<"save", s.at, Ending(s.events[1])>> /\ v = r.wf
    OBVIOUS
  <2>2. \A w : SaveWork(w)' \subseteq SaveWork(w) \union (IF w = v THEN {b} ELSE {})
    BY <1>5, <1>6, <2>1 DEF SaveWork
  <2>3. m.id = r.tid /\ m.task.wf = v /\ \A k \in DOMAIN r.events : Ending(r.events[k]) = Asked(m.task)
    BY <1>3, <2>1 DEF HasTask
  <2>4. 1 \in DOMAIN r.events
    BY <1>15, RunFields
  <2>5. b[3] = a[3] /\ a[1] = "task"
    BY <1>5, <2>1, <2>3, <2>4
  <2>6. a \in TaskWork(v) /\ a \in Work(v)
    BY <2>1, <2>3 DEF TaskWork, Work
  <2>7. tasks' = Without(m.id)
    BY <1>2, <1>15, <2>3
  <2>8. a \notin TaskWork(v)'
    BY <2>1, <2>7 DEF TaskWork, Without
  <2>9. Handed(v)
    <3>1. a \notin EventWork(v) /\ a \notin TimerWork(v) /\ a \notin SaveWork(v)
      BY <2>5, WorkKinds
    <3>2. /\ EventWork(v)' \subseteq (EventWork(v) \ {a}) \union {b}
          /\ TimerWork(v)' \subseteq (TimerWork(v) \ {a}) \union {b}
          /\ TaskWork(v)' \subseteq (TaskWork(v) \ {a}) \union {b}
          /\ SaveWork(v)' \subseteq (SaveWork(v) \ {a}) \union {b}
      BY <1>11, <1>12, <2>2, <2>8, <3>1
    <3> QED
      BY <2>5, <2>6, <3>2, WorkMoved
  <2>10. ASSUME NEW w, w # v PROVE Handed(w)
    BY <1>11, <1>12, <2>2, <2>10, WorkDropped
  <2> QED
    BY <2>9, <2>10
<1> QED
  BY <1>1, <1>7, <1>9, <1>10, <1>13, <1>14, <1>15, WorkerKeepsOnce

-----------------------------------------------------------------------------
(* Steps that append a message.                                            *)

\* The stream after a message is appended.
LEMMA Appended ==
  ASSUME EngineInv, NEW msg \in Msg, stream' = Append(stream, msg)
  PROVE  LET n == Len(stream) IN
         /\ n \in Nat /\ DOMAIN stream = 1..n /\ DOMAIN stream' = 1..(n + 1)
         /\ \A i : i \in DOMAIN stream' <=> i \in DOMAIN stream \/ i = n + 1
         /\ n + 1 \notin DOMAIN stream
         /\ stream'[n + 1] = msg /\ \A i \in DOMAIN stream : stream'[i] = stream[i]
<1>1. stream \in Seq(Msg)
  BY EngineTypes DEF Msg
<1>2. PICK n : n = Len(stream)
  OBVIOUS
<1>3. /\ n \in Nat /\ DOMAIN stream = 1..n /\ DOMAIN stream' = 1..(n + 1)
      /\ stream'[n + 1] = msg /\ \A i \in 1..n : stream'[i] = stream[i]
  BY <1>1, <1>2
<1>4. n + 1 \notin 1..n /\ \A i : i \in 1..(n + 1) <=> i \in 1..n \/ i = n + 1
  BY <1>3
<1> QED
  BY <1>2, <1>3, <1>4

\* An appended message is work when a projector reads it, and no other work is made.
LEMMA AppendWork ==
  ASSUME EngineInv, NEW msg \in Msg, stream' = Append(stream, msg), Len(stream) < MaxLen,
         UNCHANGED <<cons, timers>>, NEW w
  PROVE  /\ TimerWork(w)' \subseteq TimerWork(w)
         /\ \A a \in EventWork(w)' :
              \/ a \in EventWork(w)
              \/ /\ w = msg.wf /\ \E p \in Projector : Reads(p, msg.ev)
                 /\ a = <<"event", Len(stream) + 1, Expecting(msg.ev)>>
<1>1. PICK n : n = Len(stream)
  OBVIOUS
<1>2. /\ n \in Nat /\ DOMAIN stream = 1..n
      /\ \A i : i \in DOMAIN stream' <=> i \in DOMAIN stream \/ i = n + 1
      /\ stream'[n + 1] = msg /\ \A i \in DOMAIN stream : stream'[i] = stream[i]
      /\ n + 1 \notin DOMAIN stream
  BY <1>1, Appended
<1>3. /\ \A i \in Positions(w)' : i \in Positions(w) \/ (i = n + 1 /\ w = msg.wf)
      /\ \A i \in Positions(w) : stream'[i] = stream[i]
  BY <1>2 DEF Positions
<1>4. ~(timers[n + 1] > 0)
  <2>1. n + 1 \in 1..MaxLen
    BY <1>1, <1>2, EngineTypes
  <2> QED
    BY <1>2, <2>1 DEF EngineInv, TimersSound
<1>5. TimerWork(w)' \subseteq TimerWork(w)
  BY <1>3, <1>4 DEF TimerWork
<1>7. \A i \in Positions(w) : Unanswered(i)' => Unanswered(i)
  BY <1>3 DEF Unanswered, Pending
<1>8. Unanswered(n + 1)' => \E p \in Projector : Reads(p, msg.ev)
  BY <1>2 DEF Unanswered
<1>9. ASSUME NEW a \in EventWork(w)'
      PROVE  \/ a \in EventWork(w)
             \/ /\ w = msg.wf /\ \E p \in Projector : Reads(p, msg.ev)
                /\ a = <<"event", n + 1, Expecting(msg.ev)>>
  <2>1. PICK i \in Positions(w)' : Unanswered(i)' /\ a = <<"event", i, Expecting(stream'[i].ev)>>
    BY DEF EventWork
  <2>2. CASE i \in Positions(w)
    BY <1>3, <1>7, <2>1, <2>2 DEF EventWork
  <2>3. CASE i = n + 1 /\ w = msg.wf
    BY <1>2, <1>8, <2>1, <2>3
  <2> QED
    BY <1>3, <2>2, <2>3
<1> QED
  BY <1>1, <1>5, <1>9

\* A message that is appended for v, when its work is in order afterwards.
LEMMA AppendKeepsOnce ==
  ASSUME EngineInv, OnceInv, NEW msg \in Msg, stream' = Append(stream, msg),
         Len(stream) < MaxLen, UNCHANGED <<cons, timers, tasks>>, runs' \subseteq runs,
         Acknowledged', NEW v, v = msg.wf,
         \A i \in Positions(v) : stream[i].ev.kind # "workflow/completed",
         msg.ev.kind = "workflow/started" \/ Positions(v) # {},
         msg.ev.kind = "workflow/completed" => Work(v)' = {},
         \A a, b \in Work(v)' : a = b,
         \A a \in Work(v)' : CallsAre(v, a[3])',
         \A f \in Fn : Ended(v, f)' <= Scheduled(v, f)' /\ Scheduled(v, f)' <= CallsOf(f)
  PROVE  OnceInv'
<1>1. PICK n : n = Len(stream)
  OBVIOUS
<1>2. /\ n \in Nat /\ DOMAIN stream = 1..n
      /\ \A i : i \in DOMAIN stream' <=> i \in DOMAIN stream \/ i = n + 1
      /\ stream'[n + 1] = msg /\ \A i \in DOMAIN stream : stream'[i] = stream[i]
      /\ n + 1 \notin DOMAIN stream
  BY <1>1, Appended
<1>3. /\ \A w : Positions(w) \subseteq Positions(w)' /\ Positions(w) \subseteq DOMAIN stream
      /\ \A w : \A i \in Positions(w)' : i \in Positions(w) \/ (i = n + 1 /\ w = v)
      /\ n + 1 \in Positions(v)'
  BY <1>2 DEF Positions
<1>4. ASSUME NEW w, w # v
      PROVE  /\ Work(w)' \subseteq Work(w)
             /\ \A f, kinds : Count(w, f, kinds)' = Count(w, f, kinds)
  <2>1. TimerWork(w)' \subseteq TimerWork(w) /\ EventWork(w)' \subseteq EventWork(w)
    BY <1>4, AppendWork
  <2>2. TaskWork(w)' \subseteq TaskWork(w) /\ SaveWork(w)' \subseteq SaveWork(w)
    BY DEF TaskWork, SaveWork
  <2>3. \A f, kinds : Count(w, f, kinds)' = Count(w, f, kinds)
    BY <1>4, CountAppend
  <2> QED
    BY <2>1, <2>2, <2>3 DEF Work
<1>5. OnePlace'
  BY <1>4 DEF OnceInv, OnePlace
<1>6. WorkFits'
  BY <1>4 DEF OnceInv, WorkFits, CallsAre, Scheduled, Ended
<1>7. OneTimer'
  BY DEF OnceInv, OneTimer
<1>8. CallsFit'
  BY <1>4 DEF OnceInv, CallsFit, Scheduled, Ended
<1>9. ASSUME NEW r \in runs' PROVE RunFits(r)'
  <2>1. r \in runs /\ RunFits(r)
    BY DEF OnceInv
  <2>2. r.pos \in DOMAIN stream /\ r.pos < n + 1
    BY <1>2, <2>1, RunFields
  <2>3. \A f : OutcomesUpTo(r.wf, r.pos, f)' = OutcomesUpTo(r.wf, r.pos, f)
    <3>1. \A i \in Positions(r.wf)' : i <= r.pos => i \in Positions(r.wf)
      BY <1>2, <1>3, <2>2
    <3> QED
      BY <1>2, <1>3, <3>1 DEF OutcomesUpTo
  <2>4. DecisionFits(r.wf, r.pos, r)'
    BY <2>1, <2>3 DEF RunFits, DecisionFits
  <2>5. \A i \in Positions(r.wf)' : stream'[i].ev.kind = "workflow/completed" => r.pos < i
    BY <1>2, <1>3, <2>1, <2>2 DEF RunFits
  <2> QED
    BY <2>4, <2>5 DEF RunFits
<1>10. RunsHaveTasks'
  BY DEF OnceInv, RunsHaveTasks, HasTask
<1>11. TasksBegun'
  BY <1>3 DEF OnceInv, TasksBegun
<1>12. Begun'
  <2>1. ASSUME NEW w, Positions(w) # {}
        PROVE  \E j \in Positions(w)' : stream'[j].ev.kind = "workflow/started"
    <3>1. PICK i \in DOMAIN stream : stream[i].wf = w
      BY <2>1 DEF Positions
    <3>2. PICK j \in Positions(w) : stream[j].ev.kind = "workflow/started"
      BY <3>1 DEF OnceInv, Begun
    <3> QED
      BY <1>2, <1>3, <3>2
  <2>2. \E j \in Positions(v)' : stream'[j].ev.kind = "workflow/started"
    BY <1>2, <1>3, <2>1
  <2>3. ASSUME NEW i \in DOMAIN stream', NEW w, w = stream'[i].wf
        PROVE  \E j \in Positions(w)' : stream'[j].ev.kind = "workflow/started"
    <3>1. CASE i \in DOMAIN stream
      <4>1. Positions(w) # {}
        BY <1>2, <2>3, <3>1 DEF Positions
      <4> QED
        BY <2>1, <4>1
    <3>2. CASE i = n + 1
      BY <1>2, <2>2, <2>3, <3>2
    <3> QED
      BY <1>2, <3>1, <3>2
  <2> QED
    BY <2>3 DEF Begun
<1>13. Final'
  <2>1. ASSUME NEW i \in DOMAIN stream', NEW w, w = stream'[i].wf,
               stream'[i].ev.kind = "workflow/completed"
        PROVE  Work(w)' = {}
    <3>1. CASE i \in DOMAIN stream
      <4>1. stream[i].wf = w /\ stream[i].ev.kind = "workflow/completed"
        BY <1>2, <2>1, <3>1
      <4>2. Work(w) = {} /\ w # v
        BY <3>1, <4>1 DEF OnceInv, Final, Positions
      <4> QED
        BY <1>4, <4>2
    <3>2. CASE i = n + 1
      BY <1>2, <2>1, <3>2
    <3> QED
      BY <1>2, <3>1, <3>2
  <2> QED
    BY <2>1 DEF Final
<1> QED
  BY <1>5, <1>6, <1>7, <1>8, <1>9, <1>10, <1>11, <1>12, <1>13 DEF OnceInv

\* WorkflowStarted is the first work of its workflow.
LEMMA PublishStartedOnce ==
  ASSUME EngineInv, OnceInv, NEW v \in Workflow, PublishStarted(v)
  PROVE  OnceInv'
<1>1. /\ UNCHANGED <<cons, timers, tasks, runs>>
      /\ UNCHANGED budget \/ Spend("ackloss") \/ Spend("publish")
  BY DEF PublishStarted, serverVars
<1>2. Acknowledged'
  BY <1>1, SpendKeeps DEF OnceInv, FaultKind
<1>3. CASE UNCHANGED stream
  <2>1. \A w : Handed(w)
    BY <1>1, <1>3, QuietWork, WorkDropped
  <2>2. OneTimer'
    BY <1>1 DEF OnceInv, OneTimer
  <2> QED
    BY <1>1, <1>2, <1>3, <2>1, <2>2, ServerKeepsOnce
<1>4. CASE Len(stream) < MaxLen /\ stream' = Append(stream, Message(v, 1, WorkflowStarted))
  <2>1. PICK msg : msg = Message(v, 1, WorkflowStarted)
    OBVIOUS
  <2>2. msg \in Msg /\ msg.wf = v /\ msg.ev = WorkflowStarted /\ msg.ev.kind = "workflow/started"
    BY <2>1, EngineAssumption DEF Message, Msg, WorkflowStarted, Ev, EventType, Attempts
  <2>3. Positions(v) = {}
    BY DEF PublishStarted, EngineInv, CommandsSound
  <2>4. EventWork(v) = {} /\ TimerWork(v) = {}
    BY <2>3 DEF EventWork, TimerWork
  <2>5. TaskWork(v) = {}
    BY <2>3 DEF TaskWork, OnceInv, TasksBegun
  <2>6. SaveWork(v) = {}
    <3>1. \A r \in runs : r.wf # v
      BY <2>3, RunFields DEF Positions
    <3> QED
      BY <3>1 DEF SaveWork
  <2>7. TimerWork(v)' = {} /\ TaskWork(v)' = {} /\ SaveWork(v)' = {}
    <3>1. TimerWork(v)' \subseteq TimerWork(v)
      BY <1>1, <1>4, <2>1, <2>2, AppendWork
    <3>2. TaskWork(v)' = TaskWork(v) /\ SaveWork(v)' = SaveWork(v)
      BY <1>1 DEF TaskWork, SaveWork
    <3> QED
      BY <2>4, <2>5, <2>6, <3>1, <3>2
  <2>8. \A a \in Work(v)' : a = <<"event", Len(stream) + 1, {}>>
    <3>1. Expecting(msg.ev) = {}
      BY <2>2 DEF Expecting
    <3>2. \A a \in EventWork(v)' : a = <<"event", Len(stream) + 1, Expecting(msg.ev)>>
      BY <1>1, <1>4, <2>1, <2>2, <2>4, AppendWork
    <3> QED
      BY <2>7, <3>1, <3>2 DEF Work
  <2>9. \A f : Scheduled(v, f)' = 0 /\ Ended(v, f)' = 0
    <3>1. \A f, kinds : Count(v, f, kinds) = 0
      <4>1. \A f, kinds :
              {i \in Positions(v) : stream[i].ev.fn = f /\ stream[i].ev.kind \in kinds} = {}
        BY <2>3
      <4> QED
        BY <4>1, FS_EmptySet DEF Count
    <3>2. \A f, kinds : "workflow/started" \notin kinds => Count(v, f, kinds)' = Count(v, f, kinds)
      BY <1>4, <2>1, <2>2, CountAppend
    <3> QED
      BY <3>1, <3>2 DEF Scheduled, Ended
  <2>10. \A a \in Work(v)' : CallsAre(v, a[3])'
    <3>1. \A a \in Work(v)' : a[3] = {}
      BY <2>8
    <3> QED
      BY <2>9, <3>1 DEF CallsAre
  <2>11. ASSUME NEW f \in Fn
         PROVE  Ended(v, f)' <= Scheduled(v, f)' /\ Scheduled(v, f)' <= CallsOf(f)
    <3>1. Scheduled(v, f) <= CallsOf(f) /\ Scheduled(v, f) = 0
      <4>1. {i \in Positions(v) : stream[i].ev.fn = f /\ stream[i].ev.kind \in {"activity/scheduled"}} = {}
        BY <2>3
      <4> QED
        BY <4>1, FS_EmptySet DEF OnceInv, CallsFit, Scheduled, Count
    <3> QED
      BY <2>9, <3>1
  <2>12. \A a, b \in Work(v)' : a = b
    BY <2>8
  <2> QED
    BY <1>1, <1>2, <1>4, <2>1, <2>2, <2>3, <2>10, <2>11, <2>12, AppendKeepsOnce
<1> QED
  BY <1>3, <1>4 DEF PublishStarted

\* A Save appends the one event of its goroutine.
LEMMA SaveAppends ==
  ASSUME EngineInv, OnceInv, NEW r \in runs, Save(r)
  PROVE  /\ r.events # <<>> /\ DOMAIN r.events = {1} /\ Len(stream) < MaxLen
         /\ \E msg \in Msg :
              msg.wf = r.wf /\ msg.ev = r.events[1] /\ stream' = Append(stream, msg)
<1>1. r.pc = "ensured" /\ Len(stream) + Len(r.events) <= MaxLen
  BY DEF Save
<1>2. r.events # <<>>
  BY <1>1 DEF EngineInv, RunsSound
<1>3. Len(r.events) = 1 /\ DOMAIN r.events = {1} /\ Len(stream) < MaxLen
  <2>1. Len(r.events) <= 1 /\ Len(r.events) \in Nat /\ r.events \in Seq(EventType)
    BY RunFields DEF OnceInv, RunFits, DecisionFits
  <2>2. Len(r.events) # 0
    BY <1>2, <2>1, EmptySeq
  <2>3. Len(r.events) = 1 /\ DOMAIN r.events = 1..1
    <3>1. PICK n \in Nat : n = Len(r.events)
      BY <2>1
    <3>2. n <= 1 /\ n # 0
      BY <2>1, <2>2, <3>1
    <3>3. n = 1
      BY <3>2
    <3>4. DOMAIN r.events = 1..Len(r.events)
      BY <2>1
    <3> QED
      BY <3>1, <3>3, <3>4
  <2>4. 1..1 = {1}
    OBVIOUS
  <2> QED
    BY <1>1, <2>3, <2>4, EngineTypes
<1>4. PICK msg : msg = Message(r.wf, stream[r.pos].ver + 1, r.events[1])
  OBVIOUS
<1>5. msg \in Msg /\ msg.wf = r.wf /\ msg.ev = r.events[1]
  BY <1>3, <1>4, RunFields DEF Message, Msg
<1>6. PICK t : t = [i \in DOMAIN r.events |-> Message(r.wf, stream[r.pos].ver + i, r.events[i])]
  OBVIOUS
<1>7. t = [i \in 1..1 |-> msg]
  BY <1>3, <1>4, <1>6
<1>8. t = <<msg>>
  BY <1>7
<1>9. stream \in Seq(Msg) /\ stream' = stream \o t
  BY <1>6, EngineTypes DEF Save, Msg
<1>10. stream' = Append(stream, msg)
  BY <1>5, <1>8, <1>9
<1> QED
  BY <1>2, <1>3, <1>5, <1>10

\* Every call of a workflow is counted before and after a message e of it.
LEMMA CallsAfter ==
  ASSUME EngineInv, NEW msg \in Msg, stream' = Append(stream, msg), NEW v, v = msg.wf
  PROVE  \A f : /\ Scheduled(v, f) \in Nat /\ Ended(v, f) \in Nat
                /\ Scheduled(v, f)' = Scheduled(v, f) +
                     IF msg.ev.kind = "activity/scheduled" /\ msg.ev.fn = f THEN 1 ELSE 0
                /\ Ended(v, f)' = Ended(v, f) + IF IsRecord(msg.ev) /\ msg.ev.fn = f THEN 1 ELSE 0
<1>1. \A f, kinds : /\ Count(v, f, kinds) \in Nat
                    /\ Count(v, f, kinds)' = IF msg.ev.fn = f /\ msg.ev.kind \in kinds
                                             THEN Count(v, f, kinds) + 1 ELSE Count(v, f, kinds)
  BY CountType, CountAppend
<1>2. \A f : Scheduled(v, f) \in Nat /\ Ended(v, f) \in Nat
  BY <1>1 DEF Scheduled, Ended
<1>3. ASSUME NEW f
      PROVE  /\ Scheduled(v, f)' = IF msg.ev.kind = "activity/scheduled" /\ msg.ev.fn = f
                                   THEN Scheduled(v, f) + 1 ELSE Scheduled(v, f)
             /\ Ended(v, f)' = IF IsRecord(msg.ev) /\ msg.ev.fn = f
                               THEN Ended(v, f) + 1 ELSE Ended(v, f)
  BY <1>1 DEF Scheduled, Ended, IsRecord
<1> QED
  BY <1>2, <1>3

\* What a goroutine can still save belongs to a workflow that has not completed.
LEMMA SaveIsNotLate ==
  ASSUME EngineInv, OnceInv, LogProofs!IInv, NEW r \in runs, Accepted(r)
  PROVE  \A i \in Positions(r.wf) : stream[i].ev.kind # "workflow/completed"
<1> SUFFICES ASSUME NEW i \in Positions(r.wf), stream[i].ev.kind = "workflow/completed"
             PROVE  FALSE
  OBVIOUS
<1>1. r.pos < i /\ i <= r.pos
  BY SaveIsCurrent DEF OnceInv, RunFits
<1>2. i \in Nat /\ r.pos \in Nat
  BY PositionsFinite, RunFields, EngineTypes DEF Positions
<1> QED
  BY <1>1, <1>2

\* Save: the one event that a current goroutine appends takes over from its save.
LEMMA SaveOnce ==
  ASSUME EngineInv, OnceInv, LogProofs!IInv, NEW r \in runs, Save(r)
  PROVE  OnceInv'
<1>1. /\ Accepted(r) /\ r.pc = "ensured" /\ UNCHANGED <<cons, timers, tasks>>
      /\ runs' \subseteq runs \ {r}
      /\ UNCHANGED budget \/ Spend("save")
  BY DEF Save, serverVars, RunsOf
<1>2. PICK v, e : v = r.wf /\ e = r.events[1]
  OBVIOUS
<1>3. PICK msg \in Msg : msg.wf = v /\ msg.ev = e /\ stream' = Append(stream, msg)
  BY <1>2, SaveAppends
<1>4. DOMAIN r.events = {1} /\ Len(stream) < MaxLen
  BY SaveAppends
<1>5. /\ v \in Workflow /\ r.pos \in Positions(v) /\ e \in EventType
      /\ SoundEvent(e) /\ e.kind # "workflow/started"
  BY <1>2, <1>4, RunFields DEF RunEventsSound, Positions
<1>6. \A j \in Positions(v) : j <= r.pos
  BY <1>1, <1>2, SaveIsCurrent
<1>7. \A i \in Positions(v) : stream[i].ev.kind # "workflow/completed"
  BY <1>1, <1>2, SaveIsNotLate
<1>8. Acknowledged'
  BY <1>1, SpendKeeps DEF OnceInv, FaultKind
<1>9. /\ TimerWork(v)' \subseteq TimerWork(v) /\ TaskWork(v)' \subseteq TaskWork(v)
      /\ SaveWork(v)' \subseteq SaveWork(v)
      /\ \A a \in EventWork(v)' :
           \/ a \in EventWork(v)
           \/ /\ \E p \in Projector : Reads(p, e)
              /\ a = <<"event", Len(stream) + 1, Expecting(e)>>
  <2>1. TaskWork(v)' \subseteq TaskWork(v) /\ SaveWork(v)' \subseteq SaveWork(v)
    BY <1>1 DEF TaskWork, SaveWork
  <2> QED
    BY <1>1, <1>3, <1>4, <2>1, AppendWork
<1>10. \A f : /\ Scheduled(v, f) \in Nat /\ Ended(v, f) \in Nat
              /\ Scheduled(v, f)' = Scheduled(v, f) +
                   IF e.kind = "activity/scheduled" /\ e.fn = f THEN 1 ELSE 0
              /\ Ended(v, f)' = Ended(v, f) + IF IsRecord(e) /\ e.fn = f THEN 1 ELSE 0
  BY <1>3, CallsAfter
<1>11. /\ r.err => e.kind = "workflow/failed"
       /\ e.kind = "activity/scheduled" =>
            Cardinality(OutcomesUpTo(v, r.pos, e.fn)) + 1 <= CallsOf(e.fn)
  BY <1>2, <1>4 DEF OnceInv, RunFits, DecisionFits
<1>12. \A f \in Fn : Ended(v, f) <= Scheduled(v, f) /\ Scheduled(v, f) <= CallsOf(f)
  BY <1>5 DEF OnceInv, CallsFit
<1>13. CASE r.err
  <2>1. e.kind = "workflow/failed" /\ ~\E p \in Projector : Reads(p, e)
    BY <1>11, <1>13 DEF Reads, IsRecord
  <2>2. Work(v)' \subseteq Work(v)
    BY <1>9, <2>1 DEF Work
  <2>3. \A f : Scheduled(v, f)' = Scheduled(v, f) /\ Ended(v, f)' = Ended(v, f)
    BY <1>10, <2>1 DEF IsRecord
  <2>4. \A a \in Work(v)' : CallsAre(v, a[3])'
    BY <1>5, <2>2, <2>3 DEF OnceInv, WorkFits, CallsAre
  <2>5. \A a, b \in Work(v)' : a = b
    BY <1>5, <2>2 DEF OnceInv, OnePlace
  <2>6. \A f \in Fn : Ended(v, f)' <= Scheduled(v, f)' /\ Scheduled(v, f)' <= CallsOf(f)
    BY <1>12, <2>3
  <2>7. msg.ev.kind # "workflow/completed" /\ Positions(v) # {} /\ runs' \subseteq runs
    BY <1>1, <1>3, <1>5, <2>1
  <2> QED
    BY <1>1, <1>3, <1>4, <1>7, <1>8, <2>4, <2>5, <2>6, <2>7, AppendKeepsOnce
<1>14. CASE ~r.err
  <2>1. PICK a : a = <<"save", r.at, Ending(e)>>
    OBVIOUS
  <2>2. a \in SaveWork(v) /\ a \in Work(v) /\ a[1] = "save" /\ a[3] = Ending(e)
    BY <1>1, <1>2, <1>14, <2>1 DEF SaveWork, Work
  <2>3. a \notin SaveWork(v)'
    <3>1. \A q \in runs' : q.at # r.at
      BY <1>1 DEF EngineInv, TypeOK
    <3> QED
      BY <2>1, <3>1 DEF SaveWork
  <2>4. \A c \in Work(v) : c = a
    BY <1>5, <2>2 DEF OnceInv, OnePlace
  <2>5. CallsAre(v, Ending(e))
    BY <1>5, <2>2 DEF OnceInv, WorkFits
  <2>6. a \notin EventWork(v) /\ a \notin TimerWork(v) /\ a \notin TaskWork(v)
    BY <2>2, WorkKinds
  <2>7. \A c \in Work(v)' : /\ \E p \in Projector : Reads(p, e)
                            /\ c = <<"event", Len(stream) + 1, Expecting(e)>>
    BY <1>9, <2>3, <2>4, <2>6 DEF Work
  <2>8. \A f \in Fn : Scheduled(v, f) = Ended(v, f) + IF f \in Ending(e) THEN 1 ELSE 0
    BY <2>5 DEF CallsAre
  <2>9. CallsAre(v, Expecting(e))'
    <3>1. ASSUME NEW f \in Fn
          PROVE  Scheduled(v, f)' = Ended(v, f)' + IF f \in Expecting(e) THEN 1 ELSE 0
      BY <1>10, <2>8 DEF Ending, Expecting, IsRecord
    <3> QED
      BY <3>1 DEF CallsAre
  <2>10. \A c \in Work(v)' : CallsAre(v, c[3])'
    <3>1. \A c \in Work(v)' : c[3] = Expecting(e)
      BY <2>7
    <3> QED
      BY <2>9, <3>1
  <2>11. \A c, b \in Work(v)' : c = b
    BY <2>7
  <2>12. msg.ev.kind = "workflow/completed" => Work(v)' = {}
    BY <1>3, <2>7 DEF Reads, IsRecord
  <2>13. ASSUME NEW f \in Fn
         PROVE  Ended(v, f)' <= Scheduled(v, f)' /\ Scheduled(v, f)' <= CallsOf(f)
    <3>1. CASE e.kind = "activity/scheduled" /\ e.fn = f
      <4>1. OutcomesUpTo(v, r.pos, f) =
              {i \in Positions(v) : stream[i].ev.fn = f
                 /\ stream[i].ev.kind \in {"activity/completed", "activity/failed"}}
        BY <1>6 DEF OutcomesUpTo, IsRecord
      <4>2. Ended(v, f) + 1 <= CallsOf(f)
        BY <1>11, <3>1, <4>1 DEF Ended, Count
      <4>3. Scheduled(v, f) = Ended(v, f)
        BY <1>10, <2>8, <3>1 DEF Ending
      <4> QED
        BY <1>10, <3>1, <4>2, <4>3 DEF IsRecord
    <3>2. CASE ~(e.kind = "activity/scheduled" /\ e.fn = f)
      <4>1. Scheduled(v, f)' = Scheduled(v, f) /\ Scheduled(v, f) <= CallsOf(f)
        BY <1>10, <1>12, <3>2
      <4>2. Ended(v, f)' <= Scheduled(v, f)
        BY <1>10, <1>12, <2>8 DEF Ending, IsRecord
      <4> QED
        BY <4>1, <4>2
    <3> QED
      BY <3>1, <3>2
  <2>14. Positions(v) # {} /\ runs' \subseteq runs
    BY <1>1, <1>5
  <2> QED
    BY <1>1, <1>3, <1>4, <1>7, <1>8, <2>10, <2>11, <2>12, <2>13, <2>14, AppendKeepsOnce
<1> QED
  BY <1>13, <1>14

-----------------------------------------------------------------------------
\* A program makes finitely many calls.
LEMMA CallsOfType ==
  \A f : CallsOf(f) \in Nat
<1> SUFFICES ASSUME NEW f PROVE CallsOf(f) \in Nat
  OBVIOUS
<1>1. PICK n \in Nat : n = Len(Program) /\ DOMAIN Program = 1..n
  BY EngineAssumption DEF IsProgram
<1>2. {i \in 1..n : Program[i].op = "exec" /\ Program[i].fn = f} \subseteq 1..n
  OBVIOUS
<1>3. IsFiniteSet({i \in 1..n : Program[i].op = "exec" /\ Program[i].fn = f})
  <2>1. IsFiniteSet(1..n)
    BY FS_Interval
  <2> QED
    BY <1>2, <2>1, FS_Subset
<1> QED
  BY <1>1, <1>3, FS_CardinalityType DEF CallsOf

\* Nothing has begun at first, and no acknowledgement will be lost.
LEMMA OnceInit ==
  ASSUME AcksArrive, Init
  PROVE  OnceInv
<1>1. /\ stream = <<>> /\ tasks = {} /\ runs = {} /\ timers = [i \in 1..MaxLen |-> 0]
      /\ budget = Faults
  BY DEF Init
<1>2. DOMAIN stream = {} /\ \A w : Positions(w) = {}
  BY <1>1 DEF Positions
<1>3. \A w : Work(w) = {}
  BY <1>1, <1>2 DEF Work, EventWork, TimerWork, TaskWork, SaveWork
<1>4. \A w, f, kinds : Count(w, f, kinds) = 0
  <2>1. \A w, f, kinds :
          {i \in Positions(w) : stream[i].ev.fn = f /\ stream[i].ev.kind \in kinds} = {}
    BY <1>2
  <2> QED
    BY <2>1, FS_EmptySet DEF Count
<1>5. \A f \in Fn : CallsOf(f) \in Nat
  BY CallsOfType
<1>6. CallsFit
  BY <1>4, <1>5 DEF CallsFit, Scheduled, Ended
<1>7. OneTimer
  BY <1>1 DEF OneTimer
<1>8. Acknowledged
  BY <1>1 DEF Acknowledged, AcksArrive
<1> QED
  BY <1>1, <1>2, <1>3, <1>6, <1>7, <1>8
     DEF OnceInv, OnePlace, WorkFits, RunsHaveTasks, TasksBegun, Begun, Final

\* No step of the engine brings a workflow to two places, or makes a call twice.
LEMMA OnceNext ==
  ASSUME EngineInv, LogProofs!IInv, OnceInv, IsSequential(Program), [Next]_vars
  PROVE  OnceInv'
<1>1. CASE UNCHANGED vars
  <2>1. UNCHANGED <<stream, cons, timers, tasks, runs, budget>>
    BY <1>1 DEF vars
  <2>2. \A w : Handed(w)
    BY <2>1, QuietWork, WorkDropped
  <2>3. OneTimer' /\ Acknowledged'
    BY <2>1 DEF OnceInv, OneTimer, Acknowledged
  <2> QED
    BY <2>1, <2>2, <2>3, ServerKeepsOnce
<1>2. CASE Next
  <2>1. CASE \E w \in Workflow : StartWorkflow(w)
    BY <2>1, QuietServerOnce, PublishStartedOnce DEF StartWorkflow
  <2>2. CASE \E p \in Projector : Project(p)
    <3>1. PICK p \in Projector, i \in DOMAIN stream :
            CASE p = "wf"     -> WorkflowTasks(i)
              [] p = "act"    -> ActivityTasks(i)
              [] p = "retry"  -> ActivityRetries(i)
              [] p = "result" -> WorkflowResults(i)
      BY <2>2 DEF Project
    <3>2. WorkflowTasks(i) \/ ActivityTasks(i) \/ ActivityRetries(i) \/ WorkflowResults(i)
      BY <3>1 DEF Projector
    <3> QED
      BY <3>2, WorkflowTasksOnce, ActivityTasksOnce, ActivityRetriesOnce, WorkflowResultsOnce
  <2>3. CASE \E i \in DOMAIN stream : FireRetry(i)
    BY <2>3, FireRetryOnce
  <2>4. CASE ServerCrash
    BY <2>4, QuietServerOnce
  <2>5. CASE \E m \in tasks : Redeliver(m)
    BY <2>5, RedeliverOnce
  <2>6. CASE \E id \in 1..MaxTasks : Take(id)
    <3>1. PICK m \in tasks, x \in Worker :
            \/ \E g \in Slot : Receive(x, g, m)
            \/ ReadFails(x, m)
            \/ ActivityPanics(x, m)
      BY <2>6 DEF Take
    <3> QED
      BY <3>1, ReceiveOnce, ProcessEndsOnce
  <2>7. CASE \E a \in Worker \X Slot : Handle(a)
    <3>1. PICK r \in runs : Respond(r) \/ EnsureStream(r) \/ Save(r) \/ SaveRefused(r)
      BY <2>7 DEF Handle
    <3> QED
      BY <3>1, RespondOnce, EnsureStreamOnce, SaveOnce, ProcessEndsOnce
  <2>8. CASE \E x \in Worker : Crash(x)
    BY <2>8, ProcessEndsOnce
  <2> QED
    BY <1>2, <2>1, <2>2, <2>3, <2>4, <2>5, <2>6, <2>7, <2>8 DEF Next
<1> QED
  BY <1>1, <1>2

(***************************************************************************)
(* A sequential workflow function calls every activity at most as often as *)
(* it says, and every call gets at most one outcome, whatever crashes, is  *)
(* refused, read short or delivered again: as long as acknowledgements     *)
(* arrive in time.                                                         *)
(***************************************************************************)
THEOREM CallsHappenAtMostOnce ==
  ASSUME IsSequential(Program), AcksArrive
  PROVE  Spec => []AtMostOnce
<1>1. EngineInv /\ OnceInv => AtMostOnce
  <2> SUFFICES ASSUME EngineInv, OnceInv, NEW w \in Workflow, NEW f \in Fn
               PROVE  /\ Count(w, f, {"activity/scheduled"}) <= CallsOf(f)
                      /\ Count(w, f, {"activity/completed", "activity/failed"}) <= CallsOf(f)
    BY DEF AtMostOnce
  <2>1. Ended(w, f) <= Scheduled(w, f) /\ Scheduled(w, f) <= CallsOf(f)
    BY DEF OnceInv, CallsFit
  <2>2. Ended(w, f) \in Nat /\ Scheduled(w, f) \in Nat /\ CallsOf(f) \in Nat
    BY CallsOfType, CountType DEF Ended, Scheduled
  <2> QED
    BY <2>1, <2>2 DEF Ended, Scheduled
<1>2. Init => OnceInv
  BY OnceInit
<1>3. EngineInv /\ LogProofs!IInv /\ OnceInv /\ [Next]_vars => OnceInv'
  BY OnceNext
<1> QED
  BY <1>1, <1>2, <1>3, EngineInvInit, EngineInvNext, LogInvInit, LogInvNext, PTL DEF Spec

(***************************************************************************)
(* Under the same conditions a workflow is at one place at a time: it has  *)
(* one event to be answered, one sleeping retry, one task or one save, and *)
(* never two of them, so that no two goroutines can get hold of the same   *)
(* call.                                                                   *)
(***************************************************************************)
THEOREM WorkflowsAreAtOnePlace ==
  ASSUME IsSequential(Program), AcksArrive
  PROVE  Spec => []OnePlace
<1>1. OnceInv => OnePlace
  BY DEF OnceInv
<1>2. Init => OnceInv
  BY OnceInit
<1>3. EngineInv /\ LogProofs!IInv /\ OnceInv /\ [Next]_vars => OnceInv'
  BY OnceNext
<1> QED
  BY <1>1, <1>2, <1>3, EngineInvInit, EngineInvNext, LogInvInit, LogInvNext, PTL DEF Spec

-----------------------------------------------------------------------------
(* The history as module Histories sees it.                                *)

Tell(m) == [wf |-> m.wf, kind |-> m.ev.kind, fn |-> m.ev.fn]

Telling(s) == [i \in DOMAIN s |-> Tell(s[i])]

ToldMsg == {Tell(m) : m \in Msg}

\* A stream without its versions, results and attempts.
LEMMA TellingFields ==
  ASSUME NEW s \in Seq(Msg)
  PROVE  /\ Telling(s) \in Seq(ToldMsg)
         /\ Len(Telling(s)) = Len(s) /\ DOMAIN Telling(s) = DOMAIN s
         /\ DOMAIN s = 1..Len(s) /\ Len(s) \in Nat
         /\ \A i \in DOMAIN s : /\ s[i] \in Msg /\ Telling(s)[i] = Tell(s[i])
                                /\ Telling(s)[i].wf = s[i].wf
                                /\ Telling(s)[i].kind = s[i].ev.kind
                                /\ Telling(s)[i].fn = s[i].ev.fn
<1>1. DOMAIN s = 1..Len(s) /\ Len(s) \in Nat /\ \A i \in DOMAIN s : s[i] \in Msg
  OBVIOUS
<1>2. \A i \in DOMAIN s : Telling(s)[i] = Tell(s[i]) /\ Tell(s[i]) \in ToldMsg
  BY <1>1 DEF Telling, ToldMsg
<1>3. Telling(s) \in [1..Len(s) -> ToldMsg]
  BY <1>1, <1>2 DEF Telling
<1>4. Telling(s) \in Seq(ToldMsg) /\ Len(Telling(s)) = Len(s) /\ DOMAIN Telling(s) = 1..Len(s)
  BY <1>1, <1>3
<1>5. \A i \in DOMAIN s : /\ Telling(s)[i].wf = s[i].wf
                          /\ Telling(s)[i].kind = s[i].ev.kind
                          /\ Telling(s)[i].fn = s[i].ev.fn
  <2>1. \A m : Tell(m).wf = m.wf /\ Tell(m).kind = m.ev.kind /\ Tell(m).fn = m.ev.fn
    BY DEF Tell
  <2> QED
    BY <1>2, <2>1
<1> QED
  BY <1>1, <1>2, <1>4, <1>5

\* An appended message lengthens what is told by one.
LEMMA TellingAppend ==
  ASSUME NEW s \in Seq(Msg), NEW m \in Msg
  PROVE  LET t == Telling(Append(s, m)) IN
         /\ Len(t) = Len(s) + 1 /\ t[Len(s) + 1] = Tell(m)
         /\ SubSeq(t, 1, Len(s)) = Telling(s)
<1>1. PICK n \in Nat : n = Len(s)
  OBVIOUS
<1>2. PICK u \in Seq(Msg) : u = Append(s, m)
  <2>1. Append(s, m) \in Seq(Msg)
    OBVIOUS
  <2> QED
    BY <2>1
<1>3. Len(u) = n + 1 /\ u[n + 1] = m /\ \A i \in 1..n : u[i] = s[i]
  BY <1>1, <1>2
<1>4. PICK t \in Seq(ToldMsg), b \in Seq(ToldMsg) : t = Telling(u) /\ b = Telling(s)
  BY TellingFields
<1>5. /\ Len(t) = n + 1 /\ Len(b) = n
      /\ \A i \in 1..(n + 1) : t[i] = Tell(u[i])
      /\ \A i \in 1..n : b[i] = Tell(s[i])
  BY <1>1, <1>3, <1>4, TellingFields
<1>6. n + 1 \in 1..(n + 1) /\ \A i \in 1..n : i \in 1..(n + 1)
  OBVIOUS
<1>7. t[n + 1] = Tell(m) /\ \A i \in 1..n : t[i] = b[i]
  BY <1>3, <1>5, <1>6
<1>8. PICK c : c = SubSeq(t, 1, n)
  OBVIOUS
<1>9. c \in Seq(ToldMsg) /\ Len(c) = n /\ \A i \in 1..n : c[i] = t[i]
  BY <1>4, <1>5, <1>8
<1>10. c = b
  BY <1>4, <1>5, <1>7, <1>9, SameSequence
<1> QED
  BY <1>1, <1>2, <1>4, <1>5, <1>7, <1>8, <1>10

\* A legal message is a step of Histories.
LEMMA TellingStep ==
  ASSUME EngineInv, NEW msg \in Msg, stream' = Append(stream, msg),
         Told!Legal(Telling(stream), Tell(msg))
  PROVE  Told!Grow
<1>1. stream \in Seq(Msg)
  BY EngineTypes DEF Msg
<1>2. PICK s, t, n : s = Telling(stream) /\ t = Telling(stream') /\ n = Len(stream)
  OBVIOUS
<1>3. /\ n \in Nat /\ Len(s) = n /\ Len(t) = n + 1 /\ t[n + 1] = Tell(msg)
      /\ SubSeq(t, 1, n) = s
  BY <1>1, <1>2, TellingFields, TellingAppend
<1>4. \A i \in (n + 1)..(n + 1) : i = n + 1
  BY <1>3
<1>5. \A i \in (Len(s) + 1)..Len(t) : Told!Legal(SubSeq(t, 1, i - 1), t[i])
  <2>1. \A i \in (Len(s) + 1)..Len(t) : i = n + 1 /\ i - 1 = n
    BY <1>3, <1>4
  <2> QED
    BY <1>2, <1>3, <2>1
<1>6. Len(t) > Len(s) /\ SubSeq(t, 1, Len(s)) = s
  BY <1>3
<1> QED
  BY <1>2, <1>5, <1>6 DEF Told!Grow, Telling, Tell

\* Histories counts the messages of a workflow as the engine does.
LEMMA TellingCounts ==
  ASSUME EngineInv, NEW w
  PROVE  /\ \A kinds : Told!Having(Telling(stream), w, kinds) =
                         {i \in Positions(w) : stream[i].ev.kind \in kinds}
         /\ \A f, kinds : Cardinality(Told!OfFn(Telling(stream), w, f, kinds)) = Count(w, f, kinds)
<1>1. PICK s : s = Telling(stream)
  OBVIOUS
<1>2. /\ DOMAIN s = DOMAIN stream
      /\ \A i \in DOMAIN stream : /\ s[i].wf = stream[i].wf /\ s[i].kind = stream[i].ev.kind
                                  /\ s[i].fn = stream[i].ev.fn
  <2>1. stream \in Seq(Msg)
    BY EngineTypes DEF Msg
  <2> QED
    BY <1>1, <2>1, TellingFields
<1>3. ASSUME NEW kinds
      PROVE  Told!Having(s, w, kinds) = {i \in Positions(w) : stream[i].ev.kind \in kinds}
  BY <1>2 DEF Told!Having, Positions
<1>4. ASSUME NEW f, NEW kinds
      PROVE  Told!OfFn(s, w, f, kinds) =
               {i \in Positions(w) : stream[i].ev.fn = f /\ stream[i].ev.kind \in kinds}
  BY <1>2, <1>3 DEF Told!OfFn, Positions
<1>5. ASSUME NEW f, NEW kinds
      PROVE  Cardinality(Told!OfFn(s, w, f, kinds)) = Count(w, f, kinds)
  BY <1>4 DEF Count
<1> QED
  BY <1>1, <1>3, <1>5

\* WorkflowStarted is published for a workflow without a history.
LEMMA StartIsLegal ==
  ASSUME EngineInv, NEW w \in Workflow, PublishStarted(w)
  PROVE  Told!Grow \/ UNCHANGED stream
<1>1. CASE UNCHANGED stream
  BY <1>1
<1>2. CASE stream' = Append(stream, Message(w, 1, WorkflowStarted))
  <2>1. PICK msg : msg = Message(w, 1, WorkflowStarted)
    OBVIOUS
  <2>2. msg \in Msg /\ msg.wf = w /\ msg.ev.kind = "workflow/started"
    BY <2>1, EngineAssumption DEF Message, Msg, WorkflowStarted, Ev, EventType, Attempts
  <2>3. Positions(w) = {}
    BY DEF PublishStarted, EngineInv, CommandsSound
  <2>4. Tell(msg).wf = w /\ Tell(msg).kind = "workflow/started"
    BY <2>2 DEF Tell
  <2>5. Told!Having(Telling(stream), w, {"workflow/started"}) = {}
    BY <2>3, TellingCounts
  <2>6. Told!Legal(Telling(stream), Tell(msg))
    BY <2>4, <2>5 DEF Told!Legal
  <2> QED
    BY <1>2, <2>1, <2>2, <2>6, TellingStep
<1> QED
  BY <1>1, <1>2 DEF PublishStarted

\* A Save appends what a history can have at its place: the goroutine has
\* read all of it, and the call whose end it records is open.
LEMMA SaveIsLegal ==
  ASSUME EngineInv, OnceInv, LogProofs!IInv, NEW r \in runs, Save(r)
  PROVE  Told!Grow
<1>1. Accepted(r) /\ r.pc = "ensured"
  BY DEF Save
<1>2. PICK v, e : v = r.wf /\ e = r.events[1]
  OBVIOUS
<1>3. PICK msg \in Msg : msg.wf = v /\ msg.ev = e /\ stream' = Append(stream, msg)
  BY <1>2, SaveAppends
<1>4. DOMAIN r.events = {1}
  BY SaveAppends
<1>5. /\ v \in Workflow /\ r.pos \in Positions(v) /\ e \in EventType
      /\ SoundEvent(e) /\ e.kind # "workflow/started"
  BY <1>2, <1>4, RunFields DEF RunEventsSound, Positions
<1>6. \A i \in Positions(v) : stream[i].ev.kind # "workflow/completed"
  BY <1>1, <1>2, <1>5, SaveIsNotLate
<1>7. Told!Having(Telling(stream), v, {"workflow/started"}) # {}
  <2>1. PICK j \in Positions(v) : stream[j].ev.kind = "workflow/started"
    BY <1>5 DEF OnceInv, Begun, Positions
  <2> QED
    BY <2>1, TellingCounts
<1>8. Told!Having(Telling(stream), v, {"workflow/completed"}) = {}
  <2>1. Told!Having(Telling(stream), v, {"workflow/completed"}) =
          {i \in Positions(v) : stream[i].ev.kind \in {"workflow/completed"}}
    BY TellingCounts
  <2> QED
    BY <1>6, <2>1
<1>9. ASSUME e.kind \in {"activity/completed", "activity/failed", "activity/retried"}
      PROVE  Told!IsOpen(Telling(stream), v, e.fn)
  <2>1. ~r.err
    BY <1>2, <1>4, <1>9 DEF OnceInv, RunFits, DecisionFits
  <2>2. e.fn \in Fn /\ Ending(e) = {e.fn}
    BY <1>5, <1>9 DEF SoundEvent, Ending
  <2>3. PICK a : a = <<"save", r.at, Ending(e)>>
    OBVIOUS
  <2>4. a \in Work(v) /\ a[3] = {e.fn}
    BY <1>1, <1>2, <2>1, <2>2, <2>3 DEF SaveWork, Work
  <2>5. CallsAre(v, {e.fn})
    BY <1>5, <2>4 DEF OnceInv, WorkFits
  <2>6. Scheduled(v, e.fn) = Ended(v, e.fn) + 1 /\ Ended(v, e.fn) \in Nat
    BY <2>2, <2>5, CountType DEF CallsAre, Ended
  <2>7. \A kinds : Cardinality(Told!OfFn(Telling(stream), v, e.fn, kinds)) = Count(v, e.fn, kinds)
    BY TellingCounts
  <2>8. Count(v, e.fn, {"activity/scheduled"}) > Count(v, e.fn, Told!Outcome)
    BY <2>6, CountType DEF Told!Outcome, Scheduled, Ended
  <2>9. Cardinality(Told!OfFn(Telling(stream), v, e.fn, {"activity/scheduled"})) >
          Cardinality(Told!OfFn(Telling(stream), v, e.fn, Told!Outcome))
    <3>1. /\ Cardinality(Told!OfFn(Telling(stream), v, e.fn, {"activity/scheduled"})) =
               Count(v, e.fn, {"activity/scheduled"})
          /\ Cardinality(Told!OfFn(Telling(stream), v, e.fn, Told!Outcome)) =
               Count(v, e.fn, Told!Outcome)
      BY <2>7
    <3> QED
      BY <2>8, <3>1
  <2> QED
    BY <2>9, Zenon DEF Told!IsOpen, Told!Cardinality, Cardinality
<1>10. Tell(msg).wf = v /\ Tell(msg).kind = e.kind /\ Tell(msg).fn = e.fn
  BY <1>3 DEF Tell
<1>11. Told!Legal(Telling(stream), Tell(msg))
  BY <1>5, <1>7, <1>8, <1>9, <1>10 DEF Told!Legal, Told!Outcome
<1> QED
  BY <1>3, <1>11, TellingStep

\* Every step of the engine adds legal messages to the history, or none.
LEMMA HistoriesStep ==
  ASSUME EngineInv, LogProofs!IInv, OnceInv, [Next]_vars
  PROVE  Told!Grow \/ UNCHANGED stream
<1>1. CASE UNCHANGED vars
  BY <1>1 DEF vars
<1>2. CASE Next
  <2>1. CASE \E w \in Workflow : StartWorkflow(w)
    BY <2>1, StartIsLegal DEF StartWorkflow, StoreInput
  <2>2. CASE \E p \in Projector : Project(p)
    <3>1. PICK p \in Projector, i \in DOMAIN stream :
            CASE p = "wf"     -> WorkflowTasks(i)
              [] p = "act"    -> ActivityTasks(i)
              [] p = "retry"  -> ActivityRetries(i)
              [] p = "result" -> WorkflowResults(i)
      BY <2>2 DEF Project
    <3>2. WorkflowTasks(i) \/ ActivityTasks(i) \/ ActivityRetries(i) \/ WorkflowResults(i)
      BY <3>1 DEF Projector
    <3> QED
      BY <3>2 DEF WorkflowTasks, ActivityTasks, ActivityRetries, WorkflowResults
  <2>3. CASE \E i \in DOMAIN stream : FireRetry(i)
    BY <2>3 DEF FireRetry
  <2>4. CASE ServerCrash
    BY <2>4 DEF ServerCrash
  <2>5. CASE \E m \in tasks : Redeliver(m)
    BY <2>5 DEF Redeliver
  <2>6. CASE \E id \in 1..MaxTasks : Take(id)
    <3>1. PICK m \in tasks, x \in Worker :
            \/ \E g \in Slot : Receive(x, g, m)
            \/ ReadFails(x, m)
            \/ ActivityPanics(x, m)
      BY <2>6 DEF Take
    <3> QED
      BY <3>1 DEF Receive, ReadFails, ActivityPanics
  <2>7. CASE \E a \in Worker \X Slot : Handle(a)
    <3>1. PICK r \in runs : Respond(r) \/ EnsureStream(r) \/ Save(r) \/ SaveRefused(r)
      BY <2>7 DEF Handle
    <3>2. ASSUME Respond(r) \/ EnsureStream(r) \/ SaveRefused(r) PROVE UNCHANGED stream
      BY <3>2 DEF Respond, EnsureStream, SaveRefused
    <3> QED
      BY <3>1, <3>2, SaveIsLegal
  <2>8. CASE \E x \in Worker : Crash(x)
    BY <2>8 DEF Crash
  <2> QED
    BY <1>2, <2>1, <2>2, <2>3, <2>4, <2>5, <2>6, <2>7, <2>8 DEF Next
<1> QED
  BY <1>1, <1>2

(***************************************************************************)
(* Under the same conditions the engine writes only histories that module  *)
(* Histories allows: a workflow begins once, an outcome is recorded for an *)
(* open call only, and nothing but late outcomes follows the end.          *)
(***************************************************************************)
THEOREM EngineImplementsHistories ==
  ASSUME IsSequential(Program), AcksArrive
  PROVE  Spec => ImplementsHistories
<1> DEFINE told == [i \in DOMAIN stream |->
                      [wf |-> stream[i].wf, kind |-> stream[i].ev.kind, fn |-> stream[i].ev.fn]]
<1>1. Init => told = <<>>
  BY DEF Init
<1>2. Init => OnceInv
  BY OnceInit
<1>3. EngineInv /\ LogProofs!IInv /\ OnceInv /\ [Next]_vars => OnceInv'
  BY OnceNext
<1>4. EngineInv /\ LogProofs!IInv /\ OnceInv /\ [Next]_vars => [Told!Grow]_told
  BY HistoriesStep
<1> QED
  BY <1>1, <1>2, <1>3, <1>4, EngineInvInit, EngineInvNext, LogInvInit, LogInvNext, PTL
     DEF Spec, ImplementsHistories, Told!HistoriesSpec
=============================================================================
