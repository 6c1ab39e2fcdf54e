---------------------------- MODULE EngineProofs ----------------------------
(***************************************************************************)
(* Proofs about Engine, for every set of workflows, workers and            *)
(* goroutines, every workflow function and policy and every budget of      *)
(* failures.                                                               *)
(***************************************************************************)
EXTENDS Engine, ReplayProofs, SequenceTheorems

-----------------------------------------------------------------------------
(* The events of one workflow.                                             *)

IsEvents(g, s, w, n) ==
  g = [i \in 0..n |->
         IF i = 0 THEN <<>>
         ELSE IF s[i].wf = w THEN Append(g[i - 1], s[i].ev) ELSE g[i - 1]]

\* There is a function that satisfies the recursion of EventsIn.
LEMMA EventsExist ==
  ASSUME NEW s, NEW w, NEW n \in Nat
  PROVE  \E g : IsEvents(g, s, w, n)
<1> DEFINE Step(h, i) == IF s[i].wf = w THEN Append(h, s[i].ev) ELSE h
           S == {k \in Nat : \E g : IsEvents(g, s, w, k)}
<1>1. 0 \in S
  <2> DEFINE g == [i \in 0..0 |-> <<>>]
  <2>1. IsEvents(g, s, w, 0)
    BY DEF IsEvents
  <2> HIDE DEF g
  <2> QED
    BY <2>1
<1>2. ASSUME NEW k \in Nat, k \in S PROVE k + 1 \in S
  <2>1. PICK g : IsEvents(g, s, w, k)
    BY <1>2
  <2>2. g = [i \in 0..k |-> IF i = 0 THEN <<>> ELSE Step(g[i - 1], i)]
    BY <2>1 DEF IsEvents
  <2> HIDE DEF Step
  <2> DEFINE h == [i \in 0..(k + 1) |-> IF i <= k THEN g[i] ELSE Step(g[k], i)]
  <2>3. ASSUME NEW i \in 0..(k + 1)
        PROVE  h[i] = IF i = 0 THEN <<>> ELSE Step(h[i - 1], i)
    <3>1. CASE i = 0
      BY <3>1, <2>2
    <3>2. CASE i # 0 /\ i <= k
      <4>1. h[i] = g[i] /\ h[i - 1] = g[i - 1]
        BY <3>2
      <4>2. g[i] = Step(g[i - 1], i)
        BY <3>2, <2>2
      <4> QED
        BY <3>2, <4>1, <4>2
    <3>3. CASE i = k + 1
      <4>1. h[i] = Step(g[k], i) /\ h[i - 1] = g[k]
        BY <3>3
      <4> QED
        BY <3>3, <4>1
    <3> QED
      BY <3>1, <3>2, <3>3
  <2>4. h = [i \in 0..(k + 1) |-> IF i = 0 THEN <<>> ELSE Step(h[i - 1], i)]
    BY <2>3
  <2> HIDE DEF h
  <2>5. IsEvents(h, s, w, k + 1)
    BY <2>4 DEF IsEvents, Step
  <2> QED
    BY <2>5
<1>3. Nat \subseteq S
  <2> HIDE DEF S
  <2> QED
    BY <1>1, <1>2, Induct
<1> QED
  BY <1>3

\* The recursion of EventsIn, unfolded once.
LEMMA EventsUnfold ==
  ASSUME NEW s, NEW w, Len(s) \in Nat
  PROVE  /\ EventsIn(s, w)[0] = <<>>
         /\ \A i \in 0..(Len(s) - 1) :
              EventsIn(s, w)[i + 1] = IF s[i + 1].wf = w
                                      THEN Append(EventsIn(s, w)[i], s[i + 1].ev)
                                      ELSE EventsIn(s, w)[i]
<1> DEFINE n == Len(s)
           a == EventsIn(s, w)
<1>1. a = CHOOSE g : IsEvents(g, s, w, n)
  BY DEF EventsIn, IsEvents
<1>2. IsEvents(CHOOSE g : IsEvents(g, s, w, n), s, w, n)
  BY EventsExist, Zenon
<1>3. IsEvents(a, s, w, n)
  BY <1>1, <1>2
<1> HIDE DEF a
<1>4. a[0] = <<>>
  BY <1>3 DEF IsEvents
<1>5. ASSUME NEW i \in 0..(n - 1)
      PROVE  a[i + 1] = IF s[i + 1].wf = w THEN Append(a[i], s[i + 1].ev) ELSE a[i]
  <2>1. i + 1 \in 0..n /\ i + 1 # 0 /\ (i + 1) - 1 = i
    OBVIOUS
  <2> QED
    BY <1>3, <2>1 DEF IsEvents
<1> QED
  BY <1>4, <1>5 DEF a

\* The events of a workflow have the type of the events of the stream.
LEMMA EventsType ==
  ASSUME NEW E, NEW s, NEW w, Len(s) \in Nat, \A i \in 1..Len(s) : s[i].ev \in E
  PROVE  \A n \in 0..Len(s) : EventsIn(s, w)[n] \in Seq(E)
<1> DEFINE n == Len(s)
           a == EventsIn(s, w)
           S == {i \in 0..n : a[i] \in Seq(E)}
<1>1. 0 \in S
  <2>1. a[0] = <<>>
    BY EventsUnfold
  <2>2. <<>> \in Seq(E) /\ 0 \in 0..n
    OBVIOUS
  <2> HIDE DEF a, n
  <2> QED
    BY <2>1, <2>2
<1>2. ASSUME NEW i \in 0..(n - 1), i \in S PROVE i + 1 \in S
  <2>1. a[i + 1] = IF s[i + 1].wf = w THEN Append(a[i], s[i + 1].ev) ELSE a[i]
    BY EventsUnfold
  <2>2. i + 1 \in 1..n /\ i + 1 \in 0..n
    OBVIOUS
  <2>3. s[i + 1].ev \in E
    BY <2>2
  <2> HIDE DEF a, n
  <2>4. \A q \in Seq(E) : Append(q, s[i + 1].ev) \in Seq(E)
    BY <2>3
  <2> QED
    BY <1>2, <2>1, <2>2, <2>4
<1>3. 0..n \subseteq S
  <2> HIDE DEF S
  <2> QED
    BY <1>1, <1>2, InductUpTo
<1> QED
  BY <1>3

\* Events that are stored stay where they are when the stream grows.
LEMMA EventsAgree ==
  ASSUME NEW s, NEW t, NEW w, Len(s) \in Nat, Len(t) \in Nat, Len(s) <= Len(t),
         \A i \in 1..Len(s) : t[i] = s[i]
  PROVE  \A n \in 0..Len(s) : EventsIn(t, w)[n] = EventsIn(s, w)[n]
<1> DEFINE n == Len(s)
           a == EventsIn(s, w)
           b == EventsIn(t, w)
           S == {i \in 0..n : b[i] = a[i]}
<1>1. 0 \in S
  <2>1. a[0] = <<>> /\ b[0] = <<>>
    BY EventsUnfold
  <2> HIDE DEF a, b
  <2> QED
    BY <2>1
<1>2. ASSUME NEW i \in 0..(n - 1), i \in S PROVE i + 1 \in S
  <2>1. a[i + 1] = IF s[i + 1].wf = w THEN Append(a[i], s[i + 1].ev) ELSE a[i]
    BY EventsUnfold
  <2>2. b[i + 1] = IF t[i + 1].wf = w THEN Append(b[i], t[i + 1].ev) ELSE b[i]
    BY EventsUnfold
  <2> HIDE DEF a, b
  <2>3. t[i + 1] = s[i + 1] /\ i + 1 \in 0..n
    OBVIOUS
  <2> QED
    BY <1>2, <2>1, <2>2, <2>3
<1>3. 0..n \subseteq S
  <2> HIDE DEF S
  <2> QED
    BY <1>1, <1>2, InductUpTo
<1> QED
  BY <1>3

\* An event of the history that becomes a record is an outcome.
LEMMA RecordOfEvent ==
  ASSUME NEW e \in EventType, IsRecord(e)
  PROVE  e \in OutcomeType
  BY EngineAssumption DEF EventType, OutcomeType, IsRecord, Attempts

\* The records of a workflow only get longer along the stream.
LEMMA RecordsGrow ==
  ASSUME NEW s, NEW w, Len(s) \in Nat, \A i \in 1..Len(s) : s[i].ev \in EventType,
         NEW n \in 0..Len(s)
  PROVE  /\ AreRecords(Records(EventsIn(s, w)[n]))
         /\ \A m \in n..Len(s) :
              Longer(Records(EventsIn(s, w)[n]), Records(EventsIn(s, w)[m]))
<1> DEFINE a == EventsIn(s, w)
           l == Len(s)
           S == {i \in 0..(l - n) : Longer(Records(a[n]), Records(a[n + i]))}
<1>1. \A i \in 0..l : a[i] \in Seq(EventType)
  BY EventsType
<1>2. \A i \in 0..(l - 1) : a[i + 1] = IF s[i + 1].wf = w THEN Append(a[i], s[i + 1].ev) ELSE a[i]
  BY EventsUnfold
<1> HIDE DEF a
<1>3. ASSUME NEW i \in 0..l PROVE AreRecords(Records(a[i]))
  <2>1. a[i] \in Seq(EventType)
    BY <1>1
  <2>2. Applicable(a[i])
    <3>1. Len(a[i]) \in Nat /\ \A k \in 1..Len(a[i]) : a[i][k] \in EventType
      BY <2>1
    <3> QED
      BY <3>1, RecordOfEvent DEF Applicable
  <2> QED
    BY <2>2, RecordsType
<1>4. 0 \in S
  <2>1. Longer(Records(a[n]), Records(a[n]))
    BY <1>3 DEF Longer, AreRecords
  <2> QED
    BY <2>1
<1>5. ASSUME NEW i \in 0..((l - n) - 1), i \in S PROVE i + 1 \in S
  <2> DEFINE k == n + i
  <2>1. k \in 0..(l - 1) /\ k + 1 \in 0..l /\ k \in 0..l /\ n + (i + 1) = k + 1 /\ i + 1 \in 0..(l - n)
    OBVIOUS
  <2>2. Longer(Records(a[n]), Records(a[k]))
    BY <1>5
  <2> HIDE DEF k, l
  <2>3. Longer(Records(a[k]), Records(a[k + 1]))
    <3>1. CASE s[k + 1].wf = w
      <4>1. a[k] \in Seq(EventType) /\ s[k + 1].ev \in EventType
        BY <1>1, <2>1 DEF l
      <4>2. Records(a[k + 1]) = Apply(Records(a[k]), s[k + 1].ev)
        BY <1>2, <2>1, <3>1, <4>1, RecordsAppend
      <4>3. AreRecords(Records(a[k]))
        BY <1>3, <2>1
      <4> QED
        BY <4>1, <4>2, <4>3, RecordOfEvent, ApplyLengthens
    <3>2. CASE s[k + 1].wf # w
      <4>1. a[k + 1] = a[k]
        BY <1>2, <2>1, <3>2
      <4> QED
        BY <1>3, <2>1, <4>1 DEF Longer, AreRecords
    <3> QED
      BY <3>1, <3>2
  <2>4. Longer(Records(a[n]), Records(a[k + 1]))
    <3>1. n \in 0..l
      BY DEF l
    <3> QED
      BY <1>3, <2>1, <2>2, <2>3, <3>1, LongerTransitive
  <2> QED
    BY <2>1, <2>4
<1>6. l - n \in Nat
  OBVIOUS
<1>7. 0..(l - n) \subseteq S
  <2> HIDE DEF S, l
  <2> QED
    BY <1>4, <1>5, <1>6, InductUpTo
<1>8. ASSUME NEW m \in n..l PROVE Longer(Records(a[n]), Records(a[m]))
  <2>1. m - n \in 0..(l - n) /\ n + (m - n) = m
    OBVIOUS
  <2> QED
    BY <1>7, <2>1
<1> QED
  BY <1>3, <1>8 DEF a

-----------------------------------------------------------------------------
(* What a run of the workflow function records.                            *)

\* The kinds of events a workflow task records.
WorkflowEvent(e) ==
  /\ e.kind \in {"activity/scheduled", "workflow/failed", "workflow/completed"}
  /\ e.kind = "activity/scheduled" => e.fn \in Fn
  /\ e.attempt = 0

WorkflowDecision(d) ==
  /\ d.err \in BOOLEAN
  /\ d.events \in Seq(EventType)
  /\ \A k \in DOMAIN d.events : WorkflowEvent(d.events[k])

\* Decision d ends the workflow with result v.
Concludes(d, v) ==
  /\ ~d.err
  /\ Len(d.events) > 0
  /\ Last(d.events) = WorkflowCompleted(v)

\* What the function returned: the values it got after <<1>>, or an error.
Returned(s) == IF s.out = "error" THEN ErrorVal ELSE <<1>> \o s.got

\* The decision taken after run s.
DecidedBy(s, d) ==
  /\ s.out = "blocked"  => d.events = s.events /\ d.err = FALSE
  /\ s.out = "panicked" => d.events = Append(s.events, WorkflowFailed) /\ d.err = TRUE
  /\ s.out \in {"error", "running"} =>
       d.events = Append(s.events, WorkflowCompleted(Returned(s))) /\ d.err = FALSE

\* processWorkflowTask, case by case.
LEMMA ProcessCases ==
  ASSUME NEW records, NEW s, s = RunProgram(Program, records),
         s.out \in {"running", "blocked", "panicked", "error"}
  PROVE  DecidedBy(s, ProcessWorkflowTask(Program, records))
  BY DEF ProcessWorkflowTask, DecidedBy, Returned

\* The run of the workflow function on any records.
LEMMA RunIsTyped ==
  ASSUME NEW records, AreRecords(records)
  PROVE  LET s == RunProgram(Program, records)
         IN  /\ s.events \in Seq(CallType) /\ s.got \in Seq(Nat)
             /\ s.out \in {"running", "blocked", "panicked", "error"}
             /\ DecidedBy(s, ProcessWorkflowTask(Program, records))
<1>1. IsProgram(Program) /\ Len(Program) \in Nat
  BY EngineAssumption DEF IsProgram
<1>2. RunOK(Program, Len(Program), After(Program, records)[Len(Program)])
  BY <1>1, RunIsOK
<1>3. RunProgram(Program, records) \in RunType(Program)
  BY <1>2 DEF RunOK, RunProgram
<1> DEFINE s == RunProgram(Program, records)
<1> HIDE DEF s
<1>4. /\ s.events \in Seq(CallType) /\ s.got \in Seq(Nat)
      /\ s.out \in {"running", "blocked", "panicked", "error"}
  BY <1>3 DEF RunType, s
<1>5. DecidedBy(s, ProcessWorkflowTask(Program, records))
  BY <1>4, ProcessCases DEF s
<1> QED
  BY <1>4, <1>5 DEF s

\* Events recorded by a run have the types of events.
LEMMA WorkflowEventTypes ==
  /\ \A e \in CallType : e \in EventType /\ WorkflowEvent(e)
  /\ WorkflowFailed \in EventType /\ WorkflowEvent(WorkflowFailed)
  /\ \A v \in Seq(Nat) : /\ WorkflowCompleted(v) \in EventType
                         /\ WorkflowEvent(WorkflowCompleted(v))
                         /\ WorkflowCompleted(v).kind = "workflow/completed"
                         /\ WorkflowCompleted(v).val = v
  BY EngineAssumption DEF CallType, EventType, WorkflowEvent, WorkflowFailed, Ev, ErrorVal,
     WorkflowCompleted, Attempts

\* processWorkflowTask records well-formed events, and a WorkflowCompleted only
\* as the last one, when the function returned.
LEMMA WorkflowDecides ==
  ASSUME NEW records, AreRecords(records)
  PROVE  LET d == ProcessWorkflowTask(Program, records)
         IN  /\ WorkflowDecision(d)
             /\ \A k \in DOMAIN d.events :
                  d.events[k].kind = "workflow/completed" => Concludes(d, d.events[k].val)
<1> SUFFICES ASSUME NEW s, s.events \in Seq(CallType), s.got \in Seq(Nat),
                    s.out \in {"running", "blocked", "panicked", "error"},
                    NEW d, DecidedBy(s, d)
             PROVE  /\ WorkflowDecision(d)
                    /\ \A k \in DOMAIN d.events :
                         d.events[k].kind = "workflow/completed" => Concludes(d, d.events[k].val)
  BY RunIsTyped
<1>1. /\ s.events \in Seq(EventType)
      /\ \A k \in DOMAIN s.events : s.events[k] \in CallType /\ WorkflowEvent(s.events[k])
      /\ \A k \in DOMAIN s.events : s.events[k].kind # "workflow/completed"
  <2>1. /\ Len(s.events) \in Nat /\ DOMAIN s.events = 1..Len(s.events)
        /\ \A k \in DOMAIN s.events : s.events[k] \in CallType
    OBVIOUS
  <2>2. \A e \in CallType : e.kind # "workflow/completed"
    BY DEF CallType
  <2>3. CallType \subseteq EventType
    BY WorkflowEventTypes
  <2>4. s.events \in Seq(EventType)
    BY <2>3
  <2> QED
    BY <2>1, <2>2, <2>4, WorkflowEventTypes
<1>2. Returned(s) \in Seq(Nat)
  BY DEF Returned, ErrorVal
<1>3. CASE s.out = "blocked"
  BY <1>1, <1>3 DEF DecidedBy, WorkflowDecision
<1>4. ASSUME NEW e \in EventType, WorkflowEvent(e), d.events = Append(s.events, e)
      PROVE  /\ d.events \in Seq(EventType) /\ Len(d.events) > 0 /\ Last(d.events) = e
             /\ DOMAIN d.events = 1..Len(d.events)
             /\ \A k \in DOMAIN d.events : WorkflowEvent(d.events[k])
             /\ \A k \in DOMAIN d.events :
                  d.events[k].kind = "workflow/completed" => d.events[k] = e
  <2>1. /\ d.events \in Seq(EventType) /\ Len(d.events) = Len(s.events) + 1
        /\ Len(s.events) \in Nat /\ DOMAIN s.events = 1..Len(s.events)
        /\ d.events[Len(s.events) + 1] = e
        /\ \A k \in 1..Len(s.events) : d.events[k] = s.events[k]
    BY <1>1, <1>4
  <2>2. DOMAIN d.events = 1..(Len(s.events) + 1)
    BY <2>1
  <2> QED
    BY <1>1, <1>4, <2>1, <2>2 DEF Last
<1>5. CASE s.out = "panicked"
  <2>1. d.events = Append(s.events, WorkflowFailed) /\ d.err = TRUE
    BY <1>5 DEF DecidedBy
  <2>2. WorkflowFailed.kind # "workflow/completed"
    BY DEF WorkflowFailed, Ev
  <2>3. /\ d.events \in Seq(EventType)
        /\ \A k \in DOMAIN d.events : WorkflowEvent(d.events[k])
        /\ \A k \in DOMAIN d.events :
             d.events[k].kind = "workflow/completed" => d.events[k] = WorkflowFailed
    BY <1>4, <2>1, WorkflowEventTypes
  <2>4. d.err \in BOOLEAN
    BY <1>5 DEF DecidedBy
  <2> QED
    BY <2>2, <2>3, <2>4 DEF WorkflowDecision
<1>6. CASE s.out \in {"error", "running"}
  <2> DEFINE e == WorkflowCompleted(Returned(s))
  <2>1. d.events = Append(s.events, e) /\ d.err = FALSE
    BY <1>6 DEF DecidedBy
  <2>2. e \in EventType /\ WorkflowEvent(e) /\ e.val = Returned(s)
    BY <1>2, WorkflowEventTypes
  <2> HIDE DEF e
  <2>3. /\ d.events \in Seq(EventType) /\ Len(d.events) > 0 /\ Last(d.events) = e
        /\ \A k \in DOMAIN d.events : WorkflowEvent(d.events[k])
        /\ \A k \in DOMAIN d.events :
             d.events[k].kind = "workflow/completed" => d.events[k] = e
    BY <1>4, <2>1, <2>2
  <2>4. Concludes(d, e.val)
    BY <2>1, <2>2, <2>3 DEF Concludes, e
  <2> QED
    BY <2>1, <2>3, <2>4 DEF WorkflowDecision
<1> QED
  BY <1>3, <1>5, <1>6

(***************************************************************************)
(* Replay on a longer history comes to the same conclusion: the result of  *)
(* a workflow does not depend on what is recorded after it completed.      *)
(***************************************************************************)
LEMMA ConclusionIsFinal ==
  ASSUME NEW old, NEW new, AreRecords(old), AreRecords(new), Longer(old, new),
         NEW v, Concludes(ProcessWorkflowTask(Program, old), v)
  PROVE  Concludes(ProcessWorkflowTask(Program, new), v)
<1>1. IsProgram(Program)
  BY EngineAssumption
<1> DEFINE s == RunProgram(Program, old)
           t == RunProgram(Program, new)
           d == ProcessWorkflowTask(Program, old)
           e == ProcessWorkflowTask(Program, new)
<1>2. /\ s.events \in Seq(CallType)
      /\ s.out \in {"running", "blocked", "panicked", "error"} /\ DecidedBy(s, d)
      /\ t.events \in Seq(CallType) /\ DecidedBy(t, e)
  BY RunIsTyped
<1>3. Alike(Program, s, t) \/ Overtaken(s, t)
  BY <1>1, ReplayIsDeterministic
<1>4. Concludes(d, v)
  OBVIOUS
<1> HIDE DEF s, t, d, e
<1>5. s.out # "blocked"
  <2>1. SUFFICES ASSUME s.out = "blocked" PROVE FALSE
    OBVIOUS
  <2>2. Len(s.events) > 0 /\ Last(s.events) = WorkflowCompleted(v)
    BY <1>2, <1>4, <2>1 DEF DecidedBy, Concludes
  <2>3. Last(s.events) \in CallType
    BY <1>2, <2>2 DEF Last
  <2> QED
    BY <2>2, <2>3 DEF CallType, WorkflowCompleted, Ev
<1>6. s.out # "panicked"
  <2>1. ~d.err
    BY <1>4 DEF Concludes
  <2> QED
    BY <1>2, <2>1 DEF DecidedBy
<1>7. s.out \in {"error", "running"} /\ t.out = s.out /\ t.got = s.got
  BY <1>2, <1>3, <1>5, <1>6 DEF Alike, Overtaken
<1>8. Returned(t) = Returned(s)
  BY <1>7 DEF Returned
<1>9. /\ d.events = Append(s.events, WorkflowCompleted(Returned(s)))
      /\ e.events = Append(t.events, WorkflowCompleted(Returned(t)))
      /\ e.err = FALSE
  BY <1>2, <1>7 DEF DecidedBy
<1>10. WorkflowCompleted(v) = WorkflowCompleted(Returned(s))
  BY <1>2, <1>4, <1>9 DEF Concludes, Last
<1>11. Len(e.events) > 0 /\ Last(e.events) = WorkflowCompleted(Returned(t))
  BY <1>2, <1>9 DEF Last
<1> QED
  BY <1>8, <1>9, <1>10, <1>11 DEF Concludes, e

-----------------------------------------------------------------------------
(* The inductive invariant.                                                *)

\* A recorded event names its activity, and announces a retry only where the
\* policy allows one more attempt.
SoundEvent(e) ==
  /\ e.kind \in {"activity/scheduled", "activity/completed", "activity/failed",
                 "activity/retried"} => e.fn \in Fn
  /\ e.kind = "activity/retried" =>
       Policy[e.fn] >= 0 /\ (Policy[e.fn] > 0 => e.attempt < Policy[e.fn])

\* An attempt is announced later in the stream than the attempts before it, and
\* every event but WorkflowStarted follows another one of its workflow.
StreamSound ==
  \A i \in DOMAIN stream :
    /\ SoundEvent(stream[i].ev)
    /\ stream[i].ev.attempt < i
    /\ stream[i].ev.kind = "workflow/started" \/ stream[i].ver > 1

RunEventsSound(r) ==
  \A k \in DOMAIN r.events :
    /\ SoundEvent(r.events[k])
    /\ r.events[k].attempt <= Len(stream)
    /\ r.events[k].kind # "workflow/started"

\* A goroutine has read an event of its workflow, and saves only what there is.
RunsSound ==
  \A r \in runs :
    /\ stream[r.pos].wf = r.wf
    /\ r.pc = "decided" \/ r.events # <<>>
    /\ RunEventsSound(r)

TasksSound ==
  \A m \in tasks :
    /\ m.task.attempt <= Len(stream)
    /\ m.task.q = "act" => m.task.fn \in Fn

TimersSound ==
  \A i \in 1..MaxLen :
    timers[i] > 0 => i \in DOMAIN stream /\ stream[i].ev.kind = "activity/retried"

ResultsSound ==
  \A w \in Workflow : results[w] # <<>> =>
    \E i \in DOMAIN stream :
      /\ stream[i].wf = w /\ stream[i].ev.kind = "workflow/completed"
      /\ stream[i].ev.val = results[w]

\* A workflow has no history before its command is through.
CommandsSound ==
  \A w \in Workflow :
    /\ command[w] \in {"new", "stored"} => Positions(w) = {}
    /\ command[w] = "stored" => w \in inputs

EngineInv ==
  /\ TypeOK
  /\ StreamSound /\ RunsSound /\ TasksSound /\ TimersSound
  /\ ResultsSound /\ CommandsSound
  /\ InputBeforeHistory /\ AttemptsWithinPolicy

-----------------------------------------------------------------------------
(***************************************************************************)
(* What a step of the engine can do to each variable.  Every action is     *)
(* shown to do no more than this, and the invariant to survive this.       *)
(***************************************************************************)
StreamEffect ==
  \/ stream' = stream
  \/ \E w \in Workflow :
       /\ command[w] = "stored" /\ command'[w] \notin {"new", "stored"}
       /\ Len(stream) < MaxLen
       /\ stream' = Append(stream, Message(w, 1, WorkflowStarted))
  \/ \E r \in runs :
       /\ r.pc = "ensured"
       /\ Len(stream) + Len(r.events) <= MaxLen
       /\ stream' = stream \o [i \in DOMAIN r.events |->
                                 Message(r.wf, stream[r.pos].ver + i, r.events[i])]

CommandEffect ==
  /\ command' \in [Workflow -> {"new", "stored", "started", "refused"}]
  /\ inputs \subseteq inputs' /\ inputs' \subseteq Workflow
  /\ \A w \in Workflow :
       /\ command'[w] \in {"new", "stored"} => command[w] \in {"new", "stored"}
       /\ command'[w] = "stored" => w \in inputs'

\* A task that the history asks for.
Due(t) ==
  /\ t \in TaskType /\ t.attempt <= Len(stream)
  /\ t.q = "act" =>
       /\ t.fn \in Fn
       /\ Policy[t.fn] = 0 \/ t.attempt = 1 \/ t.attempt <= Policy[t.fn]

TasksEffect ==
  \/ tasks' = tasks
  \/ \E id, b : b \in BOOLEAN /\ tasks' = SetReady(id, b)
  \/ \E id : tasks' = Without(id)
  \/ \E t : Due(t) /\ Enqueue(t)

ConsEffect ==
  \/ cons' = cons
  \/ \E p \in Projector : \E i \in Deliverable(p) : Settle(p, i) \/ Keep(p, i)

TimersEffect ==
  /\ timers' \in [1..MaxLen -> Nat]
  /\ \A i \in 1..MaxLen : timers'[i] > 0 =>
       timers[i] > 0 \/ (i \in DOMAIN stream /\ stream[i].ev.kind = "activity/retried")

ResultsEffect ==
  \/ results' = results
  \/ \E i \in DOMAIN stream :
       /\ stream[i].ev.kind = "workflow/completed"
       /\ results' = [results EXCEPT ![stream[i].wf] = stream[i].ev.val]

\* A run that completes the workflow has replayed the events it has read.
Justified(r) ==
  \A k \in DOMAIN r.events : r.events[k].kind = "workflow/completed" =>
    Concludes(ProcessWorkflowTask(Program, Records(EventsOf(r.wf, r.pos))), r.events[k].val)

NewRun(r) ==
  /\ r \in [at : Worker \X Slot, tid : 0..MaxTasks, wf : Workflow, pos : DOMAIN stream,
            pc : {"decided"}, events : Seq(EventType), err : BOOLEAN]
  /\ \A q \in runs : q.at # r.at
  /\ stream[r.pos].wf = r.wf
  /\ RunEventsSound(r)
  /\ Justified(r)

RunsEffect ==
  \/ runs' \subseteq runs
  \/ \E r : NewRun(r) /\ runs' = runs \union {r}
  \/ \E r \in runs :
       /\ r.pc = "decided" /\ r.events # <<>>
       /\ runs' = (runs \ {r}) \union {[r EXCEPT !.pc = "settled", !.tid = 0]}
  \/ \E r \in runs :
       /\ r.pc = "settled"
       /\ runs' = (runs \ {r}) \union {[r EXCEPT !.pc = "ensured"]}

Effect ==
  /\ StreamEffect /\ CommandEffect /\ TasksEffect /\ ConsEffect
  /\ TimersEffect /\ ResultsEffect /\ RunsEffect
  /\ subjects' \subseteq Workflow
  /\ budget' \in [FaultKind -> Nat]

\* Variables that a step leaves alone, and the budget it spends from.
LEMMA EffectOfNothing ==
  ASSUME EngineInv
  PROVE  /\ UNCHANGED clientVars => CommandEffect
         /\ UNCHANGED timers => TimersEffect
         /\ UNCHANGED subjects => subjects' \subseteq Workflow
         /\ UNCHANGED budget => budget' \in [FaultKind -> Nat]
         /\ \A k \in FaultKind : Spend(k) => budget' \in [FaultKind -> Nat]
<1>1. UNCHANGED clientVars => CommandEffect
  BY DEF EngineInv, TypeOK, CommandsSound, CommandEffect, clientVars
<1>2. UNCHANGED timers => TimersEffect
  BY DEF EngineInv, TypeOK, TimersEffect
<1>3. ASSUME NEW k \in FaultKind, Spend(k) PROVE budget' \in [FaultKind -> Nat]
  BY <1>3 DEF EngineInv, TypeOK, Spend
<1> QED
  BY <1>1, <1>2, <1>3 DEF EngineInv, TypeOK

\* The types of the variables, one by one.
LEMMA EngineTypes ==
  ASSUME EngineInv
  PROVE  /\ stream \in Seq([wf : Workflow, ver : Nat \ {0}, ev : EventType])
         /\ Len(stream) \in Nat /\ DOMAIN stream = 1..Len(stream)
         /\ Len(stream) <= MaxLen /\ MaxLen \in Nat /\ MaxTasks \in Nat
         /\ \A i \in DOMAIN stream :
              /\ stream[i].wf \in Workflow /\ stream[i].ver \in Nat \ {0}
              /\ stream[i].ev \in EventType
<1>1. /\ stream \in Seq([wf : Workflow, ver : Nat \ {0}, ev : EventType])
      /\ Len(stream) <= MaxLen
  BY DEF EngineInv, TypeOK
<1> DEFINE M == [wf : Workflow, ver : Nat \ {0}, ev : EventType]
<1>2. /\ Len(stream) \in Nat /\ DOMAIN stream = 1..Len(stream)
      /\ \A i \in DOMAIN stream : stream[i] \in M
  <2> HIDE DEF M
  <2>1. stream \in Seq(M)
    BY <1>1 DEF M
  <2> QED
    BY <2>1
<1> QED
  BY <1>1, <1>2, EngineAssumption

\* A consumer delivers only messages that are stored.
LEMMA DeliverableStored ==
  ASSUME EngineInv, NEW p \in Projector
  PROVE  Deliverable(p) \subseteq DOMAIN stream
  BY EngineTypes DEF EngineInv, TypeOK, Deliverable

-----------------------------------------------------------------------------
(* The commands.                                                           *)

\* StoreInput: the command waits with its arguments stored, or is refused.
LEMMA StoreInputEffect ==
  ASSUME EngineInv, NEW w \in Workflow, StoreInput(w)
  PROVE  Effect
<1>1. CommandEffect
  BY DEF EngineInv, TypeOK, CommandsSound, StoreInput, CommandEffect
<1>2. budget' \in [FaultKind -> Nat]
  BY EffectOfNothing DEF StoreInput, FaultKind
<1>3. UNCHANGED <<stream, subjects, cons, timers, results, tasks, runs>>
  BY DEF StoreInput, serverVars
<1> QED
  BY <1>1, <1>2, <1>3, EffectOfNothing
     DEF Effect, StreamEffect, TasksEffect, ConsEffect, ResultsEffect, RunsEffect

\* PublishStarted: the first event of the workflow, whether or not the handler
\* learns that it is stored.
LEMMA PublishStartedEffect ==
  ASSUME EngineInv, NEW w \in Workflow, PublishStarted(w)
  PROVE  Effect
<1>1. CommandEffect
  BY DEF EngineInv, TypeOK, CommandsSound, PublishStarted, CommandEffect
<1>2. budget' \in [FaultKind -> Nat]
  BY EffectOfNothing DEF PublishStarted, FaultKind
<1>3. UNCHANGED <<subjects, cons, timers, results, tasks, runs>>
  BY DEF PublishStarted, serverVars
<1>4. StreamEffect
  BY DEF EngineInv, TypeOK, PublishStarted, StreamEffect
<1> QED
  BY <1>1, <1>2, <1>3, <1>4, EffectOfNothing
     DEF Effect, TasksEffect, ConsEffect, ResultsEffect, RunsEffect

\* ServerCrash: timers are gone and commands in progress are refused.
LEMMA ServerCrashEffect ==
  ASSUME EngineInv, ServerCrash
  PROVE  Effect
<1>1. CommandEffect
  BY DEF EngineInv, TypeOK, CommandsSound, ServerCrash, CommandEffect
<1>2. budget' \in [FaultKind -> Nat] /\ subjects' \subseteq Workflow
  BY EffectOfNothing DEF ServerCrash, FaultKind
<1>3. TimersEffect
  BY DEF ServerCrash, TimersEffect
<1>4. UNCHANGED <<stream, cons, results, tasks, runs>>
  BY DEF ServerCrash
<1> QED
  BY <1>1, <1>2, <1>3, <1>4
     DEF Effect, StreamEffect, TasksEffect, ConsEffect, ResultsEffect, RunsEffect

-----------------------------------------------------------------------------
(* The projectors.                                                         *)

\* Max and Min, for the numbers that consumers and queues compare.
LEMMA MaxOfTwo ==
  ASSUME NEW a \in Nat, NEW b \in Nat
  PROVE  /\ Max({a, b}) \in Nat
         /\ Max({a, b}) = a \/ Max({a, b}) = b
         /\ a <= Max({a, b}) /\ b <= Max({a, b})
  BY DEF Max

\* A set of numbers that is not empty holds its least element.
LEMMA MinOfSome ==
  ASSUME NEW S, S \subseteq Nat, S # {}
  PROVE  Min(S) \in S
<1>1. \E x \in S : \A y \in S : x <= y
  BY LeastNumber
<1> QED
  BY <1>1 DEF Min

\* The fields of a stored event.
LEMMA StoredEvent ==
  ASSUME EngineInv, NEW i \in DOMAIN stream
  PROVE  /\ i \in Nat /\ i <= Len(stream) /\ 1 <= i /\ i \in 1..MaxLen
         /\ stream[i].wf \in Workflow
         /\ stream[i].ev.val \in Seq(Nat) /\ stream[i].ev.attempt \in Nat
         /\ stream[i].ev.attempt < i
         /\ SoundEvent(stream[i].ev)
<1>1. /\ i \in Nat /\ i <= Len(stream) /\ 1 <= i /\ i \in 1..MaxLen
      /\ stream[i].wf \in Workflow /\ stream[i].ev \in EventType
  BY EngineTypes
<1>2. \A e \in EventType : e.val \in Seq(Nat) /\ e.attempt \in Nat
  BY EngineAssumption DEF EventType, Attempts
<1> QED
  BY <1>1, <1>2 DEF EngineInv, StreamSound

\* Due tasks: the workflow task of any event, the first attempt of a scheduled
\* activity, and one more attempt of a retried one.
LEMMA WorkflowTaskDue ==
  ASSUME EngineInv, NEW w \in Workflow
  PROVE  Due(Task("wf", w, WorkflowFn, <<>>, 0))
<1>1. 0 \in Attempts /\ 0 <= Len(stream)
  BY EngineTypes DEF Attempts
<1> QED
  BY <1>1 DEF Due, Task, TaskType

\* The task of an attempt within the policy is one that may be published.
LEMMA ActivityTaskDue ==
  ASSUME EngineInv, NEW w \in Workflow, NEW f \in Fn, NEW v \in Seq(Nat),
         NEW a \in Nat, a <= Len(stream), Policy[f] = 0 \/ a = 1 \/ a <= Policy[f]
  PROVE  Due(Task("act", w, f, v, a))
<1>1. a \in Attempts
  BY EngineTypes DEF Attempts
<1>2. Task("act", w, f, v, a) \in TaskType
  BY <1>1 DEF Task, TaskType
<1> QED
  BY <1>2 DEF Due, Task

\* Publishing a due task and settling its event.
LEMMA PublishTaskEffect ==
  ASSUME EngineInv, NEW p \in Projector, NEW i \in Deliverable(p), NEW t, Due(t),
         PublishTask(p, i, t)
  PROVE  TasksEffect /\ ConsEffect /\ budget' \in [FaultKind -> Nat]
<1>1. TasksEffect
  BY DEF PublishTask, TasksEffect
<1>2. ConsEffect
  BY DEF PublishTask, ConsEffect
<1>3. budget' \in [FaultKind -> Nat]
  BY EffectOfNothing DEF PublishTask, FaultKind
<1> QED
  BY <1>1, <1>2, <1>3

\* WorkflowTasks: a workflow task is published, or the event is let go.
LEMMA WorkflowTasksEffect ==
  ASSUME EngineInv, NEW i \in DOMAIN stream, WorkflowTasks(i)
  PROVE  Effect
<1> DEFINE w == stream[i].wf
           t == Task("wf", w, WorkflowFn, <<>>, 0)
<1>1. i \in Deliverable("wf") /\ "wf" \in Projector
  BY DEF WorkflowTasks, Projector
<1>2. Due(t)
  BY StoredEvent, WorkflowTaskDue
<1>3. UNCHANGED <<stream, subjects, command, inputs, results, timers, runs>>
  BY DEF WorkflowTasks, clientVars
<1>4. \/ PublishTask("wf", i, t)
      \/ Settle("wf", i) /\ (UNCHANGED budget \/ Spend("kv")) /\ UNCHANGED tasks
  BY DEF WorkflowTasks, Ignore
<1> HIDE DEF t
<1>5. TasksEffect /\ ConsEffect /\ budget' \in [FaultKind -> Nat]
  <2>1. CASE PublishTask("wf", i, t)
    BY <1>1, <1>2, <2>1, PublishTaskEffect
  <2>2. CASE Settle("wf", i) /\ (UNCHANGED budget \/ Spend("kv")) /\ UNCHANGED tasks
    <3>1. budget' \in [FaultKind -> Nat]
      BY <2>2, EffectOfNothing DEF FaultKind
    <3> QED
      BY <1>1, <2>2, <3>1 DEF TasksEffect, ConsEffect
  <2> QED
    BY <1>4, <2>1, <2>2
<1> QED
  BY <1>3, <1>5, EffectOfNothing DEF Effect, StreamEffect, ResultsEffect, RunsEffect, clientVars

\* ActivityTasks: the first attempt of a scheduled activity.
LEMMA ActivityTasksEffect ==
  ASSUME EngineInv, NEW i \in DOMAIN stream, ActivityTasks(i)
  PROVE  Effect
<1> DEFINE m == stream[i]
           t == Task("act", m.wf, m.ev.fn, m.ev.val, 1)
<1>1. i \in Deliverable("act") /\ "act" \in Projector
  BY DEF ActivityTasks, Projector
<1>2. UNCHANGED <<stream, subjects, command, inputs, results, timers, runs>>
  BY DEF ActivityTasks, clientVars
<1>3. TasksEffect /\ ConsEffect /\ budget' \in [FaultKind -> Nat]
  <2>1. CASE m.ev.kind = "activity/scheduled"
    <3>1. m.ev.fn \in Fn /\ m.wf \in Workflow /\ m.ev.val \in Seq(Nat) /\ 1 <= Len(stream)
      BY <2>1, StoredEvent, EngineTypes DEF SoundEvent
    <3>2. PublishTask("act", i, t)
      BY <2>1 DEF ActivityTasks
    <3> HIDE DEF m
    <3>3. Due(t)
      BY <3>1, ActivityTaskDue
    <3> HIDE DEF t
    <3> QED
      BY <1>1, <3>2, <3>3, PublishTaskEffect
  <2>2. CASE m.ev.kind # "activity/scheduled"
    <3>1. Settle("act", i) /\ UNCHANGED <<tasks, budget>>
      BY <2>2 DEF ActivityTasks, Ignore
    <3> QED
      BY <1>1, <3>1, EffectOfNothing DEF TasksEffect, ConsEffect
  <2> QED
    BY <2>1, <2>2
<1> QED
  BY <1>2, <1>3, EffectOfNothing DEF Effect, StreamEffect, ResultsEffect, RunsEffect, clientVars

\* ActivityRetries: a goroutine sleeps for the retried event.
LEMMA ActivityRetriesEffect ==
  ASSUME EngineInv, NEW i \in DOMAIN stream, ActivityRetries(i)
  PROVE  Effect
<1>1. i \in Deliverable("retry") /\ "retry" \in Projector
  BY DEF ActivityRetries, Projector
<1>2. UNCHANGED <<stream, subjects, command, inputs, results, tasks, runs>>
  BY DEF ActivityRetries, clientVars
<1>3. TimersEffect
  <2>1. timers \in [1..MaxLen -> Nat] /\ i \in 1..MaxLen
    BY StoredEvent DEF EngineInv, TypeOK
  <2>2. \/ timers' = timers
        \/ /\ stream[i].ev.kind = "activity/retried"
           /\ timers' = [timers EXCEPT ![i] = @ + 1]
    BY DEF ActivityRetries
  <2>3. CASE timers' = timers
    BY <2>3, EffectOfNothing
  <2>4. CASE /\ stream[i].ev.kind = "activity/retried"
             /\ timers' = [timers EXCEPT ![i] = @ + 1]
    <3>1. timers' \in [1..MaxLen -> Nat]
      BY <2>1, <2>4
    <3>2. \A j \in 1..MaxLen : j # i => timers'[j] = timers[j]
      BY <2>1, <2>4
    <3> QED
      BY <2>4, <3>1, <3>2 DEF TimersEffect
  <2> QED
    BY <2>2, <2>3, <2>4
<1>4. ConsEffect
  BY <1>1 DEF ActivityRetries, ConsEffect
<1>5. budget' \in [FaultKind -> Nat]
  BY EffectOfNothing DEF ActivityRetries, FaultKind
<1> QED
  BY <1>2, <1>3, <1>4, <1>5, EffectOfNothing
     DEF Effect, StreamEffect, TasksEffect, ResultsEffect, RunsEffect, clientVars

\* FireRetry: the next attempt of the activity whose call is found.
LEMMA FireRetryEffect ==
  ASSUME EngineInv, NEW i \in DOMAIN stream, FireRetry(i)
  PROVE  Effect
<1> DEFINE m == stream[i]
           call == Fetched(m.wf, m.ev.fn)
           t == Task("act", m.wf, m.ev.fn, stream[Min(call)].ev.val, m.ev.attempt + 1)
<1>1. timers \in [1..MaxLen -> Nat] /\ i \in 1..MaxLen /\ timers[i] > 0
  BY StoredEvent DEF EngineInv, TypeOK, FireRetry
<1>2. m.ev.kind = "activity/retried"
  BY <1>1 DEF EngineInv, TimersSound
<1>3. TimersEffect
  BY <1>1 DEF FireRetry, TimersEffect
<1>4. UNCHANGED <<stream, subjects, command, inputs, results, cons, runs>>
  BY DEF FireRetry, clientVars
<1>5. budget' \in [FaultKind -> Nat]
  BY EffectOfNothing DEF FireRetry, FaultKind
<1>6. TasksEffect
  <2>1. (call # {} /\ Enqueue(t)) \/ tasks' = tasks
    BY DEF FireRetry
  <2>2. CASE call # {} /\ Enqueue(t)
    <3>1. call \subseteq DOMAIN stream /\ DOMAIN stream \subseteq Nat
      BY EngineTypes DEF Fetched, Positions
    <3>2. stream[Min(call)].ev.val \in Seq(Nat)
      <4>1. call \subseteq Nat /\ call # {}
        BY <2>2, <3>1
      <4>2. Min(call) \in DOMAIN stream
        BY <3>1, <4>1, MinOfSome
      <4> QED
        BY <4>2, StoredEvent
    <3>3. /\ m.wf \in Workflow /\ m.ev.fn \in Fn
          /\ m.ev.attempt \in Nat /\ m.ev.attempt < i /\ i <= Len(stream)
          /\ i \in Nat /\ Len(stream) \in Nat
          /\ Policy[m.ev.fn] >= 0 /\ (Policy[m.ev.fn] > 0 => m.ev.attempt < Policy[m.ev.fn])
      BY <1>2, StoredEvent, EngineTypes DEF SoundEvent
    <3> HIDE DEF m, call
    <3>4. Policy[m.ev.fn] \in Int
      BY <3>3, EngineAssumption
    <3>5. /\ m.ev.attempt + 1 \in Nat /\ m.ev.attempt + 1 <= Len(stream)
          /\ Policy[m.ev.fn] = 0 \/ m.ev.attempt + 1 <= Policy[m.ev.fn]
      BY <3>3, <3>4
    <3>6. Due(t)
      BY <3>2, <3>3, <3>5, ActivityTaskDue
    <3> QED
      BY <2>2, <3>6 DEF TasksEffect
  <2> QED
    BY <2>1, <2>2 DEF TasksEffect
<1> QED
  BY <1>3, <1>4, <1>5, <1>6, EffectOfNothing
     DEF Effect, StreamEffect, ConsEffect, ResultsEffect, RunsEffect, clientVars

\* WorkflowResults: the value of a WorkflowCompleted is put into the bucket.
LEMMA WorkflowResultsEffect ==
  ASSUME EngineInv, NEW i \in DOMAIN stream, WorkflowResults(i)
  PROVE  Effect
<1>1. i \in Deliverable("result") /\ "result" \in Projector
  BY DEF WorkflowResults, Projector
<1>2. UNCHANGED <<stream, subjects, command, inputs, timers, tasks, runs>>
  BY DEF WorkflowResults, clientVars
<1>3. ResultsEffect
  BY DEF WorkflowResults, ResultsEffect
<1>4. ConsEffect
  BY <1>1 DEF WorkflowResults, ConsEffect
<1>5. budget' \in [FaultKind -> Nat]
  BY EffectOfNothing DEF WorkflowResults, FaultKind
<1> QED
  BY <1>2, <1>3, <1>4, <1>5, EffectOfNothing
     DEF Effect, StreamEffect, TasksEffect, RunsEffect, clientVars

-----------------------------------------------------------------------------
(* The workers.                                                            *)

\* What a worker decides for a task: well-formed events, and a result only when
\* the events it has read replay to it.
LEMMA DecisionsSound ==
  ASSUME EngineInv, NEW x \in Worker, NEW m \in tasks, NEW n \in Positions(m.task.wf),
         NEW d \in Decisions(x, m.task, n)
  PROVE  /\ d.err \in BOOLEAN
         /\ d.events \in Seq(EventType)
         /\ RunEventsSound(d)
         /\ \A k \in DOMAIN d.events : d.events[k].kind = "workflow/completed" =>
              Concludes(ProcessWorkflowTask(Program, Records(EventsOf(m.task.wf, n))),
                        d.events[k].val)
<1> DEFINE t == m.task
<1>1. /\ t \in TaskType /\ t.attempt <= Len(stream) /\ t.attempt \in Nat
      /\ t.q \in {"wf", "act"} /\ t.val \in Seq(Nat)
      /\ t.q = "act" => t.fn \in Fn
  <2>1. t \in TaskType
    BY DEF EngineInv, TypeOK
  <2>2. t.attempt \in Nat /\ t.q \in {"wf", "act"} /\ t.val \in Seq(Nat)
    BY <2>1, EngineAssumption DEF TaskType, Attempts
  <2> QED
    BY <2>1, <2>2 DEF EngineInv, TasksSound
<1>2. /\ n \in DOMAIN stream /\ n \in 0..Len(stream) /\ Len(stream) \in Nat
      /\ \A i \in 1..Len(stream) : stream[i].ev \in EventType
  BY EngineTypes DEF Positions
<1>3. CASE d = WorkflowNotRegistered
  <2>1. d.err = TRUE /\ d.events = <<WorkflowFailed>>
    BY <1>3 DEF WorkflowNotRegistered
  <2>2. /\ WorkflowFailed \in EventType /\ WorkflowFailed.attempt = 0
        /\ WorkflowFailed.kind = "workflow/failed"
    BY WorkflowEventTypes DEF WorkflowFailed, Ev
  <2>3. d.events \in Seq(EventType) /\ \A k \in DOMAIN d.events : d.events[k] = WorkflowFailed
    BY <2>1, <2>2
  <2>4. SoundEvent(WorkflowFailed)
    BY <2>2 DEF SoundEvent
  <2>5. RunEventsSound(d)
    BY <1>2, <2>2, <2>3, <2>4 DEF RunEventsSound
  <2>6. \A k \in DOMAIN d.events : d.events[k].kind # "workflow/completed"
    BY <2>2, <2>3
  <2> QED
    BY <2>1, <2>3, <2>5, <2>6
<1>4. CASE d = ActivityNotRegistered
  <2>1. d.err = FALSE \/ d.err = TRUE
    BY <1>4 DEF ActivityNotRegistered
  <2>2. d.events = <<>>
    BY <1>4 DEF ActivityNotRegistered
  <2>3. d.events \in Seq(EventType) /\ DOMAIN d.events = {}
    BY <2>2
  <2>4. RunEventsSound(d)
    BY <2>3 DEF RunEventsSound
  <2> QED
    BY <2>1, <2>3, <2>4
<1>5. CASE d = ProcessWorkflowTask(Program, Records(EventsOf(t.wf, n)))
  <2>1. AreRecords(Records(EventsOf(t.wf, n)))
    BY <1>2, RecordsGrow DEF EventsOf
  <2>2. /\ WorkflowDecision(d)
        /\ \A k \in DOMAIN d.events :
             d.events[k].kind = "workflow/completed" => Concludes(d, d.events[k].val)
    BY <1>5, <2>1, WorkflowDecides
  <2>3. RunEventsSound(d)
    BY <1>2, <2>2 DEF WorkflowDecision, WorkflowEvent, RunEventsSound, SoundEvent
  <2> QED
    BY <1>5, <2>2, <2>3 DEF WorkflowDecision
<1>6. ASSUME t.q = "act", NEW o \in {"ok", "transient", "fatal", "panic"},
             d = ProcessActivityTask(t, o)
      PROVE  /\ d.err \in BOOLEAN
             /\ d.events \in Seq(EventType)
             /\ RunEventsSound(d)
             /\ \A k \in DOMAIN d.events : d.events[k].kind # "workflow/completed"
  <2>1. t.fn \in Fn /\ Policy[t.fn] \in Int
    BY <1>1, <1>6, EngineAssumption
  <2>2. ASSUME NEW e, d.events = <<e>>,
               e \in {ActivityCompleted(t.fn, t.val), ActivityFailed(t.fn)}
                 \/ (e = ActivityRetried(t.fn, t.attempt) /\ ShouldRetry(t, o))
        PROVE  /\ e \in EventType /\ SoundEvent(e) /\ e.attempt <= Len(stream)
               /\ e.kind \notin {"workflow/started", "workflow/completed"}
    <3> HIDE DEF t
    <3>1. CASE e = ActivityCompleted(t.fn, t.val) \/ e = ActivityFailed(t.fn)
      <4>0. 0 \in Attempts /\ ErrorVal \in Seq(Nat) /\ t.val \in Seq(Nat)
        BY <1>1, EngineAssumption DEF Attempts, ErrorVal
      <4>1. /\ e.kind \in {"activity/completed", "activity/failed"} /\ e.attempt = 0
            /\ e.fn = t.fn /\ e \in EventType
        BY <2>1, <3>1, <4>0 DEF ActivityCompleted, ActivityFailed, Ev, EventType
      <4> QED
        BY <1>2, <2>1, <4>1 DEF SoundEvent
    <3>2. CASE e = ActivityRetried(t.fn, t.attempt) /\ ShouldRetry(t, o)
      <4>1. t.attempt \in Attempts
        BY <1>1, EngineTypes DEF Attempts
      <4>2. /\ e.kind = "activity/retried" /\ e.attempt = t.attempt /\ e.fn = t.fn
            /\ e \in EventType
        BY <2>1, <3>2, <4>1 DEF ActivityRetried, Ev, ErrorVal, EventType
      <4> QED
        BY <1>1, <2>1, <3>2, <4>2 DEF SoundEvent, ShouldRetry
    <3> QED
      BY <2>2, <3>1, <3>2
  <2>3. d.err = FALSE
    BY <1>6 DEF ProcessActivityTask
  <2>4. \E e : /\ d.events = <<e>>
               /\ \/ e \in {ActivityCompleted(t.fn, t.val), ActivityFailed(t.fn)}
                  \/ e = ActivityRetried(t.fn, t.attempt) /\ ShouldRetry(t, o)
    <3> HIDE DEF t
    <3>1. CASE o = "ok"
      <4>1. d.events = <<ActivityCompleted(t.fn, t.val)>>
        BY <1>6, <3>1 DEF ProcessActivityTask
      <4> QED
        BY <4>1
    <3>2. CASE o # "ok" /\ ShouldRetry(t, o)
      <4>1. d.events = <<ActivityRetried(t.fn, t.attempt)>>
        BY <1>6, <3>2 DEF ProcessActivityTask
      <4> QED
        BY <3>2, <4>1
    <3>3. CASE o # "ok" /\ ~ShouldRetry(t, o)
      <4>1. d.events = <<ActivityFailed(t.fn)>>
        BY <1>6, <3>3 DEF ProcessActivityTask
      <4> QED
        BY <4>1
    <3> QED
      BY <3>1, <3>2, <3>3
  <2>5. PICK e : /\ d.events = <<e>>
                 /\ e \in EventType /\ SoundEvent(e) /\ e.attempt <= Len(stream)
                 /\ e.kind \notin {"workflow/started", "workflow/completed"}
    BY <2>2, <2>4
  <2>6. d.events \in Seq(EventType) /\ \A k \in DOMAIN d.events : d.events[k] = e
    BY <2>5
  <2> QED
    BY <2>3, <2>5, <2>6 DEF RunEventsSound
<1>7. \/ d = WorkflowNotRegistered \/ d = ActivityNotRegistered
      \/ d = ProcessWorkflowTask(Program, Records(EventsOf(t.wf, n)))
      \/ t.q = "act" /\ \E o \in {"ok", "transient", "fatal", "panic"} : d = ProcessActivityTask(t, o)
  <2>1. CASE t.fn \notin Registry[x]
    <3>1. d \in {IF t.q = "wf" THEN WorkflowNotRegistered ELSE ActivityNotRegistered}
      BY <2>1 DEF Decisions
    <3> QED
      BY <3>1
  <2>2. CASE t.fn \in Registry[x] /\ t.q = "wf"
    <3>1. d \in {ProcessWorkflowTask(Program, Records(EventsOf(t.wf, n)))}
      BY <2>2 DEF Decisions
    <3> QED
      BY <3>1
  <2>3. CASE t.fn \in Registry[x] /\ t.q = "act"
    <3>1. d \in {ProcessActivityTask(t, o) : o \in Outcomes[t.fn] \ {"panic"}}
      BY <2>3 DEF Decisions
    <3>2. Outcomes[t.fn] \subseteq {"ok", "transient", "fatal", "panic"}
      BY <1>1, <2>3, EngineAssumption
    <3> QED
      BY <2>3, <3>1, <3>2
  <2> QED
    BY <1>1, <2>1, <2>2, <2>3
<1> QED
  BY <1>3, <1>4, <1>5, <1>6, <1>7

\* Steps of the workers leave the server and its clients alone.
LEMMA WorkerEffect ==
  ASSUME EngineInv, UNCHANGED <<stream, clientVars, serverVars>>, subjects' \subseteq Workflow,
         budget' \in [FaultKind -> Nat], TasksEffect, RunsEffect
  PROVE  Effect
<1>1. UNCHANGED <<stream, command, inputs, cons, timers, results>>
  BY DEF clientVars, serverVars
<1>2. CommandEffect /\ TimersEffect
  BY <1>1, EffectOfNothing DEF clientVars
<1> QED
  BY <1>1, <1>2 DEF Effect, StreamEffect, ConsEffect, ResultsEffect

\* Receive: a new goroutine with its decision.
LEMMA ReceiveEffect ==
  ASSUME EngineInv, NEW x \in Worker, NEW g \in Slot, NEW m \in tasks, Receive(x, g, m)
  PROVE  Effect
<1>0. PICK n \in Positions(m.task.wf) : \E d \in Decisions(x, m.task, n) :
        /\ budget' = budget \/ Spend("read")
        /\ runs' = runs \union
             {[at |-> <<x, g>>, tid |-> m.id, wf |-> m.task.wf, pos |-> n,
               pc |-> "decided", events |-> d.events, err |-> d.err]}
  BY DEF Receive
<1>1. PICK d \in Decisions(x, m.task, n) :
        /\ budget' = budget \/ Spend("read")
        /\ runs' = runs \union
             {[at |-> <<x, g>>, tid |-> m.id, wf |-> m.task.wf, pos |-> n,
               pc |-> "decided", events |-> d.events, err |-> d.err]}
  BY <1>0
<1>2. /\ d.err \in BOOLEAN
      /\ d.events \in Seq(EventType)
      /\ RunEventsSound(d)
      /\ \A k \in DOMAIN d.events : d.events[k].kind = "workflow/completed" =>
           Concludes(ProcessWorkflowTask(Program, Records(EventsOf(m.task.wf, n))),
                     d.events[k].val)
  BY <1>1, DecisionsSound
<1> DEFINE r == [at |-> <<x, g>>, tid |-> m.id, wf |-> m.task.wf, pos |-> n,
                 pc |-> "decided", events |-> d.events, err |-> d.err]
<1>3. m.id \in 0..MaxTasks /\ m.task.wf \in Workflow
  BY EngineTypes DEF EngineInv, TypeOK, TaskType
<1>4. n \in DOMAIN stream /\ stream[n].wf = m.task.wf
  BY <1>1 DEF Positions
<1>5. r \in [at : Worker \X Slot, tid : 0..MaxTasks, wf : Workflow, pos : DOMAIN stream,
             pc : {"decided"}, events : Seq(EventType), err : BOOLEAN]
  BY <1>2, <1>3, <1>4
<1>6. r.at = <<x, g>> /\ r.pos = n /\ r.wf = m.task.wf /\ r.events = d.events
  OBVIOUS
<1>7. runs' = runs \union {r}
  BY <1>1
<1> HIDE DEF r
<1>8. RunEventsSound(r) /\ Justified(r)
  BY <1>2, <1>6 DEF RunEventsSound, Justified
<1>9. \A q \in runs : q.at # r.at
  BY <1>6 DEF Receive
<1>10. NewRun(r)
  BY <1>4, <1>5, <1>6, <1>8, <1>9 DEF NewRun
<1>11. RunsEffect
  BY <1>7, <1>10 DEF RunsEffect
<1>12. budget' \in [FaultKind -> Nat]
  BY <1>1, EffectOfNothing DEF FaultKind
<1>13. TasksEffect /\ UNCHANGED <<stream, clientVars, serverVars>> /\ subjects' \subseteq Workflow
  BY EffectOfNothing DEF Receive, TasksEffect
<1> QED
  BY <1>11, <1>12, <1>13, WorkerEffect

\* ReadFails, ActivityPanics and Crash: goroutines end with their process.
LEMMA ReadFailsEffect ==
  ASSUME EngineInv, NEW x \in Worker, NEW m \in tasks, ReadFails(x, m)
  PROVE  Effect
<1>1. TasksEffect /\ RunsEffect
  BY DEF ReadFails, TasksEffect, RunsEffect
<1>2. /\ UNCHANGED <<stream, clientVars, serverVars>> /\ subjects' \subseteq Workflow
      /\ budget' \in [FaultKind -> Nat]
  BY EffectOfNothing DEF ReadFails, FaultKind
<1> QED
  BY <1>1, <1>2, WorkerEffect

\* A panic of an activity takes the worker down and leaves the rest alone.
LEMMA ActivityPanicsEffect ==
  ASSUME EngineInv, NEW x \in Worker, NEW m \in tasks, ActivityPanics(x, m)
  PROVE  Effect
<1>1. TasksEffect /\ RunsEffect
  BY DEF ActivityPanics, TasksEffect, RunsEffect
<1>2. /\ UNCHANGED <<stream, clientVars, serverVars>> /\ subjects' \subseteq Workflow
      /\ budget' \in [FaultKind -> Nat]
  BY EffectOfNothing DEF ActivityPanics
<1> QED
  BY <1>1, <1>2, WorkerEffect

\* A crash takes the runs of the worker with it.
LEMMA CrashEffect ==
  ASSUME EngineInv, NEW x \in Worker, Crash(x)
  PROVE  Effect
<1>1. TasksEffect /\ RunsEffect
  BY DEF Crash, TasksEffect, RunsEffect
<1>2. /\ UNCHANGED <<stream, clientVars, serverVars>> /\ subjects' \subseteq Workflow
      /\ budget' \in [FaultKind -> Nat]
  BY EffectOfNothing DEF Crash, FaultKind
<1> QED
  BY <1>1, <1>2, WorkerEffect

\* Redeliver: a task nobody acknowledged is ready again.
LEMMA RedeliverEffect ==
  ASSUME EngineInv, NEW m \in tasks, Redeliver(m)
  PROVE  Effect
<1>1. TasksEffect /\ RunsEffect
  BY DEF Redeliver, TasksEffect, RunsEffect
<1>2. /\ UNCHANGED <<stream, clientVars, serverVars>> /\ subjects' \subseteq Workflow
      /\ budget' \in [FaultKind -> Nat]
  BY EffectOfNothing DEF Redeliver, FaultKind
<1> QED
  BY <1>1, <1>2, WorkerEffect

\* Respond: the task is settled before anything is saved.
LEMMA RespondEffect ==
  ASSUME EngineInv, NEW r \in runs, Respond(r)
  PROVE  Effect
<1>1. TasksEffect
  BY DEF Respond, TasksEffect
<1>2. RunsEffect
  <2>1. CASE r.events = <<>>
    <3>1. runs' = runs \ {r}
      BY <2>1 DEF Respond
    <3> QED
      BY <3>1 DEF RunsEffect
  <2>2. CASE r.events # <<>>
    BY <2>2 DEF Respond, RunsEffect
  <2> QED
    BY <2>1, <2>2
<1>3. /\ UNCHANGED <<stream, clientVars, serverVars>> /\ subjects' \subseteq Workflow
      /\ budget' \in [FaultKind -> Nat]
  BY EffectOfNothing DEF Respond, FaultKind
<1> QED
  BY <1>1, <1>2, <1>3, WorkerEffect

\* EnsureStream: the subjects of the stream are narrowed to the workflow.
LEMMA EnsureStreamEffect ==
  ASSUME EngineInv, NEW r \in runs, EnsureStream(r)
  PROVE  Effect
<1>1. TasksEffect /\ RunsEffect
  BY DEF EnsureStream, TasksEffect, RunsEffect
<1>2. r.wf \in Workflow
  BY DEF EngineInv, TypeOK
<1>3. /\ UNCHANGED <<stream, clientVars, serverVars>> /\ subjects' \subseteq Workflow
      /\ budget' \in [FaultKind -> Nat]
  BY <1>2, EffectOfNothing DEF EnsureStream
<1> QED
  BY <1>1, <1>3, WorkerEffect

\* Save: the recorded events are appended, acknowledged or not.
LEMMA SaveEffect ==
  ASSUME EngineInv, NEW r \in runs, Save(r)
  PROVE  Effect
<1>1. RunsEffect
  BY DEF Save, RunsEffect
<1>2. StreamEffect
  BY DEF Save, StreamEffect
<1>3. UNCHANGED <<subjects, command, inputs, cons, timers, results, tasks>>
  BY DEF Save, clientVars, serverVars
<1>4. CommandEffect /\ TimersEffect /\ subjects' \subseteq Workflow /\ budget' \in [FaultKind -> Nat]
  BY <1>3, EffectOfNothing DEF Save, FaultKind, clientVars
<1> QED
  BY <1>1, <1>2, <1>3, <1>4 DEF Effect, TasksEffect, ConsEffect, ResultsEffect

\* SaveRefused: the process ends with the error of Save.
LEMMA SaveRefusedEffect ==
  ASSUME EngineInv, NEW r \in runs, SaveRefused(r)
  PROVE  Effect
<1>1. TasksEffect /\ RunsEffect
  BY DEF SaveRefused, TasksEffect, RunsEffect
<1>2. /\ UNCHANGED <<stream, clientVars, serverVars>> /\ subjects' \subseteq Workflow
      /\ budget' \in [FaultKind -> Nat]
  BY EffectOfNothing DEF SaveRefused, FaultKind
<1> QED
  BY <1>1, <1>2, WorkerEffect

\* A projector delivers one event to its handler.
LEMMA ProjectEffect ==
  ASSUME EngineInv, NEW p \in Projector, Project(p)
  PROVE  Effect
<1>1. PICK i \in DOMAIN stream :
        CASE p = "wf"     -> WorkflowTasks(i)
          [] p = "act"    -> ActivityTasks(i)
          [] p = "retry"  -> ActivityRetries(i)
          [] p = "result" -> WorkflowResults(i)
  BY DEF Project
<1>2. CASE p = "wf"
  BY <1>1, <1>2, WorkflowTasksEffect
<1>3. CASE p = "act"
  BY <1>1, <1>3, ActivityTasksEffect
<1>4. CASE p = "retry"
  BY <1>1, <1>4, ActivityRetriesEffect
<1>5. CASE p = "result"
  BY <1>1, <1>5, WorkflowResultsEffect
<1> QED
  BY <1>2, <1>3, <1>4, <1>5 DEF Projector

\* Every step of the engine does no more than Effect allows.
LEMMA NextEffect ==
  ASSUME EngineInv, Next
  PROVE  Effect
<1>1. ASSUME NEW w \in Workflow, StartWorkflow(w) PROVE Effect
  BY <1>1, StoreInputEffect, PublishStartedEffect DEF StartWorkflow
<1>2. ASSUME NEW p \in Projector, Project(p) PROVE Effect
  BY <1>2, ProjectEffect
<1>3. ASSUME NEW i \in DOMAIN stream, FireRetry(i) PROVE Effect
  BY <1>3, FireRetryEffect
<1>4. CASE ServerCrash
  BY <1>4, ServerCrashEffect
<1>5. ASSUME NEW m \in tasks, Redeliver(m) PROVE Effect
  BY <1>5, RedeliverEffect
<1>6. ASSUME NEW id \in 1..MaxTasks, Take(id) PROVE Effect
  BY <1>6, ReceiveEffect, ReadFailsEffect, ActivityPanicsEffect DEF Take
<1>7. ASSUME NEW a \in Worker \X Slot, Handle(a) PROVE Effect
  BY <1>7, RespondEffect, EnsureStreamEffect, SaveEffect, SaveRefusedEffect DEF Handle
<1>8. ASSUME NEW x \in Worker, Crash(x) PROVE Effect
  BY <1>8, CrashEffect
<1> QED
  BY <1>1, <1>2, <1>3, <1>4, <1>5, <1>6, <1>7, <1>8 DEF Next

-----------------------------------------------------------------------------
(* The invariant survives every effect.                                    *)

Msg == [wf : Workflow, ver : Nat \ {0}, ev : EventType]

\* A message appended by a command, or by a goroutine that saves its events.
NewMessage(msg) ==
  \/ \E w \in Workflow : /\ command[w] = "stored" /\ command'[w] \notin {"new", "stored"}
                         /\ msg = Message(w, 1, WorkflowStarted)
  \/ \E r \in runs : \E k \in DOMAIN r.events :
       msg = Message(r.wf, stream[r.pos].ver + k, r.events[k])

\* The fields of a goroutine.
LEMMA RunFields ==
  ASSUME EngineInv, NEW r \in runs
  PROVE  /\ r.wf \in Workflow /\ r.pos \in DOMAIN stream /\ stream[r.pos].wf = r.wf
         /\ stream[r.pos].ver \in Nat \ {0}
         /\ r.events \in Seq(EventType)
         /\ Len(r.events) \in Nat /\ DOMAIN r.events = 1..Len(r.events)
         /\ \A k \in DOMAIN r.events : r.events[k] \in EventType
         /\ RunEventsSound(r)
<1>1. r.wf \in Workflow /\ r.pos \in DOMAIN stream /\ r.events \in Seq(EventType)
  BY DEF EngineInv, TypeOK
<1>2. /\ Len(r.events) \in Nat /\ DOMAIN r.events = 1..Len(r.events)
      /\ \A k \in DOMAIN r.events : r.events[k] \in EventType
  BY <1>1
<1>3. stream[r.pos].ver \in Nat \ {0}
  BY <1>1, EngineTypes
<1> QED
  BY <1>1, <1>2, <1>3 DEF EngineInv, RunsSound

\* The stream only grows, by new messages.
LEMMA StreamStep ==
  ASSUME EngineInv, StreamEffect
  PROVE  /\ stream' \in Seq(Msg) /\ Len(stream') \in Nat /\ DOMAIN stream' = 1..Len(stream')
         /\ Len(stream) <= Len(stream') /\ Len(stream') <= MaxLen
         /\ \A i \in 1..Len(stream) : stream'[i] = stream[i]
         /\ \A i \in (Len(stream) + 1)..Len(stream') : NewMessage(stream'[i])
<1> DEFINE n == Len(stream)
<1>1. stream \in Seq(Msg) /\ n \in Nat /\ n <= MaxLen /\ MaxLen \in Nat
  BY EngineTypes DEF Msg
<1>2. CASE stream' = stream
  BY <1>1, <1>2
<1>3. ASSUME NEW w \in Workflow,
             command[w] = "stored" /\ command'[w] \notin {"new", "stored"},
             n < MaxLen, stream' = Append(stream, Message(w, 1, WorkflowStarted))
      PROVE  /\ stream' \in Seq(Msg) /\ Len(stream') = n + 1
             /\ \A i \in 1..n : stream'[i] = stream[i]
             /\ NewMessage(stream'[n + 1])
  <2>1. WorkflowStarted \in EventType
    BY EngineAssumption DEF WorkflowStarted, Ev, EventType, Attempts
  <2>2. Message(w, 1, WorkflowStarted) \in Msg
    BY <2>1 DEF Message, Msg
  <2> HIDE DEF n
  <2>3. /\ stream' \in Seq(Msg) /\ Len(stream') = n + 1
        /\ \A i \in 1..n : stream'[i] = stream[i]
        /\ stream'[n + 1] = Message(w, 1, WorkflowStarted)
    BY <1>1, <1>3, <2>2 DEF n
  <2> QED
    BY <1>3, <2>3 DEF NewMessage
<1>4. ASSUME NEW r \in runs, n + Len(r.events) <= MaxLen,
             stream' = stream \o [i \in DOMAIN r.events |->
                                    Message(r.wf, stream[r.pos].ver + i, r.events[i])]
      PROVE  /\ stream' \in Seq(Msg) /\ Len(stream') = n + Len(r.events)
             /\ \A i \in 1..n : stream'[i] = stream[i]
             /\ \A i \in (n + 1)..(n + Len(r.events)) : NewMessage(stream'[i])
  <2> DEFINE l == Len(r.events)
             b == [i \in 1..l |-> Message(r.wf, stream[r.pos].ver + i, r.events[i])]
  <2>1. /\ r.wf \in Workflow /\ stream[r.pos].ver \in Nat \ {0} /\ l \in Nat
        /\ DOMAIN r.events = 1..l /\ \A k \in 1..l : r.events[k] \in EventType
    BY RunFields
  <2>2. \A k \in 1..l : b[k] \in Msg
    BY <2>1 DEF Message, Msg
  <2>3. b \in Seq(Msg) /\ Len(b) = l
    <3>1. b \in [1..l -> Msg]
      BY <2>2
    <3> HIDE DEF b, l
    <3> QED
      BY <2>1, <3>1
  <2>4. stream' = stream \o b
    BY <1>4, <2>1
  <2>5. \A k \in 1..l : NewMessage(b[k])
    BY <2>1 DEF NewMessage
  <2> HIDE DEF b, l, n
  <2>6. /\ stream' \in Seq(Msg) /\ Len(stream') = n + l
        /\ \A i \in 1..n : stream'[i] = stream[i]
        /\ \A i \in (n + 1)..(n + l) : stream'[i] = b[i - n]
    <3>1. stream \in Seq(Msg) /\ b \in Seq(Msg) /\ n = Len(stream) /\ n \in Nat
          /\ l = Len(b) /\ l \in Nat
      BY <1>1, <2>1, <2>3 DEF n
    <3>2. stream \o b \in Seq(Msg) /\ Len(stream \o b) = Len(stream) + Len(b)
      BY <3>1, ConcatProperties, Zenon
    <3>3. \A i \in 1..n : stream'[i] = stream[i]
      BY <2>4, <3>1
    <3>4. \A i \in (n + 1)..(n + l) : stream'[i] = b[i - n]
      BY <2>4, <3>1
    <3> QED
      BY <2>4, <3>1, <3>2, <3>3, <3>4
  <2>7. \A i \in (n + 1)..(n + l) : i - n \in 1..l
    BY <1>1, <2>1
  <2>8. \A i \in (n + 1)..(n + l) : NewMessage(stream'[i])
    BY <2>5, <2>6, <2>7
  <2> QED
    BY <2>6, <2>8 DEF l
<1>5. ASSUME NEW k \in Nat, stream' \in Seq(Msg), Len(stream') = n + k, n + k <= MaxLen,
             \A i \in 1..n : stream'[i] = stream[i],
             \A i \in (n + 1)..(n + k) : NewMessage(stream'[i])
      PROVE  /\ stream' \in Seq(Msg) /\ Len(stream') \in Nat /\ DOMAIN stream' = 1..Len(stream')
             /\ n <= Len(stream') /\ Len(stream') <= MaxLen
             /\ \A i \in 1..n : stream'[i] = stream[i]
             /\ \A i \in (n + 1)..Len(stream') : NewMessage(stream'[i])
  BY <1>1, <1>5
<1>6. CASE \E w \in Workflow :
             /\ command[w] = "stored" /\ command'[w] \notin {"new", "stored"}
             /\ Len(stream) < MaxLen
             /\ stream' = Append(stream, Message(w, 1, WorkflowStarted))
  <2>1. /\ stream' \in Seq(Msg) /\ Len(stream') = n + 1
        /\ \A i \in 1..n : stream'[i] = stream[i]
        /\ NewMessage(stream'[n + 1]) /\ n < MaxLen
    BY <1>3, <1>6
  <2>2. n + 1 <= MaxLen /\ \A i \in (n + 1)..(n + 1) : i = n + 1
    BY <1>1, <2>1
  <2>3. \A i \in (n + 1)..(n + 1) : NewMessage(stream'[i])
    BY <2>1, <2>2
  <2> HIDE DEF n
  <2> QED
    BY <1>5, <2>1, <2>2, <2>3 DEF n
<1>7. CASE \E r \in runs :
             /\ r.pc = "ensured"
             /\ Len(stream) + Len(r.events) <= MaxLen
             /\ stream' = stream \o [i \in DOMAIN r.events |->
                                       Message(r.wf, stream[r.pos].ver + i, r.events[i])]
  <2>1. PICK r \in runs :
             /\ r.pc = "ensured"
             /\ Len(stream) + Len(r.events) <= MaxLen
             /\ stream' = stream \o [i \in DOMAIN r.events |->
                                       Message(r.wf, stream[r.pos].ver + i, r.events[i])]
    BY <1>7
  <2>2. Len(r.events) \in Nat
    BY RunFields
  <2> QED
    BY <1>4, <1>5, <2>1, <2>2
<1> QED
  BY <1>2, <1>6, <1>7 DEF StreamEffect

\* Stored messages stay, and what is new was recorded by a command or a run.
LEMMA StreamSoundStep ==
  ASSUME EngineInv, StreamEffect
  PROVE  StreamSound'
<1>1. /\ DOMAIN stream' = 1..Len(stream') /\ Len(stream') \in Nat
      /\ Len(stream) <= Len(stream') /\ Len(stream) \in Nat
      /\ \A i \in 1..Len(stream) : stream'[i] = stream[i]
      /\ \A i \in (Len(stream) + 1)..Len(stream') : NewMessage(stream'[i])
  BY StreamStep, EngineTypes
<1> SUFFICES ASSUME NEW i \in 1..Len(stream')
             PROVE  /\ SoundEvent(stream'[i].ev)
                    /\ stream'[i].ev.attempt < i
                    /\ stream'[i].ev.kind = "workflow/started" \/ stream'[i].ver > 1
  BY <1>1 DEF StreamSound
<1>2. CASE i \in 1..Len(stream)
  BY <1>1, <1>2, EngineTypes DEF EngineInv, StreamSound
<1>3. CASE i \in (Len(stream) + 1)..Len(stream')
  <2>1. NewMessage(stream'[i])
    BY <1>1, <1>3
  <2>2. ASSUME NEW w \in Workflow, stream'[i] = Message(w, 1, WorkflowStarted)
        PROVE  /\ SoundEvent(stream'[i].ev) /\ stream'[i].ev.attempt < i
               /\ stream'[i].ev.kind = "workflow/started"
    <3>1. stream'[i].ev = WorkflowStarted
      BY <2>2 DEF Message
    <3>2. WorkflowStarted.attempt = 0 /\ WorkflowStarted.kind = "workflow/started"
      BY DEF WorkflowStarted, Ev
    <3> QED
      BY <1>3, <3>1, <3>2 DEF SoundEvent
  <2>3. ASSUME NEW r \in runs, NEW k \in DOMAIN r.events,
               stream'[i] = Message(r.wf, stream[r.pos].ver + k, r.events[k])
        PROVE  /\ SoundEvent(stream'[i].ev) /\ stream'[i].ev.attempt < i
               /\ stream'[i].ver > 1
    <3>1. stream'[i].ev = r.events[k] /\ stream'[i].ver = stream[r.pos].ver + k
      BY <2>3 DEF Message
    <3>2. /\ SoundEvent(r.events[k]) /\ r.events[k].attempt <= Len(stream)
          /\ stream[r.pos].ver \in Nat \ {0} /\ k \in Nat \ {0}
          /\ r.events[k] \in EventType
      BY RunFields DEF RunEventsSound
    <3>3. r.events[k].attempt \in Nat
      BY <3>2, EngineAssumption DEF EventType, Attempts
    <3>4. r.events[k].attempt < i
      BY <1>1, <1>3, <3>2, <3>3
    <3> QED
      BY <3>1, <3>2, <3>4
  <2> QED
    BY <2>1, <2>2, <2>3 DEF NewMessage
<1> QED
  BY <1>1, <1>2, <1>3

\* The consumers.
LEMMA ConsStep ==
  ASSUME EngineInv, StreamEffect, ConsEffect
  PROVE  /\ cons' \in [Projector -> [last : 0..Len(stream'), unsettled : SUBSET (1..Len(stream'))]]
         /\ \A p \in Projector : cons'[p].unsettled \subseteq 1..cons'[p].last
<1>1. /\ Len(stream) \in Nat /\ Len(stream') \in Nat /\ Len(stream) <= Len(stream')
      /\ DOMAIN stream = 1..Len(stream)
  BY StreamStep, EngineTypes
<1> DEFINE T(n) == [last : 0..n, unsettled : SUBSET (1..n)]
<1>2. T(Len(stream)) \subseteq T(Len(stream'))
  BY <1>1
<1>3. /\ cons \in [Projector -> T(Len(stream))]
      /\ \A p \in Projector : cons[p].unsettled \subseteq 1..cons[p].last
  BY DEF EngineInv, TypeOK
<1>4. CASE cons' = cons
  BY <1>2, <1>3, <1>4
<1>5. ASSUME NEW p \in Projector, NEW i \in Deliverable(p), NEW c,
             c.last = Max({cons[p].last, i}),
             c \in [last : {c.last}, unsettled : {c.unsettled}],
             c.unsettled \subseteq cons[p].unsettled \union {i},
             cons' = [cons EXCEPT ![p] = c]
      PROVE  /\ cons' \in [Projector -> T(Len(stream'))]
             /\ \A q \in Projector : cons'[q].unsettled \subseteq 1..cons'[q].last
  <2>1. /\ cons[p].last \in 0..Len(stream) /\ cons[p].unsettled \subseteq 1..cons[p].last
    BY <1>3
  <2>2. i \in 1..Len(stream)
    BY <1>1, DeliverableStored
  <2>3. /\ c.last \in 0..Len(stream) /\ cons[p].last <= c.last /\ i <= c.last
    <3> DEFINE a == cons[p].last
               x == Max({a, i})
    <3>1. a \in Nat /\ i \in Nat /\ a <= Len(stream) /\ i <= Len(stream)
      BY <1>1, <2>1, <2>2
    <3> HIDE DEF a, x
    <3>2. x \in Nat /\ (x = a \/ x = i) /\ a <= x /\ i <= x
      BY <3>1, MaxOfTwo DEF x
    <3>3. c.last = x
      BY <1>5 DEF x, a
    <3>4. x <= Len(stream)
      BY <3>1, <3>2
    <3> QED
      BY <1>1, <3>2, <3>3, <3>4 DEF a
  <2>4. c.unsettled \subseteq 1..c.last
    <3>1. cons[p].unsettled \subseteq 1..c.last
      BY <1>1, <2>1, <2>3
    <3>2. i \in 1..c.last
      BY <1>1, <2>2, <2>3
    <3> QED
      BY <1>5, <3>1, <3>2
  <2>5. c \in T(Len(stream))
    <3>1. c = [last |-> c.last, unsettled |-> c.unsettled]
      BY <1>5
    <3>2. c.unsettled \subseteq 1..Len(stream)
      BY <1>1, <2>3, <2>4
    <3>3. [last |-> c.last, unsettled |-> c.unsettled] \in T(Len(stream))
      BY <2>3, <3>2
    <3> HIDE DEF T
    <3> QED
      BY <3>1, <3>3
  <2> HIDE DEF T
  <2>6. cons' \in [Projector -> T(Len(stream'))]
    BY <1>2, <1>3, <1>5, <2>5
  <2>7. cons'[p] = c /\ \A q \in Projector : q # p => cons'[q] = cons[q]
    BY <1>3, <1>5
  <2> QED
    BY <1>3, <2>4, <2>6, <2>7
<1>6. ASSUME NEW p \in Projector, NEW i \in Deliverable(p), Settle(p, i) \/ Keep(p, i)
      PROVE  /\ cons' \in [Projector -> T(Len(stream'))]
             /\ \A q \in Projector : cons'[q].unsettled \subseteq 1..cons'[q].last
  <2> HIDE DEF T
  <2>1. CASE Settle(p, i)
    <3> DEFINE c == [last |-> Max({cons[p].last, i}), unsettled |-> cons[p].unsettled \ {i}]
    <3>1. cons' = [cons EXCEPT ![p] = c]
      BY <1>3, <2>1 DEF Settle
    <3> QED
      BY <1>5, <3>1
  <2>2. CASE Keep(p, i)
    <3> DEFINE c == [last |-> Max({cons[p].last, i}), unsettled |-> cons[p].unsettled \union {i}]
    <3>1. cons' = [cons EXCEPT ![p] = c]
      BY <1>3, <2>2 DEF Keep
    <3> QED
      BY <1>5, <3>1
  <2> QED
    BY <1>6, <2>1, <2>2
<1> QED
  BY <1>4, <1>6 DEF ConsEffect

TaskMsg == [id : 1..MaxTasks, task : TaskType, ready : BOOLEAN]

\* A stored task, in the terms of the invariant.
TaskOK(m) ==
  /\ m \in TaskMsg
  /\ m.task.attempt <= Len(stream)
  /\ m.task.q = "act" =>
       /\ m.task.fn \in Fn
       /\ Policy[m.task.fn] = 0 \/ m.task.attempt = 1 \/ m.task.attempt <= Policy[m.task.fn]

\* The task queues.
LEMMA TasksStep ==
  ASSUME EngineInv, StreamEffect, TasksEffect
  PROVE  /\ tasks' \subseteq TaskMsg
         /\ \A m, k \in tasks' : k.id = m.id => k = m
         /\ TasksSound' /\ AttemptsWithinPolicy'
<1>1. Len(stream) \in Nat /\ Len(stream') \in Nat /\ Len(stream) <= Len(stream') /\ MaxTasks \in Nat
  BY StreamStep, EngineTypes
<1>2. /\ \A m \in tasks : TaskOK(m)
      /\ \A m, k \in tasks : k.id = m.id => k = m
  BY DEF EngineInv, TypeOK, TasksSound, AttemptsWithinPolicy, TaskOK, TaskMsg
<1>3. SUFFICES /\ \A m \in tasks' : TaskOK(m)
               /\ \A m, k \in tasks' : k.id = m.id => k = m
  <2>1. ASSUME NEW m \in tasks', TaskOK(m)
        PROVE  m \in TaskMsg /\ m.task.attempt <= Len(stream')
    <3>1. m \in TaskMsg /\ m.task.attempt <= Len(stream)
      BY <2>1 DEF TaskOK
    <3>2. m.task.attempt \in Nat
      BY <3>1, EngineAssumption DEF TaskMsg, TaskType, Attempts
    <3> QED
      BY <1>1, <3>1, <3>2
  <2> QED
    BY <1>3, <2>1 DEF TaskOK, TasksSound, AttemptsWithinPolicy
<1>4. CASE tasks' = tasks
  BY <1>2, <1>4
<1>5. ASSUME NEW id, NEW b \in BOOLEAN, tasks' = SetReady(id, b)
      PROVE  /\ \A m \in tasks' : TaskOK(m)
             /\ \A m, k \in tasks' : k.id = m.id => k = m
  <2> DEFINE h(m) == IF m.id = id THEN [m EXCEPT !.ready = b] ELSE m
  <2>1. tasks' = {h(m) : m \in tasks}
    BY <1>5 DEF SetReady
  <2>2. ASSUME NEW m \in tasks PROVE TaskOK(h(m)) /\ h(m).id = m.id
    <3>1. m \in TaskMsg /\ TaskOK(m)
      BY <1>2 DEF TaskOK
    <3>2. /\ [m EXCEPT !.ready = b] \in TaskMsg
          /\ [m EXCEPT !.ready = b].id = m.id /\ [m EXCEPT !.ready = b].task = m.task
      BY <3>1 DEF TaskMsg
    <3>3. TaskOK([m EXCEPT !.ready = b])
      BY <3>1, <3>2 DEF TaskOK
    <3> QED
      BY <3>1, <3>2, <3>3
  <2> HIDE DEF h
  <2>3. \A m \in tasks' : TaskOK(m)
    BY <2>1, <2>2
  <2>4. ASSUME NEW m \in tasks', NEW k \in tasks', k.id = m.id PROVE k = m
    <3>1. PICK m0 \in tasks : m = h(m0)
      BY <2>1
    <3>2. PICK k0 \in tasks : k = h(k0)
      BY <2>1
    <3>3. k0.id = m0.id
      BY <3>1, <3>2, <2>2, <2>4
    <3>4. k0 = m0
      BY <3>3, <1>2
    <3> QED
      BY <3>1, <3>2, <3>4
  <2> QED
    BY <2>3, <2>4
<1>6. ASSUME NEW id, tasks' = Without(id)
      PROVE  /\ \A m \in tasks' : TaskOK(m)
             /\ \A m, k \in tasks' : k.id = m.id => k = m
  BY <1>2, <1>6 DEF Without
<1>7. ASSUME NEW t, Due(t), Enqueue(t)
      PROVE  /\ \A m \in tasks' : TaskOK(m)
             /\ \A m, k \in tasks' : k.id = m.id => k = m
  <2> DEFINE id == Min((1..MaxTasks) \ UsedIds)
             new == [id |-> id, task |-> t, ready |-> TRUE]
  <2>1. tasks' = tasks \union {new}
    BY <1>7 DEF Enqueue
  <2>2. id \in (1..MaxTasks) \ UsedIds
    <3>1. (1..MaxTasks) \ UsedIds \subseteq Nat /\ (1..MaxTasks) \ UsedIds # {}
      BY <1>1, <1>7 DEF Enqueue
    <3> QED
      BY <3>1, MinOfSome
  <2> HIDE DEF id
  <2>3. TaskOK(new)
    BY <1>7, <2>2 DEF Due, TaskOK, TaskMsg
  <2>4. \A m \in tasks : m.id # id
    BY <2>2 DEF UsedIds
  <2>5. new.id = id
    OBVIOUS
  <2> HIDE DEF new
  <2>6. \A m \in tasks' : TaskOK(m)
    BY <1>2, <2>1, <2>3
  <2>7. ASSUME NEW m \in tasks', NEW k \in tasks', k.id = m.id PROVE k = m
    <3>1. (m \in tasks \/ m = new) /\ (k \in tasks \/ k = new)
      BY <2>1
    <3> QED
      BY <1>2, <2>4, <2>5, <2>7, <3>1
  <2> QED
    BY <2>6, <2>7
<1> QED
  BY <1>4, <1>5, <1>6, <1>7 DEF TasksEffect

Goroutine == [at : Worker \X Slot, tid : 0..MaxTasks, wf : Workflow, pos : DOMAIN stream,
              pc : {"decided", "settled", "ensured"}, events : Seq(EventType), err : BOOLEAN]

\* A goroutine, in the terms of the invariant.
GoroutineOK(r) ==
  /\ r \in Goroutine
  /\ stream[r.pos].wf = r.wf
  /\ r.pc = "decided" \/ r.events # <<>>
  /\ RunEventsSound(r)

\* The fields of a goroutine that goes on to the next stage of its task.
LEMMA GoroutineGoesOn ==
  ASSUME MaxTasks \in Nat, NEW r \in Goroutine, NEW s,
         s = [r EXCEPT !.pc = "settled", !.tid = 0] \/ s = [r EXCEPT !.pc = "ensured"]
  PROVE  /\ s \in Goroutine /\ s.at = r.at /\ s.wf = r.wf /\ s.pos = r.pos
         /\ s.events = r.events /\ s.pc \in {"settled", "ensured"}
<1>1. CASE s = [r EXCEPT !.pc = "settled", !.tid = 0]
  <2>1. 0 \in 0..MaxTasks
    OBVIOUS
  <2>2. [r EXCEPT !.pc = "settled"] \in Goroutine
    BY DEF Goroutine
  <2>3. s \in Goroutine
    BY <1>1, <2>1, <2>2 DEF Goroutine
  <2> QED
    BY <1>1, <2>3 DEF Goroutine
<1>2. CASE s = [r EXCEPT !.pc = "ensured"]
  BY <1>2 DEF Goroutine
<1> QED
  BY <1>1, <1>2

\* The goroutines of the workers.
LEMMA RunsStep ==
  ASSUME EngineInv, StreamEffect, RunsEffect
  PROVE  /\ runs' \subseteq Goroutine'
         /\ \A r, q \in runs' : q.at = r.at => q = r
         /\ RunsSound'
<1>1. /\ Len(stream) \in Nat /\ Len(stream') \in Nat /\ Len(stream) <= Len(stream')
      /\ DOMAIN stream = 1..Len(stream) /\ DOMAIN stream' = 1..Len(stream')
      /\ \A i \in 1..Len(stream) : stream'[i] = stream[i]
      /\ MaxTasks \in Nat
  BY StreamStep, EngineTypes
<1>2. /\ \A r \in runs : GoroutineOK(r)
      /\ \A r, q \in runs : q.at = r.at => q = r
  BY DEF EngineInv, TypeOK, RunsSound, GoroutineOK, Goroutine
<1>3. SUFFICES /\ \A r \in runs' : GoroutineOK(r)
               /\ \A r, q \in runs' : q.at = r.at => q = r
  <2>1. DOMAIN stream \subseteq DOMAIN stream'
    BY <1>1
  <2>2. Goroutine \subseteq Goroutine'
    BY <2>1 DEF Goroutine
  <2>3. ASSUME NEW r \in runs', GoroutineOK(r)
        PROVE  stream'[r.pos].wf = r.wf /\ RunEventsSound(r)'
    <3>1. r.pos \in DOMAIN stream /\ stream[r.pos].wf = r.wf /\ RunEventsSound(r)
          /\ r.events \in Seq(EventType)
      BY <2>3 DEF GoroutineOK, Goroutine
    <3>2. \A k \in DOMAIN r.events : r.events[k].attempt \in Nat
      <4>1. \A k \in DOMAIN r.events : r.events[k] \in EventType
        BY <3>1
      <4> QED
        BY <4>1, EngineAssumption DEF EventType, Attempts
    <3>3. \A k \in DOMAIN r.events : r.events[k].attempt <= Len(stream')
      BY <1>1, <3>1, <3>2 DEF RunEventsSound
    <3> QED
      BY <1>1, <3>1, <3>3 DEF RunEventsSound
  <2> QED
    BY <1>3, <2>2, <2>3 DEF GoroutineOK, RunsSound
<1>4. CASE runs' \subseteq runs
  BY <1>2, <1>4
<1>5. ASSUME NEW r, NewRun(r), runs' = runs \union {r}
      PROVE  /\ \A q \in runs' : GoroutineOK(q)
             /\ \A p, q \in runs' : q.at = p.at => q = p
  <2>1. r \in Goroutine /\ r.pc = "decided" /\ stream[r.pos].wf = r.wf /\ RunEventsSound(r)
    BY <1>5 DEF NewRun, Goroutine
  <2>2. GoroutineOK(r)
    BY <2>1 DEF GoroutineOK
  <2>3. \A q \in runs : q.at # r.at
    BY <1>5 DEF NewRun
  <2> QED
    BY <1>2, <1>5, <2>2, <2>3
<1>6. ASSUME NEW r \in runs, NEW s, r.events # <<>>,
             s = [r EXCEPT !.pc = "settled", !.tid = 0] \/ s = [r EXCEPT !.pc = "ensured"],
             runs' = (runs \ {r}) \union {s}
      PROVE  /\ \A q \in runs' : GoroutineOK(q)
             /\ \A p, q \in runs' : q.at = p.at => q = p
  <2>1. r \in Goroutine /\ GoroutineOK(r)
    BY <1>2 DEF GoroutineOK
  <2>2. /\ s \in Goroutine /\ s.at = r.at /\ s.wf = r.wf /\ s.pos = r.pos
        /\ s.events = r.events /\ s.pc \in {"settled", "ensured"}
    BY <1>1, <1>6, <2>1, GoroutineGoesOn
  <2>3. GoroutineOK(s)
    BY <1>6, <2>1, <2>2 DEF GoroutineOK, RunEventsSound
  <2>4. \A q \in runs \ {r} : q.at # s.at
    BY <1>2, <2>2
  <2> QED
    BY <1>2, <1>6, <2>3, <2>4
<1>7. CASE \E r \in runs :
             /\ r.pc = "decided" /\ r.events # <<>>
             /\ runs' = (runs \ {r}) \union {[r EXCEPT !.pc = "settled", !.tid = 0]}
  BY <1>6, <1>7
<1>8. CASE \E r \in runs :
             /\ r.pc = "settled"
             /\ runs' = (runs \ {r}) \union {[r EXCEPT !.pc = "ensured"]}
  <2>1. \A r \in runs : r.pc = "settled" => r.events # <<>>
    BY <1>2 DEF GoroutineOK
  <2> QED
    BY <1>6, <1>8, <2>1
<1> QED
  BY <1>4, <1>5, <1>7, <1>8 DEF RunsEffect

\* Timers, results, commands and arguments.
LEMMA TimersStep ==
  ASSUME EngineInv, StreamEffect, TimersEffect
  PROVE  timers' \in [1..MaxLen -> Nat] /\ TimersSound'
<1>1. /\ DOMAIN stream = 1..Len(stream) /\ DOMAIN stream' = 1..Len(stream')
      /\ Len(stream) \in Nat /\ Len(stream') \in Nat /\ Len(stream) <= Len(stream')
      /\ \A i \in 1..Len(stream) : stream'[i] = stream[i]
  BY StreamStep, EngineTypes
<1>2. ASSUME NEW i \in 1..MaxLen, timers'[i] > 0
      PROVE  i \in DOMAIN stream /\ stream[i].ev.kind = "activity/retried"
  BY <1>2 DEF TimersEffect, EngineInv, TimersSound
<1>3. \A i \in DOMAIN stream : i \in DOMAIN stream' /\ stream'[i] = stream[i]
  BY <1>1
<1> QED
  BY <1>2, <1>3 DEF TimersEffect, TimersSound

\* A result that is set belongs to an outcome in the log, and stays there.
LEMMA ResultsStep ==
  ASSUME EngineInv, StreamEffect, ResultsEffect
  PROVE  results' \in [Workflow -> Seq(Nat)] /\ ResultsSound'
<1>1. /\ DOMAIN stream = 1..Len(stream) /\ DOMAIN stream' = 1..Len(stream')
      /\ Len(stream) \in Nat /\ Len(stream') \in Nat /\ Len(stream) <= Len(stream')
      /\ \A i \in 1..Len(stream) : stream'[i] = stream[i]
  BY StreamStep, EngineTypes
<1>2. \A i \in DOMAIN stream : i \in DOMAIN stream' /\ stream'[i] = stream[i]
  BY <1>1
<1>3. results \in [Workflow -> Seq(Nat)] /\ ResultsSound
  BY DEF EngineInv, TypeOK
<1>4. SUFFICES /\ results' \in [Workflow -> Seq(Nat)]
               /\ \A w \in Workflow : results'[w] # <<>> =>
                    \E i \in DOMAIN stream :
                      /\ stream[i].wf = w /\ stream[i].ev.kind = "workflow/completed"
                      /\ stream[i].ev.val = results'[w]
  BY <1>2 DEF ResultsSound
<1>5. CASE results' = results
  BY <1>3, <1>5 DEF ResultsSound
<1>6. CASE \E i \in DOMAIN stream :
             /\ stream[i].ev.kind = "workflow/completed"
             /\ results' = [results EXCEPT ![stream[i].wf] = stream[i].ev.val]
  <2>1. PICK i \in DOMAIN stream :
             /\ stream[i].ev.kind = "workflow/completed"
             /\ results' = [results EXCEPT ![stream[i].wf] = stream[i].ev.val]
    BY <1>6
  <2>2. stream[i].wf \in Workflow /\ stream[i].ev.val \in Seq(Nat)
    BY StoredEvent
  <2>3. results' \in [Workflow -> Seq(Nat)]
    BY <1>3, <2>1, <2>2
  <2>4. /\ results'[stream[i].wf] = stream[i].ev.val
        /\ \A w \in Workflow : w # stream[i].wf => results'[w] = results[w]
    BY <1>3, <2>1, <2>2
  <2> QED
    BY <1>3, <2>1, <2>3, <2>4 DEF ResultsSound
<1> QED
  BY <1>5, <1>6 DEF ResultsEffect

\* The commands and the inputs stay ahead of the histories they start.
LEMMA CommandsStep ==
  ASSUME EngineInv, StreamEffect, CommandEffect
  PROVE  CommandsSound' /\ InputBeforeHistory'
<1>1. /\ DOMAIN stream = 1..Len(stream) /\ DOMAIN stream' = 1..Len(stream')
      /\ Len(stream) \in Nat /\ Len(stream') \in Nat /\ Len(stream) <= Len(stream')
      /\ \A i \in 1..Len(stream) : stream'[i] = stream[i]
      /\ \A i \in (Len(stream) + 1)..Len(stream') : NewMessage(stream'[i])
  BY StreamStep, EngineTypes
<1>2. ASSUME NEW i \in DOMAIN stream'
      PROVE  \/ \E j \in DOMAIN stream : stream'[i].wf = stream[j].wf
             \/ \E w \in Workflow : /\ command[w] = "stored" /\ stream'[i].wf = w
                                    /\ command'[w] \notin {"new", "stored"}
  <2>1. CASE i \in 1..Len(stream)
    BY <1>1, <2>1
  <2>2. CASE i \in (Len(stream) + 1)..Len(stream')
    <3>1. NewMessage(stream'[i])
      BY <1>1, <2>2
    <3>2. ASSUME NEW r \in runs, NEW k \in DOMAIN r.events,
                 stream'[i] = Message(r.wf, stream[r.pos].ver + k, r.events[k])
          PROVE  \E j \in DOMAIN stream : stream'[i].wf = stream[j].wf
      <4>1. stream'[i].wf = r.wf
        BY <3>2 DEF Message
      <4> QED
        BY <4>1, RunFields
    <3>3. ASSUME NEW w \in Workflow, stream'[i] = Message(w, 1, WorkflowStarted)
          PROVE  stream'[i].wf = w
      BY <3>3 DEF Message
    <3> QED
      BY <3>1, <3>2, <3>3 DEF NewMessage
  <2> QED
    BY <1>1, <2>1, <2>2
<1>3. InputBeforeHistory'
  <2>1. \A j \in DOMAIN stream : stream[j].wf \in inputs
    BY DEF EngineInv, InputBeforeHistory
  <2>2. \A w \in Workflow : command[w] = "stored" => w \in inputs
    BY DEF EngineInv, CommandsSound
  <2> QED
    BY <1>2, <2>1, <2>2 DEF CommandEffect, InputBeforeHistory
<1>4. ASSUME NEW w \in Workflow, command'[w] \in {"new", "stored"}, NEW i \in DOMAIN stream',
             stream'[i].wf = w
      PROVE  FALSE
  <2>1. command[w] \in {"new", "stored"}
    BY <1>4 DEF CommandEffect
  <2>2. \A j \in DOMAIN stream : stream[j].wf # w
    BY <2>1 DEF EngineInv, CommandsSound, Positions
  <2> QED
    BY <1>2, <1>4, <2>2
<1>5. CommandsSound'
  BY <1>4 DEF CommandsSound, CommandEffect, Positions
<1> QED
  BY <1>3, <1>5

\* EngineInv is inductive.
LEMMA EngineInvInit == Init => EngineInv
<1> SUFFICES ASSUME Init PROVE EngineInv
  OBVIOUS
<1>1. TypeOK
  BY EngineAssumption DEF Init, TypeOK
<1>2. /\ StreamSound /\ RunsSound /\ TasksSound /\ TimersSound /\ ResultsSound /\ CommandsSound
      /\ InputBeforeHistory /\ AttemptsWithinPolicy
  BY DEF Init, StreamSound, RunsSound, TasksSound, TimersSound, ResultsSound, CommandsSound,
         InputBeforeHistory, AttemptsWithinPolicy, Positions
<1> QED
  BY <1>1, <1>2 DEF EngineInv

\* Every step of the engine keeps the invariant.
LEMMA EngineInvNext ==
  ASSUME EngineInv, [Next]_vars
  PROVE  EngineInv'
<1>1. CASE Next
  <2>1. Effect
    BY <1>1, NextEffect
  <2>2. /\ StreamEffect /\ CommandEffect /\ TasksEffect /\ ConsEffect
        /\ TimersEffect /\ ResultsEffect /\ RunsEffect
        /\ subjects' \subseteq Workflow /\ budget' \in [FaultKind -> Nat]
    BY <2>1 DEF Effect
  <2>3. stream' \in Seq(Msg) /\ Len(stream') <= MaxLen
    BY <2>2, StreamStep
  <2>4. /\ command' \in [Workflow -> {"new", "stored", "started", "refused"}]
        /\ inputs' \subseteq Workflow
    BY <2>2 DEF CommandEffect
  <2>5. TypeOK'
    BY <2>2, <2>3, <2>4, ConsStep, TasksStep, RunsStep, TimersStep, ResultsStep
       DEF TypeOK, Msg, TaskMsg, Goroutine
  <2> QED
    BY <2>2, <2>5, StreamSoundStep, TasksStep, RunsStep, TimersStep, ResultsStep, CommandsStep
       DEF EngineInv
<1>2. CASE UNCHANGED vars
  BY <1>2 DEF vars, EngineInv, TypeOK, StreamSound, RunsSound, RunEventsSound, TasksSound,
     TimersSound, ResultsSound, CommandsSound, InputBeforeHistory, AttemptsWithinPolicy, Positions
<1> QED
  BY <1>1, <1>2

-----------------------------------------------------------------------------
(* Results.                                                                *)

(***************************************************************************)
(* Every completion, stored or about to be saved, is what a replay of the  *)
(* history comes to.                                                       *)
(***************************************************************************)
Concluded ==
  /\ \A i \in DOMAIN stream : stream[i].ev.kind = "workflow/completed" =>
       Concludes(ProcessWorkflowTask(Program, Records(EventsOf(stream[i].wf, Len(stream)))),
                 stream[i].ev.val)
  /\ \A r \in runs : Justified(r)

\* A replay that concluded on a part of the old stream concludes in the same way
\* on that part of the new stream, and on all of it.
LEMMA ConclusionKept ==
  ASSUME EngineInv, StreamEffect, NEW w, NEW n \in 0..Len(stream), NEW v,
         Concludes(ProcessWorkflowTask(Program, Records(EventsOf(w, n))), v)
  PROVE  /\ Concludes(ProcessWorkflowTask(Program, Records(EventsIn(stream', w)[n])), v)
         /\ Concludes(ProcessWorkflowTask(Program, Records(EventsIn(stream', w)[Len(stream')])), v)
<1>1. /\ Len(stream) \in Nat /\ Len(stream') \in Nat /\ Len(stream) <= Len(stream')
      /\ \A i \in 1..Len(stream) : stream'[i] = stream[i]
  BY StreamStep, EngineTypes
<1>2. EventsIn(stream', w)[n] = EventsIn(stream, w)[n]
  BY <1>1, EventsAgree
<1>3. Concludes(ProcessWorkflowTask(Program, Records(EventsIn(stream', w)[n])), v)
  BY <1>2 DEF EventsOf
<1>4. \A i \in 1..Len(stream') : stream'[i].ev \in EventType
  <2>1. /\ stream' \in Seq(Msg) /\ DOMAIN stream' = 1..Len(stream')
    BY StreamStep
  <2>2. \A i \in 1..Len(stream') : stream'[i] \in Msg
    BY <2>1
  <2> QED
    BY <2>2 DEF Msg
<1>5. n \in 0..Len(stream') /\ Len(stream') \in n..Len(stream') /\ Len(stream') \in 0..Len(stream')
  BY <1>1
<1> DEFINE old == Records(EventsIn(stream', w)[n])
           new == Records(EventsIn(stream', w)[Len(stream')])
<1>6. AreRecords(old) /\ Longer(old, new)
  BY <1>1, <1>4, <1>5, RecordsGrow
<1>7. AreRecords(new)
  BY <1>1, <1>4, <1>5, RecordsGrow
<1>8. Concludes(ProcessWorkflowTask(Program, old), v)
  BY <1>3
<1> HIDE DEF old, new
<1>9. Concludes(ProcessWorkflowTask(Program, new), v)
  BY <1>6, <1>7, <1>8, ConclusionIsFinal
<1> QED
  BY <1>3, <1>9 DEF new

\* Nothing is concluded at first.
LEMMA ConcludedInit == Init => Concluded
  BY DEF Init, Concluded

\* Concluded is inductive, given EngineInv.
LEMMA ConcludedNext ==
  ASSUME EngineInv, Concluded, [Next]_vars
  PROVE  Concluded'
<1>1. CASE UNCHANGED vars
  BY <1>1 DEF vars, Concluded, Justified, EventsOf
<1>2. CASE Next
  <2>1. StreamEffect /\ RunsEffect
    BY <1>2, NextEffect DEF Effect
  <2>2. /\ Len(stream) \in Nat /\ Len(stream') \in Nat /\ Len(stream) <= Len(stream')
        /\ DOMAIN stream = 1..Len(stream) /\ DOMAIN stream' = 1..Len(stream')
        /\ \A i \in 1..Len(stream) : stream'[i] = stream[i]
        /\ \A i \in (Len(stream) + 1)..Len(stream') : NewMessage(stream'[i])
    BY <2>1, StreamStep, EngineTypes
  <2>3. ASSUME NEW w, NEW n \in 0..Len(stream), NEW v,
               Concludes(ProcessWorkflowTask(Program, Records(EventsOf(w, n))), v)
        PROVE  /\ Concludes(ProcessWorkflowTask(Program, Records(EventsIn(stream', w)[n])), v)
               /\ Concludes(ProcessWorkflowTask(Program, Records(EventsIn(stream', w)[Len(stream')])), v)
    BY <2>1, <2>3, ConclusionKept
  <2>4. ASSUME NEW i \in DOMAIN stream', stream'[i].ev.kind = "workflow/completed"
        PROVE  Concludes(ProcessWorkflowTask(Program,
                           Records(EventsIn(stream', stream'[i].wf)[Len(stream')])),
                         stream'[i].ev.val)
    <3>1. CASE i \in 1..Len(stream)
      <4>1. Concludes(ProcessWorkflowTask(Program,
                        Records(EventsOf(stream[i].wf, Len(stream)))), stream[i].ev.val)
        BY <2>2, <2>4, <3>1 DEF Concluded
      <4>2. stream'[i] = stream[i] /\ Len(stream) \in 0..Len(stream)
        BY <2>2, <3>1
      <4> QED
        BY <2>3, <4>1, <4>2
    <3>2. CASE i \in (Len(stream) + 1)..Len(stream')
      <4>1. NewMessage(stream'[i])
        BY <2>2, <3>2
      <4>2. ASSUME NEW w \in Workflow, stream'[i] = Message(w, 1, WorkflowStarted)
            PROVE  FALSE
        BY <2>4, <4>2 DEF Message, WorkflowStarted, Ev
      <4>3. ASSUME NEW r \in runs, NEW k \in DOMAIN r.events,
                   stream'[i] = Message(r.wf, stream[r.pos].ver + k, r.events[k])
            PROVE  Concludes(ProcessWorkflowTask(Program,
                               Records(EventsIn(stream', stream'[i].wf)[Len(stream')])),
                             stream'[i].ev.val)
        <5>1. stream'[i].wf = r.wf /\ stream'[i].ev = r.events[k]
          BY <4>3 DEF Message
        <5>2. r.pos \in 0..Len(stream)
          BY <2>2, RunFields
        <5>3. Concludes(ProcessWorkflowTask(Program, Records(EventsOf(r.wf, r.pos))),
                        r.events[k].val)
          BY <2>4, <5>1 DEF Concluded, Justified
        <5> QED
          BY <2>3, <5>1, <5>2, <5>3
      <4> QED
        BY <4>1, <4>2, <4>3 DEF NewMessage
    <3> QED
      BY <2>2, <3>1, <3>2
  <2>5. ASSUME NEW r, r.pos \in DOMAIN stream, Justified(r)
        PROVE  Justified(r)'
    <3>1. r.pos \in 0..Len(stream)
      BY <2>2, <2>5
    <3> QED
      BY <2>3, <2>5, <3>1 DEF Justified, EventsOf
  <2>6. ASSUME NEW r \in runs PROVE Justified(r)'
    BY <2>5, RunFields DEF Concluded
  <2>7. ASSUME NEW r \in runs, NEW s, Justified(r)',
               s = [r EXCEPT !.pc = "settled", !.tid = 0] \/ s = [r EXCEPT !.pc = "ensured"]
        PROVE  Justified(s)'
    <3>1. MaxTasks \in Nat /\ r \in Goroutine
      BY EngineTypes DEF EngineInv, TypeOK, Goroutine
    <3>2. s.wf = r.wf /\ s.pos = r.pos /\ s.events = r.events
      BY <2>7, <3>1, GoroutineGoesOn
    <3> QED
      BY <2>7, <3>2 DEF Justified, EventsOf
  <2>8. \A r \in runs' : Justified(r)'
    <3>1. CASE runs' \subseteq runs
      BY <2>6, <3>1
    <3>2. ASSUME NEW r, NewRun(r), runs' = runs \union {r}
          PROVE  \A q \in runs' : Justified(q)'
      <4>1. r.pos \in DOMAIN stream /\ Justified(r)
        BY <3>2 DEF NewRun
      <4> QED
        BY <2>5, <2>6, <3>2, <4>1
    <3>3. ASSUME NEW r \in runs, NEW s, runs' = (runs \ {r}) \union {s},
                 s = [r EXCEPT !.pc = "settled", !.tid = 0] \/ s = [r EXCEPT !.pc = "ensured"]
          PROVE  \A q \in runs' : Justified(q)'
      <4>1. Justified(s)'
        BY <2>6, <2>7, <3>3
      <4> QED
        BY <2>6, <3>3, <4>1
    <3> QED
      BY <2>1, <3>1, <3>2, <3>3 DEF RunsEffect
  <2> QED
    BY <2>4, <2>8 DEF Concluded, EventsOf
<1> QED
  BY <1>1, <1>2

-----------------------------------------------------------------------------
(* Theorems.                                                               *)

(***************************************************************************)
(* The engine keeps its types: a slot of a worker runs one task at a time, *)
(* a task message is identified by its id, a consumer holds nothing it has *)
(* not been delivered, and attempt numbers stay below the length of the    *)
(* history.                                                                *)
(***************************************************************************)
THEOREM TypeCorrect == Spec => []TypeOK
<1>1. EngineInv => TypeOK
  BY DEF EngineInv
<1> QED
  BY EngineInvInit, EngineInvNext, <1>1, PTL DEF Spec

(***************************************************************************)
(* Whatever fails, a workflow that has a history has its arguments in the  *)
(* input bucket: HandleRequest stores them before WorkflowStarted is       *)
(* published, and nobody else writes into a history that is empty.         *)
(***************************************************************************)
THEOREM InputsPrecedeHistories == Spec => []InputBeforeHistory
<1>1. EngineInv => InputBeforeHistory
  BY DEF EngineInv
<1> QED
  BY EngineInvInit, EngineInvNext, <1>1, PTL DEF Spec

(***************************************************************************)
(* No task asks for an attempt beyond its policy, along the whole path:    *)
(* the decision of the worker, the ActivityRetried in the history, the     *)
(* sleeping goroutine of the server and the task it publishes.             *)
(***************************************************************************)
THEOREM PoliciesAreKept == Spec => []AttemptsWithinPolicy
<1>1. EngineInv => AttemptsWithinPolicy
  BY DEF EngineInv
<1> QED
  BY EngineInvInit, EngineInvNext, <1>1, PTL DEF Spec

(***************************************************************************)
(* The result a client can read is the one a replay of the complete        *)
(* history computes, whatever the server and the workers recorded after    *)
(* it, in duplicate or late.                                               *)
(***************************************************************************)
THEOREM ResultsAreReplays == Spec => []ResultIsReplay
<1>1. EngineInv /\ Concluded => ResultIsReplay
  <2> SUFFICES ASSUME EngineInv, Concluded, NEW w \in Workflow, results[w] # <<>>
               PROVE  LET run == ProcessWorkflowTask(Program, Records(EventsOf(w, Len(stream))))
                      IN  ~run.err /\ Last(run.events) = WorkflowCompleted(results[w])
    BY DEF ResultIsReplay
  <2>1. PICK i \in DOMAIN stream :
          /\ stream[i].wf = w /\ stream[i].ev.kind = "workflow/completed"
          /\ stream[i].ev.val = results[w]
    BY DEF EngineInv, ResultsSound
  <2>2. Concludes(ProcessWorkflowTask(Program, Records(EventsOf(w, Len(stream)))), results[w])
    BY <2>1 DEF Concluded
  <2> QED
    BY <2>2 DEF Concludes
<1>2. Init => EngineInv /\ Concluded
  BY EngineInvInit, ConcludedInit
<1>3. EngineInv /\ Concluded /\ [Next]_vars => (EngineInv /\ Concluded)'
  BY EngineInvNext, ConcludedNext
<1> QED
  BY <1>1, <1>2, <1>3, PTL DEF Spec
=============================================================================
