---------------------------- MODULE ReplayProofs ----------------------------
(***************************************************************************)
(* Facts about the replay of a workflow function, for every function and   *)
(* every history.  Recursive functions are unfolded, and facts about their *)
(* values shown, by induction over a set of numbers: a non-empty set of    *)
(* numbers has a least one, by the well-foundedness of < on Nat.           *)
(***************************************************************************)
EXTENDS Replay, FiniteSetTheorems, WellFoundedInduction, TLAPS

\* A set of numbers that is not empty has a least element.
LEMMA LeastNumber ==
  ASSUME NEW T, T \subseteq Nat, T # {}
  PROVE  \E x \in T : \A y \in T : x <= y
<1> DEFINE R == OpToRel(<, Nat)
<1>1. IsWellFoundedOn(R, Nat)
  BY NatLessThanWellFounded, Zenon
<1>2. \A x, y \in Nat : y < x => <<y, x>> \in R
  BY DEF OpToRel
<1> HIDE DEF R
<1>3. PICK x \in T : \A y \in T : ~ (<<y, x>> \in R)
  BY <1>1, WFMin
<1>4. ASSUME NEW y \in T PROVE x <= y
  <2>1. x \in Nat /\ y \in Nat
    OBVIOUS
  <2>2. ~ (y < x)
    BY <2>1, <1>2, <1>3
  <2> QED
    BY <2>1, <2>2
<1> QED
  BY <1>4

\* Induction over the numbers, for a set instead of a predicate.
LEMMA Induct ==
  ASSUME NEW S, 0 \in S, \A n \in Nat : n \in S => n + 1 \in S
  PROVE  Nat \subseteq S
<1> DEFINE T == Nat \ S
<1> SUFFICES ASSUME T # {} PROVE FALSE
  OBVIOUS
<1>1. PICK x \in T : \A y \in T : x <= y
  <2>1. T \subseteq Nat
    OBVIOUS
  <2> HIDE DEF T
  <2> QED
    BY <2>1, LeastNumber
<1>2. x # 0 /\ x - 1 \in Nat /\ x - 1 \notin T
  BY <1>1
<1> QED
  BY <1>2

\* The same up to a bound, where the step may use the bound.
LEMMA InductUpTo ==
  ASSUME NEW n \in Nat, NEW S, 0 \in S,
         \A i \in 0..(n - 1) : i \in S => i + 1 \in S
  PROVE  0..n \subseteq S
<1> DEFINE T == S \union {i \in Nat : i > n}
<1>1. 0 \in T
  OBVIOUS
<1>2. ASSUME NEW i \in Nat, i \in T PROVE i + 1 \in T
  BY <1>2
<1>3. Nat \subseteq T
  <2> HIDE DEF T
  <2> QED
    BY <1>1, <1>2, Induct
<1> QED
  BY <1>3

-----------------------------------------------------------------------------
(* Records.                                                                *)

IsApplied(g, events, n) ==
  g = [i \in 0..n |-> IF i = 0 THEN [f \in Fn |-> <<>>] ELSE Apply(g[i - 1], events[i])]

\* There is a function that satisfies the equation of Applied.
LEMMA AppliedExists ==
  ASSUME NEW events, NEW n \in Nat
  PROVE  \E g : IsApplied(g, events, n)
<1> DEFINE S == {k \in Nat : \E g : IsApplied(g, events, k)}
<1>1. 0 \in S
  <2> DEFINE g == [i \in 0..0 |-> [f \in Fn |-> <<>>]]
  <2>1. IsApplied(g, events, 0)
    BY DEF IsApplied
  <2> HIDE DEF g
  <2> QED
    BY <2>1
<1>2. ASSUME NEW k \in Nat, k \in S PROVE k + 1 \in S
  <2>1. PICK g : IsApplied(g, events, k)
    BY <1>2
  <2> DEFINE h == [i \in 0..(k + 1) |-> IF i <= k THEN g[i] ELSE Apply(g[k], events[i])]
  <2>2. ASSUME NEW i \in 0..(k + 1)
        PROVE  h[i] = IF i = 0 THEN [f \in Fn |-> <<>>] ELSE Apply(h[i - 1], events[i])
    <3>1. CASE i = 0
      BY <3>1, <2>1 DEF IsApplied
    <3>2. CASE i # 0 /\ i <= k
      <4>1. h[i] = g[i] /\ h[i - 1] = g[i - 1]
        BY <3>2
      <4>2. g[i] = Apply(g[i - 1], events[i])
        BY <3>2, <2>1 DEF IsApplied
      <4> QED
        BY <3>2, <4>1, <4>2
    <3>3. CASE i = k + 1
      <4>1. h[i] = Apply(g[k], events[i]) /\ h[i - 1] = g[k]
        BY <3>3
      <4> QED
        BY <3>3, <4>1
    <3> QED
      BY <3>1, <3>2, <3>3
  <2>3. IsApplied(h, events, k + 1)
    BY <2>2 DEF IsApplied
  <2> HIDE DEF h
  <2> QED
    BY <2>3
<1>3. Nat \subseteq S
  <2> HIDE DEF S
  <2> QED
    BY <1>1, <1>2, Induct
<1> QED
  BY <1>3

\* The equation of Applied.
LEMMA AppliedUnfolds ==
  ASSUME NEW events, Len(events) \in Nat
  PROVE  IsApplied(Applied(events), events, Len(events))
<1>1. Applied(events) = CHOOSE g : IsApplied(g, events, Len(events))
  BY DEF Applied, IsApplied
<1>2. IsApplied(CHOOSE g : IsApplied(g, events, Len(events)), events, Len(events))
  BY AppliedExists, Zenon
<1> QED
  BY <1>1, <1>2

\* Two histories that agree up to n leave the same records up to there.
LEMMA AppliedAgree ==
  ASSUME NEW a, NEW b, NEW n \in Nat, Len(a) \in Nat, Len(b) \in Nat,
         n <= Len(a), n <= Len(b), \A i \in 1..n : a[i] = b[i]
  PROVE  Applied(a)[n] = Applied(b)[n]
<1> DEFINE S == {i \in 0..n : Applied(a)[i] = Applied(b)[i]}
<1>1. 0 \in S
  BY AppliedUnfolds DEF IsApplied
<1>2. ASSUME NEW i \in 0..(n - 1), i \in S PROVE i + 1 \in S
  <2>1. /\ Applied(a)[i + 1] = Apply(Applied(a)[i], a[i + 1])
        /\ Applied(b)[i + 1] = Apply(Applied(b)[i], b[i + 1])
    BY AppliedUnfolds DEF IsApplied
  <2> QED
    BY <1>2, <2>1
<1>3. 0..n \subseteq S
  <2> HIDE DEF S
  <2> QED
    BY <1>1, <1>2, InductUpTo
<1> QED
  BY <1>3

\* What a replay finds of an activity: outcomes, in the order of the history.
OutcomeType == [kind : {"activity/completed", "activity/failed"}, fn : Fn \union {NoFn},
             val : Seq(Nat), attempt : Nat]

AreRecords(records) == records \in [Fn -> Seq(OutcomeType)]

\* The events are such that the ones that become records are well typed.
Applicable(events) ==
  /\ Len(events) \in Nat
  /\ \A i \in 1..Len(events) : IsRecord(events[i]) => events[i] \in OutcomeType

\* Applying an event to records gives records.
LEMMA ApplyType ==
  ASSUME NEW records, AreRecords(records), NEW e, IsRecord(e) => e \in OutcomeType
  PROVE  AreRecords(Apply(records, e))
<1>1. CASE IsRecord(e)
  <2>1. Apply(records, e) = [records EXCEPT ![e.fn] = Append(@, e)]
    BY <1>1 DEF Apply
  <2>2. e \in OutcomeType
    BY <1>1
  <2>3. ASSUME NEW f \in Fn PROVE Append(records[f], e) \in Seq(OutcomeType)
    <3> HIDE DEF OutcomeType
    <3> QED
      BY <2>2 DEF AreRecords
  <2> HIDE DEF OutcomeType
  <2> QED
    BY <2>1, <2>3 DEF AreRecords
<1>2. CASE ~IsRecord(e)
  BY <1>2 DEF Apply
<1> QED
  BY <1>1, <1>2

\* A history of well-formed events has well-formed records.
LEMMA RecordsType ==
  ASSUME NEW events, Applicable(events)
  PROVE  AreRecords(Records(events))
<1> DEFINE n == Len(events)
           S == {i \in 0..n : AreRecords(Applied(events)[i])}
<1>0. n \in Nat
  BY DEF Applicable
<1>1. 0 \in S
  BY <1>0, AppliedUnfolds DEF IsApplied, AreRecords
<1>2. ASSUME NEW i \in 0..(n - 1), i \in S PROVE i + 1 \in S
  <2>1. Applied(events)[i + 1] = Apply(Applied(events)[i], events[i + 1])
    BY <1>0, AppliedUnfolds DEF IsApplied
  <2>2. IsRecord(events[i + 1]) => events[i + 1] \in OutcomeType
    BY <1>0 DEF Applicable
  <2> QED
    BY <1>0, <1>2, <2>1, <2>2, ApplyType
<1>3. 0..n \subseteq S
  <2> HIDE DEF S, n
  <2> QED
    BY <1>0, <1>1, <1>2, InductUpTo
<1> QED
  BY <1>0, <1>3 DEF Records

\* The records of a longer history: the records before, and its last event.
LEMMA RecordsAppend ==
  ASSUME NEW E, NEW events \in Seq(E), NEW e \in E
  PROVE  Records(Append(events, e)) = Apply(Records(events), e)
<1> DEFINE h == Append(events, e)
           n == Len(events)
<1>1. /\ n \in Nat /\ Len(h) = n + 1 /\ h[n + 1] = e
      /\ \A i \in 1..n : h[i] = events[i]
  OBVIOUS
<1> HIDE DEF h
<1>2. Applied(h)[n + 1] = Apply(Applied(h)[n], h[n + 1])
  <2>1. IsApplied(Applied(h), h, n + 1)
    BY <1>1, AppliedUnfolds
  <2>2. n + 1 \in 0..(n + 1) /\ n + 1 # 0 /\ (n + 1) - 1 = n
    BY <1>1
  <2> QED
    BY <2>1, <2>2 DEF IsApplied
<1>3. Applied(h)[n] = Applied(events)[n]
  BY <1>1, AppliedAgree
<1> QED
  BY <1>1, <1>2, <1>3 DEF Records, h

-----------------------------------------------------------------------------
(* Runs.                                                                   *)

IsAfter(g, prog, records, n) ==
  g = [i \in 0..n |-> IF i = 0 THEN StartRun(prog)
                      ELSE StepOnce(g[i - 1], i, prog[i], records)]

\* There is a function that satisfies the equation of After.
LEMMA AfterExists ==
  ASSUME NEW prog, NEW records, NEW n \in Nat
  PROVE  \E g : IsAfter(g, prog, records, n)
<1> DEFINE S == {k \in Nat : \E g : IsAfter(g, prog, records, k)}
<1>1. 0 \in S
  <2> DEFINE g == [i \in 0..0 |-> StartRun(prog)]
  <2>1. IsAfter(g, prog, records, 0)
    BY DEF IsAfter
  <2> HIDE DEF g
  <2> QED
    BY <2>1
<1>2. ASSUME NEW k \in Nat, k \in S PROVE k + 1 \in S
  <2>1. PICK g : IsAfter(g, prog, records, k)
    BY <1>2
  <2> DEFINE h == [i \in 0..(k + 1) |->
                     IF i <= k THEN g[i] ELSE StepOnce(g[k], i, prog[i], records)]
  <2>2. ASSUME NEW i \in 0..(k + 1)
        PROVE  h[i] = IF i = 0 THEN StartRun(prog) ELSE StepOnce(h[i - 1], i, prog[i], records)
    <3>1. CASE i = 0
      BY <3>1, <2>1 DEF IsAfter
    <3>2. CASE i # 0 /\ i <= k
      <4>1. h[i] = g[i] /\ h[i - 1] = g[i - 1]
        BY <3>2
      <4>2. g[i] = StepOnce(g[i - 1], i, prog[i], records)
        BY <3>2, <2>1 DEF IsAfter
      <4> QED
        BY <3>2, <4>1, <4>2
    <3>3. CASE i = k + 1
      <4>1. h[i] = StepOnce(g[k], i, prog[i], records) /\ h[i - 1] = g[k]
        BY <3>3
      <4> QED
        BY <3>3, <4>1
    <3> QED
      BY <3>1, <3>2, <3>3
  <2>3. IsAfter(h, prog, records, k + 1)
    BY <2>2 DEF IsAfter
  <2> HIDE DEF h
  <2> QED
    BY <2>3
<1>3. Nat \subseteq S
  <2> HIDE DEF S
  <2> QED
    BY <1>1, <1>2, Induct
<1> QED
  BY <1>3

\* The equation of After.
LEMMA AfterUnfolds ==
  ASSUME NEW prog, NEW records, Len(prog) \in Nat
  PROVE  /\ After(prog, records)[0] = StartRun(prog)
         /\ \A i \in 0..(Len(prog) - 1) :
              After(prog, records)[i + 1] =
                StepOnce(After(prog, records)[i], i + 1, prog[i + 1], records)
<1> DEFINE n == Len(prog)
           a == After(prog, records)
<1>1. After(prog, records) = CHOOSE g : IsAfter(g, prog, records, n)
  BY DEF After, IsAfter
<1>2. IsAfter(CHOOSE g : IsAfter(g, prog, records, n), prog, records, n)
  BY AfterExists, Zenon
<1>3. IsAfter(a, prog, records, n)
  BY <1>1, <1>2
<1> HIDE DEF a
<1>4. a[0] = StartRun(prog)
  BY <1>3 DEF IsAfter
<1>5. ASSUME NEW i \in 0..(n - 1)
      PROVE  a[i + 1] = StepOnce(a[i], i + 1, prog[i + 1], records)
  <2>1. i + 1 \in 0..n /\ i + 1 # 0 /\ (i + 1) - 1 = i
    OBVIOUS
  <2> QED
    BY <1>3, <2>1 DEF IsAfter
<1> QED
  BY <1>4, <1>5 DEF a

CallType == [kind : {"activity/scheduled"}, fn : Fn, val : Seq(Nat), attempt : {0}]

FutureType == [resolved : BOOLEAN, record : OutcomeType]

RunType(prog) ==
  [pc : Nat, consumed : [Fn -> Nat], future : [DOMAIN prog -> FutureType],
   events : Seq(CallType), got : Seq(Nat),
   out : {"running", "blocked", "panicked", "error"}]

\* A run starts with nothing called and nothing recorded.
LEMMA StartRunType ==
  ASSUME NEW prog
  PROVE  /\ StartRun(prog) \in RunType(prog)
         /\ StartRun(prog).pc = 1 /\ StartRun(prog).out = "running"
         /\ StartRun(prog).got = <<>> /\ StartRun(prog).events = <<>>
  BY DEF StartRun, RunType, FutureType, OutcomeType, Unresolved, ActivityFailed, Ev, ErrorVal

\* The fields of the steps of a program.
LEMMA StepFields ==
  ASSUME NEW prog, IsProgram(prog), NEW i \in DOMAIN prog
  PROVE  /\ Len(prog) \in Nat /\ DOMAIN prog = 1..Len(prog)
         /\ prog[i].op \in {"exec", "get", "panic"}
         /\ prog[i].op = "exec" => prog[i].fn \in Fn /\ prog[i].arg \in Nat
         /\ prog[i].op = "get" =>
              /\ prog[i].of \in DOMAIN prog /\ prog[i].of < i
              /\ prog[prog[i].of].op = "exec"
              /\ prog[i].ok \in (i + 1)..(Len(prog) + 1)
              /\ prog[i].err = 0 \/ prog[i].err \in (i + 1)..(Len(prog) + 1)
<1>1. /\ Len(prog) \in Nat /\ DOMAIN prog = 1..Len(prog)
      /\ prog[i] \in ExecStep \union GetStep \union PanicStep
  BY DEF IsProgram
<1>2. CASE prog[i] \in ExecStep
  BY <1>1, <1>2 DEF ExecStep
<1>3. CASE prog[i] \in GetStep
  <2>1. /\ prog[i].op = "get" /\ prog[i].of \in Nat \ {0}
        /\ prog[i].ok \in Nat \ {0} /\ prog[i].err \in Nat
    BY <1>3 DEF GetStep
  <2>2. /\ prog[i].of < i /\ prog[prog[i].of].op = "exec"
        /\ Targets(prog[i]) \subseteq (i + 1)..(Len(prog) + 1)
    BY <2>1 DEF IsProgram
  <2> QED
    BY <1>1, <2>1, <2>2 DEF Targets
<1>4. CASE prog[i] \in PanicStep
  BY <1>1, <1>4 DEF PanicStep
<1> QED
  BY <1>1, <1>2, <1>3, <1>4

\* A record with the fields of a run is one.
LEMMA RunTypeIntro ==
  ASSUME NEW prog, NEW pc \in Nat, NEW consumed \in [Fn -> Nat],
         NEW future \in [DOMAIN prog -> FutureType], NEW events \in Seq(CallType),
         NEW got \in Seq(Nat), NEW out \in {"running", "blocked", "panicked", "error"}
  PROVE  [pc |-> pc, consumed |-> consumed, future |-> future,
          events |-> events, got |-> got, out |-> out] \in RunType(prog)
  BY DEF RunType

\* ExecuteActivity, field by field: t is what run s becomes.
Executed(prog, records, i, s, t) ==
  LET f == prog[i].fn IN
  /\ t \in RunType(prog)
  /\ t.pc = i + 1 /\ t.out = s.out /\ t.got = s.got
  /\ t.consumed = [s.consumed EXCEPT ![f] = @ + 1]
  /\ s.consumed[f] < Len(records[f]) =>
       /\ t.future = [s.future EXCEPT ![i] =
                        [resolved |-> TRUE, record |-> records[f][s.consumed[f] + 1]]]
       /\ t.events = s.events
  /\ ~(s.consumed[f] < Len(records[f])) =>
       /\ t.future = s.future
       /\ t.events = Append(s.events, ActivityScheduled(f, prog[i].arg))

\* What ExecuteActivity does to a run, field by field.
LEMMA ExecuteActivityFields ==
  ASSUME NEW prog, IsProgram(prog), NEW i \in DOMAIN prog, prog[i].op = "exec",
         NEW s \in RunType(prog), NEW records, AreRecords(records)
  PROVE  Executed(prog, records, i, s, ExecuteActivity(s, i, prog[i], records))
<1> SUFFICES ASSUME NEW f, f = prog[i].fn,
                    NEW t, t = ExecuteActivity(s, i, prog[i], records)
             PROVE  Executed(prog, records, i, s, t)
  OBVIOUS
<1> DEFINE k == s.consumed[f] + 1
<1>1. /\ f \in Fn /\ prog[i].arg \in Nat /\ i \in Nat
  BY StepFields
<1>2. /\ s.pc \in Nat /\ s.consumed \in [Fn -> Nat]
      /\ s.future \in [DOMAIN prog -> FutureType]
      /\ s.events \in Seq(CallType) /\ s.got \in Seq(Nat)
      /\ s.out \in {"running", "blocked", "panicked", "error"}
      /\ DOMAIN s = {"pc", "consumed", "future", "events", "got", "out"}
  BY DEF RunType
<1>3. k \in Nat \ {0} /\ Len(records[f]) \in Nat
  BY <1>1, <1>2 DEF AreRecords
<1>4. CASE k <= Len(records[f])
  <2>1. t = [[s EXCEPT !.pc = i + 1, !.consumed[f] = k]
               EXCEPT !.future[i] = [resolved |-> TRUE, record |-> records[f][k]]]
    BY <1>4 DEF ExecuteActivity
  <2>2. [resolved |-> TRUE, record |-> records[f][k]] \in FutureType
    BY <1>1, <1>3, <1>4 DEF AreRecords, FutureType
  <2>3. /\ t.pc = i + 1 /\ t.out = s.out /\ t.got = s.got /\ t.events = s.events
        /\ t.consumed = [s.consumed EXCEPT ![f] = k]
        /\ t.future = [s.future EXCEPT ![i] = [resolved |-> TRUE, record |-> records[f][k]]]
    BY <2>1, <1>2
  <2>4. t = [pc |-> t.pc, consumed |-> t.consumed, future |-> t.future,
             events |-> t.events, got |-> t.got, out |-> t.out]
    BY <2>1 DEF RunType
  <2>5. t.consumed \in [Fn -> Nat] /\ t.future \in [DOMAIN prog -> FutureType]
    BY <2>2, <2>3, <1>1, <1>2, <1>3
  <2>6. t \in RunType(prog)
    <3>1. /\ t.pc \in Nat /\ t.consumed \in [Fn -> Nat]
          /\ t.future \in [DOMAIN prog -> FutureType]
          /\ t.events \in Seq(CallType) /\ t.got \in Seq(Nat)
          /\ t.out \in {"running", "blocked", "panicked", "error"}
      BY <2>3, <2>5, <1>2, <1>1
    <3>2. [pc |-> t.pc, consumed |-> t.consumed, future |-> t.future,
           events |-> t.events, got |-> t.got, out |-> t.out] \in RunType(prog)
      BY <3>1, RunTypeIntro
    <3> QED
      BY <2>4, <3>2, Zenon
  <2> QED
    BY <2>3, <2>6, <1>1, <1>2, <1>3, <1>4 DEF Executed
<1>5. CASE ~(k <= Len(records[f]))
  <2>1. t = [[s EXCEPT !.pc = i + 1, !.consumed[f] = k]
               EXCEPT !.events = Append(@, ActivityScheduled(f, prog[i].arg))]
    BY <1>5 DEF ExecuteActivity
  <2>2. ActivityScheduled(f, prog[i].arg) \in CallType
    BY <1>1 DEF ActivityScheduled, Ev, CallType
  <2>3. /\ t.pc = i + 1 /\ t.out = s.out /\ t.got = s.got /\ t.future = s.future
        /\ t.consumed = [s.consumed EXCEPT ![f] = k]
        /\ t.events = Append(s.events, ActivityScheduled(f, prog[i].arg))
    BY <2>1, <1>2
  <2>4. t = [pc |-> t.pc, consumed |-> t.consumed, future |-> t.future,
             events |-> t.events, got |-> t.got, out |-> t.out]
    BY <2>1 DEF RunType
  <2>5. t.consumed \in [Fn -> Nat]
    BY <2>3, <1>1, <1>2, <1>3
  <2>6. t.events \in Seq(CallType)
    BY <2>2, <2>3, <1>2
  <2>7. t \in RunType(prog)
    <3>1. /\ t.pc \in Nat /\ t.consumed \in [Fn -> Nat]
          /\ t.future \in [DOMAIN prog -> FutureType]
          /\ t.events \in Seq(CallType) /\ t.got \in Seq(Nat)
          /\ t.out \in {"running", "blocked", "panicked", "error"}
      BY <2>3, <2>5, <2>6, <1>2, <1>1
    <3>2. [pc |-> t.pc, consumed |-> t.consumed, future |-> t.future,
           events |-> t.events, got |-> t.got, out |-> t.out] \in RunType(prog)
      BY <3>1, RunTypeIntro
    <3> QED
      BY <2>4, <3>2, Zenon
  <2> QED
    BY <2>3, <2>7, <1>1, <1>2, <1>3, <1>5 DEF Executed
<1> QED
  BY <1>4, <1>5

\* Future.Get, field by field: t is what run s becomes.
Gotten(prog, i, s, t) ==
  LET fut == s.future[prog[i].of] IN
  /\ t \in RunType(prog)
  /\ t.consumed = s.consumed /\ t.future = s.future /\ t.events = s.events
  /\ \/ ~fut.resolved /\ t.out = "blocked" /\ t.pc = s.pc /\ t.got = s.got
     \/ /\ fut.resolved /\ fut.record.kind = "activity/completed"
        /\ t.out = s.out /\ t.pc = prog[i].ok /\ t.got = s.got \o fut.record.val
     \/ /\ fut.resolved /\ fut.record.kind = "activity/failed" /\ t.got = s.got
        /\ \/ prog[i].err = 0 /\ t.out = "error" /\ t.pc = s.pc
           \/ prog[i].err # 0 /\ t.out = s.out /\ t.pc = prog[i].err

\* What Get on a future does to a run, field by field.
LEMMA FutureGetFields ==
  ASSUME NEW prog, IsProgram(prog), NEW i \in DOMAIN prog, prog[i].op = "get",
         NEW s \in RunType(prog)
  PROVE  Gotten(prog, i, s, FutureGet(s, prog[i]))
<1> SUFFICES ASSUME NEW fut, fut = s.future[prog[i].of], NEW t, t = FutureGet(s, prog[i])
             PROVE  Gotten(prog, i, s, t)
  OBVIOUS
<1>1. fut \in FutureType
  BY StepFields DEF RunType
<1>2. /\ fut.resolved \in BOOLEAN /\ fut.record.val \in Seq(Nat)
      /\ fut.record.kind \in {"activity/completed", "activity/failed"}
  BY <1>1 DEF FutureType, OutcomeType
<1>3. prog[i].ok \in Nat /\ prog[i].err \in Nat
  BY StepFields
<1>4. /\ s.got \in Seq(Nat)
      /\ DOMAIN s = {"pc", "consumed", "future", "events", "got", "out"}
  BY DEF RunType
<1>5. CASE ~fut.resolved
  <2>1. t = [s EXCEPT !.out = "blocked"]
    BY <1>5 DEF FutureGet
  <2> QED
    BY <1>2, <1>5, <2>1 DEF RunType, Gotten
<1>6. CASE fut.resolved /\ fut.record.kind = "activity/completed"
  <2>1. t = [s EXCEPT !.got = @ \o fut.record.val, !.pc = prog[i].ok]
    BY <1>6 DEF FutureGet
  <2>2. s.got \o fut.record.val \in Seq(Nat)
    BY <1>2, <1>4
  <2> QED
    BY <1>2, <1>3, <1>6, <2>1, <2>2 DEF RunType, Gotten
<1>7. CASE fut.resolved /\ fut.record.kind = "activity/failed"
  <2>1. t = IF prog[i].err = 0 THEN [s EXCEPT !.out = "error"]
                               ELSE [s EXCEPT !.pc = prog[i].err]
    BY <1>7 DEF FutureGet
  <2> QED
    BY <1>2, <1>3, <1>7, <2>1 DEF RunType, Gotten
<1> QED
  BY <1>2, <1>5, <1>6, <1>7

-----------------------------------------------------------------------------
(* What holds after every step of a run.                                   *)

\* The call at step k was answered from the history, or was scheduled.
Made(prog, s, k) ==
  \/ s.future[k].resolved
  \/ ActivityScheduled(prog[k].fn, prog[k].arg) \in ToSet(s.events)

\* Every future that a later step awaits was returned by a call that was made.
InScope(prog, s) ==
  \A g \in DOMAIN prog :
    prog[g].op = "get" /\ g >= s.pc /\ prog[g].of < s.pc => Made(prog, s, prog[g].of)

RunOK(prog, i, s) ==
  /\ s \in RunType(prog)
  /\ s.pc \in 1..(Len(prog) + 1)
  /\ s.out = "running" => s.pc > i /\ InScope(prog, s)
  /\ s.out = "blocked" =>
       /\ s.pc \in DOMAIN prog /\ prog[s.pc].op = "get"
       /\ ActivityScheduled(prog[prog[s.pc].of].fn, prog[prog[s.pc].of].arg) \in ToSet(s.events)

\* A step of the program leaves alone a run that has ended or jumped over it.
LEMMA StepOnceCases ==
  ASSUME NEW s, NEW i, NEW step, NEW records, step.op \in {"exec", "get", "panic"}
  PROVE  /\ s.out # "running" \/ s.pc # i => StepOnce(s, i, step, records) = s
         /\ s.out = "running" /\ s.pc = i =>
              /\ step.op = "exec" =>
                   StepOnce(s, i, step, records) = ExecuteActivity(s, i, step, records)
              /\ step.op = "get" => StepOnce(s, i, step, records) = FutureGet(s, step)
              /\ step.op = "panic" =>
                   StepOnce(s, i, step, records) = [s EXCEPT !.out = "panicked"]
<1>1. CASE s.out # "running" \/ s.pc # i
  BY <1>1, Zenon DEF StepOnce
<1>2. CASE s.out = "running" /\ s.pc = i
  <2>1. CASE step.op = "exec"
    BY <1>2, <2>1 DEF StepOnce
  <2>2. CASE step.op = "get"
    BY <1>2, <2>2 DEF StepOnce
  <2>3. CASE step.op = "panic"
    BY <1>2, <2>3 DEF StepOnce
  <2> QED
    BY <1>2, <2>1, <2>2, <2>3
<1> QED
  BY <1>1, <1>2

\* The elements of a longer sequence.
LEMMA ToSetAppend ==
  ASSUME NEW E, NEW a \in Seq(E), NEW e \in E
  PROVE  ToSet(a) \subseteq ToSet(Append(a, e)) /\ e \in ToSet(Append(a, e))
  BY DEF ToSet

\* Every statement of the workflow keeps the run well formed.
LEMMA RunOKStep ==
  ASSUME NEW prog, IsProgram(prog), NEW records, AreRecords(records),
         NEW n \in 0..(Len(prog) - 1), NEW s, RunOK(prog, n, s),
         NEW i, i = n + 1, NEW t, t = StepOnce(s, i, prog[i], records)
  PROVE  RunOK(prog, i, t)
<1>1. i \in DOMAIN prog /\ i \in Nat /\ Len(prog) \in Nat /\ DOMAIN prog = 1..Len(prog)
  BY DEF IsProgram
<1>2. prog[i].op \in {"exec", "get", "panic"}
  BY <1>1, StepFields
<1>3. s \in RunType(prog) /\ s.pc \in 1..(Len(prog) + 1)
  BY DEF RunOK
<1>4. CASE s.out # "running" \/ s.pc # i
  <2>1. t = s
    BY <1>2, <1>4, StepOnceCases
  <2>2. s.out = "running" => s.pc > i
    BY <1>1, <1>3, <1>4 DEF RunOK
  <2> QED
    BY <2>1, <2>2 DEF RunOK
<1>5. CASE s.out = "running" /\ s.pc = i /\ prog[i].op = "exec"
  <2> DEFINE f == prog[i].fn
             call == ActivityScheduled(f, prog[i].arg)
  <2>1. t = ExecuteActivity(s, i, prog[i], records)
    BY <1>2, <1>5, StepOnceCases
  <2>2. Executed(prog, records, i, s, t)
    BY <1>1, <1>3, <1>5, <2>1, ExecuteActivityFields
  <2>3. s.events \in Seq(CallType) /\ call \in CallType /\ DOMAIN s.future = DOMAIN prog
    BY <1>1, <1>3, <1>5, StepFields DEF RunType, CallType, ActivityScheduled, Ev
  <2>4. ASSUME NEW k \in DOMAIN prog, k = i \/ Made(prog, s, k)
        PROVE  Made(prog, t, k)
    <3>1. CASE s.consumed[f] < Len(records[f])
      <4>1. /\ t.future = [s.future EXCEPT ![i] =
                             [resolved |-> TRUE, record |-> records[f][s.consumed[f] + 1]]]
            /\ t.events = s.events
        BY <2>2, <3>1 DEF Executed
      <4> QED
        BY <2>3, <2>4, <4>1, <1>1 DEF Made
    <3>2. CASE ~(s.consumed[f] < Len(records[f]))
      <4>1. t.future = s.future /\ t.events = Append(s.events, call)
        BY <2>2, <3>2 DEF Executed
      <4>2. ToSet(s.events) \subseteq ToSet(t.events) /\ call \in ToSet(t.events)
        <5> HIDE DEF call
        <5>1. /\ ToSet(s.events) \subseteq ToSet(Append(s.events, call))
              /\ call \in ToSet(Append(s.events, call))
          BY <2>3, ToSetAppend
        <5> QED
          BY <4>1, <5>1
      <4> QED
        BY <2>4, <4>1, <4>2 DEF Made
    <3> QED
      BY <3>1, <3>2
  <2>5. InScope(prog, s)
    BY <1>5 DEF RunOK
  <2>6. InScope(prog, t)
    <3> SUFFICES ASSUME NEW g \in DOMAIN prog, prog[g].op = "get",
                        g >= i + 1, prog[g].of < i + 1
                 PROVE  Made(prog, t, prog[g].of)
      BY <2>2 DEF InScope, Executed
    <3>1. prog[g].of \in DOMAIN prog
      BY StepFields
    <3>2. prog[g].of = i \/ Made(prog, s, prog[g].of)
      BY <1>1, <1>5, <2>5, <3>1 DEF InScope
    <3> QED
      BY <3>1, <3>2, <2>4
  <2> QED
    BY <1>1, <1>5, <2>2, <2>6 DEF RunOK, Executed
<1>6. CASE s.out = "running" /\ s.pc = i /\ prog[i].op = "get"
  <2> DEFINE o == prog[i].of
             fut == s.future[o]
  <2>1. t = FutureGet(s, prog[i])
    BY <1>2, <1>6, StepOnceCases
  <2>2. Gotten(prog, i, s, t)
    BY <1>1, <1>3, <1>6, <2>1, FutureGetFields
  <2>3. /\ o \in DOMAIN prog /\ o < i /\ prog[o].op = "exec"
        /\ prog[i].ok \in (i + 1)..(Len(prog) + 1)
        /\ prog[i].err = 0 \/ prog[i].err \in (i + 1)..(Len(prog) + 1)
    BY <1>1, <1>6, StepFields
  <2>4. /\ t \in RunType(prog) /\ t.future = s.future /\ t.events = s.events
        /\ \/ ~fut.resolved /\ t.out = "blocked" /\ t.pc = i
           \/ t.out = "running" /\ t.pc = prog[i].ok
           \/ t.out = "error" /\ t.pc = i
           \/ prog[i].err # 0 /\ t.out = "running" /\ t.pc = prog[i].err
    BY <1>6, <2>2, Zenon DEF Gotten
  <2> HIDE DEF fut
  <2>5. t.pc \in 1..(Len(prog) + 1)
    BY <1>1, <2>4, <2>3
  <2>6. InScope(prog, s)
    BY <1>6 DEF RunOK
  <2>7. Made(prog, s, o)
    BY <1>1, <1>6, <2>3, <2>6 DEF InScope
  <2>8. ASSUME t.out = "running" PROVE t.pc > i /\ InScope(prog, t)
    <3>1. t.pc > i /\ t.pc \in Targets(prog[i])
      BY <1>1, <2>4, <2>3, <2>8 DEF Targets
    <3>2. ASSUME NEW g \in DOMAIN prog, prog[g].op = "get", g >= t.pc, prog[g].of < t.pc
          PROVE  Made(prog, t, prog[g].of)
      <4>1. prog[g].of \in DOMAIN prog /\ prog[prog[g].of].op = "exec"
        BY <3>2, StepFields
      <4>2. prog[g].of # i
        BY <1>6, <4>1
      <4>3. ~(i < prog[g].of)
        <5> SUFFICES ASSUME i < prog[g].of PROVE FALSE
          OBVIOUS
        <5>1. i \in 1..(prog[g].of - 1)
          BY <1>1, <4>1
        <5>2. t.pc <= prog[g].of \/ t.pc > g
          BY <1>6, <3>1, <3>2, <5>1 DEF IsProgram
        <5> QED
          BY <1>1, <2>5, <3>2, <4>1, <5>2
      <4>4. Made(prog, s, prog[g].of)
        <5>1. g >= s.pc /\ prog[g].of < s.pc
          BY <1>1, <1>6, <2>5, <3>1, <3>2, <4>1, <4>2, <4>3
        <5> QED
          BY <2>6, <3>2, <5>1 DEF InScope
      <4> QED
        BY <2>4, <4>4 DEF Made
    <3> QED
      BY <3>1, <3>2 DEF InScope
  <2>9. ASSUME t.out = "blocked"
        PROVE  t.pc = i /\ ActivityScheduled(prog[o].fn, prog[o].arg) \in ToSet(t.events)
    <3>1. ~fut.resolved
      BY <2>4, <2>9
    <3> QED
      BY <2>4, <2>9, <2>7, <3>1 DEF Made, fut
  <2> QED
    BY <1>1, <1>6, <2>4, <2>8, <2>9, <2>5 DEF RunOK
<1>7. CASE s.out = "running" /\ s.pc = i /\ prog[i].op = "panic"
  <2>1. t = [s EXCEPT !.out = "panicked"]
    BY <1>2, <1>7, StepOnceCases
  <2>2. t \in RunType(prog) /\ t.pc = s.pc /\ t.out = "panicked"
    BY <1>3, <2>1 DEF RunType
  <2> QED
    BY <1>3, <2>2 DEF RunOK
<1> QED
  BY <1>2, <1>4, <1>5, <1>6, <1>7

\* The run is well formed after any number of statements.
LEMMA RunIsOK ==
  ASSUME NEW prog, IsProgram(prog), NEW records, AreRecords(records),
         NEW m \in 0..Len(prog)
  PROVE  RunOK(prog, m, After(prog, records)[m])
<1> DEFINE n == Len(prog)
           a == After(prog, records)
           S == {i \in 0..n : RunOK(prog, i, a[i])}
<1>1. n \in Nat
  BY DEF IsProgram
<1>2. 0 \in S
  <2>1. /\ StartRun(prog) \in RunType(prog)
        /\ StartRun(prog).pc = 1 /\ StartRun(prog).out = "running"
    BY StartRunType
  <2>2. InScope(prog, StartRun(prog))
    BY <2>1, StepFields DEF InScope
  <2>3. a[0] = StartRun(prog)
    BY <1>1, AfterUnfolds
  <2> QED
    BY <1>1, <2>1, <2>2, <2>3 DEF RunOK
<1>3. ASSUME NEW i \in 0..(n - 1), i \in S PROVE i + 1 \in S
  <2>1. a[i + 1] = StepOnce(a[i], i + 1, prog[i + 1], records)
    BY <1>1, AfterUnfolds
  <2>2. RunOK(prog, i, a[i])
    BY <1>3
  <2> HIDE DEF a
  <2>3. RunOK(prog, i + 1, a[i + 1])
    BY <2>1, <2>2, RunOKStep
  <2> QED
    BY <1>1, <2>3
<1>4. 0..n \subseteq S
  <2> HIDE DEF S, n
  <2> QED
    BY <1>1, <1>2, <1>3, InductUpTo
<1> QED
  BY <1>4

-----------------------------------------------------------------------------
(***************************************************************************)
(* Two runs of one function, s on a history and t on a longer one: either  *)
(* they stand at the same place and were told the same, or s is blocked    *)
(* and t has gone on from there.                                           *)
(***************************************************************************)
Longer(old, new) ==
  \A f \in Fn : /\ Len(old[f]) <= Len(new[f])
                /\ \A k \in 1..Len(old[f]) : new[f][k] = old[f][k]

Alike(prog, s, t) ==
  /\ s.pc = t.pc /\ s.out = t.out /\ s.got = t.got /\ s.consumed = t.consumed
  /\ \A k \in DOMAIN prog : s.future[k].resolved => t.future[k] = s.future[k]

Overtaken(s, t) ==
  /\ s.out = "blocked"
  /\ IsPrefix(s.got, t.got)
  /\ \A f \in Fn : s.consumed[f] <= t.consumed[f]

\* An event lengthens the records of its own function and no others.
LEMMA ApplyLengthens ==
  ASSUME NEW records, AreRecords(records), NEW e, IsRecord(e) => e \in OutcomeType
  PROVE  Longer(records, Apply(records, e))
<1>1. records \in [Fn -> Seq(OutcomeType)]
  BY DEF AreRecords
<1>2. CASE IsRecord(e)
  <2>1. Apply(records, e) = [records EXCEPT ![e.fn] = Append(@, e)] /\ e \in OutcomeType
    BY <1>2 DEF Apply
  <2>2. Longer(records, [records EXCEPT ![e.fn] = Append(@, e)])
    BY <1>1, <2>1 DEF Longer
  <2> QED
    BY <2>1, <2>2
<1>3. CASE ~IsRecord(e)
  BY <1>1, <1>3 DEF Apply, Longer
<1> QED
  BY <1>2, <1>3

\* Being longer is transitive.
LEMMA LongerTransitive ==
  ASSUME NEW a, NEW b, NEW c, AreRecords(a), AreRecords(b), AreRecords(c),
         Longer(a, b), Longer(b, c)
  PROVE  Longer(a, c)
<1> SUFFICES ASSUME NEW f \in Fn
             PROVE  /\ Len(a[f]) <= Len(c[f])
                    /\ \A k \in 1..Len(a[f]) : c[f][k] = a[f][k]
  BY DEF Longer
<1>1. Len(a[f]) \in Nat /\ Len(b[f]) \in Nat /\ Len(c[f]) \in Nat
  BY DEF AreRecords
<1>2. /\ Len(a[f]) <= Len(b[f]) /\ Len(b[f]) <= Len(c[f])
      /\ \A k \in 1..Len(a[f]) : b[f][k] = a[f][k]
      /\ \A k \in 1..Len(b[f]) : c[f][k] = b[f][k]
  BY DEF Longer
<1> QED
  BY <1>1, <1>2

\* A prefix stays one when the longer sequence grows.
LEMMA PrefixConcat ==
  ASSUME NEW E, NEW a \in Seq(E), NEW b \in Seq(E), NEW c \in Seq(E), IsPrefix(a, b)
  PROVE  IsPrefix(a, b \o c)
<1>1. Len(a) \in Nat /\ Len(b) \in Nat /\ Len(c) \in Nat /\ Len(a) <= Len(b)
  BY DEF IsPrefix
<1>2. b \o c \in Seq(E) /\ Len(b \o c) = Len(b) + Len(c)
  OBVIOUS
<1>3. SubSeq(b \o c, 1, Len(a)) = SubSeq(b, 1, Len(a))
  BY <1>1, <1>2
<1> QED
  BY <1>1, <1>2, <1>3 DEF IsPrefix

\* Every sequence is a prefix of itself.
LEMMA PrefixReflexive ==
  ASSUME NEW E, NEW a \in Seq(E) PROVE IsPrefix(a, a)
  BY DEF IsPrefix

\* A prefix of a prefix is a prefix.
LEMMA PrefixTransitive ==
  ASSUME NEW E, NEW a \in Seq(E), NEW b \in Seq(E), NEW c \in Seq(E),
         IsPrefix(a, b), IsPrefix(b, c)
  PROVE  IsPrefix(a, c)
<1>1. /\ Len(a) \in Nat /\ Len(b) \in Nat /\ Len(c) \in Nat
      /\ Len(a) <= Len(b) /\ Len(b) <= Len(c)
      /\ SubSeq(a, 1, Len(a)) = SubSeq(b, 1, Len(a))
      /\ SubSeq(b, 1, Len(b)) = SubSeq(c, 1, Len(b))
  BY DEF IsPrefix
<1>2. ASSUME NEW k \in 1..Len(a) PROVE b[k] = c[k]
  <2>1. SubSeq(b, 1, Len(b))[k] = b[k] /\ SubSeq(c, 1, Len(b))[k] = c[k]
    BY <1>1
  <2> QED
    BY <1>1, <2>1
<1>3. SubSeq(b, 1, Len(a)) = SubSeq(c, 1, Len(a))
  BY <1>1, <1>2
<1> QED
  BY <1>1, <1>3 DEF IsPrefix

\* Whatever a step does, what the run was told so far stays.
LEMMA StepExtends ==
  ASSUME NEW prog, IsProgram(prog), NEW i \in DOMAIN prog, NEW records, AreRecords(records),
         NEW s \in RunType(prog), NEW t, t = StepOnce(s, i, prog[i], records)
  PROVE  /\ t \in RunType(prog)
         /\ IsPrefix(s.got, t.got)
         /\ \A f \in Fn : s.consumed[f] <= t.consumed[f]
         /\ \A k \in DOMAIN prog : k # i => t.future[k] = s.future[k]
<1>1. prog[i].op \in {"exec", "get", "panic"}
  BY StepFields
<1>2. s.got \in Seq(Nat) /\ s.consumed \in [Fn -> Nat] /\ DOMAIN s.future = DOMAIN prog
  BY DEF RunType
<1>3. IsPrefix(s.got, s.got)
  BY <1>2, PrefixReflexive
<1>4. CASE s.out # "running" \/ s.pc # i
  <2>1. t = s
    BY <1>1, <1>4, StepOnceCases
  <2> QED
    BY <1>2, <1>3, <2>1
<1>5. CASE s.out = "running" /\ s.pc = i /\ prog[i].op = "exec"
  <2>1. t = ExecuteActivity(s, i, prog[i], records)
    BY <1>1, <1>5, StepOnceCases
  <2>2. Executed(prog, records, i, s, t)
    BY <1>5, <2>1, ExecuteActivityFields
  <2>3. t \in RunType(prog) /\ t.got = s.got /\ t.consumed = [s.consumed EXCEPT ![prog[i].fn] = @ + 1]
    BY <2>2 DEF Executed
  <2>4. \A k \in DOMAIN prog : k # i => t.future[k] = s.future[k]
    BY <1>2, <2>2 DEF Executed
  <2> QED
    BY <1>2, <1>3, <2>3, <2>4
<1>6. CASE s.out = "running" /\ s.pc = i /\ prog[i].op = "get"
  <2> DEFINE v == s.future[prog[i].of].record.val
  <2>1. t = FutureGet(s, prog[i])
    BY <1>1, <1>6, StepOnceCases
  <2>2. Gotten(prog, i, s, t)
    BY <1>6, <2>1, FutureGetFields
  <2>3. /\ t \in RunType(prog) /\ t.consumed = s.consumed /\ t.future = s.future
        /\ t.got = s.got \/ t.got = s.got \o v
    BY <2>2 DEF Gotten
  <2>4. v \in Seq(Nat)
    BY <1>6, StepFields DEF RunType, FutureType, OutcomeType
  <2>5. IsPrefix(s.got, s.got \o v)
    BY <1>2, <1>3, <2>4, PrefixConcat
  <2>6. IsPrefix(s.got, t.got)
    BY <1>3, <2>3, <2>5, Zenon
  <2>7. \A f \in Fn : s.consumed[f] <= t.consumed[f]
    BY <1>2, <2>3
  <2> QED
    BY <2>3, <2>6, <2>7
<1>7. CASE s.out = "running" /\ s.pc = i /\ prog[i].op = "panic"
  <2>1. t = [s EXCEPT !.out = "panicked"]
    BY <1>1, <1>7, StepOnceCases
  <2>2. /\ t \in RunType(prog) /\ t.got = s.got
        /\ t.consumed = s.consumed /\ t.future = s.future
    BY <2>1 DEF RunType
  <2> QED
    BY <1>2, <1>3, <2>2
<1> QED
  BY <1>1, <1>4, <1>5, <1>6, <1>7

\* The future of a call that is not reached yet is unresolved.
LEMMA FuturesAhead ==
  ASSUME NEW prog, IsProgram(prog), NEW records, AreRecords(records),
         NEW m \in 0..Len(prog)
  PROVE  \A k \in DOMAIN prog : k > m => After(prog, records)[m].future[k] = Unresolved
<1> DEFINE n == Len(prog)
           a == After(prog, records)
           S == {i \in 0..n : \A k \in DOMAIN prog : k > i => a[i].future[k] = Unresolved}
<1>1. n \in Nat /\ DOMAIN prog = 1..n
  BY DEF IsProgram
<1>2. 0 \in S
  <2>1. a[0] = StartRun(prog)
    BY <1>1, AfterUnfolds
  <2> HIDE DEF a
  <2>2. StartRun(prog).future = [i \in DOMAIN prog |-> Unresolved]
    BY DEF StartRun
  <2>3. \A k \in DOMAIN prog : a[0].future[k] = Unresolved
    BY <2>1, <2>2
  <2> QED
    BY <1>1, <2>3
<1>3. ASSUME NEW i \in 0..(n - 1), i \in S PROVE i + 1 \in S
  <2>1. a[i + 1] = StepOnce(a[i], i + 1, prog[i + 1], records)
    BY <1>1, AfterUnfolds
  <2>2. a[i] \in RunType(prog)
    BY <1>1, RunIsOK DEF RunOK
  <2>3. i + 1 \in DOMAIN prog /\ i + 1 \in 0..n
    BY <1>1
  <2> HIDE DEF a
  <2>4. \A k \in DOMAIN prog : k # i + 1 => a[i + 1].future[k] = a[i].future[k]
    BY <2>1, <2>2, <2>3, StepExtends
  <2>5. \A k \in DOMAIN prog : k > i => a[i].future[k] = Unresolved
    BY <1>3
  <2> QED
    BY <1>1, <2>3, <2>4, <2>5
<1>4. 0..n \subseteq S
  <2> HIDE DEF S, n
  <2> QED
    BY <1>1, <1>2, <1>3, InductUpTo
<1> QED
  BY <1>4

\* Two runs on an older and a newer history take the same steps, until the
\* older one blocks on a future that the newer one finds resolved.
LEMMA RunsStayAlike ==
  ASSUME NEW prog, IsProgram(prog), NEW i \in DOMAIN prog,
         NEW old, NEW new, AreRecords(old), AreRecords(new), Longer(old, new),
         NEW s \in RunType(prog), NEW t \in RunType(prog),
         s.future[i] = Unresolved, Alike(prog, s, t) \/ Overtaken(s, t),
         NEW s1, s1 = StepOnce(s, i, prog[i], old),
         NEW t1, t1 = StepOnce(t, i, prog[i], new)
  PROVE  Alike(prog, s1, t1) \/ Overtaken(s1, t1)
<1>1. prog[i].op \in {"exec", "get", "panic"}
  BY StepFields
<1>2. /\ s.got \in Seq(Nat) /\ s.consumed \in [Fn -> Nat] /\ DOMAIN s.future = DOMAIN prog
      /\ t.got \in Seq(Nat) /\ t.consumed \in [Fn -> Nat] /\ DOMAIN t.future = DOMAIN prog
  BY DEF RunType
<1>3. /\ t1 \in RunType(prog) /\ IsPrefix(t.got, t1.got)
      /\ \A f \in Fn : t.consumed[f] <= t1.consumed[f]
  BY StepExtends
<1>4. t1.got \in Seq(Nat) /\ t1.consumed \in [Fn -> Nat]
  BY <1>3 DEF RunType
<1>5. CASE Overtaken(s, t)
  <2>1. s1 = s
    BY <1>1, <1>5, StepOnceCases DEF Overtaken
  <2>2. IsPrefix(s.got, t1.got)
    BY <1>2, <1>3, <1>4, <1>5, PrefixTransitive DEF Overtaken
  <2>3. ASSUME NEW f \in Fn PROVE s.consumed[f] <= t1.consumed[f]
    <3>1. s.consumed[f] <= t.consumed[f] /\ t.consumed[f] <= t1.consumed[f]
      BY <1>3, <1>5 DEF Overtaken
    <3> QED
      BY <1>2, <1>4, <3>1
  <2> QED
    BY <1>5, <2>1, <2>2, <2>3 DEF Overtaken
<1>6. CASE Alike(prog, s, t) /\ (s.out # "running" \/ s.pc # i)
  <2>1. s1 = s /\ t1 = t
    BY <1>1, <1>6, StepOnceCases DEF Alike
  <2> QED
    BY <1>6, <2>1
<1>7. CASE Alike(prog, s, t) /\ s.out = "running" /\ s.pc = i /\ prog[i].op = "exec"
  <2> DEFINE f == prog[i].fn
             k == s.consumed[f] + 1
  <2>0. t.out = "running" /\ t.pc = i /\ t.got = s.got /\ t.consumed = s.consumed
    BY <1>7, Zenon DEF Alike
  <2>1. Executed(prog, old, i, s, s1)
    <3>1. s1 = ExecuteActivity(s, i, prog[i], old)
      BY <1>1, <1>7, StepOnceCases
    <3> QED
      BY <1>7, <3>1, ExecuteActivityFields
  <2>2. Executed(prog, new, i, t, t1)
    <3>1. t1 = ExecuteActivity(t, i, prog[i], new)
      BY <1>1, <1>7, <2>0, StepOnceCases
    <3> QED
      BY <1>7, <3>1, ExecuteActivityFields
  <2>3. s1.pc = t1.pc /\ s1.out = t1.out /\ s1.got = t1.got /\ s1.consumed = t1.consumed
    <3>1. /\ s1.pc = i + 1 /\ s1.out = s.out /\ s1.got = s.got
          /\ s1.consumed = [s.consumed EXCEPT ![f] = @ + 1]
      BY <2>1 DEF Executed
    <3>2. /\ t1.pc = i + 1 /\ t1.out = t.out /\ t1.got = t.got
          /\ t1.consumed = [t.consumed EXCEPT ![f] = @ + 1]
      BY <2>2 DEF Executed
    <3> QED
      BY <1>7, <2>0, <3>1, <3>2
  <2>4. f \in Fn /\ k \in Nat \ {0} /\ Len(old[f]) \in Nat /\ Len(new[f]) \in Nat
    BY <1>2, <1>7, StepFields DEF AreRecords
  <2>5. ASSUME NEW j \in DOMAIN prog, s1.future[j].resolved PROVE t1.future[j] = s1.future[j]
    <3>1. CASE s.consumed[f] < Len(old[f])
      <4>1. t.consumed[f] < Len(new[f]) /\ t.consumed[f] = s.consumed[f]
            /\ new[f][k] = old[f][k]
        <5>1. /\ Len(old[f]) <= Len(new[f])
              /\ \A m \in 1..Len(old[f]) : new[f][m] = old[f][m]
          BY <2>4 DEF Longer
        <5>2. k \in 1..Len(old[f]) /\ s.consumed[f] \in Nat
          BY <1>2, <2>4, <3>1
        <5> QED
          BY <2>0, <2>4, <3>1, <5>1, <5>2
      <4>2. s1.future = [s.future EXCEPT ![i] = [resolved |-> TRUE, record |-> old[f][k]]]
        BY <2>1, <3>1 DEF Executed
      <4>3. t1.future = [t.future EXCEPT ![i] = [resolved |-> TRUE, record |-> new[f][k]]]
        BY <2>2, <4>1 DEF Executed
      <4>4. CASE j = i
        BY <1>2, <4>1, <4>2, <4>3, <4>4
      <4>5. CASE j # i
        <5>1. s1.future[j] = s.future[j] /\ t1.future[j] = t.future[j]
          BY <1>2, <4>2, <4>3, <4>5
        <5> QED
          BY <1>7, <2>5, <5>1, Zenon DEF Alike
      <4> QED
        BY <4>4, <4>5
    <3>2. CASE ~(s.consumed[f] < Len(old[f]))
      <4>1. s1.future = s.future
        BY <2>1, <3>2 DEF Executed
      <4>2. t.future[j] = s.future[j]
        BY <1>7, <2>5, <4>1, Zenon DEF Alike
      <4>3. j # i
        BY <2>5, <4>1 DEF Unresolved
      <4>4. t1.future[j] = t.future[j]
        BY <1>2, <2>2, <4>3 DEF Executed
      <4> QED
        BY <4>1, <4>2, <4>4
    <3> QED
      BY <3>1, <3>2
  <2>6. \A j \in DOMAIN prog : s1.future[j].resolved => t1.future[j] = s1.future[j]
    BY <2>5, Zenon
  <2> QED
    BY <2>3, <2>6, Zenon DEF Alike
<1>8. CASE Alike(prog, s, t) /\ s.out = "running" /\ s.pc = i /\ prog[i].op = "get"
  <2> DEFINE o == prog[i].of
  <2>0. t.out = "running" /\ t.pc = i /\ t.got = s.got /\ t.consumed = s.consumed
    BY <1>8, Zenon DEF Alike
  <2>1. Gotten(prog, i, s, s1)
    <3>1. s1 = FutureGet(s, prog[i])
      BY <1>1, <1>8, StepOnceCases
    <3> QED
      BY <1>8, <3>1, FutureGetFields
  <2>2. Gotten(prog, i, t, t1)
    <3>1. t1 = FutureGet(t, prog[i])
      BY <1>1, <1>8, <2>0, StepOnceCases
    <3> QED
      BY <1>8, <3>1, FutureGetFields
  <2>3. CASE ~s.future[o].resolved
    <3>1. s1.out = "blocked" /\ s1.got = s.got /\ s1.consumed = s.consumed
      BY <2>1, <2>3, Zenon DEF Gotten
    <3>2. IsPrefix(s1.got, t1.got)
      BY <1>3, <2>0, <3>1, Zenon
    <3>3. \A f \in Fn : s1.consumed[f] <= t1.consumed[f]
      BY <1>3, <2>0, <3>1
    <3> QED
      BY <3>1, <3>2, <3>3 DEF Overtaken
  <2>4. CASE s.future[o].resolved
    <3>1. o \in DOMAIN prog
      BY <1>8, StepFields
    <3>2. t.future[o] = s.future[o]
      BY <1>8, <2>4, <3>1, Zenon DEF Alike
    <3>3. s1.pc = t1.pc /\ s1.out = t1.out /\ s1.got = t1.got
      <4>1. s.future[o].record.kind \in {"activity/completed", "activity/failed"}
        BY <3>1 DEF RunType, FutureType, OutcomeType
      <4>2. CASE s.future[o].record.kind = "activity/completed"
        <5> DEFINE v == s.future[o].record.val
        <5>1. s1.out = s.out /\ s1.pc = prog[i].ok /\ s1.got = s.got \o v
          BY <2>1, <2>4, <4>2, Zenon DEF Gotten
        <5>2. t1.out = t.out /\ t1.pc = prog[i].ok /\ t1.got = t.got \o v
          BY <2>2, <2>4, <3>2, <4>2, Zenon DEF Gotten
        <5> QED
          BY <1>8, <2>0, <5>1, <5>2, Zenon
      <4>3. CASE s.future[o].record.kind = "activity/failed"
        <5>1. /\ s1.got = s.got
              /\ \/ prog[i].err = 0 /\ s1.out = "error" /\ s1.pc = s.pc
                 \/ prog[i].err # 0 /\ s1.out = s.out /\ s1.pc = prog[i].err
          BY <2>1, <2>4, <4>3, Zenon DEF Gotten
        <5>2. /\ t1.got = t.got
              /\ \/ prog[i].err = 0 /\ t1.out = "error" /\ t1.pc = t.pc
                 \/ prog[i].err # 0 /\ t1.out = t.out /\ t1.pc = prog[i].err
          BY <2>2, <2>4, <3>2, <4>3, Zenon DEF Gotten
        <5> QED
          BY <1>8, <2>0, <5>1, <5>2, Zenon
      <4> QED
        BY <4>1, <4>2, <4>3
    <3>4. /\ s1.consumed = t1.consumed /\ s1.future = s.future /\ t1.future = t.future
      BY <2>0, <2>1, <2>2, Zenon DEF Gotten
    <3>5. \A j \in DOMAIN prog : s.future[j].resolved => t.future[j] = s.future[j]
      BY <1>8, Zenon DEF Alike
    <3> QED
      BY <3>3, <3>4, <3>5, Zenon DEF Alike
  <2> QED
    BY <2>3, <2>4
<1>9. CASE Alike(prog, s, t) /\ s.out = "running" /\ s.pc = i /\ prog[i].op = "panic"
  <2>0. t.out = "running" /\ t.pc = i /\ t.got = s.got /\ t.consumed = s.consumed
    BY <1>9, Zenon DEF Alike
  <2>1. s1 = [s EXCEPT !.out = "panicked"]
    BY <1>1, <1>9, StepOnceCases
  <2>2. t1 = [t EXCEPT !.out = "panicked"]
    BY <1>1, <1>9, <2>0, StepOnceCases
  <2>3. /\ s1.pc = s.pc /\ s1.out = "panicked" /\ s1.got = s.got
        /\ s1.consumed = s.consumed /\ s1.future = s.future
    BY <2>1 DEF RunType
  <2>4. /\ t1.pc = t.pc /\ t1.out = "panicked" /\ t1.got = t.got
        /\ t1.consumed = t.consumed /\ t1.future = t.future
    BY <2>2 DEF RunType
  <2> QED
    BY <1>9, <2>0, <2>3, <2>4, Zenon DEF Alike
<1> QED
  BY <1>1, <1>5, <1>6, <1>7, <1>8, <1>9

(***************************************************************************)
(* Replay is deterministic: of two runs of one function, the one on the    *)
(* longer history is where the other is, or has gone on from where the     *)
(* other is blocked.                                                       *)
(***************************************************************************)
LEMMA ReplayIsDeterministic ==
  ASSUME NEW prog, IsProgram(prog),
         NEW old, NEW new, AreRecords(old), AreRecords(new), Longer(old, new)
  PROVE  LET s == RunProgram(prog, old)
             t == RunProgram(prog, new)
         IN  Alike(prog, s, t) \/ Overtaken(s, t)
<1> DEFINE n == Len(prog)
           a == After(prog, old)
           b == After(prog, new)
           S == {i \in 0..n : Alike(prog, a[i], b[i]) \/ Overtaken(a[i], b[i])}
<1>1. n \in Nat /\ DOMAIN prog = 1..n
  BY DEF IsProgram
<1>2. 0 \in S
  <2>1. a[0] = StartRun(prog) /\ b[0] = StartRun(prog)
    BY <1>1, AfterUnfolds
  <2>2. Alike(prog, StartRun(prog), StartRun(prog))
    BY Zenon DEF Alike
  <2> QED
    BY <1>1, <2>1, <2>2
<1>3. ASSUME NEW i \in 0..(n - 1), i \in S PROVE i + 1 \in S
  <2>1. /\ a[i + 1] = StepOnce(a[i], i + 1, prog[i + 1], old)
        /\ b[i + 1] = StepOnce(b[i], i + 1, prog[i + 1], new)
    BY <1>1, AfterUnfolds
  <2>2. a[i] \in RunType(prog) /\ b[i] \in RunType(prog)
    BY <1>1, RunIsOK DEF RunOK
  <2>3. i + 1 \in DOMAIN prog /\ i + 1 \in 0..n
    BY <1>1
  <2>4. Alike(prog, a[i], b[i]) \/ Overtaken(a[i], b[i])
    BY <1>3
  <2>5. a[i].future[i + 1] = Unresolved
    BY <1>1, <2>3, FuturesAhead
  <2> HIDE DEF a, b
  <2>6. Alike(prog, a[i + 1], b[i + 1]) \/ Overtaken(a[i + 1], b[i + 1])
    BY <2>1, <2>2, <2>3, <2>4, <2>5, RunsStayAlike
  <2> QED
    BY <2>3, <2>6
<1>4. 0..n \subseteq S
  <2> HIDE DEF S, n
  <2> QED
    BY <1>1, <1>2, <1>3, InductUpTo
<1> QED
  BY <1>1, <1>4 DEF RunProgram

-----------------------------------------------------------------------------
(* Functions that await every call before they go on.                      *)

\* The calls of f among the first n steps.
CallsUpTo(prog, f, n) == {j \in 1..n : prog[j].op = "exec" /\ prog[j].fn = f}

\* One more step: one more call of f, or none.
LEMMA CallsUpToNext ==
  ASSUME NEW prog, NEW f, NEW n \in Nat
  PROVE  /\ IsFiniteSet(CallsUpTo(prog, f, n)) /\ Cardinality(CallsUpTo(prog, f, n)) \in Nat
         /\ Cardinality(CallsUpTo(prog, f, n + 1)) =
              IF prog[n + 1].op = "exec" /\ prog[n + 1].fn = f
              THEN Cardinality(CallsUpTo(prog, f, n)) + 1
              ELSE Cardinality(CallsUpTo(prog, f, n))
<1> DEFINE C == CallsUpTo(prog, f, n)
           D == CallsUpTo(prog, f, n + 1)
<1>1. IsFiniteSet(1..n)
  BY FS_Interval
<1>2. C \in SUBSET (1..n) /\ n + 1 \notin C
  BY DEF CallsUpTo
<1>3. IsFiniteSet(C) /\ Cardinality(C) \in Nat
  <2>1. IsFiniteSet(C)
    BY <1>1, <1>2, FS_Subset
  <2> QED
    BY <2>1, FS_CardinalityType
<1>4. CASE prog[n + 1].op = "exec" /\ prog[n + 1].fn = f
  <2>1. D = C \union {n + 1}
    BY <1>4 DEF CallsUpTo
  <2> HIDE DEF C, D
  <2>2. Cardinality(C \union {n + 1}) = Cardinality(C) + 1
    BY <1>2, <1>3, FS_AddElement
  <2> QED
    BY <1>3, <1>4, <2>1, <2>2 DEF C, D
<1>5. CASE ~(prog[n + 1].op = "exec" /\ prog[n + 1].fn = f)
  <2>1. D = C
    BY <1>5 DEF CallsUpTo
  <2> QED
    BY <1>3, <1>5, <2>1
<1> QED
  BY <1>4, <1>5

(***************************************************************************)
(* What one run of a sequential function has recorded after i steps:       *)
(* nothing, or the one call that it is waiting for or about to wait for,   *)
(* which is the first beyond the records of its activity.                  *)
(***************************************************************************)
OneCall(prog, records, i, s) ==
  /\ \A f \in Fn : s.consumed[f] <= Cardinality(CallsUpTo(prog, f, i))
  /\ \A k \in DOMAIN prog : k > i => ~s.future[k].resolved
  /\ s.events = <<>> => \A f \in Fn : s.consumed[f] <= Len(records[f])
  /\ s.events # <<>> =>
       /\ Len(s.events) = 1
       /\ s.consumed[s.events[1].fn] = Len(records[s.events[1].fn]) + 1
       /\ \/ s.out = "blocked"
          \/ /\ s.out = "running" /\ s.pc = i + 1
             /\ i \in DOMAIN prog /\ prog[i].op = "exec" /\ ~s.future[i].resolved

\* A sequence of one element.
LEMMA AppendToEmpty ==
  ASSUME NEW E, NEW s \in Seq(E), NEW e \in E, s = <<>>
  PROVE  Append(s, e) # <<>> /\ Len(Append(s, e)) = 1 /\ Append(s, e)[1] = e
  OBVIOUS

\* Every statement of a sequential function leaves at most one call recorded.
LEMMA OneCallStep ==
  ASSUME NEW prog, IsProgram(prog), IsSequential(prog), NEW records, AreRecords(records),
         NEW n \in 0..(Len(prog) - 1), NEW s, RunOK(prog, n, s), OneCall(prog, records, n, s),
         NEW i, i = n + 1, NEW t, t = StepOnce(s, i, prog[i], records)
  PROVE  OneCall(prog, records, i, t)
<1>1. /\ i \in DOMAIN prog /\ i \in Nat /\ n \in Nat /\ n + 1 = i
      /\ Len(prog) \in Nat /\ DOMAIN prog = 1..Len(prog)
  BY DEF IsProgram
<1>2. prog[i].op \in {"exec", "get", "panic"} /\ (prog[i].op = "exec" => prog[i].fn \in Fn)
  BY <1>1, StepFields
<1>3. /\ s \in RunType(prog) /\ s.pc \in Nat /\ s.consumed \in [Fn -> Nat]
      /\ s.events \in Seq(CallType) /\ s.future \in [DOMAIN prog -> FutureType]
  BY DEF RunOK, RunType
<1>4. ASSUME NEW f \in Fn
      PROVE  /\ Cardinality(CallsUpTo(prog, f, n)) \in Nat
             /\ Cardinality(CallsUpTo(prog, f, i)) \in Nat
             /\ Cardinality(CallsUpTo(prog, f, n)) <= Cardinality(CallsUpTo(prog, f, i))
             /\ prog[i].op = "exec" /\ prog[i].fn = f =>
                  Cardinality(CallsUpTo(prog, f, i)) = Cardinality(CallsUpTo(prog, f, n)) + 1
  <2>1. Cardinality(CallsUpTo(prog, f, n)) \in Nat
    BY <1>1, CallsUpToNext
  <2>2. Cardinality(CallsUpTo(prog, f, n + 1)) =
          IF prog[n + 1].op = "exec" /\ prog[n + 1].fn = f
          THEN Cardinality(CallsUpTo(prog, f, n)) + 1
          ELSE Cardinality(CallsUpTo(prog, f, n))
    BY <1>1, CallsUpToNext
  <2> QED
    BY <1>1, <2>1, <2>2
<1>5. ASSUME NEW f \in Fn
      PROVE  /\ s.consumed[f] \in Nat /\ Len(records[f]) \in Nat
             /\ s.consumed[f] <= Cardinality(CallsUpTo(prog, f, n))
             /\ s.consumed[f] <= Cardinality(CallsUpTo(prog, f, i))
  <2>1. s.consumed[f] \in Nat /\ Len(records[f]) \in Nat
    BY <1>3 DEF AreRecords
  <2>2. s.consumed[f] <= Cardinality(CallsUpTo(prog, f, n))
    BY DEF OneCall
  <2> QED
    BY <1>4, <2>1, <2>2
<1>6. \A k \in DOMAIN prog : k > i => ~s.future[k].resolved
  BY <1>1 DEF OneCall
<1>7. CASE s.out # "running" \/ s.pc # i
  <2>1. t = s
    BY <1>2, <1>7, StepOnceCases
  <2>2. s.events # <<>> => s.out = "blocked"
    BY <1>1, <1>7 DEF OneCall
  <2> QED
    BY <1>5, <1>6, <2>1, <2>2 DEF OneCall
<1>8. CASE s.out = "running" /\ s.pc = i /\ prog[i].op = "exec"
  <2> DEFINE f == prog[i].fn
             call == ActivityScheduled(f, prog[i].arg)
  <2>1. Executed(prog, records, i, s, t)
    <3>1. t = ExecuteActivity(s, i, prog[i], records)
      BY <1>2, <1>8, StepOnceCases
    <3> QED
      BY <1>1, <1>3, <1>8, <3>1, ExecuteActivityFields
  <2>2. s.events = <<>>
    <3> SUFFICES ASSUME s.events # <<>> PROVE FALSE
      OBVIOUS
    <3>1. n \in DOMAIN prog /\ prog[n].op = "exec"
      BY <1>8 DEF OneCall
    <3> QED
      BY <1>1, <1>8, <3>1 DEF IsSequential
  <2>3. f \in Fn /\ call \in CallType /\ call.fn = f
    BY <1>1, <1>8, StepFields DEF CallType, ActivityScheduled, Ev
  <2>4. /\ t.out = "running" /\ t.pc = i + 1
        /\ t.consumed = [s.consumed EXCEPT ![f] = @ + 1]
    BY <1>8, <2>1 DEF Executed
  <2> HIDE DEF f, call
  <2>5. t.consumed[f] = s.consumed[f] + 1 /\ \A g \in Fn : g # f => t.consumed[g] = s.consumed[g]
    BY <1>3, <2>3, <2>4
  <2>6. ASSUME NEW g \in Fn PROVE t.consumed[g] <= Cardinality(CallsUpTo(prog, g, i))
    <3>1. CASE g = f
      <4>1. Cardinality(CallsUpTo(prog, g, i)) = Cardinality(CallsUpTo(prog, g, n)) + 1
        BY <1>4, <1>8, <3>1 DEF f
      <4> QED
        BY <1>4, <1>5, <2>5, <3>1, <4>1
    <3>2. CASE g # f
      BY <1>5, <2>5, <3>2
    <3> QED
      BY <3>1, <3>2
  <2>7. \A g \in Fn : s.consumed[g] <= Len(records[g])
    BY <2>2 DEF OneCall
  <2>8. CASE s.consumed[f] < Len(records[f])
    <3>1. /\ t.events = s.events
          /\ t.future = [s.future EXCEPT ![i] =
                           [resolved |-> TRUE, record |-> records[f][s.consumed[f] + 1]]]
      BY <2>1, <2>8 DEF Executed, f
    <3>2. \A k \in DOMAIN prog : k > i => ~t.future[k].resolved
      <4>1. PICK v : t.future = [s.future EXCEPT ![i] = v]
        BY <3>1
      <4>2. \A k \in DOMAIN prog : k > i => k # i
        BY <1>1
      <4>3. \A k \in DOMAIN prog : k > i => t.future[k] = s.future[k]
        BY <1>3, <4>1, <4>2
      <4> QED
        BY <1>6, <4>3
    <3>3. \A g \in Fn : t.consumed[g] <= Len(records[g])
      BY <1>5, <2>3, <2>5, <2>7, <2>8
    <3> QED
      BY <2>2, <2>6, <3>1, <3>2, <3>3 DEF OneCall
  <2>9. CASE ~(s.consumed[f] < Len(records[f]))
    <3>1. t.future = s.future /\ t.events = Append(s.events, call)
      BY <2>1, <2>9 DEF Executed, f, call
    <3>2. t.events # <<>> /\ Len(t.events) = 1 /\ t.events[1] = call
      <4>1. /\ Append(s.events, call) # <<>> /\ Len(Append(s.events, call)) = 1
            /\ Append(s.events, call)[1] = call
        BY <1>3, <2>2, <2>3, AppendToEmpty
      <4> QED
        BY <3>1, <4>1
    <3>3. t.consumed[f] = Len(records[f]) + 1
      BY <1>5, <2>3, <2>5, <2>7, <2>9
    <3>4. ~t.future[i].resolved
      BY <1>1, <3>1 DEF OneCall
    <3> QED
      BY <1>1, <1>6, <1>8, <2>3, <2>4, <2>6, <3>1, <3>2, <3>3, <3>4 DEF OneCall
  <2> QED
    BY <2>8, <2>9
<1>9. CASE s.out = "running" /\ s.pc = i /\ prog[i].op = "get"
  <2>1. Gotten(prog, i, s, t)
    <3>1. t = FutureGet(s, prog[i])
      BY <1>2, <1>9, StepOnceCases
    <3> QED
      BY <1>1, <1>3, <1>9, <3>1, FutureGetFields
  <2>2. /\ t.events = s.events /\ t.consumed = s.consumed /\ t.future = s.future
        /\ ~s.future[prog[i].of].resolved => t.out = "blocked"
    BY <2>1 DEF Gotten
  <2>3. ASSUME s.events # <<>> PROVE t.out = "blocked"
    <3>1. n \in DOMAIN prog /\ prog[n].op = "exec" /\ ~s.future[n].resolved
      BY <1>9, <2>3 DEF OneCall
    <3>2. prog[i].of = n
      BY <1>1, <3>1 DEF IsSequential
    <3> QED
      BY <2>2, <3>1, <3>2
  <2> QED
    BY <1>5, <1>6, <2>2, <2>3 DEF OneCall
<1>10. CASE s.out = "running" /\ s.pc = i /\ prog[i].op = "panic"
  <2>1. t = [s EXCEPT !.out = "panicked"]
    BY <1>2, <1>10, StepOnceCases
  <2>2. t.events = s.events /\ t.consumed = s.consumed /\ t.future = s.future
    BY <1>3, <2>1 DEF RunType
  <2>3. s.events = <<>>
    <3> SUFFICES ASSUME s.events # <<>> PROVE FALSE
      OBVIOUS
    <3>1. n \in DOMAIN prog /\ prog[n].op = "exec"
      BY <1>10 DEF OneCall
    <3> QED
      BY <1>1, <1>10, <3>1 DEF IsSequential
  <2> QED
    BY <1>5, <1>6, <2>2, <2>3 DEF OneCall
<1> QED
  BY <1>2, <1>7, <1>8, <1>9, <1>10

(***************************************************************************)
(* A run of a sequential function that goes through or fails records no    *)
(* call; one that blocks records the first call that has no outcome yet,   *)
(* and never more calls of an activity than the function has.              *)
(***************************************************************************)
LEMMA SequentialRun ==
  ASSUME NEW prog, IsProgram(prog), IsSequential(prog), NEW records, AreRecords(records)
  PROVE  LET s == RunProgram(prog, records) IN
         s.events # <<>> =>
           /\ Len(s.events) = 1 /\ s.out = "blocked"
           /\ Len(records[s.events[1].fn]) + 1
                <= Cardinality(CallsUpTo(prog, s.events[1].fn, Len(prog)))
<1> DEFINE n == Len(prog)
           a == After(prog, records)
           S == {i \in 0..n : OneCall(prog, records, i, a[i])}
<1>1. n \in Nat /\ DOMAIN prog = 1..n
  BY DEF IsProgram
<1>2. 0 \in S
  <2>1. a[0] = StartRun(prog)
    BY <1>1, AfterUnfolds
  <2>2. /\ StartRun(prog).consumed = [f \in Fn |-> 0] /\ StartRun(prog).events = <<>>
        /\ StartRun(prog).future = [i \in DOMAIN prog |-> Unresolved]
    BY DEF StartRun
  <2>3. \A f \in Fn : Len(records[f]) \in Nat /\ Cardinality(CallsUpTo(prog, f, 0)) \in Nat
    BY CallsUpToNext DEF AreRecords
  <2>4. ~Unresolved.resolved
    BY DEF Unresolved
  <2>5. OneCall(prog, records, 0, StartRun(prog))
    BY <1>1, <2>2, <2>3, <2>4 DEF OneCall
  <2> QED
    BY <1>1, <2>1, <2>5
<1>3. ASSUME NEW i \in 0..(n - 1), i \in S PROVE i + 1 \in S
  <2>1. a[i + 1] = StepOnce(a[i], i + 1, prog[i + 1], records)
    BY <1>1, AfterUnfolds
  <2>2. OneCall(prog, records, i, a[i])
    BY <1>3
  <2>3. RunOK(prog, i, a[i])
    BY <1>1, RunIsOK
  <2> HIDE DEF a
  <2>4. OneCall(prog, records, i + 1, a[i + 1])
    BY <2>1, <2>2, <2>3, OneCallStep
  <2> QED
    BY <1>1, <2>4
<1>4. 0..n \subseteq S
  <2> HIDE DEF S, n
  <2> QED
    BY <1>1, <1>2, <1>3, InductUpTo
<1>5. OneCall(prog, records, n, a[n]) /\ RunOK(prog, n, a[n])
  BY <1>1, <1>4, RunIsOK
<1>6. PICK s : s = a[n]
  OBVIOUS
<1>7. RunProgram(prog, records) = s /\ OneCall(prog, records, n, s) /\ s \in RunType(prog)
  BY <1>5, <1>6 DEF RunProgram, RunOK
<1>8. ASSUME s.events # <<>>
      PROVE  /\ Len(s.events) = 1 /\ s.out = "blocked"
             /\ Len(records[s.events[1].fn]) + 1
                  <= Cardinality(CallsUpTo(prog, s.events[1].fn, n))
  <2>1. /\ Len(s.events) = 1
        /\ s.consumed[s.events[1].fn] = Len(records[s.events[1].fn]) + 1
        /\ s.out = "blocked" \/ (n \in DOMAIN prog /\ prog[n].op = "exec")
    BY <1>7, <1>8 DEF OneCall
  <2>2. ~(n \in DOMAIN prog /\ prog[n].op = "exec")
    <3>1. n + 1 \notin DOMAIN prog
      BY <1>1
    <3> QED
      BY <3>1 DEF IsSequential
  <2>3. s.events \in Seq(CallType)
    BY <1>7 DEF RunType
  <2>4. s.events[1] \in CallType
    BY <2>1, <2>3
  <2>5. s.events[1].fn \in Fn
    BY <2>4 DEF CallType
  <2>6. s.consumed[s.events[1].fn] <= Cardinality(CallsUpTo(prog, s.events[1].fn, n))
    BY <1>7, <2>5 DEF OneCall
  <2> QED
    BY <2>1, <2>2, <2>6
<1> QED
  BY <1>7, <1>8
=============================================================================
