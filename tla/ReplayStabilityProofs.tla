----------------------- MODULE ReplayStabilityProofs ------------------------
(***************************************************************************)
(* Replay is deterministic and final, for every workflow function and      *)
(* every history, however long.                                            *)
(***************************************************************************)
EXTENDS ReplayStability, ReplayProofs

(***************************************************************************)
(* The inductive invariant: the stored events are records of activities    *)
(* the function calls, and the run is the replay of exactly those.         *)
(***************************************************************************)
StoredOK ==
  /\ history \in Seq(OutcomeType)
  /\ \A i \in DOMAIN history : history[i].fn \in Called

Replayed ==
  /\ prog \in Programs
  /\ StoredOK
  /\ run = RunProgram(prog, Records(history))

\* A stored event is a record of a called activity.
Outcome(e) == e \in OutcomeType /\ e.fn \in Called

\* Only called activities of Fn are recorded, with a payload of numbers.
LEMMA CalledIsFn ==
  ASSUME prog \in Programs
  PROVE  Called \subseteq Fn
<1>1. IsProgram(prog)
  BY StabilityAssumption
<1> QED
  BY <1>1, StepFields DEF Called

\* Every step of the specification stores one outcome.
LEMMA NextStores ==
  ASSUME prog \in Programs, Next
  PROVE  \E e : Outcome(e) /\ Store(e)
<1>1. Called \subseteq Fn /\ Val \subseteq Nat
  BY CalledIsFn, StabilityAssumption
<1>2. PICK f \in Called :
        \/ \E v \in Val : Store(ActivityCompleted(f, <<v>>))
        \/ Store(ActivityFailed(f))
  BY DEF Next
<1>3. CASE \E v \in Val : Store(ActivityCompleted(f, <<v>>))
  <2>1. PICK v \in Val : Store(ActivityCompleted(f, <<v>>))
    BY <1>3
  <2>2. Outcome(ActivityCompleted(f, <<v>>))
    BY <1>1 DEF Outcome, OutcomeType, ActivityCompleted, Ev
  <2> QED
    BY <2>1, <2>2
<1>4. CASE Store(ActivityFailed(f))
  <2>1. Outcome(ActivityFailed(f))
    BY <1>1 DEF Outcome, OutcomeType, ActivityFailed, Ev, ErrorVal
  <2> QED
    BY <1>4, <2>1
<1> QED
  BY <1>2, <1>3, <1>4

\* A history of outcomes can be applied.
LEMMA StoredApplies ==
  ASSUME NEW h \in Seq(OutcomeType)
  PROVE  AreRecords(Records(h))
<1>1. Applicable(h)
  BY DEF Applicable
<1> QED
  BY <1>1, RecordsType

\* A stored outcome lengthens the records.
LEMMA StoreLengthens ==
  ASSUME NEW h \in Seq(OutcomeType), NEW e \in OutcomeType
  PROVE  Longer(Records(h), Records(Append(h, e)))
<1>1. AreRecords(Records(h))
  BY StoredApplies
<1>2. Records(Append(h, e)) = Apply(Records(h), e)
  BY RecordsAppend
<1> QED
  BY <1>1, <1>2, ApplyLengthens

\* Replayed holds initially and is preserved by every step.
LEMMA ReplayedInductive ==
  /\ Init => Replayed
  /\ Replayed /\ [Next]_vars => Replayed'
<1>1. Init => Replayed
  BY DEF Init, Replayed, StoredOK
<1>2. ASSUME Replayed, Next PROVE Replayed'
  <2>1. PICK e : Outcome(e) /\ Store(e)
    BY <1>2, NextStores DEF Replayed
  <2>2. prog' = prog /\ history' = Append(history, e) /\ Called' = Called
    BY <2>1 DEF Store, Called
  <2>3. run' = RunProgram(prog', Records(history'))
    BY <2>1 DEF Store
  <2>4. StoredOK'
    BY <1>2, <2>1, <2>2 DEF Replayed, StoredOK, Outcome
  <2> QED
    BY <1>2, <2>2, <2>3, <2>4 DEF Replayed
<1>3. ASSUME Replayed, UNCHANGED vars PROVE Replayed'
  BY <1>3 DEF Replayed, StoredOK, Called, vars
<1> QED
  BY <1>1, <1>2, <1>3

\* The run of a replayed history is a well-formed run of the whole program.
LEMMA ReplayedRun ==
  ASSUME Replayed
  PROVE  /\ IsProgram(prog) /\ Len(prog) \in Nat
         /\ AreRecords(Records(history))
         /\ RunOK(prog, Len(prog), run)
<1>1. IsProgram(prog) /\ prog \in Programs /\ run = RunProgram(prog, Records(history))
  BY StabilityAssumption DEF Replayed
<1>2. AreRecords(Records(history))
  BY StoredApplies DEF Replayed, StoredOK
<1>3. Len(prog) \in Nat
  BY <1>1 DEF IsProgram
<1>4. RunOK(prog, Len(prog), After(prog, Records(history))[Len(prog)])
  BY <1>1, <1>2, <1>3, RunIsOK
<1> QED
  BY <1>1, <1>2, <1>3, <1>4 DEF RunProgram

\* One more stored outcome: the new run is like the old one, or the old one was
\* blocked and the new one has gone on from there.
LEMMA StoreReplays ==
  ASSUME Replayed, NEW e, Outcome(e), Store(e)
  PROVE  Alike(prog, run, run') \/ Overtaken(run, run')
<1>1. IsProgram(prog) /\ AreRecords(Records(history))
  BY ReplayedRun
<1>2. history \in Seq(OutcomeType) /\ e \in OutcomeType /\ e.fn \in Fn
  BY CalledIsFn DEF Replayed, StoredOK, Outcome
<1>3. AreRecords(Records(Append(history, e)))
  <2>1. Append(history, e) \in Seq(OutcomeType)
    BY <1>2
  <2> QED
    BY <2>1, StoredApplies
<1>4. Longer(Records(history), Records(Append(history, e)))
  BY <1>2, StoreLengthens
<1>5. run = RunProgram(prog, Records(history))
  BY DEF Replayed
<1>6. run' = RunProgram(prog, Records(Append(history, e)))
  BY DEF Store
<1> QED
  BY <1>1, <1>3, <1>4, <1>5, <1>6, ReplayIsDeterministic

-----------------------------------------------------------------------------
(***************************************************************************)
(* The history holds only records of called activities, and the run ends   *)
(* past the last step, blocked, panicked or with an error, for every       *)
(* function and every history.                                             *)
(***************************************************************************)
THEOREM TypeCorrect == Spec => []TypeOK
<1>1. ASSUME Replayed PROVE TypeOK
  <2>1. RunOK(prog, Len(prog), run) /\ Len(prog) \in Nat
    BY <1>1, ReplayedRun
  <2>2. run \in RunType(prog) /\ run.pc \in 1..(Len(prog) + 1)
        /\ (run.out = "running" => run.pc > Len(prog))
    BY <2>1 DEF RunOK
  <2>3. run.out \in {"running", "blocked", "panicked", "error"}
    BY <2>2 DEF RunType
  <2>4. run.out = "running" => run.pc = Len(prog) + 1
    BY <2>1, <2>2
  <2>5. \A i \in DOMAIN history : IsRecord(history[i]) /\ history[i].fn \in Called
    <3>1. \A e \in OutcomeType : IsRecord(e)
      BY DEF OutcomeType, IsRecord
    <3>2. \A i \in DOMAIN history : history[i] \in OutcomeType
      BY <1>1 DEF Replayed, StoredOK
    <3> QED
      BY <1>1, <3>1, <3>2 DEF Replayed, StoredOK
  <2> QED
    BY <1>1, <2>2, <2>3, <2>4, <2>5 DEF TypeOK, Replayed
<1> QED
  BY <1>1, ReplayedInductive, PTL DEF Spec

(***************************************************************************)
(* A blocked run has recorded ActivityScheduled for the call it waits for, *)
(* in that same run, whatever the history holds.                           *)
(***************************************************************************)
THEOREM WaitingIsScheduled == Spec => []BlockedMeansScheduled
<1>1. ASSUME Replayed PROVE BlockedMeansScheduled
  <2>1. RunOK(prog, Len(prog), run)
    BY <1>1, ReplayedRun
  <2> QED
    BY <2>1 DEF RunOK, BlockedMeansScheduled
<1> QED
  BY <1>1, ReplayedInductive, PTL DEF Spec

(***************************************************************************)
(* Replay is deterministic: what a run got and called against a history is *)
(* what every run against a longer history gets and calls first.           *)
(***************************************************************************)
THEOREM ReplayOnlyExtends == Spec => ReplayExtends
<1>1. ASSUME Replayed, [Next]_vars
      PROVE  [/\ IsPrefix(run.got, run'.got)
              /\ \A f \in Fn : run.consumed[f] <= run'.consumed[f]]_vars
  <2>1. CASE UNCHANGED vars
    BY <2>1
  <2>2. CASE Next
    <3>1. PICK e : Outcome(e) /\ Store(e)
      BY <1>1, <2>2, NextStores DEF Replayed
    <3>2. Alike(prog, run, run') \/ Overtaken(run, run')
      BY <1>1, <3>1, StoreReplays
    <3>3. run.got \in Seq(Nat) /\ run.consumed \in [Fn -> Nat]
      BY <1>1, ReplayedRun DEF RunOK, RunType
    <3>4. CASE Alike(prog, run, run')
      <4>1. run'.got = run.got /\ run'.consumed = run.consumed
        BY <3>4 DEF Alike
      <4>2. IsPrefix(run.got, run.got)
        BY <3>3, PrefixReflexive
      <4> QED
        BY <3>3, <4>1, <4>2
    <3>5. CASE Overtaken(run, run')
      BY <3>5 DEF Overtaken
    <3> QED
      BY <3>2, <3>4, <3>5
  <2> QED
    BY <1>1, <2>1, <2>2
<1> QED
  BY <1>1, ReplayedInductive, PTL DEF Spec, ReplayExtends

(***************************************************************************)
(* A finished run stays finished with the same outcome and values, however *)
(* many late or duplicate outcomes are stored afterwards.                  *)
(***************************************************************************)
THEOREM OutcomeStaysFinal == Spec => OutcomeIsFinal
<1>1. ASSUME Replayed, [Next]_vars
      PROVE  [run.out # "blocked" => run'.out = run.out /\ run'.got = run.got]_vars
  <2>1. CASE UNCHANGED vars
    BY <2>1
  <2>2. CASE Next
    <3>1. PICK e : Outcome(e) /\ Store(e)
      BY <1>1, <2>2, NextStores DEF Replayed
    <3>2. Alike(prog, run, run') \/ Overtaken(run, run')
      BY <1>1, <3>1, StoreReplays
    <3> QED
      BY <3>2 DEF Alike, Overtaken
  <2> QED
    BY <1>1, <2>1, <2>2
<1> QED
  BY <1>1, ReplayedInductive, PTL DEF Spec, OutcomeIsFinal
=============================================================================
