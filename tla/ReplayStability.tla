-------------------------- MODULE ReplayStability ---------------------------
(***************************************************************************)
(* One workflow function replayed against a history that keeps growing:    *)
(* after every stored completion or failure a worker runs the function     *)
(* from the start again.  Activity executions may be duplicated and may    *)
(* finish in any order, so any record of a function the program calls may  *)
(* come next.                                                              *)
(***************************************************************************)
EXTENDS Replay

CONSTANTS Programs,    \* the workflow functions considered
          Val,         \* payloads an activity may return
          MaxRecords   \* bound: completions and failures in the history

ASSUME StabilityAssumption ==
  /\ \A p \in Programs : IsProgram(p)
  /\ Val \subseteq Nat
  /\ MaxRecords \in Nat

VARIABLES prog,        \* the function of this workflow
          history,     \* its completion and failure events, in stored order
          run          \* the run against that history

vars == <<prog, history, run>>

Called == {prog[i].fn : i \in {j \in DOMAIN prog : prog[j].op = "exec"}}

Init ==
  /\ prog \in Programs
  /\ history = <<>>
  /\ run = RunProgram(prog, Records(history))

\* A record is stored and the workflow task it causes is processed.
Store(e) ==
  /\ Len(history) < MaxRecords
  /\ history' = Append(history, e)
  /\ LET h == Append(history, e) IN run' = RunProgram(prog, Records(h))
  /\ UNCHANGED prog

Next ==
  \E f \in Called :
    \/ \E v \in Val : Store(ActivityCompleted(f, <<v>>))
    \/ Store(ActivityFailed(f))

Spec == Init /\ [][Next]_vars

-----------------------------------------------------------------------------
\* The history holds records of called activities, and the run is at a step of
\* the program or past its end.
TypeOK ==
  /\ prog \in Programs
  /\ \A i \in DOMAIN history : IsRecord(history[i]) /\ history[i].fn \in Called
  /\ run.pc \in 1..(Len(prog) + 1)
  /\ run.out \in {"running", "blocked", "panicked", "error"}
  /\ run.out = "running" => run.pc = Len(prog) + 1

(***************************************************************************)
(* Replay is deterministic: a run against a longer history gets the same   *)
(* values, makes the same calls and then possibly goes on.  Nothing that   *)
(* an earlier run was told is revised by a record stored later.            *)
(***************************************************************************)
ReplayExtends ==
  [][/\ IsPrefix(run.got, run'.got)
     /\ \A f \in Fn : run.consumed[f] <= run'.consumed[f]]_vars

(***************************************************************************)
(* A finished run stays finished with the same outcome, however many late  *)
(* or duplicate completions are stored afterwards: every later             *)
(* WorkflowCompleted carries the result of the first one.                  *)
(***************************************************************************)
OutcomeIsFinal ==
  [][run.out # "blocked" => run'.out = run.out /\ run'.got = run.got]_vars

(***************************************************************************)
(* A run that blocks has, in the same run, recorded ActivityScheduled for  *)
(* the call it waits for: what it waits for is under way (again).          *)
(***************************************************************************)
BlockedMeansScheduled ==
  LET awaited == prog[prog[run.pc].of]
  IN  run.out = "blocked" =>
        ActivityScheduled(awaited.fn, awaited.arg) \in ToSet(run.events)
=============================================================================
