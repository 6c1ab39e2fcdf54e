---------------------------- MODULE MCHistoryLog ----------------------------
(* Small instances of HistoryLog for TLC.                                  *)
EXTENDS HistoryLog, TLC

\* Workflows, worker processes and goroutines are interchangeable.
Symmetry == Permutations(Workflow) \union Permutations(Host) \union Permutations(Slot)
=============================================================================
