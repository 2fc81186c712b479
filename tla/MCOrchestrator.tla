---------------------------- MODULE MCOrchestrator ----------------------------
(* Small instances of the orchestrator for TLC.                            *)
EXTENDS Orchestrator, TLC

CONSTANTS t1, t2, s1

\* The two tasks are alike: no action or property tells one from the other.
TaskSymmetry == Permutations(Tasks)
=============================================================================
