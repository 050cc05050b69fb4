---------------------------- MODULE MCClaudeWorker ----------------------------
(***************************************************************************)
(* Constants for model-checking ClaudeWorker: requests and tasks that may  *)
(* be swapped.                                                             *)
(***************************************************************************)
EXTENDS ClaudeWorker, TLC

CONSTANTS t1, t2, k1, k2

ClaudeSymmetry == Permutations(Turns) \cup Permutations(Tasks)
=============================================================================
