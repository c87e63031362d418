---------------------------- MODULE MCWriteTask -----------------------------
(* WriteTask with two processes.                                           *)
EXTENDS WriteTask, TLC

Symmetry == Permutations(Processes) \cup Permutations(Idents)
=============================================================================
