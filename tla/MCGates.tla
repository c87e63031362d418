------------------------------ MODULE MCGates -------------------------------
(* Gates with two processes of which each processes any intent.            *)
EXTENDS Gates, TLC

Symmetry == Permutations(Processes) \cup Permutations(Intents)
=============================================================================
