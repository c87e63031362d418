---------------------------- MODULE MCMigration ----------------------------
(* Instance of Migration for TLC: the processes are interchangeable.       *)
EXTENDS Migration, TLC
CONSTANTS p1, p2

Symmetry == Permutations(Procs)
=============================================================================
