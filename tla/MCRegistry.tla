------------------------------ MODULE MCRegistry ----------------------------
(* Instances of Registry for TLC: names, repositories and callers are      *)
(* interchangeable, project ids are not.                                   *)
EXTENDS Registry, TLC
CONSTANTS n1, n2, n3, r1, r2, r3, c1, c2

Symmetry == Permutations({n1, n2, n3}) \cup Permutations({r1, r2, r3})
              \cup Permutations({c1, c2})
=============================================================================
