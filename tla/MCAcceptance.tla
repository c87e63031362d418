----------------------------- MODULE MCAcceptance ---------------------------
(* Instances of Acceptance for TLC.  Processes are interchangeable; so are *)
(* contents, but the initial one is chosen among them.                     *)
EXTENDS Acceptance, TLC
CONSTANTS p1, p2

Symmetry == Permutations({p1, p2})
=============================================================================
