------------------------------- MODULE MCInbox ------------------------------
(* Instances of Inbox for TLC: requests, texts, tasks and sessions are     *)
(* interchangeable.                                                        *)
EXTENDS Inbox
CONSTANTS k1, k2, k3, t1, t2, d1, d2, d3, s1, s2

Symmetry == Permutations({k1, k2, k3}) \cup Permutations({t1, t2})
              \cup Permutations({d1, d2, d3}) \cup Permutations({s1, s2})
=============================================================================
