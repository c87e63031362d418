----------------------------- MODULE MCJournal ------------------------------
(* Journal with two processes and two keys.  The requests make one key     *)
(* contested: the same request with and without a callback, and another    *)
(* request under the same key; the second key is the other operation.      *)
EXTENDS Journal

CONSTANTS k1, k2, d1, d2

MCRequests ==
  {[key |-> k1, digest |-> d1, callback |-> TRUE],
   [key |-> k1, digest |-> d1, callback |-> FALSE],
   [key |-> k1, digest |-> d2, callback |-> TRUE],
   [key |-> k2, digest |-> d2, callback |-> TRUE]}
=============================================================================
