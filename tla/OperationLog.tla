---------------------------- MODULE OperationLog ----------------------------
(***************************************************************************)
(* What the operation journal promises about one idempotency key, whoever  *)
(* executes, retries, reconciles or crashes: the request is recorded       *)
(* first, its Git command runs at most once and only while the record is   *)
(* PREPARED, the record is settled exactly once, and only a COMMITTED      *)
(* record hands its result over and is then marked delivered.              *)
(***************************************************************************)
CONSTANTS Keys

VARIABLES phase,      \* phase[k]: the durable phase of key k
          ran,        \* keys whose Git command has been started
          handed,     \* keys whose result has been handed to a callback
          delivered   \* keys durably marked as handed over

vars == <<phase, ran, handed, delivered>>

Terminal == {"COMMITTED", "FAILED", "BLOCKED"}

Init ==
  /\ phase = [k \in Keys |-> "ABSENT"]
  /\ ran = {}
  /\ handed = {}
  /\ delivered = {}

Record(k) ==
  /\ phase[k] = "ABSENT"
  /\ phase' = [phase EXCEPT ![k] = "PREPARED"]
  /\ UNCHANGED <<ran, handed, delivered>>

Run(k) ==
  /\ phase[k] = "PREPARED"
  /\ k \notin ran
  /\ ran' = ran \cup {k}
  /\ UNCHANGED <<phase, handed, delivered>>

SettleAs(k, terminal) ==
  /\ phase[k] = "PREPARED"
  /\ phase' = [phase EXCEPT ![k] = terminal]
  /\ UNCHANGED <<ran, handed, delivered>>

HandOver(k) ==
  /\ phase[k] = "COMMITTED"
  /\ handed' = handed \cup {k}
  /\ UNCHANGED <<phase, ran, delivered>>

MarkDelivered(k) ==
  /\ k \in handed
  /\ delivered' = delivered \cup {k}
  /\ UNCHANGED <<phase, ran, handed>>

Next ==
  \E k \in Keys :
    \/ Record(k)
    \/ Run(k)
    \/ \E terminal \in Terminal : SettleAs(k, terminal)
    \/ HandOver(k)
    \/ MarkDelivered(k)

Spec == Init /\ [][Next]_vars
=============================================================================
