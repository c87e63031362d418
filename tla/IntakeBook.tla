----------------------------- MODULE IntakeBook -----------------------------
(***************************************************************************)
(* What the inbox promises of engineering requests, whatever is submitted  *)
(* again, listed late, lost or abandoned: a request is recorded once, with *)
(* its text, and only while there is room; it is bound once, to a task     *)
(* that exists and that no other request is bound to, as BLOCKED only      *)
(* while a blocker is open; and what is recorded stays so.                 *)
(***************************************************************************)
EXTENDS Naturals, FiniteSets

CONSTANTS Keys, Texts, Dispatches, Dispositions, Cap, None,
          Unbound      \* the binding of a request that is still open

VARIABLES text,        \* text[k]: what was recorded under key k
          binding,     \* binding[k]: the task it was bound to, and how
          tasks,       \* tasks that exist
          blocked      \* those with an open blocker

vars == <<text, binding, tasks, blocked>>

Open == {k \in Keys : text[k] # None /\ binding[k] = Unbound}
Free(d) == \A k \in Keys : binding[k] # Unbound => binding[k].dispatch # d

Init ==
  /\ text = [k \in Keys |-> None]
  /\ binding = [k \in Keys |-> Unbound]
  /\ tasks = {} /\ blocked = {}

Record(k) ==
  /\ text[k] = None /\ Cardinality(Open) < Cap
  /\ \E t \in Texts : text' = [text EXCEPT ![k] = t]
  /\ UNCHANGED <<binding, tasks, blocked>>

Bind(k) ==
  /\ k \in Open
  /\ \E d \in tasks, how \in Dispositions :
       /\ Free(d)
       /\ how = "BLOCKED" => d \in blocked
       /\ binding' = [binding EXCEPT ![k] = [dispatch |-> d, disposition |-> how]]
  /\ UNCHANGED <<text, tasks, blocked>>

StartTask ==
  /\ \E d \in Dispatches : Free(d) /\ tasks' = tasks \cup {d}
  /\ UNCHANGED <<text, binding, blocked>>

ChangeBlocker ==
  /\ blocked' \subseteq tasks
  /\ UNCHANGED <<text, binding, tasks>>

Next == (\E k \in Keys : Record(k) \/ Bind(k)) \/ StartTask \/ ChangeBlocker

Spec == Init /\ [][Next]_vars
=============================================================================
