---------------------------- MODULE StateMachine ----------------------------
(***************************************************************************)
(* The task lifecycle table and the pure function next_state               *)
(* (team_control/state_machine.py).  Python's None is NoState.             *)
(***************************************************************************)

NoState == "NONE"

(* ALLOWED: for every state, the targets a transition may name.            *)
Allowed ==
  [PLANNED             |-> {"DISPATCHED", "NEEDS_CLARIFICATION", "BLOCKED"},
   NEEDS_CLARIFICATION |-> {"PLANNED", "BLOCKED"},
   DISPATCHED          |-> {"IN_PROGRESS", "BLOCKED"},
   IN_PROGRESS         |-> {"REVIEWING", "BLOCKED", "NEEDS_DIRECTION",
                            "PAUSE_REQUESTED"},
   NEEDS_DIRECTION     |-> {"IN_PROGRESS", "BLOCKED"},
   REVIEWING           |-> {"ACCEPTED", "IN_PROGRESS", "BLOCKED",
                            "PAUSE_REQUESTED"},
   BLOCKED             |-> {"IN_PROGRESS", "REVIEWING", "PAUSE_REQUESTED",
                            "UNKNOWN"},
   PAUSE_REQUESTED     |-> {"PAUSED", "BLOCKED"},
   PAUSED              |-> {"IN_PROGRESS", "REVIEWING", "BLOCKED"},
   ACCEPTED            |-> {"INTEGRATED", "BLOCKED"},
   INTEGRATED          |-> {"RELEASED", "BLOCKED"},
   RELEASED            |-> {"CLOSED", "BLOCKED"},
   UNKNOWN             |-> {"BLOCKED"},
   CLOSED              |-> {}]

TaskStates == DOMAIN Allowed
PausableStates == {"IN_PROGRESS", "REVIEWING", "BLOCKED"}

(* Faulty variant of Legal: work may be accepted without a review.         *)
LegalUnreviewed(current, target, resume) ==
  /\ target \in Allowed[current] \/ (current = "IN_PROGRESS" /\ target = "ACCEPTED")
  /\ (current = "PAUSE_REQUESTED" /\ target = "PAUSED") => resume \in PausableStates
  /\ current = "PAUSED" => target = resume

(* next_state raises no TransitionError: the table names the target, a     *)
(* pause is confirmed only with a pausable resume state, and a paused task *)
(* goes nowhere but to its resume state.                                   *)
Legal(current, target, resume) ==
  /\ target \in Allowed[current]
  /\ (current = "PAUSE_REQUESTED" /\ target = "PAUSED")
       => resume \in PausableStates
  /\ current = "PAUSED" => target = resume

(* Faulty variants of NextResume: an empty string for None; never cleared; *)
(* cleared already when the pause is confirmed.                            *)
NextResumeBlank(current, target, resume) ==
  IF target = "PAUSE_REQUESTED" THEN current ELSE IF target = "PAUSED" THEN resume ELSE ""
NextResumeKept(current, target, resume) ==
  IF target = "PAUSE_REQUESTED" THEN current ELSE resume
NextResumeForgotten(current, target, resume) ==
  IF target = "PAUSE_REQUESTED" THEN current ELSE NoState

(* The resume state next_state returns beside the target: a pause request  *)
(* saves where it was made, confirming the pause keeps it, any other step  *)
(* clears it.                                                              *)
NextResume(current, target, resume) ==
  CASE target = "PAUSE_REQUESTED" -> current
    [] current = "PAUSE_REQUESTED" /\ target = "PAUSED" -> resume
    [] OTHER -> NoState
=============================================================================
