----------------------------- MODULE Lifecycle ------------------------------
(***************************************************************************)
(* The task rows and the append-only event history of the control store.   *)
(* Every operation here is one BEGIN IMMEDIATE transaction under the       *)
(* repository control lock (ControlStore.mutation), so it is one action.   *)
(*                                                                         *)
(* An event is [type, from, to]; its position in the sequence is the       *)
(* "sequence" column, which _next_event_sequence computes as MAX + 1.      *)
(***************************************************************************)
EXTENDS Naturals, Sequences, StateMachine

CONSTANTS Tasks,      \* the dispatch ids
          MaxEvents   \* bound on the length of one task's history

ASSUME MaxEventsAssumption == MaxEvents \in Nat

VARIABLES task,       \* task[d]: the lifecycle columns of the row of d
          events      \* events[d]: the history of d

vars == <<task, events>>

NoTask == [state |-> NoState, resume |-> NoState]
TaskRows == [state : TaskStates \cup {NoState}, resume : TaskStates \cup {NoState}]
Events == [type : {"TASK_CREATED", "STATE_CHANGED"},
           from : TaskStates \cup {NoState}, to : TaskStates]

Exists(d) == task[d].state # NoState

Init ==
  /\ task = [d \in Tasks |-> NoTask]
  /\ events = [d \in Tasks |-> <<>>]

(* Faulty variant of CreateTask: an upsert that starts the history anew.   *)
CreateTaskUpsert(d) ==
  /\ MaxEvents > 0
  /\ task' = [task EXCEPT ![d] = [state |-> "PLANNED", resume |-> NoState]]
  /\ events' = [events EXCEPT ![d] =
       <<[type |-> "TASK_CREATED", from |-> NoState, to |-> "PLANNED"]>>]

(* create_task: a fresh dispatch id, stored PLANNED with its first event;  *)
(* a duplicate id violates the primary key and rolls back.                 *)
CreateTask(d) ==
  /\ ~Exists(d)
  /\ MaxEvents > 0
  /\ task' = [task EXCEPT ![d] = [state |-> "PLANNED", resume |-> NoState]]
  /\ events' = [events EXCEPT ![d] =
       Append(@, [type |-> "TASK_CREATED", from |-> NoState, to |-> "PLANNED"])]

(* The event a transition appends; faulty variant: its payload swapped.    *)
StateChangedSwapped(from, to) == [type |-> "STATE_CHANGED", from |-> to, to |-> from]
StateChanged(from, to) == [type |-> "STATE_CHANGED", from |-> from, to |-> to]

(* _transition_in_transaction: read the row, ask next_state, write state,  *)
(* resume_state and the STATE_CHANGED event in one transaction.            *)
TransitionInTransaction(d, target) ==
  LET row == task[d] IN
  /\ Exists(d)
  /\ Len(events[d]) < MaxEvents
  /\ Legal(row.state, target, row.resume)
  /\ task' = [task EXCEPT ![d] =
       [state |-> target,
        resume |-> NextResume(row.state, target, row.resume)]]
  /\ events' = [events EXCEPT ![d] =
       Append(@, StateChanged(row.state, target))]

Transition(d) == \E target \in TaskStates : TransitionInTransaction(d, target)

(* transition_to_resume_state: the target is read from the row itself, in  *)
(* the same transaction that leaves PAUSED.                                *)
TransitionToResumeState(d) == TransitionInTransaction(d, task[d].resume)

Next ==
  \E d \in Tasks :
    \/ CreateTask(d)
    \/ Transition(d)
    \/ TransitionToResumeState(d)

Spec == Init /\ [][Next]_vars

-----------------------------------------------------------------------------
TypeOK ==
  /\ task \in [Tasks -> TaskRows]
  /\ events \in [Tasks -> Seq(Events)]

(* The history alone rebuilds the row (the design keeps events append-only *)
(* so that state can be rebuilt from them): it starts with the creation,   *)
(* each event starts where the one before ended, the last one ends in the  *)
(* state the row shows.                                                    *)
HistoryRebuildsState ==
  \A d \in Tasks :
    IF Exists(d)
      THEN /\ Len(events[d]) > 0
           /\ events[d][1].to = "PLANNED"
           /\ \A i \in 2 .. Len(events[d]) :
                events[d][i].from = events[d][i - 1].to
           /\ events[d][Len(events[d])].to = task[d].state
      ELSE events[d] = <<>>

(* A pausing or paused task will resume where the pause was asked for: the *)
(* saved resume_state is the state its last PAUSE_REQUESTED event left,    *)
(* and no other task carries a resume_state that a later pause could reuse.*)
ResumeIsWherePauseWasAsked ==
  \A d \in Tasks :
    LET h == events[d] IN
    CASE task[d].state = "PAUSE_REQUESTED" ->
           /\ task[d].resume \in PausableStates
           /\ task[d].resume = h[Len(h)].from
      [] task[d].state = "PAUSED" ->
           /\ task[d].resume \in PausableStates
           /\ Len(h) > 1
           /\ h[Len(h)].from = "PAUSE_REQUESTED"
           /\ task[d].resume = h[Len(h) - 1].from
      [] OTHER -> task[d].resume = NoState

(* The tail every released task must show: however often work was blocked, *)
(* paused or sent back, a task is INTEGRATED, RELEASED or CLOSED only if   *)
(* its last steps were an acceptance straight out of REVIEWING and the     *)
(* release stages in order, with no work in between.                       *)
Was(h, k, state) == Len(h) > k /\ h[Len(h) - k].to = state

ReleaseFollowsReview ==
  \A d \in Tasks :
    LET h == events[d] IN
    /\ task[d].state = "ACCEPTED" => Was(h, 1, "REVIEWING")
    /\ task[d].state = "INTEGRATED" => Was(h, 1, "ACCEPTED") /\ Was(h, 2, "REVIEWING")
    /\ task[d].state = "RELEASED" =>
         Was(h, 1, "INTEGRATED") /\ Was(h, 2, "ACCEPTED") /\ Was(h, 3, "REVIEWING")
    /\ task[d].state = "CLOSED" =>
         /\ Was(h, 1, "RELEASED") /\ Was(h, 2, "INTEGRATED")
         /\ Was(h, 3, "ACCEPTED") /\ Was(h, 4, "REVIEWING")

(* No task gets stuck before CLOSED: whatever happened to it, some target  *)
(* is legal.  A paused task whose resume_state was lost would have none.   *)
NoStuckTask ==
  \A d \in Tasks :
    Exists(d) /\ task[d].state # "CLOSED"
      => \E target \in TaskStates : Legal(task[d].state, target, task[d].resume)

(* History is append-only and a task is never uncreated or reopened.       *)
HistoryOnlyGrows ==
  [][\A d \in Tasks :
       /\ Len(events'[d]) \in {Len(events[d]), Len(events[d]) + 1}
       /\ SubSeq(events'[d], 1, Len(events[d])) = events[d]
       /\ task[d].state = "CLOSED" => task'[d] = task[d]]_vars
=============================================================================
