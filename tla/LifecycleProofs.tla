--------------------------- MODULE LifecycleProofs --------------------------
(***************************************************************************)
(* Proofs about Lifecycle and about AgentReports, which extends it, for    *)
(* any sets of tasks, agents, times and contents and any history bound.    *)
(***************************************************************************)
EXTENDS AgentReports, SequenceTheorems, TLAPS

LEMMA NoStateIsNoTaskState == NoState \notin TaskStates
  BY DEF NoState, TaskStates, Allowed

(* The targets of the table, state by state.                               *)
LEMMA AllowedTargets ==
  ASSUME NEW s \in TaskStates
  PROVE  Allowed[s] \subseteq TaskStates
  BY DEF TaskStates, Allowed

(* The release stages have one predecessor each in the table, so a task    *)
(* reaches them only by walking the stages in order.                       *)
LEMMA ReleasePredecessors ==
  ASSUME NEW s \in TaskStates, NEW t \in Allowed[s]
  PROVE  /\ t = "ACCEPTED" => s = "REVIEWING"
         /\ t = "INTEGRATED" => s = "ACCEPTED"
         /\ t = "RELEASED" => s = "INTEGRATED"
         /\ t = "CLOSED" => s = "RELEASED"
         /\ t = "PAUSE_REQUESTED" => s \in PausableStates
         /\ t = "PAUSED" => s = "PAUSE_REQUESTED"
         /\ t # "PLANNED" \/ s = "NEEDS_CLARIFICATION"
  BY DEF TaskStates, Allowed, PausableStates

(* What was k events back is k + 1 events back after one more event.        *)
LEMMA WasAppend ==
  ASSUME NEW h \in Seq(Events), NEW e \in Events, NEW k \in Nat, NEW s,
         Was(h, k, s)
  PROVE  Was(Append(h, e), k + 1, s)
<1>1. Len(Append(h, e)) = Len(h) + 1 /\ Len(h) \in Nat
  OBVIOUS
<1>2. Len(h) - k \in 1 .. Len(h) /\ h[Len(h) - k].to = s
  BY DEF Was
<1>3. Append(h, e)[Len(h) - k] = h[Len(h) - k]
  BY <1>2
<1>4. Len(Append(h, e)) - (k + 1) = Len(h) - k
  BY <1>1
<1> QED
  BY <1>1, <1>2, <1>3, <1>4 DEF Was

-----------------------------------------------------------------------------
(* What one accepted transition does to one task, away from the records.   *)
LEMMA TransitionFacts ==
  ASSUME TypeOK, NEW d \in Tasks, NEW t \in TaskStates \cup {NoState},
         TransitionInTransaction(d, t)
  PROVE  LET s == task[d].state
             e == [type |-> "STATE_CHANGED", from |-> s, to |-> t]
         IN  /\ s \in TaskStates /\ t \in TaskStates
             /\ t \in Allowed[s] /\ Legal(s, t, task[d].resume)
             /\ e \in Events
             /\ task'[d] = [state |-> t,
                            resume |-> NextResume(s, t, task[d].resume)]
             /\ events'[d] = Append(events[d], e)
             /\ \A x \in Tasks \ {d} : task'[x] = task[x] /\ events'[x] = events[x]
<1>1. task[d].state \in TaskStates
  BY DEF TypeOK, TaskRows, TransitionInTransaction, Exists
<1>2. t \in Allowed[task[d].state]
  BY DEF TransitionInTransaction, Legal
<1>3. t \in TaskStates
  BY <1>1, <1>2, AllowedTargets
<1>4. [type |-> "STATE_CHANGED", from |-> task[d].state, to |-> t] \in Events
  BY <1>1, <1>3 DEF Events
<1> QED
  BY <1>1, <1>2, <1>3, <1>4 DEF TransitionInTransaction, StateChanged, TypeOK

(* Every step is a creation or a transition of one task.                   *)
LEMMA NextCases ==
  ASSUME TypeOK, Next
  PROVE  \E d \in Tasks :
           CreateTask(d) \/ \E t \in TaskStates \cup {NoState} :
                              TransitionInTransaction(d, t)
  BY DEF Next, Transition, TransitionToResumeState, TypeOK, TaskRows

LEMMA NextResumeType ==
  ASSUME NEW s \in TaskStates, NEW t \in TaskStates,
         NEW r \in TaskStates \cup {NoState}
  PROVE  NextResume(s, t, r) \in TaskStates \cup {NoState}
  BY DEF NextResume

(* Rows and histories always have their declared shape.                    *)
THEOREM TypeCorrect == Spec => []TypeOK
<1>1. Init => TypeOK
  BY DEF Init, TypeOK, NoTask, TaskRows
<1>2. TypeOK /\ [Next]_vars => TypeOK'
  <2> SUFFICES ASSUME TypeOK, [Next]_vars PROVE TypeOK'
    OBVIOUS
  <2>1. CASE UNCHANGED vars
    BY <2>1 DEF TypeOK, vars
  <2>2. ASSUME NEW d \in Tasks, CreateTask(d) PROVE TypeOK'
    <3>1. "PLANNED" \in TaskStates
      BY DEF TaskStates, Allowed
    <3>2. [type |-> "TASK_CREATED", from |-> NoState, to |-> "PLANNED"] \in Events
      BY <3>1 DEF Events
    <3>3. [state |-> "PLANNED", resume |-> NoState] \in TaskRows
      BY <3>1 DEF TaskRows
    <3> QED
      BY <2>2, <3>2, <3>3 DEF CreateTask, TypeOK
  <2>3. ASSUME NEW d \in Tasks, NEW t \in TaskStates \cup {NoState},
               TransitionInTransaction(d, t)
        PROVE  TypeOK'
    <3>1. task[d].resume \in TaskStates \cup {NoState}
      BY DEF TypeOK, TaskRows
    <3>2. task[d].state \in TaskStates /\ t \in TaskStates
      BY <2>3, TransitionFacts
    <3>3. [state |-> t, resume |-> NextResume(task[d].state, t, task[d].resume)]
            \in TaskRows
      BY <3>1, <3>2, NextResumeType DEF TaskRows
    <3>4. [type |-> "STATE_CHANGED", from |-> task[d].state, to |-> t] \in Events
      BY <3>2 DEF Events
    <3> QED
      BY <2>3, <3>3, <3>4 DEF TransitionInTransaction, StateChanged, TypeOK
  <2> QED
    BY <2>1, <2>2, <2>3, NextCases
<1> QED
  BY <1>1, <1>2, PTL DEF Spec

-----------------------------------------------------------------------------
LEMMA NextResumeValues ==
  ASSUME NEW s \in TaskStates, NEW t \in TaskStates, NEW r
  PROVE  /\ t = "PAUSE_REQUESTED" => NextResume(s, t, r) = s
         /\ s = "PAUSE_REQUESTED" /\ t = "PAUSED" => NextResume(s, t, r) = r
         /\ t \notin {"PAUSE_REQUESTED", "PAUSED"} => NextResume(s, t, r) = NoState
  BY DEF NextResume

(* The three facts about one task, so that a step is checked task by task. *)
Rebuilds(row, h) ==
  IF row.state # NoState
    THEN /\ Len(h) > 0
         /\ h[1].to = "PLANNED"
         /\ \A i \in 2 .. Len(h) : h[i].from = h[i - 1].to
         /\ h[Len(h)].to = row.state
    ELSE h = <<>>

Resumes(row, h) ==
  /\ row.state = "PAUSE_REQUESTED" =>
       row.resume \in PausableStates /\ row.resume = h[Len(h)].from
  /\ row.state = "PAUSED" =>
       /\ row.resume \in PausableStates
       /\ Len(h) > 1
       /\ h[Len(h)].from = "PAUSE_REQUESTED"
       /\ row.resume = h[Len(h) - 1].from
  /\ row.state \notin {"PAUSE_REQUESTED", "PAUSED"} => row.resume = NoState

Released(row, h) ==
  /\ row.state = "ACCEPTED" => Was(h, 1, "REVIEWING")
  /\ row.state = "INTEGRATED" => Was(h, 1, "ACCEPTED") /\ Was(h, 2, "REVIEWING")
  /\ row.state = "RELEASED" =>
       Was(h, 1, "INTEGRATED") /\ Was(h, 2, "ACCEPTED") /\ Was(h, 3, "REVIEWING")
  /\ row.state = "CLOSED" =>
       /\ Was(h, 1, "RELEASED") /\ Was(h, 2, "INTEGRATED")
       /\ Was(h, 3, "ACCEPTED") /\ Was(h, 4, "REVIEWING")

(***************************************************************************)
(* The inductive invariant.  The release tail of a task needs to know that *)
(* the last event of its history is the state it is in, and the resume     *)
(* state of a pause needs the event before it: both come from the history  *)
(* rebuilding the row, so the three are proved together.                   *)
(***************************************************************************)
IInv ==
  /\ TypeOK
  /\ \A d \in Tasks : /\ Rebuilds(task[d], events[d])
                      /\ Resumes(task[d], events[d])
                      /\ Released(task[d], events[d])

LEMMA PerTask ==
  IInv => HistoryRebuildsState /\ ResumeIsWherePauseWasAsked /\ ReleaseFollowsReview
<1> SUFFICES ASSUME IInv
             PROVE  HistoryRebuildsState /\ ResumeIsWherePauseWasAsked
                      /\ ReleaseFollowsReview
  OBVIOUS
<1>1. HistoryRebuildsState
  BY DEF IInv, HistoryRebuildsState, Rebuilds, Exists
<1>2. ResumeIsWherePauseWasAsked
  BY Zenon DEF IInv, ResumeIsWherePauseWasAsked, Resumes
<1>3. ReleaseFollowsReview
  BY DEF IInv, ReleaseFollowsReview, Released
<1> QED
  BY <1>1, <1>2, <1>3

LEMMA NoTaskFacts ==
  ASSUME NEW row, row = NoTask
  PROVE  Rebuilds(row, <<>>) /\ Resumes(row, <<>>) /\ Released(row, <<>>)
  BY DEF NoTask, NoState, Rebuilds, Resumes, Released

(* One transition keeps the three facts about the task it moves.           *)
LEMMA TransitionKeeps ==
  ASSUME NEW row \in TaskRows, NEW h \in Seq(Events), NEW e \in Events,
         NEW t \in TaskStates, NEW new,
         row.state \in TaskStates, Legal(row.state, t, row.resume),
         e.from = row.state, e.to = t,
         new = [state |-> t, resume |-> NextResume(row.state, t, row.resume)],
         Rebuilds(row, h), Resumes(row, h), Released(row, h)
  PROVE  /\ Rebuilds(new, Append(h, e))
         /\ Resumes(new, Append(h, e))
         /\ Released(new, Append(h, e))
<1> DEFINE g == Append(h, e)
<1>1. /\ g \in Seq(Events) /\ Len(g) = Len(h) + 1 /\ Len(h) \in Nat
      /\ \A i \in 1 .. Len(h) : g[i] = h[i]
      /\ g[Len(h) + 1] = e
  OBVIOUS
<1>2. t \in Allowed[row.state]
  BY DEF Legal
<1>3. /\ Len(h) > 0 /\ h[1].to = "PLANNED" /\ h[Len(h)].to = row.state
      /\ \A i \in 2 .. Len(h) : h[i].from = h[i - 1].to
  BY NoStateIsNoTaskState DEF Rebuilds
<1>4. new.state = t /\ new.resume = NextResume(row.state, t, row.resume)
  OBVIOUS
<1> HIDE DEF g
<1>5. Rebuilds(new, g)
  <2>1. ASSUME NEW i \in 2 .. Len(g) PROVE g[i].from = g[i - 1].to
    <3>1. CASE i = Len(h) + 1
      BY <1>1, <1>3, <3>1
    <3>2. CASE i # Len(h) + 1
      <4>1. i \in 2 .. Len(h) /\ i \in 1 .. Len(h) /\ i - 1 \in 1 .. Len(h)
        BY <1>1, <3>2
      <4> QED
        BY <1>1, <1>3, <4>1
    <3> QED
      BY <3>1, <3>2
  <2> QED
    BY <1>1, <1>3, <1>4, <2>1, NoStateIsNoTaskState DEF Rebuilds
<1>6. Resumes(new, g)
  <2>1. CASE t = "PAUSE_REQUESTED"
    <3>1. row.state \in PausableStates
      BY <1>2, <2>1, ReleasePredecessors
    <3>2. new.resume = row.state
      BY <1>4, <2>1, NextResumeValues
    <3> QED
      BY <1>1, <1>4, <2>1, <3>1, <3>2 DEF Resumes
  <2>2. CASE t = "PAUSED"
    <3>1. row.state = "PAUSE_REQUESTED"
      BY <1>2, <2>2, ReleasePredecessors
    <3>2. new.resume = row.resume
      BY <1>4, <2>2, <3>1, NextResumeValues
    <3>3. row.resume \in PausableStates /\ row.resume = h[Len(h)].from
      BY <3>1 DEF Resumes
    <3>4. Len(g) > 1 /\ g[Len(g)] = e /\ g[Len(g) - 1] = h[Len(h)]
      BY <1>1, <1>3
    <3> QED
      BY <1>4, <2>2, <3>1, <3>2, <3>3, <3>4 DEF Resumes
  <2>3. CASE t \notin {"PAUSE_REQUESTED", "PAUSED"}
    <3>1. new.resume = NoState
      BY <1>4, <2>3, NextResumeValues
    <3> QED
      BY <1>4, <2>3, <3>1 DEF Resumes
  <2> QED
    BY <2>1, <2>2, <2>3
<1>7. Released(new, g)
  <2>1. Was(h, 0, row.state)
    BY <1>1, <1>3 DEF Was
  <2>2. ASSUME NEW k \in {0, 1, 2, 3}, NEW s, Was(h, k, s)
        PROVE  Was(g, k + 1, s)
    BY <2>2, WasAppend DEF g
  <2>3. Was(g, 1, row.state)
    BY <2>1, <2>2
  <2>4. /\ Was(h, 1, "REVIEWING") => Was(g, 2, "REVIEWING")
        /\ Was(h, 2, "REVIEWING") => Was(g, 3, "REVIEWING")
        /\ Was(h, 3, "REVIEWING") => Was(g, 4, "REVIEWING")
        /\ Was(h, 1, "ACCEPTED") => Was(g, 2, "ACCEPTED")
        /\ Was(h, 2, "ACCEPTED") => Was(g, 3, "ACCEPTED")
        /\ Was(h, 1, "INTEGRATED") => Was(g, 2, "INTEGRATED")
    BY <2>2
  <2>5. /\ t = "ACCEPTED" => row.state = "REVIEWING"
        /\ t = "INTEGRATED" => row.state = "ACCEPTED"
        /\ t = "RELEASED" => row.state = "INTEGRATED"
        /\ t = "CLOSED" => row.state = "RELEASED"
    BY <1>2, ReleasePredecessors
  <2>6. t = "ACCEPTED" => Was(g, 1, "REVIEWING")
    BY <2>3, <2>5
  <2>7. t = "INTEGRATED" => Was(g, 1, "ACCEPTED") /\ Was(g, 2, "REVIEWING")
    BY <2>3, <2>4, <2>5 DEF Released
  <2>8. t = "RELEASED" => /\ Was(g, 1, "INTEGRATED") /\ Was(g, 2, "ACCEPTED")
                          /\ Was(g, 3, "REVIEWING")
    BY <2>3, <2>4, <2>5 DEF Released
  <2>9. t = "CLOSED" => /\ Was(g, 1, "RELEASED") /\ Was(g, 2, "INTEGRATED")
                        /\ Was(g, 3, "ACCEPTED") /\ Was(g, 4, "REVIEWING")
    BY <2>3, <2>4, <2>5 DEF Released
  <2> QED
    BY <1>4, <2>6, <2>7, <2>8, <2>9 DEF Released
<1> QED
  BY <1>5, <1>6, <1>7 DEF g

(* The inductive invariant holds always.                                   *)
LEMMA Invariance == Spec => []IInv
<1>1. Init => IInv
  BY NoTaskFacts DEF Init, IInv, TypeOK, NoTask, TaskRows
<1>2. IInv /\ [Next]_vars /\ TypeOK' => IInv'
  <2> SUFFICES ASSUME IInv, [Next]_vars, TypeOK', NEW x \in Tasks
               PROVE  /\ Rebuilds(task'[x], events'[x])
                      /\ Resumes(task'[x], events'[x])
                      /\ Released(task'[x], events'[x])
    BY DEF IInv
  <2>0. /\ TypeOK
        /\ Rebuilds(task[x], events[x]) /\ Resumes(task[x], events[x])
        /\ Released(task[x], events[x])
        /\ task[x] \in TaskRows /\ events[x] \in Seq(Events)
    BY DEF IInv, TypeOK
  <2>1. CASE UNCHANGED vars
    BY <2>0, <2>1 DEF vars
  <2>2. ASSUME NEW d \in Tasks, CreateTask(d)
        PROVE  /\ Rebuilds(task'[x], events'[x])
               /\ Resumes(task'[x], events'[x])
               /\ Released(task'[x], events'[x])
    <3>1. CASE x # d
      <4>1. task'[x] = task[x] /\ events'[x] = events[x]
        BY <2>0, <2>2, <3>1 DEF CreateTask, TypeOK
      <4> QED
        BY <2>0, <4>1
    <3>2. CASE x = d
      <4>1. events[x] = <<>>
        BY <2>0, <2>2, <3>2 DEF CreateTask, Exists, Rebuilds
      <4>2. task'[x] = [state |-> "PLANNED", resume |-> NoState]
        BY <2>0, <2>2, <3>2 DEF CreateTask, TypeOK
      <4>3. events'[x] = <<[type |-> "TASK_CREATED", from |-> NoState,
                            to |-> "PLANNED"]>>
        BY <2>0, <2>2, <3>2, <4>1 DEF CreateTask, TypeOK
      <4> QED
        BY <4>2, <4>3 DEF Rebuilds, Resumes, Released, NoState
    <3> QED
      BY <3>1, <3>2
  <2>3. ASSUME NEW d \in Tasks, NEW t \in TaskStates \cup {NoState},
               TransitionInTransaction(d, t)
        PROVE  /\ Rebuilds(task'[x], events'[x])
               /\ Resumes(task'[x], events'[x])
               /\ Released(task'[x], events'[x])
    <3>1. CASE x # d
      <4>1. task'[x] = task[x] /\ events'[x] = events[x]
        BY <2>0, <2>3, <3>1, TransitionFacts
      <4> QED
        BY <2>0, <4>1
    <3>2. CASE x = d
      <4> DEFINE e == [type |-> "STATE_CHANGED", from |-> task[x].state, to |-> t]
                 new == [state |-> t,
                         resume |-> NextResume(task[x].state, t, task[x].resume)]
      <4>1. /\ task[x].state \in TaskStates /\ t \in TaskStates
            /\ Legal(task[x].state, t, task[x].resume)
            /\ e \in Events
            /\ task'[x] = new /\ events'[x] = Append(events[x], e)
        BY <2>0, <2>3, <3>2, TransitionFacts
      <4>2. e.from = task[x].state /\ e.to = t
        OBVIOUS
      <4> HIDE DEF e
      <4> QED
        BY <2>0, <4>1, <4>2, TransitionKeeps
    <3> QED
      BY <3>1, <3>2
  <2> QED
    BY <2>0, <2>1, <2>2, <2>3, NextCases
<1> QED
  BY <1>1, <1>2, TypeCorrect, PTL DEF Spec

(* The events of a task rebuild its row.                                   *)
THEOREM HistoryCorrect == Spec => []HistoryRebuildsState
<1>1. IInv => HistoryRebuildsState
  BY PerTask
<1> QED
  BY <1>1, Invariance, PTL

(* A pause resumes where it was asked for, through every interleaving of   *)
(* pauses and blocks.                                                      *)
THEOREM ResumeCorrect == Spec => []ResumeIsWherePauseWasAsked
<1>1. IInv => ResumeIsWherePauseWasAsked
  BY PerTask
<1> QED
  BY <1>1, Invariance, PTL

(* A released task went straight from review through the release stages.   *)
THEOREM ReleaseCorrect == Spec => []ReleaseFollowsReview
<1>1. IInv => ReleaseFollowsReview
  BY PerTask
<1> QED
  BY <1>1, Invariance, PTL

-----------------------------------------------------------------------------
(* A task is never stuck before CLOSED: BLOCKED is a target of every state *)
(* but itself and PAUSED, and a paused task still has its resume state.    *)
THEOREM NeverStuck == Spec => []NoStuckTask
<1>1. TypeOK /\ ResumeIsWherePauseWasAsked => NoStuckTask
  <2> SUFFICES ASSUME TypeOK, ResumeIsWherePauseWasAsked,
                      NEW d \in Tasks, Exists(d), task[d].state # "CLOSED"
               PROVE  \E t \in TaskStates : Legal(task[d].state, t, task[d].resume)
    BY DEF NoStuckTask
  <2>0. task[d].state \in TaskStates
    BY DEF TypeOK, TaskRows, Exists
  <2>1. CASE task[d].state = "PAUSED"
    <3>1. task[d].resume \in PausableStates
      BY <2>1 DEF ResumeIsWherePauseWasAsked
    <3>2. task[d].resume \in Allowed["PAUSED"] /\ task[d].resume \in TaskStates
      BY <3>1 DEF PausableStates, TaskStates, Allowed
    <3> QED
      BY <2>1, <3>2 DEF Legal
  <2>2. CASE task[d].state = "BLOCKED"
    <3>1. "IN_PROGRESS" \in Allowed["BLOCKED"] /\ "IN_PROGRESS" \in TaskStates
      BY DEF TaskStates, Allowed
    <3> QED
      BY <2>2, <3>1 DEF Legal
  <2>3. CASE task[d].state \notin {"PAUSED", "BLOCKED"}
    <3>1. "BLOCKED" \in Allowed[task[d].state] /\ "BLOCKED" \in TaskStates
      BY <2>0, <2>3 DEF TaskStates, Allowed
    <3> QED
      BY <2>3, <3>1 DEF Legal
  <2> QED
    BY <2>1, <2>2, <2>3
<1> QED
  BY <1>1, TypeCorrect, ResumeCorrect, PTL

LEMMA PrefixKept ==
  ASSUME NEW S, NEW h \in Seq(S), NEW e \in S
  PROVE  /\ Len(Append(h, e)) = Len(h) + 1
         /\ SubSeq(h, 1, Len(h)) = h
         /\ SubSeq(Append(h, e), 1, Len(h)) = h
  BY AppendProperties, SubSeqProperties

(* History is append-only and a CLOSED task is never touched again.        *)
THEOREM HistoryGrows == Spec => HistoryOnlyGrows
<1> DEFINE Grows == \A d \in Tasks :
             /\ Len(events'[d]) \in {Len(events[d]), Len(events[d]) + 1}
             /\ SubSeq(events'[d], 1, Len(events[d])) = events[d]
             /\ task[d].state = "CLOSED" => task'[d] = task[d]
<1>1. TypeOK /\ [Next]_vars => [Grows]_vars
  <2> SUFFICES ASSUME TypeOK, Next, NEW x \in Tasks
               PROVE  /\ Len(events'[x]) \in {Len(events[x]), Len(events[x]) + 1}
                      /\ SubSeq(events'[x], 1, Len(events[x])) = events[x]
                      /\ task[x].state = "CLOSED" => task'[x] = task[x]
    OBVIOUS
  <2>0. events[x] \in Seq(Events)
    BY DEF TypeOK
  <2>1. CASE task'[x] = task[x] /\ events'[x] = events[x]
    BY <2>0, <2>1, SubSeqProperties, LenProperties
  <2>2. CASE /\ task[x].state # "CLOSED"
             /\ \E e \in Events : events'[x] = Append(events[x], e)
    <3>1. PICK e \in Events : events'[x] = Append(events[x], e)
      BY <2>2
    <3> QED
      BY <2>0, <2>2, <3>1, PrefixKept
  <2>3. ASSUME NEW d \in Tasks, CreateTask(d)
        PROVE  \/ task'[x] = task[x] /\ events'[x] = events[x]
               \/ /\ task[x].state # "CLOSED"
                  /\ \E e \in Events : events'[x] = Append(events[x], e)
    <3>1. [type |-> "TASK_CREATED", from |-> NoState, to |-> "PLANNED"] \in Events
      BY DEF Events, TaskStates, Allowed
    <3> QED
      BY <2>3, <3>1 DEF CreateTask, Exists, NoState, TypeOK
  <2>4. ASSUME NEW d \in Tasks, NEW t \in TaskStates \cup {NoState},
               TransitionInTransaction(d, t)
        PROVE  \/ task'[x] = task[x] /\ events'[x] = events[x]
               \/ /\ task[x].state # "CLOSED"
                  /\ \E e \in Events : events'[x] = Append(events[x], e)
    <3>1. Allowed["CLOSED"] = {}
      BY DEF Allowed
    <3> QED
      BY <2>4, <3>1, TransitionFacts
  <2> QED
    BY <2>1, <2>2, <2>3, <2>4, NextCases
<1> QED
  BY <1>1, TypeCorrect, PTL DEF Spec, HistoryOnlyGrows

-----------------------------------------------------------------------------
(* The reports of the agents.  What is shown is inductive together with    *)
(* the types; and to the rows and histories of the tasks the reports are   *)
(* stuttering, so what is proved above holds here as well.                 *)
LEMMA ReportFacts ==
  ASSUME NEW report \in Reports
  PROVE  report # None /\ report.at \in Nat
  BY NoneAssumption, TimesAssumption DEF Reports

(* What one upsert does to the row and the arrivals of each agent.         *)
LEMMA UpsertEffect ==
  ASSUME ReportsTypeOK, NEW d \in Tasks, NEW a \in Agents, NEW report \in Reports,
         Upsert(d, a, report), NEW k \in Tasks \X Agents
  PROVE  IF k = <<d, a>>
         THEN /\ stored'[k] = IF Replaces(stored[k], report) THEN report ELSE stored[k]
              /\ arrived'[k] = arrived[k] \cup {report}
         ELSE stored'[k] = stored[k] /\ arrived'[k] = arrived[k]
  BY DEF Upsert, ReportsTypeOK

(* Every reachable state is well typed (the agents rows of the store).     *)
THEOREM ReportsTypeCorrect == RecordsSpec => []ReportsTypeOK
<1>1. RecordsInit => ReportsTypeOK
  BY DEF RecordsInit, ReportsTypeOK
<1>2. ReportsTypeOK /\ [RecordsNext]_records => ReportsTypeOK'
  <2> SUFFICES ASSUME ReportsTypeOK, [RecordsNext]_records PROVE ReportsTypeOK'
    OBVIOUS
  <2>1. CASE UNCHANGED reports
    BY <2>1 DEF ReportsTypeOK, reports
  <2>2. ASSUME NEW d \in Tasks, NEW a \in Agents, NEW report \in Reports,
               Upsert(d, a, report)
        PROVE ReportsTypeOK'
    BY <2>2 DEF ReportsTypeOK, Upsert
  <2> QED BY <2>1, <2>2 DEF RecordsNext, records
<1> QED BY <1>1, <1>2, PTL DEF RecordsSpec

(* One upsert leaves the latest report in the row it is about.             *)
LEMMA UpsertLatest ==
  ASSUME ReportsTypeOK, LatestShown, NEW d \in Tasks, NEW a \in Agents,
         NEW report \in Reports, Upsert(d, a, report)
  PROVE  LatestShown'
<1> SUFFICES ASSUME NEW k \in Tasks \X Agents
             PROVE IF stored'[k] = None THEN arrived'[k] = {}
                   ELSE /\ stored'[k] \in arrived'[k]
                        /\ \A r \in arrived'[k] : r.at <= stored'[k].at
  BY DEF LatestShown
<1>1. CASE k # <<d, a>>
  <2>1. stored'[k] = stored[k] /\ arrived'[k] = arrived[k]
    BY <1>1, UpsertEffect
  <2> QED BY <2>1 DEF LatestShown
<1>2. CASE k = <<d, a>>
  <2>1. arrived'[k] = arrived[k] \cup {report} /\ arrived[k] \subseteq Reports
    BY <1>2, UpsertEffect DEF ReportsTypeOK
  <2>2. stored'[k] = IF Replaces(stored[k], report) THEN report ELSE stored[k]
    BY <1>2, UpsertEffect
  <2>3. \A r \in arrived'[k] : r \in Reports /\ r # None /\ r.at \in Nat
    BY <2>1, ReportFacts
  <2>4. CASE stored[k] = None
    <3>1. arrived'[k] = {report} /\ stored'[k] = report
      BY <2>1, <2>2, <2>4 DEF LatestShown, Replaces
    <3> QED BY <2>3, <3>1
  <2>5. CASE stored[k] # None
    <3>1. stored[k] \in arrived[k] /\ \A r \in arrived[k] : r.at <= stored[k].at
      BY <2>5 DEF LatestShown
    <3>2. stored[k].at \in Nat /\ report.at \in Nat /\ report # None
      BY <2>1, <2>3, <3>1
    <3>3. CASE report.at > stored[k].at
      <4>1. stored'[k] = report
        BY <2>2, <3>3 DEF Replaces
      <4>2. \A r \in arrived[k] : r.at <= report.at
        BY <2>1, <2>3, <3>1, <3>2, <3>3
      <4> QED BY <2>1, <3>2, <4>1, <4>2
    <3>4. CASE ~(report.at > stored[k].at)
      <4>1. stored'[k] = stored[k]
        BY <2>2, <2>5, <3>4 DEF Replaces
      <4>2. report.at <= stored[k].at
        BY <3>2, <3>4
      <4> QED BY <2>1, <2>5, <3>1, <4>1, <4>2
    <3> QED BY <3>3, <3>4
  <2> QED BY <2>4, <2>5
<1> QED BY <1>1, <1>2

(* Whatever arrives in whatever order, a latest report is shown            *)
(* (upsert_agent_status; LatestShown).                                     *)
THEOREM LatestCorrect == RecordsSpec => []LatestShown
<1>1. RecordsInit => LatestShown
  BY DEF RecordsInit, LatestShown
<1>2. ReportsTypeOK /\ LatestShown /\ [RecordsNext]_records => LatestShown'
  <2> SUFFICES ASSUME ReportsTypeOK, LatestShown, [RecordsNext]_records PROVE LatestShown'
    OBVIOUS
  <2>1. CASE UNCHANGED reports
    BY <2>1 DEF LatestShown, reports
  <2>2. ASSUME NEW d \in Tasks, NEW a \in Agents, NEW report \in Reports,
               Upsert(d, a, report)
        PROVE LatestShown'
    BY <2>2, UpsertLatest
  <2> QED BY <2>1, <2>2 DEF RecordsNext, records
<1> QED BY <1>1, <1>2, ReportsTypeCorrect, PTL DEF RecordsSpec

(* Reports never touch the row or the history of a task: every behaviour   *)
(* with reports is one of Lifecycle, and has what is proved of those.      *)
THEOREM RecordsImplementLifecycle == RecordsSpec => Spec
<1>1. RecordsInit => Init
  BY DEF RecordsInit
<1>2. [RecordsNext]_records => [Next]_vars
  BY DEF RecordsNext, records, Upsert
<1> QED BY <1>1, <1>2, PTL DEF RecordsSpec, Spec
=============================================================================
