-------------------------------- MODULE Page --------------------------------
(***************************************************************************)
(* The dashboard's page (apps/dashboard/app.js): a timer that refreshes    *)
(* everything, clicks that load one task or its evidence, and answers that *)
(* arrive in any order while the repository's HEAD and the rows move on.   *)
(*                                                                         *)
(* A handler of the page runs from one await to the next without being     *)
(* interrupted, and is one action here; `page' is its state and what it    *)
(* has rendered.  `request' is what has been asked of the server.  What is *)
(* told apart of an answer is its label, the HEAD read when the answer was *)
(* put into its envelope, and of a task detail how old its rows are.       *)
(***************************************************************************)
EXTENDS Naturals, FiniteSets

CONSTANTS Tasks,
          Active,      \* the tasks that are not CLOSED or RELEASED
          Parts,       \* what a refresh asks for first, in parallel
          Heads,       \* commits HEAD of the repository may be at
          Loads,       \* names for task loads that may be under way at once
          Readings,    \* the same for loads of evidence
          MaxEvents,   \* bound on clicks, changes and failures
          None

ASSUME ActiveAssumption == Active \subseteq Tasks
ASSUME NoneAssumption == None \notin Tasks \cup Heads
ASSUME PartsAssumption == IsFiniteSet(Parts)

VARIABLES
  head,        \* HEAD of the repository
  rows,        \* how often the rows of the tasks have changed
  request,     \* request[r]: how far a request of the page has come
  page,        \* state and content of app.js
  refresh,     \* the refresh under way
  load,        \* load[l]: a loadTaskDetail under way
  reading,     \* reading[e]: a loadEvidence under way
  submission,  \* the task whose detail a submitted intent is to reload
  events

server == <<head, rows>>
pageVars == <<server, request, page, refresh, load, reading, submission, events>>

Views == {"overview", "tasks", "evidence"}
Requests == ({"base"} \X Parts) \cup ({"detail"} \X Tasks) \cup {<<"events", None>>}
              \cup ({"load detail", "load events"} \X Loads) \cup ({"evidence"} \X Readings)
WithRows == {r \in Requests : r[1] \in {"detail", "load detail"}}

Unsent == [at |-> "unsent", rows |-> 0, head |-> None]
Sent == [Unsent EXCEPT !.at = "sent"]
Failed == [Unsent EXCEPT !.at = "failed"]

(* An answer the page has kept: about which task, the HEAD it was kept     *)
(* for, the HEAD it is labelled with and the rows it shows.                *)
Kept(t, expected, answer) ==
  [task |-> t, expected |-> expected, head |-> answer.head, rows |-> answer.rows]

Blank == [kind |-> "loading", base |-> {}, detail |-> None, events |-> None, evidence |-> None]
NoRefresh == [at |-> "idle", selected |-> None, head |-> None, base |-> {}]
NoLoad == [task |-> None, head |-> None, newest |-> FALSE]

Disturb == events < MaxEvents /\ events' = events + 1
HasData(p) == p.sourceHeadSha # None

-----------------------------------------------------------------------------
(* The repository, the server and the connection                           *)

MoveHead ==
  /\ Disturb
  /\ head' \in Heads \ {head}
  /\ UNCHANGED <<rows, request, page, refresh, load, reading, submission>>

ChangeRows ==
  /\ Disturb
  /\ rows' = rows + 1
  /\ UNCHANGED <<head, request, page, refresh, load, reading, submission>>

(* The data of an answer, where the rows in it are told apart, ...         *)
MakeAnswer(r) ==
  /\ r \in WithRows /\ request[r].at = "sent"
  /\ request' = [request EXCEPT ![r] = [Unsent EXCEPT !.at = "made", !.rows = rows]]
  /\ UNCHANGED <<server, page, refresh, load, reading, submission, events>>

(* ... and its envelope with HEAD, read after that, as the label.          *)
Answer(r) ==
  /\ request[r].at = IF r \in WithRows THEN "made" ELSE "sent"
  /\ request' = [request EXCEPT ![r] = [@ EXCEPT !.at = "answered", !.head = head]]
  /\ UNCHANGED <<server, page, refresh, load, reading, submission, events>>

(* No answer, or one that is not a success.                                *)
Fail(r) ==
  /\ request[r].at \in {"sent", "made"}
  /\ Disturb
  /\ request' = [request EXCEPT ![r] = Failed]
  /\ UNCHANGED <<server, page, refresh, load, reading, submission>>

Answered(R) == \A r \in R : request[r].at = "answered"
AnyFailed(R) == \E r \in R : request[r].at = "failed"
Ask(now, R) == [r \in Requests |-> IF r \in R THEN Sent ELSE now[r]]
Forget(now, R) == [r \in Requests |-> IF r \in R THEN Unsent ELSE now[r]]

-----------------------------------------------------------------------------
(* Rendering: what each function of the page makes of its state            *)

(* Faulty variant: what is kept is shown whatever HEAD it was kept for.    *)
CurrentAnyHead(p, kept) == kept # None /\ kept.task = p.selectedTask
Current(p, kept) ==
  /\ kept # None
  /\ kept.task = p.selectedTask
  /\ kept.expected = p.sourceHeadSha

Shown(p, kept) == IF Current(p, kept) THEN kept ELSE None

RenderOverview(p) == [p EXCEPT !.content = [Blank EXCEPT !.kind = "overview", !.base = p.base]]

(* renderTasks also drops events that are not current.                     *)
RenderTasks(p) ==
  [p EXCEPT !.selectedEvents = Shown(p, p.selectedEvents),
            !.content = [kind |-> "tasks", base |-> p.base,
                         detail |-> Shown(p, p.selectedDetail),
                         events |-> IF Shown(p, p.selectedDetail) = None THEN None
                                    ELSE Shown(p, p.selectedEvents),
                         evidence |-> None]]

Reading == [Blank EXCEPT !.kind = "reading"]
RenderEvidence(p) ==
  [p EXCEPT !.content =
     IF p.selectedTask = None THEN [Blank EXCEPT !.kind = "evidence"]
     ELSE IF Shown(p, p.evidence) = None THEN Reading
     ELSE [Blank EXCEPT !.kind = "evidence", !.evidence = p.evidence]]

RenderError(p) == [p EXCEPT !.content = [Blank EXCEPT !.kind = "error"]]

RenderView(p) ==
  CASE p.view = "overview" -> RenderOverview(p)
    [] p.view = "tasks" -> RenderTasks(p)
    [] p.view = "evidence" -> RenderEvidence(p)

(* Before the first data only the error of a refresh and the evidence of   *)
(* no task can be rendered: the other views throw and what is shown stays. *)
RenderCurrent(p) ==
  IF HasData(p) THEN RenderView(p)
  ELSE IF p.failed THEN RenderError(p)
  ELSE IF p.view = "evidence" THEN RenderEvidence(p) ELSE p

-----------------------------------------------------------------------------
(* A page that has just been opened, and one in use: a task was selected,  *)
(* its detail and perhaps its evidence loaded, and a refresh has followed. *)
Opened ==
  [view |-> "overview", selectedTask |-> None, sourceHeadSha |-> None, failed |-> FALSE,
   base |-> {},
   details |-> [t \in Tasks |-> None], selectedDetail |-> None, selectedEvents |-> None,
   evidence |-> None, content |-> Blank]

InUse(t, view, evidence) ==
  LET kept(u) == [task |-> u, expected |-> head, head |-> head, rows |-> 0]
  IN RenderView(
       [view |-> view, selectedTask |-> t, sourceHeadSha |-> head, failed |-> FALSE,
        base |-> {head},
        details |-> [u \in Tasks |-> IF u \in Active \cup {t} THEN kept(u) ELSE None],
        selectedDetail |-> kept(t), selectedEvents |-> kept(t),
        evidence |-> IF evidence THEN kept(t) ELSE None, content |-> Blank])

PageInit ==
  /\ head \in Heads
  /\ rows = 0
  /\ request = [r \in Requests |-> Unsent]
  /\ \/ page = Opened
     \/ \E t \in Tasks : page \in {InUse(t, "tasks", FALSE), InUse(t, "evidence", TRUE)}
  /\ refresh = NoRefresh
  /\ load = [l \in Loads |-> NoLoad]
  /\ reading = [e \in Readings |-> NoLoad]
  /\ submission = None
  /\ events = 0

-----------------------------------------------------------------------------
(* loadTaskDetail and loadEvidence.  A generation is only ever compared    *)
(* with the newest one, so it is enough to mark which load is the newest.  *)

Newest(loads, l, t, p) ==
  [m \in DOMAIN loads |->
     IF m = l THEN [task |-> t, head |-> p.sourceHeadSha, newest |-> TRUE]
     ELSE [loads[m] EXCEPT !.newest = FALSE]]

Room(loads) == \E l \in DOMAIN loads : loads[l] = NoLoad
Free(loads) == CHOOSE l \in DOMAIN loads : loads[l] = NoLoad
OfLoad(l) == {<<"load detail", l>>, <<"load events", l>>}

(* The first part of loadTaskDetail(t), up to its await.                   *)
BeginLoad(t, p) ==
  /\ Room(load)
  /\ load' = Newest(load, Free(load), t, p)
  /\ request' = Ask(request, OfLoad(Free(load)))

(* Faulty variant of OfHead: the label of an answer is not compared.       *)
Wanted(own) ==
  own.newest /\ own.task = page.selectedTask /\ own.head = page.sourceHeadSha
OfHeadUnchecked(R, expected) == TRUE
OfHead(R, expected) == \A r \in R : request[r].head = expected

(* The rest of loadTaskDetail: what arrived is kept and the tasks are      *)
(* rendered, whichever view has been chosen in the meantime.               *)
LoadDone(l) ==
  LET own == load[l]
      R == OfLoad(l)
      detail == Kept(own.task, own.head, request[<<"load detail", l>>])
      timeline == Kept(own.task, own.head, request[<<"load events", l>>])
      good == Answered(R) /\ OfHead(R, own.head)
  IN /\ own # NoLoad
     /\ Answered(R) \/ AnyFailed(R)
     /\ page' = IF ~Wanted(own) THEN page
                ELSE IF good THEN RenderTasks([page EXCEPT !.selectedDetail = detail,
                                                           !.selectedEvents = timeline])
                ELSE RenderError(page)
     /\ load' = [load EXCEPT ![l] = NoLoad]
     /\ request' = Forget(request, R)
     /\ UNCHANGED <<server, refresh, reading, submission, events>>

BeginReading(p) ==
  /\ Room(reading)
  /\ reading' = Newest(reading, Free(reading), p.selectedTask, p)
  /\ request' = Ask(request, {<<"evidence", Free(reading)>>})

ReadingDone(e) ==
  LET own == reading[e]
      r == <<"evidence", e>>
      good == Answered({r}) /\ OfHead({r}, own.head)
  IN /\ own # NoLoad
     /\ Answered({r}) \/ AnyFailed({r})
     /\ page' = IF ~Wanted(own) THEN page
                ELSE IF good
                THEN RenderEvidence([page EXCEPT !.evidence = Kept(own.task, own.head, request[r])])
                ELSE RenderError(page)
     /\ reading' = [reading EXCEPT ![e] = NoLoad]
     /\ request' = Forget(request, {r})
     /\ UNCHANGED <<server, refresh, load, submission, events>>

-----------------------------------------------------------------------------
(* refresh                                                                 *)

OfBase == {"base"} \X Parts
OfDetails == {"detail"} \X (Active \cup ({refresh.selected} \ {None}))
OfEvents == {<<"events", None>>}
OfRefresh == ({"base"} \X Parts) \cup ({"detail"} \X Tasks) \cup OfEvents

(* The timer, and the start of the page.  Refreshes do not overlap.  As    *)
(* long as there are no data, "loading" is shown.                          *)
StartRefresh ==
  /\ refresh.at = "idle"
  /\ refresh' = [NoRefresh EXCEPT !.at = "base", !.selected = page.selectedTask]
  /\ request' = Ask(request, OfBase)
  /\ page' = IF HasData(page) THEN page ELSE [page EXCEPT !.content = Blank]
  /\ UNCHANGED <<server, load, reading, submission, events>>

(* Faulty variant: the first parts may be of different HEADs.              *)
OneHeadUnchecked == TRUE
OneHead == Cardinality({request[r].head : r \in OfBase}) = 1

(* The parallel parts have arrived: the details of all active tasks and of *)
(* the selected one are next.                                              *)
BaseDone ==
  /\ refresh.at = "base" /\ Answered(OfBase) /\ OneHead
  /\ \E part \in Parts :
       refresh' = [refresh EXCEPT !.at = "details", !.head = request[<<"base", part>>].head,
                                  !.base = {request[r].head : r \in OfBase}]
  /\ request' = Ask(Forget(request, OfBase), OfDetails)
  /\ UNCHANGED <<server, page, load, reading, submission, events>>

DetailsDone ==
  /\ refresh.at = "details" /\ Answered(OfDetails) /\ OfHead(OfDetails, refresh.head)
  /\ refresh.selected # None
  /\ refresh' = [refresh EXCEPT !.at = "events"]
  /\ request' = Ask(request, OfEvents)
  /\ UNCHANGED <<server, page, load, reading, submission, events>>

(* The state after everything has arrived.  If another task was selected   *)
(* in the meantime, what is kept of that one stays if it is of this HEAD.  *)
Published ==
  LET h == refresh.head
      fresh(t) == IF <<"detail", t>> \in OfDetails
                  THEN Kept(t, h, request[<<"detail", t>>]) ELSE None
      timeline == IF refresh.selected = None THEN None
                  ELSE Kept(refresh.selected, h, request[<<"events", None>>])
      base == [page EXCEPT !.base = refresh.base, !.sourceHeadSha = h, !.failed = FALSE,
                           !.details = [t \in Tasks |-> fresh(t)],
                           !.evidence = IF @ # None /\ @.expected = h THEN @ ELSE None]
  IN IF page.selectedTask = refresh.selected
     THEN [base EXCEPT !.selectedDetail = IF refresh.selected = None THEN None
                                          ELSE fresh(refresh.selected),
                       !.selectedEvents = timeline]
     ELSE IF Current(base, base.selectedDetail) /\ Current(base, base.selectedEvents) THEN base
     ELSE [base EXCEPT !.selectedDetail = None, !.selectedEvents = None]

(* What has been dropped and not replaced is loaded anew.                  *)
ReloadTask(p) ==
  p.selectedTask \notin {None, refresh.selected} /\ p.selectedDetail = None
(* Faulty variant: the evidence view waits for the next click.             *)
ReloadEvidenceNever(p) == FALSE
ReloadEvidence(p) == p.view = "evidence" /\ p.selectedTask # None /\ p.evidence = None

Publish ==
  /\ \/ /\ refresh.at = "details" /\ refresh.selected = None
        /\ Answered(OfDetails) /\ OfHead(OfDetails, refresh.head)
     \/ refresh.at = "events" /\ Answered(OfEvents) /\ OfHead(OfEvents, refresh.head)
  /\ LET p == Published
         task == ReloadTask(p)
         evidence == ReloadEvidence(p)
     IN /\ page' = IF evidence THEN [RenderView(p) EXCEPT !.content = Reading]
                   ELSE RenderView(p)
        /\ task => Room(load)
        /\ evidence => Room(reading)
        /\ load' = IF task THEN Newest(load, Free(load), p.selectedTask, p) ELSE load
        /\ reading' = IF evidence THEN Newest(reading, Free(reading), p.selectedTask, p)
                      ELSE reading
        /\ request' = Ask(Forget(request, OfRefresh),
                          (IF task THEN OfLoad(Free(load)) ELSE {})
                            \cup (IF evidence THEN {<<"evidence", Free(reading)>>} ELSE {}))
  /\ refresh' = NoRefresh
  /\ UNCHANGED <<server, submission, events>>

(* An answer failed or is of another HEAD: the last data stay.             *)
RefreshFails ==
  /\ \/ refresh.at = "base" /\ (AnyFailed(OfBase) \/ (Answered(OfBase) /\ ~OneHead))
     \/ /\ refresh.at = "details"
        /\ AnyFailed(OfDetails) \/ (Answered(OfDetails) /\ ~OfHead(OfDetails, refresh.head))
     \/ /\ refresh.at = "events"
        /\ AnyFailed(OfEvents) \/ (Answered(OfEvents) /\ ~OfHead(OfEvents, refresh.head))
  /\ page' = IF HasData(page) THEN page ELSE RenderError([page EXCEPT !.failed = TRUE])
  /\ refresh' = NoRefresh
  /\ request' = Forget(request, OfRefresh)
  /\ UNCHANGED <<server, load, reading, submission, events>>

-----------------------------------------------------------------------------
(* The user.  A click waits until there is room for one more load.         *)

(* A task of the overview or of the task list.                             *)
ChooseTask(t) ==
  /\ Disturb
  /\ page.content.kind \in {"overview", "tasks"}
  /\ LET p == RenderTasks([page EXCEPT
                !.view = "tasks", !.selectedTask = t, !.selectedDetail = page.details[t],
                !.selectedEvents = None,
                !.evidence = IF @ # None /\ @.task = t THEN @ ELSE None])
     IN page' = p /\ BeginLoad(t, p)
  /\ UNCHANGED <<server, refresh, reading, submission>>

(* The evidence of the task whose detail is shown.                         *)
ChooseEvidence ==
  /\ Disturb
  /\ page.content.detail # None
  /\ LET p == [page EXCEPT !.view = "evidence", !.selectedTask = page.content.detail.task,
                           !.content = Reading]
     IN page' = p /\ BeginReading(p)
  /\ UNCHANGED <<server, refresh, load, submission>>

(* The navigation, also to the view that is chosen already.                *)
ChooseView(v) ==
  /\ Disturb
  /\ LET p == [page EXCEPT !.view = v]
         load_ == v = "evidence" /\ p.selectedTask # None /\ ~Current(p, p.evidence)
     IN IF load_
        THEN page' = [p EXCEPT !.content = Reading] /\ BeginReading(p)
        ELSE page' = RenderCurrent(p) /\ UNCHANGED <<reading, request>>
  /\ UNCHANGED <<server, refresh, load, submission>>

(* An intent for the task shown; its detail is loaded anew when the server *)
(* has accepted it, whichever task is selected then.                       *)
SubmitIntent ==
  /\ Disturb
  /\ page.content.detail # None /\ submission = None /\ page.selectedDetail # None
  /\ submission' = page.selectedDetail.task
  /\ UNCHANGED <<server, request, page, refresh, load, reading>>

IntentAccepted ==
  /\ submission # None
  /\ BeginLoad(submission, page)
  /\ submission' = None
  /\ UNCHANGED <<server, page, refresh, reading, events>>

IntentRefused ==
  /\ submission # None
  /\ submission' = None
  /\ UNCHANGED <<server, request, page, refresh, load, reading, events>>

-----------------------------------------------------------------------------
Serve == \E r \in Requests : MakeAnswer(r) \/ Answer(r)
Handle ==
  \/ StartRefresh \/ BaseDone \/ DetailsDone \/ Publish \/ RefreshFails
  \/ \E l \in Loads : LoadDone(l)
  \/ \E e \in Readings : ReadingDone(e)
  \/ IntentAccepted \/ IntentRefused
User ==
  \/ \E t \in Tasks : ChooseTask(t)
  \/ ChooseEvidence \/ SubmitIntent
  \/ \E v \in Views : ChooseView(v)
PageNext == Serve \/ Handle \/ User \/ MoveHead \/ ChangeRows \/ \E r \in Requests : Fail(r)

PageSpec == PageInit /\ [][PageNext]_pageVars

ServeOnly(kinds) == \E r \in {q \in Requests : q[1] \in kinds} : MakeAnswer(r) \/ Answer(r)
Refreshing == StartRefresh \/ BaseDone \/ DetailsDone \/ Publish \/ RefreshFails

(* The server answers, what has arrived is handled, and the timer ticks.   *)
Fairness ==
  /\ WF_pageVars(ServeOnly({"base", "detail", "events"}))
  /\ WF_pageVars(ServeOnly({"load detail", "load events"}))
  /\ WF_pageVars(ServeOnly({"evidence"}))
  /\ WF_pageVars(Refreshing)
  /\ WF_pageVars(\E l \in Loads : LoadDone(l))
  /\ WF_pageVars(\E e \in Readings : ReadingDone(e))
  /\ WF_pageVars(IntentAccepted \/ IntentRefused)
PageFairSpec == PageSpec /\ Fairness

-----------------------------------------------------------------------------
(* Properties                                                              *)

(* What is on the screen belongs together, in whatever order answers       *)
(* arrive: all of it was answered for the HEAD the header names, and       *)
(* detail, events and evidence are those of the selected task (the checks  *)
(* of task, HEAD and generation in loadTaskDetail, loadEvidence, refresh). *)
ScreenBelongsTogether ==
  /\ page.content.base \subseteq {page.sourceHeadSha}
  /\ \A kept \in {page.content.detail, page.content.events, page.content.evidence} \ {None} :
       kept.task = page.selectedTask /\ kept.head = page.sourceHeadSha

(* When changes, clicks and failures end, the page comes to show the HEAD  *)
(* and the rows that are, in the view chosen, without another click; no    *)
(* view is left on an error or on "reading".  Refreshes must leave loads   *)
(* time to end (15 seconds in the code): a refresh that finds evidence     *)
(* being read starts reading it anew.                                      *)
LoadsEnd == load = [l \in Loads |-> NoLoad] /\ reading = [e \in Readings |-> NoLoad]
CaughtUp ==
  /\ page.sourceHeadSha = head
  /\ page.content.kind = page.view
  /\ page.view = "tasks" /\ page.selectedTask # None
       => page.content.detail # None /\ page.content.detail.rows = rows /\ page.content.events # None
PageCatchesUp == []<>LoadsEnd => <>[]CaughtUp
=============================================================================
