-------------------------------- MODULE Inbox -------------------------------
(***************************************************************************)
(* The inbox of engineering requests (team_control/task_intakes.py over    *)
(* the task intake rows of ControlStore): a browser submits a request      *)
(* under an idempotency key and may submit it again; sessions of Codex     *)
(* list what is pending, start a task for it and bind the two.             *)
(*                                                                         *)
(* Every operation on the rows is one transaction under the control lock;  *)
(* what a session has listed and planned is older than the transaction it  *)
(* asks for.  Answers may be lost and sessions may end at any point.       *)
(***************************************************************************)
EXTENDS Naturals, FiniteSets, SequencesExt

CONSTANTS Keys, Texts, Dispatches, Sessions,
          Cap,         \* MAX_TASK_INTAKE_RECORDS
          Limit,       \* length of the page a session lists
          MaxLost,     \* bound on lost answers and abandoned sessions
          None

ASSUME BoundsAssumption == Cap \in Nat /\ Limit \in Nat \ {0} /\ MaxLost \in Nat
ASSUME NoneAssumption == None \notin Keys \cup Texts \cup Dispatches

VARIABLES
  intake,      \* intake[k]: the task_intake_requests row of key k
  handling,    \* handling[k]: its task_intake_handlings row
  queue,       \* the keys with a row, by created_at and intake_id
  tasks,       \* dispatches that have a tasks row
  blocker,     \* blocker[d]: status of the blocker of dispatch d
  session,     \* what each session has listed and plans
  submitted,   \* history: requests a browser was told are recorded
  confirmed,   \* history: handlings a session was told are recorded
  lost

rows == <<intake, handling, queue, tasks, blocker>>
history == <<submitted, confirmed, lost>>
vars == <<rows, session, history>>

Dispositions == {"DISPATCHED", "BLOCKED"}
NoIntake == [status |-> "ABSENT", text |-> None, result |-> "none"]
NoHandling == [dispatch |-> None, disposition |-> "none"]
Idle == [pc |-> "idle", page |-> {}, handling |-> NoHandling]

Init ==
  /\ intake = [k \in Keys |-> NoIntake]
  /\ handling = [k \in Keys |-> NoHandling]
  /\ queue = <<>>
  /\ tasks = {}
  /\ blocker = [d \in Dispatches |-> "ABSENT"]
  /\ session = [s \in Sessions |-> Idle]
  /\ submitted = {}
  /\ confirmed = {}
  /\ lost = 0

Pending == {k \in Keys : intake[k].status = "PENDING"}

-----------------------------------------------------------------------------
(* The browser                                                             *)

(* Faulty variants: one request too many is let in; a key is enough to be  *)
(* recognised; a request that has been handled is taken for a new one.     *)
RoomLoose == Cardinality(Pending) <= Cap
Room == Cardinality(Pending) < Cap
SameRequestByKey(k, text) == TRUE
SameRequest(k, text) == intake[k].text = text
KnownWhilePending(k) == intake[k].status = "PENDING"
Known(k) == intake[k].status # "ABSENT"

(* create_task_intake of a key that has no row.  created_at is a clock     *)
(* that may stand still or be set back, so the row may come anywhere.      *)
Submit(k, text) ==
  /\ ~Known(k) /\ Room
  /\ intake' = [intake EXCEPT ![k] = [status |-> "PENDING", text |-> text, result |-> "PENDING"]]
  /\ \E position \in 1 .. Len(queue) + 1 : queue' = InsertAt(queue, position, k)
  /\ submitted' = submitted \cup {<<k, text>>}
  /\ UNCHANGED <<handling, tasks, blocker, session, confirmed, lost>>

(* A key that has a row: the row if it is the same request (the page sent  *)
(* it again, not knowing of the first answer), an error otherwise.         *)
SubmitAgain(k, text) ==
  /\ Known(k) /\ SameRequest(k, text)
  /\ submitted' = submitted \cup {<<k, text>>}
  /\ UNCHANGED <<rows, session, confirmed, lost>>

-----------------------------------------------------------------------------
(* A session                                                               *)

(* list_pending_task_intakes: the oldest ones.                             *)
Place(k) == CHOOSE i \in DOMAIN queue : queue[i] = k
Page == {k \in Pending : Cardinality({l \in Pending : Place(l) < Place(k)}) < Limit}

List(s) ==
  /\ session[s].pc = "idle"
  /\ Page # {}
  /\ session' = [session EXCEPT ![s] = [pc |-> "listed", page |-> Page, handling |-> NoHandling]]
  /\ UNCHANGED <<rows, history>>

Bound == {handling[k].dispatch : k \in Keys}

(* The session chooses a request of its page and a task for it, which is   *)
(* started unless there is one that no request is bound to; whether it is  *)
(* bound as BLOCKED is the session's decision.                             *)
Plan(s, d, disposition) ==
  /\ session[s].pc = "listed"
  /\ d \notin Bound
  /\ \E k \in session[s].page :
       session' = [session EXCEPT ![s] =
         [pc |-> "planned", page |-> {k},
          handling |-> [dispatch |-> d, disposition |-> disposition]]]
  /\ tasks' = tasks \cup {d}
  /\ UNCHANGED <<intake, handling, queue, blocker, history>>

(* add_blocker and resolve_blocker (one blocker per dispatch).             *)
AddBlocker(d) ==
  /\ d \in tasks /\ blocker[d] = "ABSENT"
  /\ blocker' = [blocker EXCEPT ![d] = "OPEN"]
  /\ UNCHANGED <<intake, handling, queue, tasks, session, history>>

ResolveBlocker(d) ==
  /\ d \in tasks /\ blocker[d] = "OPEN"
  /\ blocker' = [blocker EXCEPT ![d] = "RESOLVED"]
  /\ UNCHANGED <<intake, handling, queue, tasks, session, history>>

(* The checks of acknowledge_task_intake for a request that is PENDING;    *)
(* faulty variant: a dispatch may be bound again.                          *)
MayBindAgain(h) ==
  /\ h.dispatch \in tasks
  /\ h.disposition = "BLOCKED" => blocker[h.dispatch] = "OPEN"
MayBind(h) ==
  /\ h.dispatch \in tasks
  /\ h.disposition = "BLOCKED" => blocker[h.dispatch] = "OPEN"
  /\ h.dispatch \notin Bound

(* A request that is ACKNOWLEDGED: the same record is confirmed, another   *)
(* is refused; faulty variant: whatever is asked for is confirmed.         *)
SameHandlingAny(k, h) == TRUE
SameHandling(k, h) == handling[k] = h

(* The session goes on, or asks again because the answer did not reach it. *)
Answered(s) ==
  \/ session' = [session EXCEPT ![s] = Idle] /\ UNCHANGED lost
  \/ lost < MaxLost /\ lost' = lost + 1 /\ UNCHANGED session

Acknowledge(s) ==
  /\ session[s].pc = "planned"
  /\ \E k \in session[s].page :
       LET h == session[s].handling IN
       \/ /\ intake[k].status = "PENDING" /\ MayBind(h)
          /\ handling' = [handling EXCEPT ![k] = h]
          /\ intake' = [intake EXCEPT ![k].status = "ACKNOWLEDGED", ![k].result = h.disposition]
          /\ confirmed' = confirmed \cup {<<k, h>>}
       \/ /\ intake[k].status = "ACKNOWLEDGED" /\ SameHandling(k, h)
          /\ confirmed' = confirmed \cup {<<k, h>>}
          /\ UNCHANGED <<intake, handling>>
       \/ /\ IF intake[k].status = "PENDING" THEN ~MayBind(h) ELSE ~SameHandling(k, h)
          /\ UNCHANGED <<intake, handling, confirmed>>
  /\ Answered(s)
  /\ UNCHANGED <<queue, tasks, blocker, submitted>>

(* A session ends, and with it what it had in mind.                        *)
Abandon(s) ==
  /\ session[s].pc # "idle" /\ lost < MaxLost
  /\ lost' = lost + 1
  /\ session' = [session EXCEPT ![s] = Idle]
  /\ UNCHANGED <<rows, submitted, confirmed>>

-----------------------------------------------------------------------------
Browser == \E k \in Keys, text \in Texts : Submit(k, text) \/ SubmitAgain(k, text)

Work(s) ==
  \/ List(s)
  \/ \E d \in Dispatches, disposition \in Dispositions : Plan(s, d, disposition)
  \/ Acknowledge(s)

Next ==
  \/ Browser
  \/ \E s \in Sessions : Work(s) \/ Abandon(s)
  \/ \E d \in Dispatches : AddBlocker(d) \/ ResolveBlocker(d)

Spec == Init /\ [][Next]_vars

-----------------------------------------------------------------------------
Handlings == [dispatch : Dispatches, disposition : Dispositions] \cup {NoHandling}

TypeOK ==
  /\ intake \in [Keys -> [status : {"ABSENT", "PENDING", "ACKNOWLEDGED"},
                          text : Texts \cup {None},
                          result : {"none", "PENDING"} \cup Dispositions]]
  /\ handling \in [Keys -> Handlings]
  /\ queue \in Seq(Keys) /\ IsInjective(queue)
  /\ ToSet(queue) = {k \in Keys : intake[k].status # "ABSENT"}
  /\ tasks \subseteq Dispatches
  /\ blocker \in [Dispatches -> {"ABSENT", "OPEN", "RESOLVED"}]
  /\ session \in [Sessions -> [pc : {"idle", "listed", "planned"}, page : SUBSET Keys,
                              handling : Handlings]]
  /\ submitted \subseteq Keys \X Texts /\ confirmed \subseteq Keys \X Handlings
  /\ lost \in 0 .. MaxLost

(* "at most 100 PENDING at a time": no order of submissions, repeated      *)
(* submissions and acknowledgements lets the queue exceed its capacity.    *)
(* (All variables are of their types.)                                     *)
InboxBounded == TypeOK /\ Cardinality(Pending) <= Cap

(* The two tables agree: a request is ACKNOWLEDGED exactly if it has a     *)
(* handling, with that result, of a task that exists, and no task stands   *)
(* for two requests, however many sessions work from stale pages.          *)
HandlingsAgree ==
  /\ \A k \in Keys :
       IF handling[k] = NoHandling
         THEN intake[k].status # "ACKNOWLEDGED"
         ELSE /\ intake[k].status = "ACKNOWLEDGED"
              /\ intake[k].result = handling[k].disposition
              /\ handling[k].dispatch \in tasks
  /\ \A k, l \in Keys :
       handling[k] # NoHandling /\ handling[k].dispatch = handling[l].dispatch => k = l

(* What an answer has told stays so: a browser told that its request is    *)
(* recorded finds that very text, a session told that its task is bound    *)
(* finds that very binding, also if the answer was to a repeated call.     *)
ToldHolds ==
  /\ \A told \in submitted : intake[told[1]].text = told[2]
  /\ \A told \in confirmed : handling[told[1]] = told[2]

(* What a request and its binding come to is what the inbox promises.      *)
Book == INSTANCE IntakeBook WITH
          text <- [k \in Keys |-> intake[k].text],
          binding <- handling,
          blocked <- {d \in Dispatches : blocker[d] = "OPEN"},
          Unbound <- NoHandling

KeepsBook == Book!Spec
=============================================================================
