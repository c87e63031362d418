------------------------------- MODULE Registry -----------------------------
(***************************************************************************)
(* The project registry (the project_registry rows of ControlStore): who   *)
(* is registered, retired, and listed page by page.                        *)
(*                                                                         *)
(* register and retire read the time before they ask for the control lock, *)
(* so what they insert may be older than what is there already.  A page is *)
(* one read snapshot; between two pages anything may happen.  A project_id *)
(* is a random UUID: a number here, for its order matters to the pages.    *)
(***************************************************************************)
EXTENDS Naturals, FiniteSets

CONSTANTS Ids, Names, Repositories, Callers,
          Cap,        \* MAX_PROJECT_REGISTRY_ENTRIES
          Limit,      \* length of a page
          MaxClock,   \* bound on time
          None

ASSUME BoundsAssumption ==
  Ids \subseteq Nat \ {0} /\ Cap \in Nat /\ Limit \in Nat \ {0} /\ MaxClock \in Nat \ {0}
ASSUME NoneAssumption == None \notin Names \cup Repositories

VARIABLES
  entry,       \* entry[id]: the project_registry row
  events,      \* the project_registry_events rows
  clock,
  call,        \* each caller: the call it is in, and the time it has read
  pass,        \* a reader that goes through the pages
  throughout   \* history: entries that match its filter since it began

rows == <<entry, events>>
vars == <<rows, clock, call, pass, throughout>>

NoEntry == [status |-> "ABSENT", name |-> None, repository |-> None, created |-> 0, retired |-> 0]
NoCall == [op |-> "none", id |-> 0, at |-> 0]
NoCursor == <<0, 0>>
NoPass == [pc |-> "idle", filter |-> "any", cursor |-> NoCursor, seen |-> {}, listed |-> 0]

Init ==
  /\ entry = [id \in Ids |-> NoEntry]
  /\ events = {}
  /\ clock = 1
  /\ call = [c \in Callers |-> NoCall]
  /\ pass = NoPass
  /\ throughout = {}

Rows == {id \in Ids : entry[id].status # "ABSENT"}
Active == {id \in Ids : entry[id].status = "ACTIVE"}
Matching(table, filter) ==
  {id \in Ids : table[id].status = "ACTIVE" \/ (filter = "any" /\ table[id].status = "RETIRED")}

Tick ==
  /\ clock < MaxClock
  /\ clock' = clock + 1
  /\ UNCHANGED <<rows, call, pass, throughout>>

-----------------------------------------------------------------------------
(* Registering and retiring                                                *)

(* create_project_registry_entry and retire_project_registry_entry up to   *)
(* the lock: utc_now().  Whoever retires knows the id from a row.          *)
Begin(c, op, id) ==
  /\ call[c] = NoCall
  /\ IF op = "register"
       THEN id \notin Rows /\ \A other \in Callers : call[other].id # id
       ELSE id \in Rows
  /\ call' = [call EXCEPT ![c] = [op |-> op, id |-> id, at |-> clock]]
  /\ UNCHANGED <<rows, clock, pass, throughout>>

(* Faulty variants: one entry too many; a name need not be unique.         *)
RoomLoose == Cardinality(Active) <= Cap
Room == Cardinality(Active) < Cap
FreeRepository(name, repository) ==
  \A id \in Active : entry[id].repository # repository
Free(name, repository) ==
  \A id \in Active : entry[id].name # name /\ entry[id].repository # repository

Return(c) == call' = [call EXCEPT ![c] = NoCall]

(* The unique indexes on ACTIVE rows stand for the conflicts; a repository *)
(* is known by paths and identities of its root and common directory.      *)
Register(c, name, repository) ==
  LET id == call[c].id IN
  /\ call[c].op = "register"
  /\ IF Room /\ Free(name, repository)
       THEN /\ entry' = [entry EXCEPT ![id] =
                 [status |-> "ACTIVE", name |-> name, repository |-> repository,
                  created |-> call[c].at, retired |-> 0]]
            /\ events' = events \cup {<<"PROJECT_REGISTERED", id, call[c].at>>}
       ELSE UNCHANGED rows
  /\ Return(c)
  /\ UNCHANGED <<clock, pass, throughout>>

(* Faulty variant: an entry is retired again.                              *)
MayRetireAgain(id) == entry[id].status # "ABSENT"
MayRetire(id) == entry[id].status = "ACTIVE"

Retire(c) ==
  LET id == call[c].id IN
  /\ call[c].op = "retire"
  /\ IF MayRetire(id)
       THEN /\ entry' = [entry EXCEPT ![id].status = "RETIRED", ![id].retired = call[c].at]
            /\ events' = events \cup {<<"PROJECT_RETIRED", id, call[c].at>>}
       ELSE UNCHANGED rows
  /\ Return(c)
  /\ throughout' = throughout \cap Matching(entry', pass.filter)
  /\ UNCHANGED <<clock, pass>>

-----------------------------------------------------------------------------
(* Paging                                                                  *)

Key(id) == <<entry[id].created, id>>
(* created_at > ? OR (created_at = ? AND project_id > ?); faulty variant:  *)
(* the first comparison only.                                              *)
AfterTime(key, cursor) == key[1] > cursor[1]
After(key, cursor) ==
  key[1] > cursor[1] \/ (key[1] = cursor[1] /\ key[2] > cursor[2])

StartPass(filter) ==
  /\ pass.pc # "running"
  /\ pass' = [NoPass EXCEPT !.pc = "running", !.filter = filter]
  /\ throughout' = Matching(entry, filter)
  /\ UNCHANGED <<rows, clock, call>>

(* The row the cursor names must still be listed under the filter.  Faulty *)
(* variant: also when there is no cursor yet.                              *)
AnchoredFirst == \E id \in Matching(entry, pass.filter) : Key(id) = pass.cursor
Anchored ==
  pass.cursor = NoCursor \/ \E id \in Matching(entry, pass.filter) : Key(id) = pass.cursor

(* ORDER BY created_at, project_id.                                        *)
Before(id, other) ==
  \/ entry[id].created < entry[other].created
  \/ entry[id].created = entry[other].created /\ id < other

(* The first of some entries.                                              *)
First(found) == {id \in found : Cardinality({other \in found : Before(other, id)}) < Limit}

(* LIMIT limit + 1 tells whether there are more; faulty variant: the       *)
(* cursor is the row that was only looked at.                              *)
CursorBeyond(page, rest) == Key(CHOOSE id \in rest : \A other \in rest : ~Before(other, id))
Cursor(page, rest) == Key(CHOOSE id \in page : \A other \in page : ~Before(id, other))

(* list_project_registry_entries_page.                                     *)
NextPage ==
  LET found == {id \in Matching(entry, pass.filter) : After(Key(id), pass.cursor)}
      page == First(found) IN
  /\ pass.pc = "running"
  /\ pass' =
       IF ~Anchored THEN [pass EXCEPT !.pc = "stale"]
       ELSE [pass EXCEPT
              !.seen = @ \cup page,
              !.listed = @ + Cardinality(page),
              !.pc = IF page = found THEN "complete" ELSE "running",
              !.cursor = IF page = found THEN @ ELSE Cursor(page, found \ page)]
  /\ UNCHANGED <<rows, clock, call, throughout>>

Next ==
  \/ Tick
  \/ \E c \in Callers :
       \/ \E op \in {"register", "retire"}, id \in Ids : Begin(c, op, id)
       \/ \E name \in Names, repository \in Repositories : Register(c, name, repository)
       \/ Retire(c)
  \/ \E filter \in {"any", "ACTIVE"} : StartPass(filter)
  \/ NextPage

Spec == Init /\ [][Next]_vars

-----------------------------------------------------------------------------
Entries == [status : {"ABSENT", "ACTIVE", "RETIRED"}, name : Names \cup {None},
            repository : Repositories \cup {None},
            created : 0 .. MaxClock, retired : 0 .. MaxClock]

TypeOK ==
  /\ entry \in [Ids -> Entries]
  /\ events \subseteq {"PROJECT_REGISTERED", "PROJECT_RETIRED"} \X Ids \X (1 .. MaxClock)
  /\ clock \in 1 .. MaxClock
  /\ call \in [Callers -> [op : {"none", "register", "retire"}, id : Ids \cup {0}, at : 0 .. MaxClock]]
  /\ pass \in [pc : {"idle", "running", "stale", "complete"}, filter : {"any", "ACTIVE"},
               cursor : (0 .. MaxClock) \X (Ids \cup {0}), seen : SUBSET Ids, listed : Nat]
  /\ throughout \subseteq Ids

(* At most Cap projects are ACTIVE, whatever was registered and retired in *)
(* whatever order, so one page of Cap entries lists all of them (which is  *)
(* what the dashboard asks for); and no name or repository is ACTIVE twice.*)
(* (All variables are of their types.)                                     *)
ActiveBounded ==
  /\ TypeOK
  /\ Cardinality(Active) <= Cap
  /\ \A a, b \in Active : entry[a].name = entry[b].name \/ entry[a].repository = entry[b].repository => a = b

(* The events tell the history of the rows: one registration and at most   *)
(* one retirement of each, with the times of the row, the second not       *)
(* before the first although both times are read before the lock.          *)
EventsMatchRows ==
  /\ events = {<<"PROJECT_REGISTERED", id, entry[id].created>> : id \in Rows}
                \cup {<<"PROJECT_RETIRED", id, entry[id].retired>> : id \in Rows \ Active}
  /\ \A id \in Rows \ Active : entry[id].created <= entry[id].retired

(* A pass that went through without a stale cursor has listed every entry  *)
(* that matched its filter all the time, and none twice (as many rows as   *)
(* entries), although entries were retired and inserted, also before the   *)
(* cursor, between its pages; and no first page is refused as stale.       *)
PassComplete ==
  /\ pass.pc = "complete" => throughout \subseteq pass.seen
  /\ pass.listed = Cardinality(pass.seen)
  /\ pass.pc = "stale" => pass.cursor # NoCursor
=============================================================================
