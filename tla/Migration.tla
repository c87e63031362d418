------------------------------ MODULE Migration -----------------------------
(***************************************************************************)
(* The schema of the control database: ControlStore.initialize brings a    *)
(* database of any earlier version up to date, every other command and the *)
(* dashboard first find out whether the schema is one they can work with   *)
(* (require_schema_compatible, team_control/store.py, cli.py and           *)
(* dashboard_read_model.py).                                               *)
(*                                                                         *)
(* initialize works in one transaction under the control lock: `work' of a *)
(* process is what it would commit.  The readers take no lock and read     *)
(* statement by statement, each of which may see another commit.  The      *)
(* operator may replace the database file by an older copy while the       *)
(* dashboard, but no command, is running.                                  *)
(***************************************************************************)
EXTENDS Naturals, FiniteSets

CONSTANTS Procs,
          MaxFaults,   \* bound on processes that die and statements that fail
          None

ASSUME NoneAssumption == None \notin Procs
ASSUME FaultsAssumption == MaxFaults \in Nat

VARIABLES
  origin,      \* the database as it was before all this, and a copy of it
  readable,    \* whether the report of the old review can be read
  disk,        \* disk[f]: what is committed in file f
  current,     \* the file that is at the database's path
  holder,      \* the process that holds the control lock
  proc,        \* what each command is doing
  page,        \* what the dashboard is doing for one request
  recorded,    \* history: a command was told that its review is recorded
  faults

vars == <<origin, readable, disk, current, holder, proc, page, recorded, faults>>

Parts == {"reviews", "requests", "handlings", "registry", "others"}
Residue == {"reviews_migrated", "task_intake_requests_migrated"}

Tables(reviews, requests, handlings, registry, others) ==
  [reviews |-> reviews, requests |-> requests, handlings |-> handlings,
   registry |-> registry, others |-> others]

(* The tables of each version.  bare: reviews without the column           *)
(* report_sha256; nullable: with it, but not NOT NULL.                     *)
Versions ==
  {Tables("absent", "absent", "absent", "absent", "absent"),
   Tables("bare", "absent", "absent", "absent", "current"),
   Tables("nullable", "legacy", "absent", "absent", "current"),
   Tables("current", "current", "current", "legacy", "current"),
   Tables("nullable", "current", "current", "current", "current"),
   Tables("current", "current", "current", "current", "current")}

(* A table may also be one that no version has written, or the table a     *)
(* migration would build may exist.  Reviews and others are then short of  *)
(* a column that initialize does not look at, reviews with their digests   *)
(* NOT NULL.                                                               *)
Flawed(tables, flaw) ==
  [part \in Parts |-> IF part # flaw THEN tables[part]
                      ELSE IF part \in {"reviews", "others"} THEN "short" ELSE "foreign"]

(* A database: its tables; an old review, with a digest if there is a      *)
(* column for it; an old request; and the review that a command records.   *)
Origins ==
  {[tables |-> Flawed(version, flaw), residue |-> {flaw} \cap Residue,
    old |-> old, request |-> request, new |-> "none"] :
     version \in Versions, flaw \in Parts \cup Residue \cup {"none"},
     old \in {"none", "bare", "hashed"}, request \in {"none", "PENDING", "ACKNOWLEDGED"}}

Stored(d) ==
  /\ d.old \in CASE d.tables.reviews = "absent" -> {"none"}
                 [] d.tables.reviews = "bare" -> {"none", "bare"}
                 [] d.tables.reviews = "nullable" -> {"none", "bare", "hashed"}
                 [] d.tables.reviews \in {"current", "short"} -> {"none", "hashed"}
  /\ d.tables.others = "absent" => d.old = "none"
  /\ d.request \in CASE d.tables.requests = "absent" -> {"none"}
                     [] d.tables.requests \in {"legacy", "foreign"} -> {"none", "PENDING"}
                     [] d.tables.requests = "current" -> {"none", "PENDING", "ACKNOWLEDGED"}

Idle == [pc |-> "idle", work |-> None, missing |-> FALSE]
NoPage == [pc |-> "idle", file |-> None, opened |-> None, missing |-> FALSE, snapshot |-> None]

Init ==
  /\ origin \in {d \in Origins : Stored(d)}
  /\ readable \in BOOLEAN
  /\ disk = [f \in {0, 1} |-> origin]
  /\ current = 0
  /\ holder = None
  /\ proc = [p \in Procs |-> Idle]
  /\ page = NoPage
  /\ recorded = FALSE
  /\ faults = 0

At(p, pc) == proc[p].pc = pc
Database == disk[current]

-----------------------------------------------------------------------------
(* initialize                                                              *)

Begin(p) ==
  /\ At(p, "idle") /\ holder = None
  /\ holder' = p
  /\ proc' = [proc EXCEPT ![p] = [Idle EXCEPT !.pc = "create", !.work = Database]]
  /\ UNCHANGED <<origin, readable, disk, current, page, recorded, faults>>

(* One group of statements of the transaction, and the end of it by an     *)
(* exception, which rolls back and lets the lock go.                       *)
Proceed(p, here, next, database) ==
  /\ At(p, here)
  /\ proc' = [proc EXCEPT ![p].pc = next, ![p].work = database]
  /\ UNCHANGED <<origin, readable, disk, current, holder, page, recorded, faults>>

GiveUp(p) ==
  /\ holder' = None
  /\ proc' = [proc EXCEPT ![p] = [Idle EXCEPT !.pc = "refused"]]
  /\ UNCHANGED <<origin, readable, disk, current, page, recorded>>

Completed(d) ==
  [d EXCEPT !.tables = [part \in Parts |-> IF @[part] = "absent" THEN "current" ELSE @[part]]]

(* CREATE ... IF NOT EXISTS of everything.                                 *)
(* Faulty variant: with executescript, which leaves every statement        *)
(* committed.                                                              *)
CreateMissingCommits(p) ==
  /\ At(p, "create")
  /\ disk' = [disk EXCEPT ![current] = Completed(proc[p].work)]
  /\ proc' = [proc EXCEPT ![p].pc = "reviews", ![p].work = Completed(@)]
  /\ UNCHANGED <<origin, readable, current, holder, page, recorded, faults>>
CreateMissing(p) == Proceed(p, "create", "reviews", Completed(proc[p].work))

(* The digest of the report of every review, 64 zeros if it cannot be read. *)
(* Faulty variant: a review without its report is not copied.              *)
SealedIfReadable(row) == IF row = "none" \/ ~readable THEN "none" ELSE "hashed"
Sealed(row) ==
  IF row = "none" THEN "none" ELSE IF readable THEN "hashed" ELSE "zeros"

ReviewsOutdated(d) == d.tables.reviews \in {"bare", "nullable"}

MigrateReviews(p) ==
  LET d == proc[p].work
  IN /\ At(p, "reviews")
     /\ \/ ~ReviewsOutdated(d) /\ Proceed(p, "reviews", "requests", d)
        \/ /\ ReviewsOutdated(d) /\ "reviews_migrated" \notin d.residue
           /\ Proceed(p, "reviews", "requests",
                      [d EXCEPT !.tables.reviews = "current",
                                !.old = Sealed(@), !.new = Sealed(@)])

RequestsMigratable(d) ==
  /\ "task_intake_requests_migrated" \notin d.residue
  /\ d.tables.requests \in {"legacy", "current"}

MigrateRequests(p) ==
  /\ At(p, "requests") /\ RequestsMigratable(proc[p].work)
  /\ Proceed(p, "requests", "registry", [proc[p].work EXCEPT !.tables.requests = "current"])

MigrateRegistry(p) ==
  /\ At(p, "registry") /\ proc[p].work.tables.registry # "foreign"
  /\ Proceed(p, "registry", "validate", [proc[p].work EXCEPT !.tables.registry = "current"])

(* Faulty variant: the handlings are not validated.                        *)
ValidUnchecked(d) == d.tables.registry = "current"
Valid(d) == d.tables.handlings = "current" /\ d.tables.registry = "current"

(* The last validations, COMMIT, and the lock is let go.                   *)
Commit(p) ==
  /\ At(p, "validate") /\ Valid(proc[p].work)
  /\ disk' = [disk EXCEPT ![current] = proc[p].work]
  /\ holder' = None
  /\ proc' = [proc EXCEPT ![p] = [Idle EXCEPT !.pc = "initialised"]]
  /\ UNCHANGED <<origin, readable, current, page, recorded, faults>>

Refuse(p) ==
  /\ LET d == proc[p].work
     IN \/ At(p, "reviews") /\ ReviewsOutdated(d) /\ "reviews_migrated" \in d.residue
        \/ At(p, "requests") /\ ~RequestsMigratable(d)
        \/ At(p, "registry") /\ d.tables.registry = "foreign"
        \/ At(p, "validate") /\ ~Valid(d)
  /\ GiveUp(p) /\ UNCHANGED faults

(* A statement fails, or the process dies: both roll back.                 *)
Break(p) ==
  /\ proc[p].pc \in {"create", "reviews", "requests", "registry", "validate"}
  /\ faults < MaxFaults /\ faults' = faults + 1
  /\ GiveUp(p)

-----------------------------------------------------------------------------
(* require_schema_compatible, as four looks at a database: at the names of *)
(* the tables, at the columns of those found, at the definitions of the    *)
(* intake's tables and at those of the registry's                          *)

Missing(d) == \E part \in Parts : d.tables[part] = "absent"
Short(d) == d.tables.reviews \in {"bare", "short"} \/ d.tables.others = "short"
IntakeFits(d) == d.tables.requests = "current" /\ d.tables.handlings = "current"
RegistryFits(d) == d.tables.registry = "current"
Compatible(d) == ~Missing(d) /\ ~Short(d) /\ IntakeFits(d) /\ RegistryFits(d)

(* Every command other than init begins with it.                           *)
LookAtNames(p) ==
  /\ At(p, "idle")
  /\ proc' = [proc EXCEPT ![p] = [Idle EXCEPT !.pc = "columns", !.missing = Missing(Database)]]
  /\ UNCHANGED <<origin, readable, disk, current, holder, page, recorded, faults>>

Look(p, here, next, fits) ==
  /\ At(p, here)
  /\ proc' = [proc EXCEPT ![p] = [Idle EXCEPT !.pc = IF fits THEN next ELSE "refused"]]
  /\ UNCHANGED <<origin, readable, disk, current, holder, page, recorded, faults>>

LookAtColumns(p) == Look(p, "columns", "intake", ~proc[p].missing /\ ~Short(Database))
(* Faulty variant: only that the tables of the intake are there is checked. *)
LookAtIntakeNames(p) == Look(p, "intake", "registered", TRUE)
LookAtIntake(p) == Look(p, "intake", "registered", IntakeFits(Database))
LookAtRegistry(p) == Look(p, "registered", "admitted", RegistryFits(Database))

(* The command itself, here one that records a review of a report it has   *)
(* read.                                                                   *)
Record(p) ==
  /\ At(p, "admitted") /\ holder = None /\ readable
  /\ disk' = [disk EXCEPT ![current].new = "hashed"]
  /\ recorded' = TRUE
  /\ proc' = [proc EXCEPT ![p] = Idle]
  /\ UNCHANGED <<origin, readable, current, holder, page, faults>>

Return(p) ==
  /\ proc[p].pc \in {"initialised", "refused", "admitted"}
  /\ proc' = [proc EXCEPT ![p] = Idle]
  /\ UNCHANGED <<origin, readable, disk, current, holder, page, recorded, faults>>

-----------------------------------------------------------------------------
(* snapshot() of the dashboard's read model                                *)

PageStep(here, next) ==
  /\ page.pc = here
  /\ page' = next
  /\ UNCHANGED <<origin, readable, disk, current, holder, proc, recorded, faults>>
PageLook(here, next, fits) ==
  PageStep(here, IF fits THEN [page EXCEPT !.pc = next] ELSE NoPage)

(* The identity of the file at the path, ...                               *)
PageIdentify == PageStep("idle", [NoPage EXCEPT !.pc = "open", !.file = current])
(* ... the looks of require_schema_compatible, through a connection that   *)
(* stays with the file it has opened (which need not be that one), ...     *)
PageOpen ==
  PageStep("open", [page EXCEPT !.pc = "columns", !.opened = current,
                                !.missing = Missing(Database)])
PageColumns == PageLook("columns", "intake", ~page.missing /\ ~Short(disk[page.opened]))
PageIntake == PageLook("intake", "registered", IntakeFits(disk[page.opened]))
PageRegistry == PageLook("registered", "fits", RegistryFits(disk[page.opened]))
(* ... a second connection with a transaction, in which the page looks at  *)
(* the tables and columns it uses itself: at none of the registry, and at  *)
(* some only of the others, ...                                            *)
PageNeeds(d) ==
  /\ \A part \in Parts \ {"registry"} : d.tables[part] # "absent"
  /\ d.tables.reviews \notin {"bare", "short"}
PageBegin ==
  \/ /\ PageNeeds(Database)
     /\ PageStep("fits", [page EXCEPT !.pc = "begun", !.snapshot = Database])
  \/ /\ ~PageNeeds(Database) \/ Database.tables.others = "short"
     /\ PageStep("fits", NoPage)
(* ... and the identity again.  The answer is made from the snapshot.  The *)
(* code compares device, inode and kind of the file, which tell a file     *)
(* that was moved to the path from the one it replaces.                    *)
(* Faulty variant: the identities are not compared.                        *)
SameFileAssumed == TRUE
SameFile == page.file = current
PageVerify == PageStep("begun", IF SameFile THEN [page EXCEPT !.pc = "answered"] ELSE NoPage)
PageDone == PageStep("answered", NoPage)

(* The operator moves a copy from before to the path of the database, as a *)
(* new file.  (To write it over the old file in place is noticed by no     *)
(* check of the program and is not modelled.)                              *)
Restore ==
  /\ current = 0
  /\ \A p \in Procs : At(p, "idle")
  /\ current' = 1
  /\ UNCHANGED <<origin, readable, disk, holder, proc, page, recorded, faults>>

-----------------------------------------------------------------------------
Initialize(p) ==
  \/ Begin(p) \/ CreateMissing(p) \/ MigrateReviews(p) \/ MigrateRequests(p)
  \/ MigrateRegistry(p) \/ Commit(p) \/ Refuse(p) \/ Break(p)
Command(p) ==
  \/ LookAtNames(p) \/ LookAtColumns(p) \/ LookAtIntake(p) \/ LookAtRegistry(p)
  \/ Record(p) \/ Return(p)
Snapshot ==
  \/ PageIdentify \/ PageOpen \/ PageColumns \/ PageIntake \/ PageRegistry
  \/ PageBegin \/ PageVerify \/ PageDone
Next == (\E p \in Procs : Initialize(p) \/ Command(p)) \/ Snapshot \/ Restore

Spec == Init /\ [][Next]_vars

-----------------------------------------------------------------------------
(* Properties                                                              *)

(* The new schema, but for what initialize does not look at.               *)
Upgraded(tables) ==
  \A part \in Parts :
    tables[part] = "current" \/ (tables[part] = "short" /\ origin.tables[part] = "short")

(* Whatever fails or dies while initialize is at work, what others find is *)
(* the schema that was there or the whole new one, never one in between.   *)
OldOrNew == \A f \in DOMAIN disk : disk[f].tables = origin.tables \/ Upgraded(disk[f].tables)

(* No migration loses the old review or the old request; in the new schema *)
(* every review has a digest, zeros only if its report cannot be read; and *)
(* a review recorded by another command is not undone by a migration.      *)
RowsSurvive ==
  /\ \A f \in DOMAIN disk :
       LET d == disk[f]
       IN /\ (d.old = "none") = (origin.old = "none")
          /\ d.request = origin.request
          /\ d.old = "zeros" => ~readable
          /\ d.tables.reviews = "current" => d.old # "bare"
  /\ recorded => \E f \in DOMAIN disk : disk[f].new = "hashed"

(* A command or a page that has been admitted works on the current schema, *)
(* although it has looked at several snapshots, none of them under a lock, *)
(* initialize may have been at work and the file may have been replaced.   *)
AdmittedIsCompatible ==
  /\ \A p \in Procs : At(p, "admitted") => Compatible(Database)
  /\ page.pc = "answered" => Compatible(page.snapshot)

(* After init has succeeded every command is admitted, unless from the     *)
(* beginning a table lacked a column that initialize does not look at.     *)
InitialisedIsReady ==
  \A p \in Procs :
    At(p, "initialised") /\ (\A part \in Parts : origin.tables[part] # "short")
      => Compatible(Database)
=============================================================================
