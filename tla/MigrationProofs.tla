--------------------------- MODULE MigrationProofs --------------------------
(***************************************************************************)
(* Proofs about Migration, for any processes and any number of faults.     *)
(*                                                                         *)
(* None of the four invariants is inductive.  What carries them is that    *)
(* the database at the path only ever improves: each look that passed      *)
(* would still pass now, for as long as the file is the same.  So the      *)
(* invariant says of each process which looks would pass (CommandOK) and   *)
(* what its transaction has reached (WorkOK), of the page the same for the *)
(* file it has opened (PageOK), and of each database where its rows come   *)
(* from (DatabaseOK).                                                      *)
(***************************************************************************)
EXTENDS Migration, TLAPS

Kinds == {"absent", "bare", "nullable", "legacy", "current", "foreign", "short"}
ReviewKinds == {"absent", "bare", "nullable", "current", "short"}
Rows == {"none", "bare", "hashed", "zeros"}
Databases ==
  [tables : {t \in [Parts -> Kinds] : t["reviews"] \in ReviewKinds},
   residue : SUBSET Residue, old : Rows, request : {"none", "PENDING", "ACKNOWLEDGED"},
   new : Rows]

Working == {"create", "reviews", "requests", "registry", "validate"}
Labels == Working \cup {"idle", "columns", "intake", "registered", "admitted",
                        "initialised", "refused"}
Calls == [pc : Labels, work : Databases \cup {None}, missing : BOOLEAN]
PageLabels == {"idle", "open", "columns", "intake", "registered", "fits", "begun", "answered"}

TypeOK ==
  /\ origin \in Databases
  /\ readable \in BOOLEAN
  /\ disk \in [{0, 1} -> Databases]
  /\ current \in {0, 1}
  /\ holder \in Procs \cup {None}
  /\ proc \in [Procs -> Calls]
  /\ page \in [pc : PageLabels, file : {0, 1, None}, opened : {0, 1, None},
               missing : BOOLEAN, snapshot : Databases \cup {None}]
  /\ recorded \in BOOLEAN

(* A database whose rows are those of the origin, as a migration leaves    *)
(* them, and whose other tables are those of the origin or new.            *)
DatabaseOK(d) ==
  /\ d \in Databases
  /\ \/ d.tables["others"] = origin.tables["others"]
     \/ origin.tables["others"] = "absent" /\ d.tables["others"] = "current"
  /\ (d.tables["reviews"] = "short") = (origin.tables["reviews"] = "short")
  /\ origin.tables["others"] \in {"absent", "current", "short"}
  /\ d.tables["reviews"] \in {"absent", "current", "short"} => d.old # "bare"
  /\ (d.old = "none") = (origin.old = "none")
  /\ d.old = "zeros" => ~readable
  /\ d.request = origin.request
  /\ d.new \in {"none", "hashed"}
  /\ d.new = "hashed" => readable

(* How far a transaction has come at each label.                           *)
Reached(pc, d) ==
  /\ pc \in {"reviews", "requests", "registry", "validate"} => ~Missing(d)
  /\ pc \in {"requests", "registry", "validate"} => d.tables["reviews"] \in {"current", "short"}
  /\ pc \in {"registry", "validate"} => d.tables["requests"] = "current"
  /\ pc = "validate" => d.tables["registry"] = "current"

WorkOK(p) ==
  proc[p].pc \in Working =>
    /\ holder = p
    /\ DatabaseOK(proc[p].work)
    /\ proc[p].work.new = Database.new
    /\ Reached(proc[p].pc, proc[p].work)

(* What has been looked at and passed, in the database as it is now.       *)
Passed(pc, missing, d) ==
  /\ pc = "columns" /\ ~missing => ~Missing(d)
  /\ pc \in {"intake", "registered", "fits", "admitted"} => ~Missing(d) /\ ~Short(d)
  /\ pc \in {"registered", "fits", "admitted"} => IntakeFits(d)
  /\ pc \in {"fits", "admitted"} => RegistryFits(d)

CommandOK(p) ==
  /\ Passed(proc[p].pc, proc[p].missing, Database)
  /\ proc[p].pc = "initialised" => Upgraded(Database.tables)

PageOK ==
  /\ page.pc \in {"open", "columns", "intake", "registered", "fits", "begun"} =>
       page.file \in {0, 1} /\ page.file <= current
  /\ page.pc \in {"columns", "intake", "registered", "fits"} =>
       /\ page.opened \in {0, 1} /\ page.file <= page.opened /\ page.opened <= current
       /\ Passed(page.pc, page.missing, disk[page.opened])
  /\ page.pc = "begun" /\ page.file = current => Compatible(page.snapshot)
  /\ page.pc = "answered" => Compatible(page.snapshot)

IInv ==
  /\ TypeOK
  /\ \A f \in {0, 1} : DatabaseOK(disk[f])
  /\ OldOrNew
  /\ recorded => \E f \in {0, 1} : disk[f].new = "hashed"
  /\ \A p \in Procs : WorkOK(p) /\ CommandOK(p)
  /\ PageOK

(* Whatever passed of d passes of e.                                       *)
Improves(d, e) ==
  /\ ~Missing(d) => ~Missing(e)
  /\ ~Short(d) => ~Short(e)
  /\ IntakeFits(d) => IntakeFits(e)
  /\ RegistryFits(d) => RegistryFits(e)
  /\ Upgraded(d.tables) => Upgraded(e.tables)

-----------------------------------------------------------------------------
(* Facts about databases                                                   *)

LEMMA CompletedFacts ==
  ASSUME TypeOK, NEW d, DatabaseOK(d)
  PROVE  DatabaseOK(Completed(d)) /\ Reached("reviews", Completed(d)) /\ Completed(d).new = d.new
<1> DEFINE e == Completed(d)
<1>1. /\ e.tables = [part \in Parts |-> IF d.tables[part] = "absent" THEN "current"
                                        ELSE d.tables[part]]
      /\ e.residue = d.residue /\ e.old = d.old /\ e.request = d.request /\ e.new = d.new
  BY DEF Completed, DatabaseOK, Databases
<1>2. e \in Databases
  <2>1. d \in Databases
    BY DEF DatabaseOK
  <2>2. e.tables \in [Parts -> Kinds]
    BY <1>1, <2>1 DEF Databases, Kinds
  <2>3. e.tables["reviews"] \in ReviewKinds
    BY <1>1, <2>1 DEF Databases, ReviewKinds, Parts
  <2> QED BY <2>1, <2>2, <2>3 DEF Completed, Databases
<1>3. ~Missing(e)
  BY <1>1 DEF Missing
<1>4. e.tables["reviews"] = IF d.tables["reviews"] = "absent" THEN "current"
                            ELSE d.tables["reviews"]
  BY <1>1 DEF Parts
<1>5. e.tables["others"] = IF d.tables["others"] = "absent" THEN "current" ELSE d.tables["others"]
  BY <1>1 DEF Parts
<1> QED BY <1>1, <1>2, <1>3, <1>4, <1>5 DEF DatabaseOK, Reached

LEMMA ReviewsFacts ==
  ASSUME TypeOK, NEW d, DatabaseOK(d), Reached("reviews", d)
  PROVE  /\ ~ReviewsOutdated(d) => Reached("requests", d)
         /\ LET e == [d EXCEPT !.tables.reviews = "current", !.old = Sealed(@), !.new = Sealed(@)]
            IN ReviewsOutdated(d) => DatabaseOK(e) /\ Reached("requests", e) /\ e.new = d.new
<1>1. ~ReviewsOutdated(d) => Reached("requests", d)
  BY DEF DatabaseOK, Databases, ReviewKinds, ReviewsOutdated, Reached, Missing, Parts
<1> DEFINE e == [d EXCEPT !.tables.reviews = "current", !.old = Sealed(@), !.new = Sealed(@)]
<1>2. /\ e.tables = [d.tables EXCEPT !["reviews"] = "current"]
      /\ e.residue = d.residue /\ e.old = Sealed(d.old) /\ e.request = d.request
      /\ e.new = Sealed(d.new)
  BY DEF DatabaseOK, Databases
<1>3. /\ e.tables["reviews"] = "current"
      /\ \A part \in Parts \ {"reviews"} : e.tables[part] = d.tables[part]
  BY <1>2 DEF DatabaseOK, Databases, Parts
<1>4. e \in Databases
  BY <1>2 DEF DatabaseOK, Databases, ReviewKinds, Sealed, Kinds, Rows, Parts
<1>5. e.new = d.new
  BY <1>2 DEF Sealed, DatabaseOK
<1>6. Reached("requests", e)
  BY <1>3 DEF Reached, Missing
<1>7. ReviewsOutdated(d) => DatabaseOK(e)
  BY <1>2, <1>3, <1>4, <1>5 DEF DatabaseOK, ReviewsOutdated, Sealed, Parts, Databases, Rows
<1> QED BY <1>1, <1>5, <1>6, <1>7

LEMMA RequestsFacts ==
  ASSUME TypeOK, NEW d, DatabaseOK(d), Reached("requests", d)
  PROVE  LET e == [d EXCEPT !.tables.requests = "current"]
         IN DatabaseOK(e) /\ Reached("registry", e) /\ e.new = d.new
<1> DEFINE e == [d EXCEPT !.tables.requests = "current"]
<1>1. /\ e.tables = [d.tables EXCEPT !["requests"] = "current"]
      /\ e.residue = d.residue /\ e.old = d.old /\ e.request = d.request /\ e.new = d.new
  BY DEF DatabaseOK, Databases
<1>2. /\ e.tables["requests"] = "current"
      /\ \A part \in Parts \ {"requests"} : e.tables[part] = d.tables[part]
  BY <1>1 DEF DatabaseOK, Databases, Parts
<1>3. e \in Databases
  BY <1>1, <1>2 DEF DatabaseOK, Databases, Kinds, Parts
<1>4. Reached("registry", e)
  BY <1>2 DEF Reached, Missing, Parts
<1>5. DatabaseOK(e)
  BY <1>1, <1>2, <1>3 DEF DatabaseOK, Parts
<1> QED BY <1>1, <1>4, <1>5

LEMMA RegistryFacts ==
  ASSUME TypeOK, NEW d, DatabaseOK(d), Reached("registry", d)
  PROVE  LET e == [d EXCEPT !.tables.registry = "current"]
         IN DatabaseOK(e) /\ Reached("validate", e) /\ e.new = d.new
<1> DEFINE e == [d EXCEPT !.tables.registry = "current"]
<1>1. /\ e.tables = [d.tables EXCEPT !["registry"] = "current"]
      /\ e.residue = d.residue /\ e.old = d.old /\ e.request = d.request /\ e.new = d.new
  BY DEF DatabaseOK, Databases
<1>2. /\ e.tables["registry"] = "current"
      /\ \A part \in Parts \ {"registry"} : e.tables[part] = d.tables[part]
  BY <1>1 DEF DatabaseOK, Databases, Parts
<1>3. e \in Databases
  BY <1>1, <1>2 DEF DatabaseOK, Databases, Kinds, Parts
<1>4. Reached("validate", e)
  BY <1>2 DEF Reached, Missing, Parts
<1>5. DatabaseOK(e)
  BY <1>1, <1>2, <1>3 DEF DatabaseOK, Parts
<1> QED BY <1>1, <1>4, <1>5

(* What the validations let through is the whole new schema, and better    *)
(* than any database it may replace.                                       *)
LEMMA ValidFacts ==
  ASSUME TypeOK, NEW d, DatabaseOK(d), Reached("validate", d), Valid(d)
  PROVE  /\ Upgraded(d.tables)
         /\ \A e : DatabaseOK(e) => Improves(e, d)
<1>1. Upgraded(d.tables)
  <2>1. /\ d.tables["reviews"] = "current"
           \/ (d.tables["reviews"] = "short" /\ origin.tables["reviews"] = "short")
        /\ d.tables["requests"] = "current" /\ d.tables["registry"] = "current"
        /\ d.tables["handlings"] = "current"
    BY DEF Reached, Valid, DatabaseOK
  <2>2. d.tables["others"] = "current"
        \/ (d.tables["others"] = "short" /\ origin.tables["others"] = "short")
    BY DEF Reached, Missing, DatabaseOK, Parts
  <2> QED BY <2>1, <2>2 DEF Upgraded, Parts
<1>2. ~Missing(d)
  BY DEF Reached
<1>3. ASSUME NEW e, DatabaseOK(e), ~Short(e) PROVE ~Short(d)
  BY <1>1, <1>3 DEF Upgraded, Short, DatabaseOK, Parts
<1>4. IntakeFits(d) /\ RegistryFits(d)
  BY DEF Reached, Valid, IntakeFits, RegistryFits
<1> QED BY <1>1, <1>2, <1>3, <1>4 DEF Improves

LEMMA PassedImproves ==
  ASSUME NEW pc, NEW missing, NEW d, NEW e, Passed(pc, missing, d), Improves(d, e)
  PROVE  Passed(pc, missing, e)
  BY DEF Passed, Improves

LEMMA SameTablesImprove ==
  ASSUME NEW d, NEW e, e.tables = d.tables
  PROVE  Improves(d, e)
  BY DEF Improves, Missing, Short, IntakeFits, RegistryFits

LEMMA UpgradedFits ==
  ASSUME NEW d, Upgraded(d.tables), \A part \in Parts : origin.tables[part] # "short"
  PROVE  Compatible(d)
  BY DEF Upgraded, Compatible, Missing, Short, IntakeFits, RegistryFits, Parts

LEMMA PassedAll ==
  ASSUME NEW d
  PROVE  /\ \A m : Passed("fits", m, d) <=> Compatible(d)
         /\ \A m : Passed("admitted", m, d) <=> Compatible(d)
  BY DEF Passed, Compatible

-----------------------------------------------------------------------------
(* Initially                                                               *)

LEMMA VersionFacts ==
  ASSUME NEW version \in Versions
  PROVE  /\ version \in [Parts -> Kinds]
         /\ version["reviews"] \in ReviewKinds \ {"short"}
         /\ version["others"] \in {"absent", "current"}
  BY DEF Versions, Tables, Parts, Kinds, ReviewKinds

LEMMA OriginFacts ==
  ASSUME NEW d \in Origins
  PROVE  /\ d \in Databases /\ d.new = "none" /\ d.old # "zeros"
         /\ d.tables["others"] \in {"absent", "current", "short"}
<1>1. PICK version \in Versions, flaw \in Parts \cup Residue \cup {"none"},
           old \in {"none", "bare", "hashed"}, request \in {"none", "PENDING", "ACKNOWLEDGED"} :
        d = [tables |-> Flawed(version, flaw), residue |-> {flaw} \cap Residue,
             old |-> old, request |-> request, new |-> "none"]
  BY DEF Origins
<1>3. Flawed(version, flaw) \in [Parts -> Kinds]
  BY VersionFacts DEF Flawed, Kinds
<1>4. /\ Flawed(version, flaw)["reviews"] \in {version["reviews"], "short"}
      /\ Flawed(version, flaw)["others"] \in {version["others"], "short"}
  BY DEF Flawed, Parts
<1> QED BY <1>1, <1>3, <1>4, VersionFacts DEF Databases, Rows, ReviewKinds

LEMMA Initially == Init => IInv
<1> SUFFICES ASSUME Init PROVE IInv
  OBVIOUS
<1>1. /\ origin \in Databases /\ origin.new = "none" /\ origin.old # "zeros"
      /\ Stored(origin) /\ origin.tables["others"] \in {"absent", "current", "short"}
  BY OriginFacts DEF Init
<1>2. TypeOK
  BY <1>1 DEF Init, TypeOK, Calls, Idle, NoPage, Labels, PageLabels
<1>3. origin.tables["reviews"] \in {"absent", "current", "short"} => origin.old # "bare"
  BY <1>1 DEF Stored
<1>4. DatabaseOK(origin)
  BY <1>1, <1>3 DEF DatabaseOK
<1>5. \A f \in {0, 1} : disk[f] = origin
  BY DEF Init
<1>6. OldOrNew
  BY <1>5 DEF OldOrNew, Init
<1>7. \A p \in Procs : WorkOK(p) /\ CommandOK(p)
  BY DEF Init, Idle, WorkOK, CommandOK, Working, Passed
<1>8. PageOK
  BY DEF Init, NoPage, PageOK
<1> QED BY <1>2, <1>4, <1>5, <1>6, <1>7, <1>8 DEF IInv, Init

-----------------------------------------------------------------------------
(* Steps that leave the databases alone                                    *)

LEMMA Holders ==
  ASSUME IInv, NEW p \in Procs, proc[p].pc \in Working
  PROVE  holder = p /\ p # None
  BY NoneAssumption DEF IInv, WorkOK

LEMMA PrivateStep ==
  ASSUME IInv, NEW p \in Procs,
         UNCHANGED <<origin, readable, disk, current, page, recorded>>,
         proc' \in [Procs -> Calls],
         \A q \in Procs \ {p} : proc'[q] = proc[q],
         holder' \in Procs \cup {None},
         holder' = holder \/ holder \in {None, p},
         WorkOK(p)', CommandOK(p)'
  PROVE  IInv'
<1>1. TypeOK'
  BY DEF IInv, TypeOK
<1>2. (\A f \in {0, 1} : DatabaseOK(disk[f]))' /\ OldOrNew'
      /\ (recorded => \E f \in {0, 1} : disk[f].new = "hashed")'
  BY DEF IInv, DatabaseOK, OldOrNew, Upgraded
<1>3. ASSUME NEW q \in Procs \ {p} PROVE WorkOK(q)' /\ CommandOK(q)'
  <2>1. proc'[q] = proc[q] /\ WorkOK(q) /\ CommandOK(q) /\ Database' = Database
    BY DEF IInv, Database
  <2>2. CommandOK(q)'
    BY <2>1 DEF CommandOK, Passed, Missing, Short, IntakeFits, RegistryFits, Upgraded
  <2>3. proc[q].pc \in Working => holder' = q
    BY <2>1, Holders
  <2>4. WorkOK(q)'
    BY <2>1, <2>3 DEF WorkOK, DatabaseOK, Reached, Missing
  <2> QED BY <2>2, <2>4
<1>4. PageOK'
  BY DEF IInv, PageOK, Passed, Missing, Short, IntakeFits, RegistryFits, Compatible
<1> QED BY <1>1, <1>2, <1>3, <1>4 DEF IInv

LEMMA BeginKeeps ==
  ASSUME IInv, NEW p \in Procs, Begin(p)
  PROVE  IInv'
<1>1. /\ proc[p] \in Calls /\ Database \in Databases /\ DatabaseOK(Database)
  BY DEF IInv, TypeOK, Database
<1>2. /\ proc'[p].pc = "create" /\ proc'[p].work = Database /\ proc'[p] \in Calls
      /\ proc' = [proc EXCEPT ![p] = proc'[p]] /\ holder' = p /\ Database' = Database
  BY <1>1 DEF Begin, IInv, TypeOK, Idle, Calls, Labels, Working, Database
<1>3. DatabaseOK(proc[p].work)'
  BY <1>1, <1>2 DEF DatabaseOK, Begin
<1>4. WorkOK(p)'
  BY <1>2, <1>3 DEF WorkOK, Reached
<1>5. CommandOK(p)'
  BY <1>2 DEF CommandOK, Passed
<1>6. proc' \in [Procs -> Calls] /\ \A q \in Procs \ {p} : proc'[q] = proc[q]
  BY <1>2 DEF IInv, TypeOK
<1> QED BY <1>2, <1>4, <1>5, <1>6, PrivateStep DEF Begin

(* A group of statements that keeps the transaction's database sound.      *)
LEMMA ProceedKeeps ==
  ASSUME IInv, NEW p \in Procs, NEW here \in Working, NEW next \in Working, NEW d,
         Proceed(p, here, next, d),
         DatabaseOK(d), Reached(next, d), d.new = proc[p].work.new
  PROVE  IInv'
<1>1. proc[p] \in Calls /\ proc[p].pc = here
  BY DEF IInv, TypeOK, Proceed, At
<1>2. /\ proc'[p].pc = next /\ proc'[p].work = d /\ proc'[p] \in Calls
      /\ \A q \in Procs \ {p} : proc'[q] = proc[q]
      /\ proc' \in [Procs -> Calls] /\ Database' = Database
  BY <1>1 DEF Proceed, IInv, TypeOK, Calls, Labels, DatabaseOK, Database
<1>3. DatabaseOK(proc[p].work)'
  BY <1>2 DEF DatabaseOK, Proceed
<1>4. WorkOK(p)'
  <2>1. WorkOK(p) /\ holder' = holder
    BY DEF IInv, Proceed
  <2>2. holder' = p /\ proc'[p].work.new = Database'.new
    BY <1>1, <1>2, <2>1 DEF WorkOK
  <2> QED BY <1>2, <1>3, <2>2 DEF WorkOK, Reached, Missing
<1>5. CommandOK(p)'
  BY <1>2 DEF CommandOK, Passed, Working
<1> QED BY <1>2, <1>4, <1>5, PrivateStep DEF Proceed, IInv, TypeOK

LEMMA MigrationKeeps ==
  ASSUME IInv, NEW p \in Procs,
         CreateMissing(p) \/ MigrateReviews(p) \/ MigrateRequests(p) \/ MigrateRegistry(p)
  PROVE  IInv'
<1> DEFINE d == proc[p].work
<1>1. TypeOK /\ WorkOK(p)
  BY DEF IInv
<1>2. CASE CreateMissing(p)
  <2>1. DatabaseOK(d)
    BY <1>1, <1>2 DEF CreateMissing, Proceed, At, WorkOK, Working
  <2> QED BY <1>1, <1>2, <2>1, CompletedFacts, ProceedKeeps DEF CreateMissing, Working
<1>3. CASE MigrateReviews(p)
  <2>1. DatabaseOK(d) /\ Reached("reviews", d)
    BY <1>1, <1>3 DEF MigrateReviews, At, WorkOK, Working
  <2>2. CASE ~ReviewsOutdated(d) /\ Proceed(p, "reviews", "requests", d)
    BY <1>1, <2>1, <2>2, ReviewsFacts, ProceedKeeps DEF Working
  <2>3. CASE ReviewsOutdated(d) /\ Proceed(p, "reviews", "requests",
               [d EXCEPT !.tables.reviews = "current", !.old = Sealed(@), !.new = Sealed(@)])
    BY <1>1, <2>1, <2>3, ReviewsFacts, ProceedKeeps DEF Working
  <2> QED BY <1>3, <2>2, <2>3 DEF MigrateReviews
<1>4. CASE MigrateRequests(p)
  <2>1. DatabaseOK(d) /\ Reached("requests", d)
    BY <1>1, <1>4 DEF MigrateRequests, At, WorkOK, Working
  <2> QED BY <1>1, <1>4, <2>1, RequestsFacts, ProceedKeeps DEF MigrateRequests, Working
<1>5. CASE MigrateRegistry(p)
  <2>1. DatabaseOK(d) /\ Reached("registry", d)
    BY <1>1, <1>5 DEF MigrateRegistry, At, WorkOK, Working
  <2> QED BY <1>1, <1>5, <2>1, RegistryFacts, ProceedKeeps DEF MigrateRegistry, Working
<1> QED BY <1>2, <1>3, <1>4, <1>5

LEMMA GiveUpKeeps ==
  ASSUME IInv, NEW p \in Procs, GiveUp(p), proc[p].pc \in Working
  PROVE  IInv'
<1>1. /\ proc'[p].pc = "refused" /\ proc'[p] \in Calls
      /\ \A q \in Procs \ {p} : proc'[q] = proc[q]
      /\ proc' \in [Procs -> Calls] /\ holder' = None
  BY DEF GiveUp, IInv, TypeOK, Idle, Calls, Labels
<1>2. WorkOK(p)' /\ CommandOK(p)'
  BY <1>1 DEF WorkOK, CommandOK, Passed, Working
<1> QED BY <1>1, <1>2, Holders, PrivateStep DEF GiveUp

(* A look of a command that passes has seen what it asserts.               *)
LEMMA LookKeeps ==
  ASSUME IInv, NEW p \in Procs,
         LookAtNames(p) \/ LookAtColumns(p) \/ LookAtIntake(p) \/ LookAtRegistry(p) \/ Return(p)
  PROVE  IInv'
<1> DEFINE after(pc) == /\ proc'[p].pc = pc /\ proc'[p] \in Calls
                        /\ \A q \in Procs \ {p} : proc'[q] = proc[q]
                        /\ proc' \in [Procs -> Calls]
<1>1. UNCHANGED <<origin, readable, disk, current, holder, page, recorded>> /\ Database' = Database
  BY DEF LookAtNames, LookAtColumns, LookAtIntake, LookAtRegistry, Look, Return, Database
<1>2. Passed(proc[p].pc, proc[p].missing, Database) /\ TypeOK /\ Database \in Databases
  BY DEF IInv, CommandOK, TypeOK, Database
<1>3. CASE LookAtNames(p)
  <2>1. after("columns") /\ proc'[p].missing = Missing(Database)
    BY <1>2, <1>3 DEF LookAtNames, TypeOK, Idle, Calls, Labels, Missing
  <2>2. WorkOK(p)' /\ CommandOK(p)'
    BY <1>1, <2>1 DEF WorkOK, CommandOK, Passed, Working, Missing
  <2> QED BY <1>1, <1>2, <2>1, <2>2, PrivateStep DEF TypeOK
<1>4. CASE LookAtColumns(p)
  <2>1. \/ after("refused")
        \/ after("intake") /\ proc[p].pc = "columns" /\ ~proc[p].missing /\ ~Short(Database)
    BY <1>2, <1>4 DEF LookAtColumns, Look, At, TypeOK, Idle, Calls, Labels
  <2>2. WorkOK(p)' /\ CommandOK(p)'
    BY <1>1, <1>2, <2>1 DEF WorkOK, CommandOK, Passed, Working, Missing, Short
  <2> QED BY <1>1, <1>2, <2>1, <2>2, PrivateStep DEF TypeOK
<1>5. CASE LookAtIntake(p)
  <2>1. \/ after("refused")
        \/ after("registered") /\ proc[p].pc = "intake" /\ IntakeFits(Database)
    BY <1>2, <1>5 DEF LookAtIntake, Look, At, TypeOK, Idle, Calls, Labels
  <2>2. WorkOK(p)' /\ CommandOK(p)'
    BY <1>1, <1>2, <2>1 DEF WorkOK, CommandOK, Passed, Working, Missing, Short, IntakeFits
  <2> QED BY <1>1, <1>2, <2>1, <2>2, PrivateStep DEF TypeOK
<1>6. CASE LookAtRegistry(p)
  <2>1. \/ after("refused")
        \/ after("admitted") /\ proc[p].pc = "registered" /\ RegistryFits(Database)
    BY <1>2, <1>6 DEF LookAtRegistry, Look, At, TypeOK, Idle, Calls, Labels
  <2>2. WorkOK(p)' /\ CommandOK(p)'
    BY <1>1, <1>2, <2>1
    DEF WorkOK, CommandOK, Passed, Working, Missing, Short, IntakeFits, RegistryFits
  <2> QED BY <1>1, <1>2, <2>1, <2>2, PrivateStep DEF TypeOK
<1>7. CASE Return(p)
  <2>1. after("idle")
    BY <1>2, <1>7 DEF Return, TypeOK, Idle, Calls, Labels
  <2>2. WorkOK(p)' /\ CommandOK(p)'
    BY <2>1 DEF WorkOK, CommandOK, Passed, Working
  <2> QED BY <1>1, <1>2, <2>1, <2>2, PrivateStep DEF TypeOK
<1> QED BY <1>3, <1>4, <1>5, <1>6, <1>7

-----------------------------------------------------------------------------
(* Steps that change the database at the path                              *)

LEMMA PageKeeps ==
  ASSUME IInv, page' = page, current' = current,
         \A f \in {0, 1} : Improves(disk[f], disk'[f])
  PROVE  PageOK'
<1>1. ASSUME page.pc \in {"columns", "intake", "registered", "fits"}
      PROVE  Passed(page.pc, page.missing, disk'[page.opened])
  BY <1>1, PassedImproves DEF IInv, PageOK
<1> QED BY <1>1 DEF IInv, PageOK, Passed, Missing, Short, IntakeFits, RegistryFits, Compatible

(* The file at the path becomes better, and nobody but p is in the middle  *)
(* of a transaction.                                                       *)
LEMMA WriteStep ==
  ASSUME IInv, NEW p \in Procs, NEW e,
         UNCHANGED <<origin, readable, current, page>>,
         disk' = [disk EXCEPT ![current] = e],
         DatabaseOK(e), Improves(Database, e),
         e.tables = Database.tables \/ Upgraded(e.tables),
         recorded' \in BOOLEAN,
         recorded' => (e.new = "hashed" \/ (e.new = Database.new /\ recorded)),
         holder \in {None, p}, holder' = None,
         proc' \in [Procs -> Calls],
         \A q \in Procs \ {p} : proc'[q] = proc[q],
         proc'[p].pc \in {"initialised", "idle"},
         proc'[p].pc = "initialised" => Upgraded(e.tables)
  PROVE  IInv'
<1>1. /\ TypeOK /\ e \in Databases /\ current \in {0, 1}
      /\ disk'[current] = e /\ \A f \in {0, 1} \ {current} : disk'[f] = disk[f]
      /\ disk' \in [{0, 1} -> Databases] /\ Database' = e
  BY DEF IInv, TypeOK, DatabaseOK, Database
<1>2. TypeOK'
  BY <1>1 DEF TypeOK
<1>3. (\A f \in {0, 1} : DatabaseOK(disk[f]))'
  BY <1>1 DEF IInv, DatabaseOK
<1>4. OldOrNew'
  BY <1>1 DEF IInv, OldOrNew, TypeOK, Upgraded, Database
<1>5. (recorded => \E f \in {0, 1} : disk[f].new = "hashed")'
  BY <1>1 DEF IInv, Database
<1>6. \A f \in {0, 1} : Improves(disk[f], disk'[f])
  BY <1>1, SameTablesImprove DEF Database
<1>7. PageOK'
  BY <1>6, PageKeeps
<1>8. ASSUME NEW q \in Procs PROVE WorkOK(q)' /\ CommandOK(q)'
  <2>1. CASE q = p
    BY <1>1, <2>1 DEF WorkOK, CommandOK, Passed, Working, Upgraded
  <2>2. CASE q # p
    <3>1. proc'[q] = proc[q] /\ proc[q].pc \notin Working
      BY <2>2, Holders
    <3>2. WorkOK(q)'
      BY <3>1 DEF WorkOK
    <3>3. Passed(proc[q].pc, proc[q].missing, e)
      BY PassedImproves DEF IInv, CommandOK
    <3>4. proc[q].pc = "initialised" => Upgraded(e.tables)
      BY DEF IInv, CommandOK, Improves
    <3>5. CommandOK(q)'
      BY <1>1, <3>1, <3>3, <3>4
      DEF CommandOK, Passed, Missing, Short, IntakeFits, RegistryFits, Upgraded
    <3> QED BY <3>2, <3>5
  <2> QED BY <2>1, <2>2
<1> QED BY <1>2, <1>3, <1>4, <1>5, <1>7, <1>8 DEF IInv

LEMMA CommitKeeps ==
  ASSUME IInv, NEW p \in Procs, Commit(p)
  PROVE  IInv'
<1> DEFINE e == proc[p].work
<1>1. TypeOK /\ WorkOK(p) /\ proc[p].pc = "validate" /\ Valid(e)
  BY DEF IInv, Commit, At
<1>2. holder = p /\ DatabaseOK(e) /\ e.new = Database.new /\ Reached("validate", e)
  BY <1>1 DEF WorkOK, Working
<1>3. DatabaseOK(Database)
  BY DEF IInv, TypeOK, Database
<1>4. Upgraded(e.tables) /\ Improves(Database, e)
  BY <1>1, <1>2, <1>3, ValidFacts
<1>5. /\ proc'[p].pc = "initialised" /\ proc' \in [Procs -> Calls]
      /\ \A q \in Procs \ {p} : proc'[q] = proc[q]
  BY <1>1 DEF Commit, TypeOK, Idle, Calls, Labels
<1> QED BY <1>1, <1>2, <1>4, <1>5, WriteStep DEF Commit, TypeOK

LEMMA RecordKeeps ==
  ASSUME IInv, NEW p \in Procs, Record(p)
  PROVE  IInv'
<1> DEFINE e == [Database EXCEPT !.new = "hashed"]
<1>1. TypeOK /\ DatabaseOK(Database) /\ readable
  BY DEF IInv, TypeOK, Database, Record
<1>2. disk' = [disk EXCEPT ![current] = e]
  BY DEF Record, Database
<1>3. /\ e.tables = Database.tables /\ e.residue = Database.residue /\ e.old = Database.old
      /\ e.request = Database.request /\ e.new = "hashed" /\ e \in Databases
  BY <1>1 DEF DatabaseOK, Databases, Rows
<1>4. DatabaseOK(e)
  BY <1>1, <1>3 DEF DatabaseOK
<1>5. Improves(Database, e)
  BY <1>3, SameTablesImprove
<1>6. /\ proc'[p].pc = "idle" /\ proc' \in [Procs -> Calls]
      /\ \A q \in Procs \ {p} : proc'[q] = proc[q]
  BY <1>1 DEF Record, TypeOK, Idle, Calls, Labels
<1> QED BY <1>1, <1>2, <1>3, <1>4, <1>5, <1>6, WriteStep DEF Record

-----------------------------------------------------------------------------
(* The page, and a file that is replaced                                   *)

LEMMA PageStepKeeps ==
  ASSUME IInv, NEW here, NEW next, PageStep(here, next), PageOK',
         next \in [pc : PageLabels, file : {0, 1, None}, opened : {0, 1, None},
                   missing : BOOLEAN, snapshot : Databases \cup {None}]
  PROVE  IInv'
<1>1. UNCHANGED <<origin, readable, disk, current, holder, proc, recorded>> /\ page' = next
  BY DEF PageStep
<1>2. TypeOK'
  BY <1>1 DEF IInv, TypeOK
<1>3. (\A f \in {0, 1} : DatabaseOK(disk[f]))' /\ OldOrNew'
      /\ (recorded => \E f \in {0, 1} : disk[f].new = "hashed")'
  BY <1>1 DEF IInv, DatabaseOK, OldOrNew, Upgraded
<1>4. ASSUME NEW q \in Procs PROVE WorkOK(q)' /\ CommandOK(q)'
  <2>1. WorkOK(q) /\ CommandOK(q) /\ Database' = Database
    BY <1>1 DEF IInv, Database
  <2> QED BY <1>1, <2>1 DEF WorkOK, DatabaseOK, Reached, CommandOK, Passed, Missing, Short,
                            IntakeFits, RegistryFits, Upgraded
<1> QED BY <1>2, <1>3, <1>4 DEF IInv

LEMMA SnapshotKeeps ==
  ASSUME IInv, Snapshot
  PROVE  IInv'
<1> DEFINE Pages == [pc : PageLabels, file : {0, 1, None}, opened : {0, 1, None},
                     missing : BOOLEAN, snapshot : Databases \cup {None}]
<1>1. /\ TypeOK /\ PageOK /\ page \in Pages /\ NoPage \in Pages /\ NoPage.pc = "idle"
      /\ Database \in Databases /\ current \in {0, 1}
  BY DEF IInv, TypeOK, NoPage, PageLabels, Database
<1>2. CASE PageIdentify
  <2> DEFINE next == [NoPage EXCEPT !.pc = "open", !.file = current]
  <2>1. next \in Pages /\ next.pc = "open" /\ next.file = current
    BY <1>1 DEF NoPage, PageLabels
  <2>2. PageOK'
    BY <1>1, <1>2, <2>1 DEF PageIdentify, PageStep, PageOK
  <2> QED BY <1>2, <2>1, <2>2, PageStepKeeps DEF PageIdentify
<1>3. CASE PageOpen
  <2> DEFINE next == [page EXCEPT !.pc = "columns", !.opened = current,
                                  !.missing = Missing(Database)]
  <2>1. /\ next \in Pages /\ next.pc = "columns" /\ next.file = page.file
        /\ next.opened = current /\ next.missing = Missing(Database)
    BY <1>1 DEF PageLabels, Missing
  <2>2. page.file \in {0, 1} /\ page.file <= current
    BY <1>1, <1>3 DEF PageOpen, PageStep, PageOK
  <2>3. PageOK'
    BY <1>1, <1>3, <2>1, <2>2 DEF PageOpen, PageStep, PageOK, Passed, Database, Missing
  <2> QED BY <1>3, <2>1, <2>3, PageStepKeeps DEF PageOpen
<1>4. ASSUME NEW here \in {"columns", "intake", "registered"},
             NEW next \in {"intake", "registered", "fits"}, NEW fits \in BOOLEAN,
             PageLook(here, next, fits),
             fits => Passed(next, page.missing, disk[page.opened])
      PROVE  IInv'
  <2> DEFINE q == IF fits THEN [page EXCEPT !.pc = next] ELSE NoPage
  <2>1. /\ q \in Pages
        /\ \/ q.pc = "idle"
           \/ /\ fits /\ q.pc = next /\ q.file = page.file /\ q.opened = page.opened
              /\ q.missing = page.missing
    BY <1>1, <1>4 DEF PageLabels
  <2>2. page' = q /\ page.pc = here /\ UNCHANGED <<disk, current>>
    BY <1>4 DEF PageLook, PageStep
  <2>3. /\ page.file \in {0, 1} /\ page.file <= current /\ page.opened \in {0, 1}
        /\ page.file <= page.opened /\ page.opened <= current
    BY <1>1, <2>2 DEF PageOK
  <2>4. PageOK'
    BY <1>4, <2>1, <2>2, <2>3
    DEF PageOK, Passed, Missing, Short, IntakeFits, RegistryFits
  <2> QED BY <1>4, <2>1, <2>4, PageStepKeeps DEF PageLook
<1>5. CASE PageColumns
  <2>1. page.pc = "columns"
    BY <1>5 DEF PageColumns, PageLook, PageStep
  <2>2. Passed("columns", page.missing, disk[page.opened])
    BY <1>1, <2>1 DEF PageOK
  <2>3. ~page.missing /\ ~Short(disk[page.opened])
          => Passed("intake", page.missing, disk[page.opened])
    BY <2>2 DEF Passed
  <2>4. (~page.missing /\ ~Short(disk[page.opened])) \in BOOLEAN
    OBVIOUS
  <2> QED BY <1>4, <1>5, <2>3, <2>4 DEF PageColumns
<1>6. CASE PageIntake
  <2>1. page.pc = "intake"
    BY <1>6 DEF PageIntake, PageLook, PageStep
  <2>2. Passed("intake", page.missing, disk[page.opened])
    BY <1>1, <2>1 DEF PageOK
  <2>3. IntakeFits(disk[page.opened]) => Passed("registered", page.missing, disk[page.opened])
    BY <2>2 DEF Passed
  <2>4. IntakeFits(disk[page.opened]) \in BOOLEAN
    BY DEF IntakeFits
  <2> QED BY <1>4, <1>6, <2>3, <2>4 DEF PageIntake
<1>7. CASE PageRegistry
  <2>1. page.pc = "registered"
    BY <1>7 DEF PageRegistry, PageLook, PageStep
  <2>2. Passed("registered", page.missing, disk[page.opened])
    BY <1>1, <2>1 DEF PageOK
  <2>3. RegistryFits(disk[page.opened]) => Passed("fits", page.missing, disk[page.opened])
    BY <2>2 DEF Passed
  <2>4. RegistryFits(disk[page.opened]) \in BOOLEAN
    BY DEF RegistryFits
  <2> QED BY <1>4, <1>7, <2>3, <2>4 DEF PageRegistry
<1>8. CASE PageBegin
  <2> DEFINE next == [page EXCEPT !.pc = "begun", !.snapshot = Database]
  <2>1. next \in Pages /\ next.pc = "begun" /\ next.file = page.file /\ next.snapshot = Database
    BY <1>1 DEF PageLabels
  <2>2. /\ page.pc = "fits" /\ UNCHANGED <<disk, current>>
        /\ page' = NoPage \/ page' = next
    BY <1>8 DEF PageBegin, PageStep
  <2>3. /\ page.file \in {0, 1} /\ page.file <= current /\ page.opened \in {0, 1}
        /\ page.file <= page.opened /\ page.opened <= current
        /\ Compatible(disk[page.opened])
    BY <1>1, <2>2, PassedAll DEF PageOK
  <2>4. page.file = current => page.opened = current /\ Compatible(Database)
    BY <1>1, <2>3 DEF Database
  <2>5. PageOK'
    BY <1>1, <2>1, <2>2, <2>3, <2>4
    DEF PageOK, Compatible, Missing, Short, IntakeFits, RegistryFits
  <2>6. PageStep("fits", NoPage) \/ PageStep("fits", next)
    BY <1>8 DEF PageBegin
  <2> QED BY <2>6, <1>1, <1>8, <2>1, <2>5, PageStepKeeps DEF PageBegin
<1>9. CASE PageVerify
  <2> DEFINE next == [page EXCEPT !.pc = "answered"]
  <2>1. next \in Pages /\ next.pc = "answered" /\ next.snapshot = page.snapshot
    BY <1>1 DEF PageLabels
  <2>2. page.pc = "begun" /\ page' = IF SameFile THEN next ELSE NoPage
    BY <1>9 DEF PageVerify, PageStep
  <2>3. SameFile => Compatible(page.snapshot)
    BY <1>1, <2>2 DEF PageOK, SameFile
  <2>4. PageOK'
    BY <1>1, <2>1, <2>2, <2>3 DEF PageOK, Compatible, Missing, Short, IntakeFits, RegistryFits
  <2> QED BY <1>1, <1>9, <2>1, <2>4, PageStepKeeps DEF PageVerify
<1>10. CASE PageDone
  <2>1. PageOK'
    BY <1>1, <1>10 DEF PageDone, PageStep, PageOK
  <2> QED BY <1>1, <1>10, <2>1, PageStepKeeps DEF PageDone
<1> QED BY <1>2, <1>3, <1>5, <1>6, <1>7, <1>8, <1>9, <1>10 DEF Snapshot

(* The copy is put in place while no command runs; a page that identified  *)
(* the file before that finds another one.                                 *)
LEMMA RestoreKeeps ==
  ASSUME IInv, Restore
  PROVE  IInv'
<1>1. /\ UNCHANGED <<origin, readable, disk, holder, proc, page, recorded>>
      /\ current = 0 /\ current' = 1 /\ \A p \in Procs : proc[p].pc = "idle"
  BY DEF Restore, At
<1>2. TypeOK'
  BY <1>1 DEF IInv, TypeOK
<1>3. (\A f \in {0, 1} : DatabaseOK(disk[f]))' /\ OldOrNew'
      /\ (recorded => \E f \in {0, 1} : disk[f].new = "hashed")'
  BY <1>1 DEF IInv, DatabaseOK, OldOrNew, Upgraded
<1>4. ASSUME NEW p \in Procs PROVE WorkOK(p)' /\ CommandOK(p)'
  BY <1>1 DEF WorkOK, CommandOK, Passed, Working
<1>5. PageOK'
  BY <1>1
  DEF IInv, PageOK, Passed, Missing, Short, IntakeFits, RegistryFits, Compatible
<1> QED BY <1>2, <1>3, <1>4, <1>5 DEF IInv

LEMMA UnchangedKeeps ==
  ASSUME IInv, UNCHANGED vars
  PROVE  IInv'
<1>1. UNCHANGED <<origin, readable, disk, current, holder, proc, page, recorded>>
  BY DEF vars
<1>2. TypeOK' /\ OldOrNew' /\ (\A f \in {0, 1} : DatabaseOK(disk[f]))'
      /\ (recorded => \E f \in {0, 1} : disk[f].new = "hashed")'
  BY <1>1 DEF IInv, TypeOK, OldOrNew, DatabaseOK, Upgraded
<1>3. ASSUME NEW p \in Procs PROVE WorkOK(p)' /\ CommandOK(p)'
  <2>1. WorkOK(p) /\ CommandOK(p) /\ Database' = Database
    BY <1>1 DEF IInv, Database
  <2> QED BY <1>1, <2>1 DEF WorkOK, DatabaseOK, Reached, CommandOK, Passed, Missing, Short,
                            IntakeFits, RegistryFits, Upgraded
<1>4. PageOK'
  BY <1>1 DEF IInv, PageOK, Passed, Missing, Short, IntakeFits, RegistryFits, Compatible
<1> QED BY <1>2, <1>3, <1>4 DEF IInv

-----------------------------------------------------------------------------
(* The theorems                                                            *)

LEMMA Inductive == IInv /\ [Next]_vars => IInv'
<1> SUFFICES ASSUME IInv, [Next]_vars PROVE IInv'
  OBVIOUS
<1>1. ASSUME NEW p \in Procs, Initialize(p) PROVE IInv'
  <2>1. CASE Begin(p)
    BY <2>1, BeginKeeps
  <2>2. CASE CreateMissing(p) \/ MigrateReviews(p) \/ MigrateRequests(p) \/ MigrateRegistry(p)
    BY <2>2, MigrationKeeps
  <2>3. CASE Commit(p)
    BY <2>3, CommitKeeps
  <2>4. CASE Refuse(p) \/ Break(p)
    <3>1. GiveUp(p) /\ proc[p].pc \in Working
      BY <2>4 DEF Refuse, Break, At, Working
    <3> QED BY <3>1, GiveUpKeeps
  <2> QED BY <1>1, <2>1, <2>2, <2>3, <2>4 DEF Initialize
<1>2. ASSUME NEW p \in Procs, Command(p) PROVE IInv'
  BY <1>2, LookKeeps, RecordKeeps DEF Command
<1>3. CASE UNCHANGED vars
  BY <1>3, UnchangedKeeps
<1> QED BY <1>1, <1>2, <1>3, SnapshotKeeps, RestoreKeeps DEF Next

LEMMA Invariant == Spec => []IInv
  BY Initially, Inductive, PTL DEF Spec

(* Whatever fails or dies in initialize, and however many processes run    *)
(* it, every database has its old schema or the whole new one.             *)
THEOREM OldOrNewCorrect == Spec => []OldOrNew
<1>1. IInv => OldOrNew
  BY DEF IInv
<1> QED BY <1>1, Invariant, PTL

(* No migration loses a row, leaves a review without a digest or undoes a  *)
(* review another command has recorded (_migrate_reviews_schema,           *)
(* _migrate_task_intake_schema).                                           *)
THEOREM RowsCorrect == Spec => []RowsSurvive
<1>1. IInv => RowsSurvive
  <2> SUFFICES ASSUME IInv PROVE RowsSurvive
    OBVIOUS
  <2>1. DOMAIN disk = {0, 1}
    BY DEF IInv, TypeOK
  <2>2. ASSUME NEW f \in {0, 1}
        PROVE /\ (disk[f].old = "none") = (origin.old = "none")
              /\ disk[f].request = origin.request
              /\ disk[f].old = "zeros" => ~readable
              /\ disk[f].tables.reviews = "current" => disk[f].old # "bare"
    BY DEF IInv, DatabaseOK
  <2> QED BY <2>1, <2>2 DEF IInv, RowsSurvive
<1> QED BY <1>1, Invariant, PTL

(* A command or a page is admitted to a compatible schema only             *)
(* (require_schema_compatible, snapshot).                                  *)
THEOREM AdmissionCorrect == Spec => []AdmittedIsCompatible
<1>1. IInv => AdmittedIsCompatible
  BY PassedAll DEF IInv, CommandOK, PageOK, AdmittedIsCompatible, At
<1> QED BY <1>1, Invariant, PTL

(* What init has accepted the next command accepts (initialize).           *)
THEOREM InitialisedCorrect == Spec => []InitialisedIsReady
<1>1. IInv => InitialisedIsReady
  <2> SUFFICES ASSUME IInv, NEW p \in Procs, At(p, "initialised"),
                      \A part \in Parts : origin.tables[part] # "short"
               PROVE Compatible(Database)
    BY DEF InitialisedIsReady
  <2>1. Upgraded(Database.tables)
    BY DEF IInv, CommandOK, At
  <2> QED BY <2>1, UpgradedFits
<1> QED BY <1>1, Invariant, PTL
=============================================================================
