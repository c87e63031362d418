-------------------------- MODULE ProjectSnapshot ---------------------------
(***************************************************************************)
(* The card of one registered project (ProjectSnapshotReader.snapshot in   *)
(* team_control/project_registry.py): the reader takes no lock of the      *)
(* target.  It looks at the registered directory, fingerprints the         *)
(* database file and its write-ahead log, copies them one after the other, *)
(* queries the copy, and looks at everything again, while the target's own *)
(* processes commit, checkpoint and truncate the log and while the         *)
(* directory may be moved away or replaced.                                *)
(*                                                                         *)
(* A file is what it holds, which is what a digest tells.  The metadata    *)
(* the code compares as well (inode, size, mtime) need not betray a change *)
(* (sizes repeat, the clock of a file system is coarse) but may do so:     *)
(* where something has changed since the reading began, comparing metadata *)
(* may fail.  The database file holds the commits up to `low` surely and   *)
(* up to `high` partly; the log holds the commits after `base` up to       *)
(* `last`, and takes the room of `size` commits, since it is not shortened *)
(* when it is started anew.  There is no rollback journal in WAL mode.     *)
(***************************************************************************)
EXTENDS Naturals, Sequences

CONSTANTS MaxCommits,   \* bound on commits of the target
          Budget,       \* MAX_TARGET_SNAPSHOT_BYTES, in commits
          Absent        \* a file that does not exist

Images == [low : Nat, high : Nat]
Logs == [base : Nat, last : Nat, size : Nat]
Heads == {"answers", "refuses", "fails"}

ASSUME CommitsAssumption == MaxCommits \in Nat
ASSUME BudgetAssumption == Budget \in Nat
ASSUME AbsentAssumption == Absent \notin Images \cup Logs

VARIABLES
  db, log,     \* the target's files: Absent or what they hold
  commits,     \* commits of the target so far
  supported,   \* the commit that gave it a schema the reader supports
  home,        \* does the path still lead to the registered directory?
  phase,       \* what the reader is doing
  part,        \* what it has read in this phase
  before,      \* the first database_identity_snapshot
  summary,     \* the outcome of _read_control_summary
  card,        \* control_status and the state the counts are taken from
  since,       \* history: commits when the reader started
  missing,     \* history: the database was absent when the reader started
  calm,        \* history: nothing has changed or failed since then
  space,       \* history: there was room for the copy
  git          \* history: how the question for HEAD has ended

target == <<db, log, commits, supported>>
reader == <<phase, part, before, summary, card>>
history == <<since, missing, calm, space, git>>
snapshotVars == <<target, home, reader, history>>

Card(status, counts) == [status |-> status, counts |-> counts]
NoCard == Card("none", 0)

SnapshotInit ==
  /\ db = Absent /\ log = Absent /\ commits = 0 /\ home = TRUE
  /\ supported \in {0, MaxCommits + 1}
  /\ phase = "idle" /\ part = <<>> /\ before = <<>>
  /\ summary = NoCard /\ card = NoCard
  /\ since = 0 /\ missing = FALSE /\ calm = TRUE /\ space = TRUE /\ git = "answers"

-----------------------------------------------------------------------------
(* The target                                                              *)

(* initialize, of the current version or, where `supported` is never yet   *)
(* reached, of one whose tables the reader does not support.               *)
CreateDatabase ==
  /\ db = Absent
  /\ db' = [low |-> 0, high |-> 0]
  /\ UNCHANGED <<log, commits, supported>>

(* A log that has been copied back completely is started anew, over its    *)
(* old contents.                                                           *)
Appended ==
  LET base == IF log = Absent \/ db.low = commits THEN commits ELSE log.base IN
  [base |-> base, last |-> commits + 1,
   size |-> IF log # Absent /\ log.size > commits + 1 - base THEN log.size
                                                            ELSE commits + 1 - base]

(* A transaction appends its pages to the log.  It may be the one that     *)
(* brings the schema up to date.                                           *)
Commit ==
  /\ db # Absent /\ commits < MaxCommits
  /\ commits' = commits + 1
  /\ log' = Appended
  /\ supported' = supported \/ (supported > commits /\ supported' = commits + 1)
  /\ UNCHANGED db

(* A checkpoint copies the pages of the log into the database: first some, *)
(* then all of them.                                                       *)
Checkpoint ==
  /\ log # Absent /\ db.low < log.last
  /\ db' = IF db.high < log.last THEN [db EXCEPT !.high = log.last]
                                 ELSE [db EXCEPT !.low = log.last]
  /\ UNCHANGED <<log, commits, supported>>

(* The last connection closes: a log that is copied back is deleted.       *)
CloseLast ==
  /\ log # Absent /\ db.low = log.last
  /\ log' = Absent
  /\ UNCHANGED <<db, commits, supported>>

Target ==
  /\ CreateDatabase \/ Commit \/ Checkpoint \/ CloseLast
  /\ calm' = FALSE
  /\ UNCHANGED <<home, reader, since, missing, space, git>>

(* Somebody moves the registered directory away; a directory of another    *)
(* project may then be found at its path.                                  *)
Move ==
  /\ home
  /\ home' = FALSE
  /\ calm' = FALSE
  /\ UNCHANGED <<target, reader, since, missing, space, git>>

(* A system call of the reader fails: from then on any look, read or       *)
(* comparison may, as where something has changed.                         *)
Trouble ==
  /\ phase # "idle" /\ calm
  /\ calm' = FALSE
  /\ UNCHANGED <<target, home, reader, since, missing, space, git>>

-----------------------------------------------------------------------------
(* The reader                                                              *)

(* What another project's files would show.                                *)
Foreign == [low |-> MaxCommits + 2, high |-> MaxCommits + 2]
Db == IF home THEN db ELSE Foreign
Log == IF home THEN log ELSE Absent

(* _snapshot_input_fingerprint and _local_database_snapshot look at both   *)
(* files, read both, and look at both again.  A file that was not there at *)
(* the first look is not read.                                             *)
Look == <<"look db", "look log", "read db", "read log", "look db", "look log">>

Observe(what) ==
  CASE what = "look db"  -> Db # Absent
    [] what = "look log" -> Log # Absent
    [] what = "read db"  -> IF part[1] THEN Db ELSE Absent
    [] what = "read log" -> IF part[2] THEN Log ELSE Absent

Complete == Len(part) = Len(Look)

(* Nothing that the code compares within one part has changed.             *)
Steady ==
  /\ part[1] = part[5] /\ part[2] = part[6]
  /\ part[1] = (part[3] # Absent) /\ part[2] = (part[4] # Absent)

(* The size budget.  The files of another project may well keep to it.     *)
Fits(d, l) == d = Foreign \/ d.high + (IF l = Absent THEN 0 ELSE l.size) <= Budget

Readable == part[1] /\ Steady /\ Fits(part[3], part[4])

(* What stands for the contents of the files in a fingerprint: digests.    *)
(* Faulty variant: metadata alone, that need not betray a change.          *)
DigestsSkipped == <<part[1], part[2]>>
Digests == <<part[3], part[4]>>

(* _database_identity_snapshot: ("MISSING",), ("UNAVAILABLE",) or          *)
(* ("PRESENT", ..., fingerprint).                                          *)
DatabaseIdentity ==
  IF ~part[1] THEN {<<"MISSING">>}
  ELSE (IF Readable /\ calm THEN {} ELSE {<<"UNAVAILABLE">>})
         \cup (IF Readable THEN {<<"PRESENT", Digests>>} ELSE {})

(* What SQLite makes of a database and a log.  Pages that are in the log   *)
(* hide those of the database; if the two do not belong together it may    *)
(* complain or read a state that never was.  Faulty variant: the log is    *)
(* not copied along.                                                       *)
Garbage == MaxCommits + 1
DecodeDatabase(base, over) ==
  IF base.low = base.high THEN base.low ELSE Garbage
Decode(base, over) ==
  IF over = Absent
    THEN IF base.low = base.high THEN base.low ELSE Garbage
    ELSE IF base.low >= over.base /\ base.high <= over.last
           THEN over.last ELSE Garbage

(* _validate_target_schema and _task_summary of what the copy decodes to.  *)
(* Garbage, or another project's state, may pass for a supported one.      *)
Summaries(state) ==
  (IF state < supported THEN {} ELSE {Card("HEALTHY", state)})
    \cup (IF state \in supported .. MaxCommits THEN {} ELSE {Card("UNSUPPORTED", 0)})

(* _read_control_summary, with or without local room for the copy.         *)
ControlSummary(room) ==
  (IF Readable /\ room /\ calm THEN {} ELSE {Card("UNAVAILABLE", 0)})
    \cup (IF Readable /\ room THEN Summaries(Decode(part[3], part[4])) ELSE {})

-----------------------------------------------------------------------------
(* snapshot(): a directory that is not the registered one ends it here.    *)
Start ==
  /\ phase = "idle"
  /\ since' = commits
  /\ missing' = (db = Absent)
  /\ calm' = TRUE /\ space' = TRUE /\ git' = "answers"
  /\ IF home THEN phase' = "before" /\ card' = NoCard
             ELSE phase' = phase /\ card' = Card("IDENTITY_MISMATCH", 0)
  /\ UNCHANGED <<target, home, part, before, summary>>

Read ==
  /\ phase \notin {"idle", "head"} /\ ~Complete
  /\ part' = Append(part, Observe(Look[Len(part) + 1]))
  /\ UNCHANGED <<target, home, phase, before, summary, card, history>>

(* database_before is known: only a database that is PRESENT is read.      *)
(* Faulty variant: it is not read at all.                                  *)
FingerprintedUnread ==
  /\ phase = "before" /\ Complete
  /\ before' \in DatabaseIdentity
  /\ summary' = summary
  /\ phase' = "head"
  /\ part' = <<>>
  /\ UNCHANGED <<target, home, card, history>>
Fingerprinted ==
  /\ phase = "before" /\ Complete
  /\ before' \in DatabaseIdentity
  /\ \/ before'[1] = "MISSING" /\ phase' = "head" /\ summary' = Card("UNINITIALIZED", 0)
     \/ before'[1] = "UNAVAILABLE" /\ phase' = "head" /\ summary' = Card("UNAVAILABLE", 0)
     \/ before'[1] = "PRESENT" /\ phase' = "copy" /\ summary' = summary
  /\ part' = <<>>
  /\ UNCHANGED <<target, home, card, history>>

Copied ==
  /\ phase = "copy" /\ Complete
  /\ space' \in BOOLEAN
  /\ summary' \in ControlSummary(space')
  /\ phase' = "head"
  /\ part' = <<>>
  /\ UNCHANGED <<target, home, before, card, since, missing, calm, git>>

Finish(shown) ==
  /\ card' = shown
  /\ phase' = "idle" /\ part' = <<>> /\ before' = <<>> /\ summary' = NoCard
  /\ UNCHANGED <<target, home, since, missing, calm, space>>

(* HEAD is asked for: Git may answer, refuse (GitStateError), or fail      *)
(* (OSError, a time limit).  If it has answered, the directory is          *)
(* identified again.                                                       *)
Identified ==
  /\ phase = "head"
  /\ git' \in Heads
  /\ \/ git' = "refuses" /\ Finish(Card("IDENTITY_MISMATCH", 0))
     \/ git' = "fails" /\ Finish(Card("UNAVAILABLE", 0))
     \/ git' = "answers" /\ ~home /\ Finish(Card("IDENTITY_MISMATCH", 0))
     \/ /\ git' = "answers" /\ home
        /\ phase' = "after"
        /\ UNCHANGED <<target, home, part, before, summary, card, since, missing, calm, space>>

(* database_after is known, and compared with database_before.  Faulty     *)
(* variant: only the directory is compared.                                *)
UnchangedTrusted(after) == after[1] = before[1]
Unchanged(after) == after = before

Publish ==
  /\ phase = "after" /\ Complete
  /\ \E after \in DatabaseIdentity :
       \/ Unchanged(after) /\ Finish(summary)
       \/ /\ ~Unchanged(after) \/ ~calm
          /\ Finish(Card("IDENTITY_MISMATCH", 0))
  /\ UNCHANGED git

Reader == Start \/ Read \/ Fingerprinted \/ Copied \/ Identified \/ Publish

SnapshotNext == Target \/ Move \/ Trouble \/ Reader

SnapshotSpec == SnapshotInit /\ [][SnapshotNext]_snapshotVars

-----------------------------------------------------------------------------
Statuses == {"none", "HEALTHY", "UNINITIALIZED", "UNAVAILABLE", "UNSUPPORTED",
             "IDENTITY_MISMATCH"}

(* The files and the reader's records are well formed, and in the last two *)
(* phases the reader holds what it is going to compare and to show.        *)
SnapshotTypeOK ==
  /\ db \in Images \cup {Absent}
  /\ log \in Logs \cup {Absent}
  /\ commits \in Nat /\ since \in 0 .. commits
  /\ supported \in Nat /\ space \in BOOLEAN /\ git \in Heads
  /\ home \in BOOLEAN /\ missing \in BOOLEAN /\ calm \in BOOLEAN
  /\ phase \in {"idle", "before", "copy", "head", "after"}
  /\ Len(part) <= Len(Look)
  /\ card \in [status : Statuses, counts : Nat]
  /\ summary \in [status : Statuses, counts : Nat]
  /\ phase \in {"head", "after"} => before # <<>> /\ summary # NoCard

(* The counts on a HEALTHY card are those of one committed state of the    *)
(* registered project, of a schema that has what is counted, and it was    *)
(* current at some time during the reading: never a database and a log     *)
(* that do not belong together, never another project's.  A project shown  *)
(* as UNSUPPORTED or UNINITIALIZED was so when the reading began.  (All    *)
(* variables are of their types.)                                          *)
CardIsTrue ==
  /\ SnapshotTypeOK
  /\ card.status = "HEALTHY" => card.counts \in since .. commits /\ card.counts >= supported
  /\ card.status = "UNSUPPORTED" => since < supported
  /\ card.status = "UNINITIALIZED" => missing

(* A project that rests while nothing fails is shown as it is, whatever is *)
(* in its log and whatever in its database.  It is not shown for these     *)
(* reasons only: Git does not tell HEAD, the files are larger than the     *)
(* budget, there is no room for the copy, the schema is another.           *)
CalmIsShown ==
  LET readable == ~missing /\ Fits(db, log) /\ space IN
  (calm /\ home /\ card.status # "none") =>
    \/ git = "refuses" /\ card = Card("IDENTITY_MISMATCH", 0)
    \/ git = "fails" /\ card = Card("UNAVAILABLE", 0)
    \/ git = "answers" /\ missing /\ card = Card("UNINITIALIZED", 0)
    \/ git = "answers" /\ ~missing /\ ~readable /\ card = Card("UNAVAILABLE", 0)
    \/ git = "answers" /\ readable /\ commits < supported /\ card = Card("UNSUPPORTED", 0)
    \/ git = "answers" /\ readable /\ supported <= commits /\ card = Card("HEALTHY", commits)
=============================================================================
