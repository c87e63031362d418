----------------------------- MODULE Acceptance -----------------------------
(***************************************************************************)
(* Reviews and evidence of one task, and whether it shows as accepted:     *)
(* add_review, add_evidence (store.py), EvidenceManager (evidence.py), the *)
(* status of the CLI (service.py), and the task page of the dashboard      *)
(* (dashboard_read_model.py).                                              *)
(*                                                                         *)
(* The agent moves the HEAD of its worktree and edits the reviewed file    *)
(* without any lock, so everything read of them is old when it is used.    *)
(* Commits of the task's branch are numbers in order of ancestry; Recorded *)
(* is current_head_sha, the commit the task was based on, and commit 0 is  *)
(* an ancestor of it.                                                      *)
(***************************************************************************)
EXTENDS Naturals, FiniteSets

CONSTANTS Processes, Contents,
          MaxHead,     \* bound on the commits of the agent
          MaxRows,     \* bound on review and evidence rows
          NoProcess

ASSUME BoundsAssumption == MaxHead \in Nat /\ MaxHead > 1 /\ MaxRows \in Nat
ASSUME NoProcessAssumption == NoProcess \notin Processes

VARIABLES
  rows,     \* the reviews and the evidence rows
  index,    \* what evidence-index.json lists
  lock,     \* holder of the control lock
  head,     \* HEAD of the worktree
  file,     \* contents of the file that is reviewed and kept as evidence
  proc,     \* each process: its request, and what it has read
  seen      \* history: HEADs and contents since its request began

reality == <<head, file>>
vars == <<rows, index, lock, reality, proc, seen>>

Recorded == 1
Commits == 0 .. MaxHead
Dispositions == {"ACCEPT", "MODIFY"}
Row(kind, source, hash) == [kind |-> kind, source |-> source, hash |-> hash]
NoRow == Row("none", 0, CHOOSE content \in Contents : TRUE)
Kinds == Dispositions \cup {"evidence"}

Idle == [pc |-> "idle", row |-> NoRow, head |-> Recorded, left |-> {}, good |-> {}]

Init ==
  /\ rows = {} /\ index = {}
  /\ lock = NoProcess
  /\ head = Recorded
  /\ file \in Contents
  /\ proc = [p \in Processes |-> Idle]
  /\ seen = [p \in Processes |-> [heads |-> {}, files |-> {}]]

-----------------------------------------------------------------------------
(* The agent                                                               *)

Notice == seen' = [p \in Processes |->
  IF proc[p].pc = "idle" THEN seen[p]
  ELSE [heads |-> seen[p].heads \cup {head'}, files |-> seen[p].files \cup {file'}]]

MoveHead ==
  /\ head' \in Commits \ {0, head} /\ UNCHANGED file
  /\ Notice
  /\ UNCHANGED <<rows, index, lock, proc>>

Edit ==
  /\ file' \in Contents \ {file} /\ UNCHANGED head
  /\ Notice
  /\ UNCHANGED <<rows, index, lock, proc>>

-----------------------------------------------------------------------------
Begins(p, request) ==
  /\ proc[p].pc = "idle"
  /\ proc' = [proc EXCEPT ![p] = request]
  /\ seen' = [seen EXCEPT ![p] = [heads |-> {head}, files |-> {file}]]
  /\ UNCHANGED reality

Ends(p) ==
  /\ proc' = [proc EXCEPT ![p] = Idle]
  /\ seen' = [seen EXCEPT ![p] = [heads |-> {}, files |-> {}]]
  /\ UNCHANGED reality

Goes(p, request) ==
  /\ proc' = [proc EXCEPT ![p] = request]
  /\ UNCHANGED <<reality, seen>>

Lock(p) == lock = NoProcess /\ lock' = p
(* Faulty variant: the lock is not given back.                             *)
UnlockForgotten(p) == lock = p /\ UNCHANGED lock
Unlock(p) == lock = p /\ lock' = NoProcess

(* _validate_source_commit against a target: an ancestor of it, and the    *)
(* target itself for an ACCEPT.  Faulty variant: an ancestor will do.      *)
ValidAncestor(row, target) == row.source <= target
Valid(row, target) ==
  /\ row.source <= target
  /\ row.kind = "ACCEPT" => row.source = target

-----------------------------------------------------------------------------
(* add_review: one transaction, in which the report is hashed first and    *)
(* the source commit checked then.                                         *)
BeginReview(p, disposition, source) ==
  /\ Cardinality(rows) < MaxRows
  /\ Begins(p, [Idle EXCEPT !.pc = "insert", !.row = Row(disposition, source, file)])
  /\ Lock(p)
  /\ UNCHANGED <<rows, index>>

(* EvidenceManager.record hashes the file before it asks for the lock.     *)
BeginEvidence(p, source) ==
  /\ Begins(p, [Idle EXCEPT !.pc = "record", !.row = Row("evidence", source, file)])
  /\ UNCHANGED <<rows, index, lock>>

(* add_evidence hashes it again; faulty variant: it does not.              *)
HashTrusted(row) == TRUE
HashHolds(row) == row.hash = file

LockEvidence(p) ==
  /\ proc[p].pc = "record" /\ Cardinality(rows) < MaxRows
  /\ IF HashHolds(proc[p].row)
       THEN /\ Lock(p)
            /\ proc' = [proc EXCEPT ![p].pc = "insert"]
            /\ seen' = [seen EXCEPT ![p] = [heads |-> {head}, files |-> {file}]]
            /\ UNCHANGED reality
       ELSE lock = NoProcess /\ UNCHANGED lock /\ Ends(p)
  /\ UNCHANGED <<rows, index>>

Insert(p) ==
  /\ proc[p].pc = "insert"
  /\ rows' = IF Valid(proc[p].row, Recorded) THEN rows \cup {proc[p].row} ELSE rows
  /\ Unlock(p) /\ Ends(p)
  /\ UNCHANGED index

-----------------------------------------------------------------------------
(* status of the CLI: rows, HEAD and files under the lock, one after the   *)
(* other.  Faulty variant: the recorded HEAD is taken for the actual one.  *)
ActualHeadRecorded == Recorded
ActualHead == head

BeginStatus(p) ==
  /\ Begins(p, [Idle EXCEPT !.pc = "status", !.head = ActualHead, !.left = rows])
  /\ Lock(p)
  /\ UNCHANGED <<rows, index>>

(* review_stale_reasons and evidence_stale_reasons of one row.             *)
Effective(row, target) == Valid(row, target) /\ row.hash = file

CheckRow(p, row) ==
  /\ proc[p].pc = "status" /\ row \in proc[p].left
  /\ Goes(p, [proc[p] EXCEPT !.left = @ \ {row},
                !.good = IF Effective(row, proc[p].head) THEN @ \cup {row} ELSE @])
  /\ UNCHANGED <<rows, index, lock>>

(* valid_acceptance: an ACCEPT among the reviews that are effective.       *)
Answer(p, told, effective) ==
  Goes(p, [proc[p] EXCEPT !.pc = told, !.good = {row \in effective : row.kind = "ACCEPT"}])

EndStatus(p) ==
  /\ proc[p].pc = "status" /\ proc[p].left = {}
  /\ Answer(p, "told status", proc[p].good)
  /\ Unlock(p)
  /\ UNCHANGED <<rows, index>>

(* The task page: HEADs first, then one snapshot of the rows, no lock and  *)
(* no hashes.                                                              *)
BeginPage(p) ==
  /\ Begins(p, [Idle EXCEPT !.pc = "page", !.head = head])
  /\ UNCHANGED <<rows, index, lock>>

(* Faulty variant: a review is compared with the recorded HEAD alone.      *)
FreshByRecord(row, actual) == row.source = Recorded
Fresh(row, actual) == row.source = Recorded /\ row.source = actual

EndPage(p) ==
  /\ proc[p].pc = "page"
  /\ Answer(p, "told page", {row \in rows : Fresh(row, proc[p].head)})
  /\ UNCHANGED <<rows, index, lock>>

Return(p) ==
  /\ proc[p].pc \in {"told status", "told page"}
  /\ Ends(p)
  /\ UNCHANGED <<rows, index, lock>>

-----------------------------------------------------------------------------
(* write_summary: no lock; every file is hashed again, then the index is   *)
(* replaced.  Faulty variant: a file that has changed is listed all the    *)
(* same.                                                                   *)
BeginIndex(p) ==
  /\ Begins(p, [Idle EXCEPT !.pc = "index", !.left = {row \in rows : row.kind = "evidence"}])
  /\ UNCHANGED <<rows, index, lock>>

MatchesIgnored(row) == row.hash \in Contents
Matches(row) == row.hash = file

CheckEvidence(p, row) ==
  /\ proc[p].pc = "index" /\ row \in proc[p].left
  /\ IF Matches(row)
       THEN Goes(p, [proc[p] EXCEPT !.left = @ \ {row}, !.good = @ \cup {row}])
       ELSE Ends(p)
  /\ UNCHANGED <<rows, index, lock>>

WriteIndex(p) ==
  /\ proc[p].pc = "index" /\ proc[p].left = {}
  /\ index' = proc[p].good
  /\ Ends(p)
  /\ UNCHANGED <<rows, lock>>

Next ==
  \/ MoveHead \/ Edit
  \/ \E p \in Processes :
       \/ \E d \in Dispositions, source \in Commits : BeginReview(p, d, source)
       \/ \E source \in Commits : BeginEvidence(p, source)
       \/ LockEvidence(p) \/ Insert(p)
       \/ BeginStatus(p) \/ EndStatus(p)
       \/ BeginPage(p) \/ EndPage(p) \/ Return(p)
       \/ BeginIndex(p) \/ WriteIndex(p)
       \/ \E row \in rows : CheckRow(p, row) \/ CheckEvidence(p, row)

Spec == Init /\ [][Next]_vars

-----------------------------------------------------------------------------
Rows == [kind : Kinds, source : Commits, hash : Contents]

TypeOK ==
  /\ rows \subseteq Rows /\ Cardinality(rows) <= MaxRows /\ index \subseteq rows
  /\ lock \in Processes \cup {NoProcess}
  /\ head \in Commits /\ file \in Contents
  /\ \A p \in Processes :
       /\ proc[p].pc \in {"idle", "insert", "record", "status", "page", "index",
                         "told status", "told page"}
       /\ proc[p].pc \in {"insert", "status"} <=> lock = p
       /\ proc[p].good \cup proc[p].left \subseteq rows

(* "HEAD_DRIFT is never disguised as a valid acceptance": whoever is told  *)
(* that the task is accepted was told so of an ACCEPT review of the commit *)
(* on record, and that commit was HEAD of the worktree at some time while  *)
(* the answer was being made; the CLI's answer also means that the report  *)
(* had the reviewed contents then.  (All variables are of their types.)    *)
AcceptanceObserved ==
  /\ TypeOK
  /\ \A p \in Processes :
       proc[p].pc \in {"told status", "told page"} /\ proc[p].good # {} =>
         \E row \in proc[p].good :
           /\ row.source = Recorded /\ row.source \in seen[p].heads
           /\ proc[p].pc = "told status" => row.hash \in seen[p].files

(* What a row says of the file was so while its own transaction had the    *)
(* lock, although the file was first read outside, and its source commit   *)
(* is one that the task builds on.                                         *)
RowsObserved ==
  [][\A row \in rows' \ rows :
       \E p \in Processes : lock = p /\ row.hash \in seen[p].files /\ row.source <= Recorded]_vars

(* The index lists nothing whose file did not have the recorded contents   *)
(* at some time while the index was being made.                            *)
IndexObserved ==
  [][index' # index =>
       \E p \in Processes : \A row \in index' : row.hash \in seen[p].files]_vars
=============================================================================
