-------------------------- MODULE AcceptanceProofs --------------------------
(***************************************************************************)
(* Proofs about Acceptance, for any processes and contents (finite or not) *)
(* and any bounds.  The invariant says of each process what it has         *)
(* established of HEAD, of the file and of its rows when it is where it    *)
(* is, in terms of what has been seen since its request began; and what    *)
(* has been seen only grows while the request lasts.                       *)
(***************************************************************************)
EXTENDS Acceptance, FiniteSetTheorems, TLAPS

Requests ==
  [pc : {"idle", "insert", "record", "status", "page", "index", "told status", "told page"},
   row : Rows \cup {NoRow}, head : Commits, left : SUBSET Rows, good : SUBSET Rows]
Sightings == [heads : SUBSET Commits, files : SUBSET Contents]

Told(row, s) == row.source = Recorded /\ row.source \in s.heads

(* What a request r that has seen s stands on.                             *)
Knows(r, s) ==
  /\ r.pc # "idle" => head \in s.heads /\ file \in s.files
  /\ r.pc \in {"insert", "record"} => r.row \in Rows
  /\ r.pc = "insert" => r.row.hash \in s.files /\ Cardinality(rows) < MaxRows
  /\ r.pc \in {"status", "page"} => r.head \in s.heads
  /\ r.pc = "status" => \A row \in r.good : Valid(row, r.head) /\ row.hash \in s.files
  /\ r.pc = "index" => \A row \in r.good : row.hash \in s.files
  /\ r.pc = "told status" => \A row \in r.good : Told(row, s) /\ row.hash \in s.files
  /\ r.pc = "told page" => \A row \in r.good : Told(row, s)

IInv ==
  /\ TypeOK
  /\ IsFiniteSet(rows)
  /\ proc \in [Processes -> Requests] /\ seen \in [Processes -> Sightings]
  /\ \A row \in rows : Valid(row, Recorded)
  /\ \A p \in Processes : Knows(proc[p], seen[p])

LEMMA IdleTyped ==
  /\ Idle \in Requests /\ Idle.pc = "idle" /\ Idle.row = NoRow /\ Idle.head = Recorded
  /\ Idle.left = {} /\ Idle.good = {}
<1>1. Recorded \in Commits
  BY BoundsAssumption DEF Recorded, Commits
<1> QED
  BY <1>1 DEF Idle, Requests

-----------------------------------------------------------------------------
(* A step in which process p turns to request r, having seen s.            *)
Turns(p, r, s) ==
  /\ proc' = [proc EXCEPT ![p] = r] /\ seen' = [seen EXCEPT ![p] = s]
  /\ UNCHANGED reality

LEMMA StepKeeps ==
  ASSUME IInv, NEW p \in Processes, NEW r \in Requests, NEW s \in Sightings, Turns(p, r, s),
         rows' = rows \/ lock = p,
         rows \subseteq rows', rows' \subseteq Rows, IsFiniteSet(rows'), Cardinality(rows') <= MaxRows,
         \A row \in rows' : Valid(row, Recorded), index' \subseteq rows',
         \/ lock' = lock
         \/ lock = NoProcess /\ lock' = p
         \/ lock = p /\ lock' = NoProcess,
         r.pc \in {"insert", "status"} <=> lock' = p,
         r.good \cup r.left \subseteq rows',
         Knows(r, s)'
  PROVE  IInv'
<1>0. /\ TypeOK /\ proc \in [Processes -> Requests] /\ seen \in [Processes -> Sightings]
      /\ NoProcess \notin Processes
  BY NoProcessAssumption DEF IInv
<1>1. /\ proc' \in [Processes -> Requests] /\ seen' \in [Processes -> Sightings]
      /\ proc'[p] = r /\ seen'[p] = s /\ head' = head /\ file' = file
      /\ \A q \in Processes \ {p} : proc'[q] = proc[q] /\ seen'[q] = seen[q]
  BY <1>0 DEF Turns, reality
<1>2. ASSUME NEW q \in Processes PROVE Knows(proc[q], seen[q])'
  <2>1. CASE q = p
    BY <1>1, <2>1 DEF Knows
  <2>2. CASE q # p
    <3>1. rows' = rows \/ proc[q].pc # "insert"
      BY <1>0, <2>2 DEF TypeOK
    <3>2. Knows(proc[q], seen[q])
      BY DEF IInv
    <3> QED
      BY <1>1, <2>2, <3>1, <3>2 DEF Knows
  <2> QED
    BY <2>1, <2>2
<1>3. TypeOK'
  <2>1. head' \in Commits /\ file' \in Contents /\ lock' \in Processes \cup {NoProcess}
    BY <1>0, <1>1 DEF TypeOK
  <2>2. ASSUME NEW q \in Processes
        PROVE  /\ proc'[q].pc \in {"idle", "insert", "record", "status", "page", "index",
                                  "told status", "told page"}
               /\ proc'[q].pc \in {"insert", "status"} <=> lock' = q
               /\ proc'[q].good \cup proc'[q].left \subseteq rows'
    <3>1. CASE q = p
      BY <1>1, <3>1 DEF Requests
    <3>2. CASE q # p
      BY <1>0, <1>1, <3>2 DEF TypeOK
    <3> QED
      BY <3>1, <3>2
  <2> QED
    BY <2>1, <2>2 DEF TypeOK
<1> QED
  BY <1>1, <1>2, <1>3 DEF IInv

(* Such a step that adds no row.                                           *)
LEMMA ReadKeeps ==
  ASSUME IInv, NEW p \in Processes, NEW r \in Requests, NEW s \in Sightings, Turns(p, r, s),
         rows' = rows, index' \subseteq rows,
         \/ lock' = lock
         \/ lock = NoProcess /\ lock' = p
         \/ lock = p /\ lock' = NoProcess,
         r.pc \in {"insert", "status"} <=> lock' = p,
         r.good \cup r.left \subseteq rows,
         Knows(r, s)'
  PROVE  IInv'
<1>1. /\ rows' \subseteq Rows /\ IsFiniteSet(rows') /\ Cardinality(rows') <= MaxRows
      /\ \A row \in rows' : Valid(row, Recorded)
  BY DEF IInv, TypeOK
<1> QED
  BY <1>1, StepKeeps

(* A request begins, ends or goes on.                                      *)
LEMMA BeginKeeps ==
  ASSUME IInv, NEW p \in Processes, NEW r \in Requests, Begins(p, r),
         UNCHANGED <<rows, index>>, lock' = lock \/ (lock = NoProcess /\ lock' = p),
         r.pc \in {"insert", "status"} <=> lock' = p,
         r.pc \in {"insert", "record", "status", "page", "index"},
         r.pc \in {"insert", "record"} => r.row \in Rows,
         r.pc = "insert" => r.row.hash = file /\ Cardinality(rows) < MaxRows,
         r.pc \in {"status", "page"} => r.head = head,
         r.good = {}, r.left \subseteq rows
  PROVE  IInv'
<1>1. PICK s \in Sightings : s.heads = {head} /\ s.files = {file} /\ Turns(p, r, s)
  <2>1. [heads |-> {head}, files |-> {file}] \in Sightings
    BY DEF IInv, TypeOK, Sightings
  <2>2. Turns(p, r, [heads |-> {head}, files |-> {file}])
    BY DEF Begins, Turns
  <2> QED
    BY <2>1, <2>2
<1>2. head' = head /\ file' = file /\ index \subseteq rows
  BY DEF Begins, reality, IInv, TypeOK
<1>3. Knows(r, s)'
  BY <1>1, <1>2 DEF Knows
<1> QED
  BY <1>1, <1>2, <1>3, ReadKeeps

LEMMA EndTurns ==
  ASSUME NEW p \in Processes, Ends(p)
  PROVE  \E s \in Sightings : Turns(p, Idle, s) /\ Knows(Idle, s)'
<1> DEFINE s == [heads |-> {}, files |-> {}]
<1>1. s \in Sightings /\ Turns(p, Idle, s)
  BY DEF Sightings, Ends, Turns
<1>2. Knows(Idle, s)'
  BY IdleTyped DEF Knows
<1> QED
  BY <1>1, <1>2

LEMMA EndKeeps ==
  ASSUME IInv, NEW p \in Processes, Ends(p), rows' = rows, index' \subseteq rows,
         lock' # p, lock' = lock \/ (lock = p /\ lock' = NoProcess)
  PROVE  IInv'
<1>1. PICK s \in Sightings : Turns(p, Idle, s) /\ Knows(Idle, s)'
  BY EndTurns
<1> QED
  BY <1>1, IdleTyped, ReadKeeps

LEMMA GoKeeps ==
  ASSUME IInv, NEW p \in Processes, NEW r \in Requests, Goes(p, r),
         UNCHANGED <<rows, index>>, lock' = lock \/ (lock = p /\ lock' = NoProcess),
         r.pc \in {"insert", "status"} <=> lock' = p,
         r.good \cup r.left \subseteq rows, Knows(r, seen[p])
  PROVE  IInv'
<1>1. seen[p] \in Sightings /\ seen' = [seen EXCEPT ![p] = seen[p]] /\ index \subseteq rows
  BY DEF IInv, Goes, TypeOK
<1>2. Turns(p, r, seen[p]) /\ head' = head /\ file' = file
  BY <1>1 DEF Goes, Turns, reality
<1>3. \A s \in Sightings : Knows(r, s) => Knows(r, s)'
  BY <1>2 DEF Knows
<1>4. PICK s \in Sightings : s = seen[p]
  BY <1>1
<1> QED
  BY <1>1, <1>2, <1>3, <1>4, ReadKeeps

-----------------------------------------------------------------------------
(* The agent.                                                              *)
LEMMA AgentKeeps ==
  ASSUME IInv, MoveHead \/ Edit
  PROVE  IInv'
<1>0. /\ TypeOK /\ proc \in [Processes -> Requests] /\ seen \in [Processes -> Sightings]
      /\ UNCHANGED <<rows, index, lock, proc>> /\ Notice
      /\ head' \in Commits /\ file' \in Contents
  BY DEF IInv, MoveHead, Edit, TypeOK
<1>1. ASSUME NEW p \in Processes
      PROVE  /\ seen'[p] \in Sightings
             /\ seen[p].heads \subseteq seen'[p].heads /\ seen[p].files \subseteq seen'[p].files
             /\ proc[p].pc # "idle" => head' \in seen'[p].heads /\ file' \in seen'[p].files
  <2>1. seen'[p] = IF proc[p].pc = "idle" THEN seen[p]
          ELSE [heads |-> seen[p].heads \cup {head'}, files |-> seen[p].files \cup {file'}]
    BY <1>0 DEF Notice
  <2>2. seen[p] \in Sightings
    BY <1>0
  <2> QED
    BY <1>0, <2>1, <2>2 DEF Sightings
<1>2. seen' \in [Processes -> Sightings]
  <2>1. DOMAIN seen' = Processes /\ seen' = [p \in Processes |-> seen'[p]]
    BY <1>0 DEF Notice
  <2> QED
    BY <1>1, <2>1
<1>3. ASSUME NEW p \in Processes PROVE Knows(proc[p], seen[p])'
  <2>1. Knows(proc[p], seen[p])
    BY DEF IInv
  <2> QED
    BY <1>0, <1>1, <2>1 DEF Knows, Told
<1> QED
  BY <1>0, <1>2, <1>3 DEF IInv, TypeOK

-----------------------------------------------------------------------------
(* Reviews and evidence.                                                   *)
LEMMA RowTyped ==
  ASSUME NEW kind \in Kinds, NEW source \in Commits, NEW hash \in Contents
  PROVE  /\ Row(kind, source, hash) \in Rows /\ Row(kind, source, hash).hash = hash
  BY DEF Row, Rows

LEMMA WriteKeeps ==
  ASSUME IInv, NEW p \in Processes,
         \/ \E d \in Dispositions, source \in Commits : BeginReview(p, d, source)
         \/ \E source \in Commits : BeginEvidence(p, source)
         \/ LockEvidence(p)
  PROVE  IInv'
<1>0. /\ TypeOK /\ file \in Contents /\ head \in Commits /\ proc \in [Processes -> Requests]
      /\ index \subseteq rows /\ proc[p] \in Requests /\ Knows(proc[p], seen[p])
      /\ NoProcess \notin Processes
  BY NoProcessAssumption DEF IInv, TypeOK
<1>1. ASSUME NEW d \in Dispositions, NEW source \in Commits, BeginReview(p, d, source)
      PROVE  IInv'
  <2> DEFINE row == Row(d, source, file)
             r == [Idle EXCEPT !.pc = "insert", !.row = row]
  <2>1. row \in Rows /\ row.hash = file
    BY <1>0, RowTyped DEF Kinds
  <2>2. /\ Begins(p, r) /\ lock = NoProcess /\ lock' = p /\ UNCHANGED <<rows, index>>
        /\ Cardinality(rows) < MaxRows
    BY <1>1 DEF BeginReview, Lock
  <2> HIDE DEF row
  <2>3. r \in Requests /\ r.pc = "insert" /\ r.row = row /\ r.good = {} /\ r.left = {}
    BY <2>1, IdleTyped DEF Requests
  <2> HIDE DEF r
  <2> QED
    BY <2>1, <2>2, <2>3, BeginKeeps
<1>2. ASSUME NEW source \in Commits, BeginEvidence(p, source)
      PROVE  IInv'
  <2> DEFINE row == Row("evidence", source, file)
             r == [Idle EXCEPT !.pc = "record", !.row = row]
  <2>1. row \in Rows
    BY <1>0, RowTyped DEF Kinds
  <2>2. Begins(p, r) /\ UNCHANGED <<rows, index, lock>> /\ proc[p].pc = "idle"
    BY <1>2 DEF BeginEvidence, Begins
  <2>3. lock' # p
    BY <1>0, <2>2 DEF TypeOK
  <2> HIDE DEF row
  <2>4. r \in Requests /\ r.pc = "record" /\ r.row = row /\ r.good = {} /\ r.left = {}
    BY <2>1, IdleTyped DEF Requests
  <2> HIDE DEF r
  <2> QED
    BY <2>1, <2>2, <2>3, <2>4, BeginKeeps
<1>3. CASE LockEvidence(p)
  <2>0. proc[p].pc = "record" /\ Cardinality(rows) < MaxRows /\ UNCHANGED <<rows, index>>
        /\ lock = NoProcess /\ proc[p].row \in Rows
    BY <1>0, <1>3 DEF LockEvidence, Lock, Knows
  <2>1. CASE HashHolds(proc[p].row)
    <3> DEFINE ready == [proc[p] EXCEPT !.pc = "insert"]
    <3>1. /\ lock' = p /\ proc[p].row.hash = file /\ head' = head /\ file' = file
          /\ Turns(p, ready, [heads |-> {head}, files |-> {file}])
      BY <1>3, <2>1 DEF LockEvidence, Lock, Turns, HashHolds, reality
    <3>2. /\ ready \in Requests /\ ready.pc = "insert" /\ ready.row = proc[p].row
          /\ ready.good = proc[p].good /\ ready.left = proc[p].left
      BY <1>0 DEF Requests
    <3>3. [heads |-> {head}, files |-> {file}] \in Sightings
      BY <1>0 DEF Sightings
    <3> HIDE DEF ready
    <3>4. PICK r \in Requests, s \in Sightings :
            /\ Turns(p, r, s) /\ s.heads = {head} /\ s.files = {file}
            /\ r.pc = "insert" /\ r.row = proc[p].row
            /\ r.good = proc[p].good /\ r.left = proc[p].left
      BY <3>1, <3>2, <3>3
    <3>5. Knows(r, s)'
      BY <2>0, <3>1, <3>4 DEF Knows
    <3>6. r.good \cup r.left \subseteq rows
      BY <1>0, <3>4 DEF TypeOK
    <3> QED
      BY <1>0, <2>0, <3>1, <3>4, <3>5, <3>6, ReadKeeps
  <2>2. CASE ~HashHolds(proc[p].row)
    <3>1. Ends(p) /\ lock' = lock
      BY <1>3, <2>2 DEF LockEvidence
    <3> QED
      BY <1>0, <2>0, <3>1, EndKeeps
  <2> QED
    BY <2>1, <2>2
<1> QED
  BY <1>1, <1>2, <1>3

LEMMA InsertKeeps ==
  ASSUME IInv, NEW p \in Processes, Insert(p)
  PROVE  IInv'
<1> DEFINE row == proc[p].row
<1>0. /\ TypeOK /\ IsFiniteSet(rows) /\ Knows(proc[p], seen[p]) /\ NoProcess \notin Processes
      /\ proc[p].pc = "insert" /\ lock = p /\ lock' = NoProcess /\ Ends(p) /\ index' = index
      /\ \A o \in rows : Valid(o, Recorded)
  BY NoProcessAssumption DEF IInv, Insert, Unlock
<1>1. row \in Rows /\ Cardinality(rows) < MaxRows /\ MaxRows \in Nat
  BY <1>0, BoundsAssumption DEF Knows
<1>2. \/ rows' = rows
      \/ rows' = rows \cup {row} /\ Valid(row, Recorded)
  BY DEF Insert
<1>3. IsFiniteSet(rows \cup {row}) /\ Cardinality(rows \cup {row}) <= Cardinality(rows) + 1
  <2>1. /\ IsFiniteSet(rows \cup {row})
        /\ \/ Cardinality(rows \cup {row}) = Cardinality(rows)
           \/ Cardinality(rows \cup {row}) = Cardinality(rows) + 1
    BY <1>0, FS_AddElement
  <2>2. Cardinality(rows) \in Nat
    BY <1>0, FS_CardinalityType
  <2> QED
    BY <2>1, <2>2
<1>4. Cardinality(rows) \in Nat /\ Cardinality(rows \cup {row}) \in Nat
  BY <1>0, <1>3, FS_CardinalityType
<1>5. /\ rows \subseteq rows' /\ rows' \subseteq Rows /\ IsFiniteSet(rows')
      /\ Cardinality(rows') <= MaxRows
      /\ \A o \in rows' : Valid(o, Recorded)
  <2>0. rows \subseteq Rows /\ Cardinality(rows) <= MaxRows
    BY <1>0 DEF TypeOK
  <2>1. CASE rows' = rows
    BY <1>0, <2>0, <2>1
  <2>2. CASE rows' = rows \cup {row} /\ Valid(row, Recorded)
    <3>1. Cardinality(rows') <= MaxRows
      BY <1>1, <1>3, <1>4, <2>2
    <3>2. IsFiniteSet(rows')
      BY <1>3, <2>2
    <3>3. /\ rows \subseteq rows' /\ rows' \subseteq Rows
          /\ \A o \in rows' : o \in rows \/ o = row
      BY <1>1, <2>0, <2>2
    <3> QED
      BY <1>0, <2>2, <3>1, <3>2, <3>3
  <2> QED
    BY <1>2, <2>1, <2>2
<1>6. index' \subseteq rows'
  BY <1>0, <1>5 DEF TypeOK
<1>7. PICK s \in Sightings : Turns(p, Idle, s) /\ Knows(Idle, s)'
  BY <1>0, EndTurns
<1>8. Idle.good \cup Idle.left \subseteq rows' /\ Idle.pc \notin {"insert", "status"} /\ lock' # p
  BY <1>0, IdleTyped
<1> QED
  BY <1>0, <1>5, <1>6, <1>7, <1>8, IdleTyped, StepKeeps

-----------------------------------------------------------------------------
(* Answers: the status of the CLI and the task page.                       *)
LEMMA StatusKeeps ==
  ASSUME IInv, NEW p \in Processes,
         BeginStatus(p) \/ EndStatus(p) \/ \E row \in rows : CheckRow(p, row)
  PROVE  IInv'
<1>0. /\ TypeOK /\ head \in Commits /\ proc[p] \in Requests /\ Knows(proc[p], seen[p])
      /\ rows \subseteq Rows /\ index \subseteq rows /\ NoProcess \notin Processes
      /\ proc[p].good \subseteq rows /\ proc[p].left \subseteq rows
      /\ \A row \in rows : Valid(row, Recorded)
  BY NoProcessAssumption DEF IInv, TypeOK
<1>1. CASE BeginStatus(p)
  <2> DEFINE r == [Idle EXCEPT !.pc = "status", !.head = ActualHead, !.left = rows]
  <2>1. Begins(p, r) /\ lock = NoProcess /\ lock' = p /\ UNCHANGED <<rows, index>>
    BY <1>1 DEF BeginStatus, Lock
  <2>2. r \in Requests /\ r.pc = "status" /\ r.head = head /\ r.good = {} /\ r.left = rows
    BY <1>0, IdleTyped DEF Requests, ActualHead
  <2> HIDE DEF r
  <2> QED
    BY <2>1, <2>2, BeginKeeps
<1>2. ASSUME NEW row \in rows, CheckRow(p, row)
      PROVE  IInv'
  <2> DEFINE good == IF Effective(row, proc[p].head) THEN proc[p].good \cup {row} ELSE proc[p].good
             r == [proc[p] EXCEPT !.left = proc[p].left \ {row}, !.good = good]
  <2>1. /\ proc[p].pc = "status" /\ row \in proc[p].left /\ Goes(p, r)
        /\ UNCHANGED <<rows, index, lock>>
    BY <1>2 DEF CheckRow
  <2>2. lock = p /\ good \subseteq rows /\ good \subseteq Rows
    BY <1>0, <2>1 DEF TypeOK
  <2>3. \A o \in good : Valid(o, proc[p].head) /\ o.hash \in seen[p].files
    <3>1. \A o \in proc[p].good : Valid(o, proc[p].head) /\ o.hash \in seen[p].files
      BY <1>0, <2>1 DEF Knows
    <3>2. Effective(row, proc[p].head) => Valid(row, proc[p].head) /\ row.hash \in seen[p].files
      BY <1>0, <2>1 DEF Knows, Effective
    <3> QED
      BY <3>1, <3>2
  <2> HIDE DEF good
  <2>4. /\ r \in Requests /\ r.pc = "status" /\ r.head = proc[p].head /\ r.good = good
        /\ r.left \subseteq rows
    BY <1>0, <2>1, <2>2 DEF Requests
  <2> HIDE DEF r
  <2>5. Knows(r, seen[p])
    BY <1>0, <2>1, <2>3, <2>4 DEF Knows
  <2> QED
    BY <2>1, <2>2, <2>4, <2>5, GoKeeps
<1>3. CASE EndStatus(p)
  <2> DEFINE good == {row \in proc[p].good : row.kind = "ACCEPT"}
             r == [proc[p] EXCEPT !.pc = "told status", !.good = good]
  <2>1. /\ proc[p].pc = "status" /\ Goes(p, r) /\ UNCHANGED <<rows, index>>
        /\ lock = p /\ lock' = NoProcess
    BY <1>3 DEF EndStatus, Answer, Unlock
  <2>2. ASSUME NEW row \in good PROVE Told(row, seen[p]) /\ row.hash \in seen[p].files
    <3>1. /\ row.kind = "ACCEPT" /\ Valid(row, proc[p].head) /\ Valid(row, Recorded)
          /\ row.hash \in seen[p].files /\ proc[p].head \in seen[p].heads
      BY <1>0, <2>1 DEF Knows
    <3> QED
      BY <3>1 DEF Valid, Told
  <2>3. good \subseteq rows /\ good \subseteq Rows
    BY <1>0
  <2> HIDE DEF good
  <2>4. /\ r \in Requests /\ r.pc = "told status" /\ r.good = good /\ r.left = proc[p].left
    BY <1>0, <2>3 DEF Requests
  <2> HIDE DEF r
  <2>5. Knows(r, seen[p])
    BY <1>0, <2>1, <2>2, <2>4 DEF Knows
  <2> QED
    BY <1>0, <2>1, <2>3, <2>4, <2>5, GoKeeps
<1> QED
  BY <1>1, <1>2, <1>3

LEMMA PageKeeps ==
  ASSUME IInv, NEW p \in Processes, BeginPage(p) \/ EndPage(p) \/ Return(p)
  PROVE  IInv'
<1>0. /\ TypeOK /\ head \in Commits /\ proc[p] \in Requests /\ Knows(proc[p], seen[p])
      /\ rows \subseteq Rows /\ index \subseteq rows /\ NoProcess \notin Processes
      /\ proc[p].left \subseteq rows
  BY NoProcessAssumption DEF IInv, TypeOK
<1>1. CASE BeginPage(p)
  <2> DEFINE r == [Idle EXCEPT !.pc = "page", !.head = head]
  <2>1. Begins(p, r) /\ UNCHANGED <<rows, index, lock>> /\ lock' # p
    BY <1>0, <1>1 DEF BeginPage, Begins, TypeOK
  <2>2. r \in Requests /\ r.pc = "page" /\ r.head = head /\ r.good = {} /\ r.left = {}
    BY <1>0, IdleTyped DEF Requests
  <2> HIDE DEF r
  <2> QED
    BY <2>1, <2>2, BeginKeeps
<1>2. CASE EndPage(p)
  <2> DEFINE fresh == {row \in rows : Fresh(row, proc[p].head)}
             good == {row \in fresh : row.kind = "ACCEPT"}
             r == [proc[p] EXCEPT !.pc = "told page", !.good = good]
  <2>1. /\ proc[p].pc = "page" /\ Goes(p, r) /\ UNCHANGED <<rows, index, lock>> /\ lock' # p
    BY <1>0, <1>2 DEF EndPage, Answer, TypeOK
  <2>2. \A row \in good : Told(row, seen[p])
    BY <1>0, <2>1 DEF Knows, Fresh, Told
  <2>3. good \subseteq rows /\ good \subseteq Rows
    BY <1>0
  <2> HIDE DEF good
  <2>4. r \in Requests /\ r.pc = "told page" /\ r.good = good /\ r.left = proc[p].left
    BY <1>0, <2>3 DEF Requests
  <2> HIDE DEF r
  <2>5. Knows(r, seen[p])
    BY <1>0, <2>1, <2>2, <2>4 DEF Knows
  <2> QED
    BY <1>0, <2>1, <2>3, <2>4, <2>5, GoKeeps
<1>3. CASE Return(p)
  <2>1. Ends(p) /\ UNCHANGED <<rows, index, lock>> /\ lock # p
    BY <1>0, <1>3 DEF Return, TypeOK
  <2> QED
    BY <1>0, <2>1, EndKeeps
<1> QED
  BY <1>1, <1>2, <1>3

-----------------------------------------------------------------------------
(* The evidence index.                                                     *)
LEMMA IndexKeeps ==
  ASSUME IInv, NEW p \in Processes,
         BeginIndex(p) \/ WriteIndex(p) \/ \E row \in rows : CheckEvidence(p, row)
  PROVE  IInv'
<1>0. /\ TypeOK /\ proc[p] \in Requests /\ Knows(proc[p], seen[p])
      /\ rows \subseteq Rows /\ index \subseteq rows /\ NoProcess \notin Processes
      /\ proc[p].good \subseteq rows /\ proc[p].left \subseteq rows
  BY NoProcessAssumption DEF IInv, TypeOK
<1>1. CASE BeginIndex(p)
  <2> DEFINE left == {row \in rows : row.kind = "evidence"}
             r == [Idle EXCEPT !.pc = "index", !.left = left]
  <2>1. Begins(p, r) /\ UNCHANGED <<rows, index, lock>> /\ lock' # p
    BY <1>0, <1>1 DEF BeginIndex, Begins, TypeOK
  <2>2. left \subseteq rows /\ left \subseteq Rows
    BY <1>0
  <2> HIDE DEF left
  <2>3. r \in Requests /\ r.pc = "index" /\ r.good = {} /\ r.left = left
    BY <2>2, IdleTyped DEF Requests
  <2> HIDE DEF r
  <2> QED
    BY <2>1, <2>2, <2>3, BeginKeeps
<1>2. ASSUME NEW row \in rows, CheckEvidence(p, row)
      PROVE  IInv'
  <2>0. proc[p].pc = "index" /\ UNCHANGED <<rows, index, lock>> /\ lock # p
    BY <1>0, <1>2 DEF CheckEvidence, TypeOK
  <2>1. CASE Matches(row)
    <3> DEFINE good == proc[p].good \cup {row}
               r == [proc[p] EXCEPT !.left = proc[p].left \ {row}, !.good = good]
    <3>1. Goes(p, r)
      BY <1>2, <2>1 DEF CheckEvidence
    <3>2. \A o \in good : o.hash \in seen[p].files
      BY <1>0, <2>0, <2>1 DEF Knows, Matches
    <3>3. good \subseteq rows /\ good \subseteq Rows
      BY <1>0
    <3> HIDE DEF good
    <3>4. r \in Requests /\ r.pc = "index" /\ r.good = good /\ r.left \subseteq rows
      BY <1>0, <2>0, <3>3 DEF Requests
    <3> HIDE DEF r
    <3>5. Knows(r, seen[p])
      BY <1>0, <2>0, <3>2, <3>4 DEF Knows
    <3> QED
      BY <2>0, <3>1, <3>3, <3>4, <3>5, GoKeeps
  <2>2. CASE ~Matches(row)
    <3>1. Ends(p)
      BY <1>2, <2>2 DEF CheckEvidence
    <3> QED
      BY <1>0, <2>0, <3>1, EndKeeps
  <2> QED
    BY <2>1, <2>2
<1>3. CASE WriteIndex(p)
  <2>1. /\ Ends(p) /\ UNCHANGED <<rows, lock>> /\ lock # p /\ index' = proc[p].good
    BY <1>0, <1>3 DEF WriteIndex, TypeOK
  <2> QED
    BY <1>0, <2>1, EndKeeps
<1> QED
  BY <1>1, <1>2, <1>3

-----------------------------------------------------------------------------
(* The invariant and what follows from it.                                 *)
LEMMA Invariance == Spec => []IInv
<1>1. Init => IInv
  <2> SUFFICES ASSUME Init PROVE IInv
    OBVIOUS
  <2>1. Recorded \in Commits /\ NoProcess \notin Processes /\ MaxRows \in Nat
    BY BoundsAssumption, NoProcessAssumption DEF Recorded, Commits
  <2>2. proc \in [Processes -> Requests] /\ \A p \in Processes : proc[p] = Idle
    BY IdleTyped DEF Init
  <2>3. seen \in [Processes -> Sightings]
    BY DEF Init, Sightings
  <2>4. IsFiniteSet(rows) /\ Cardinality(rows) = 0 /\ rows = {} /\ index = {}
    BY FS_EmptySet DEF Init
  <2>5. TypeOK
    <3>1. head \in Commits /\ file \in Contents /\ lock = NoProcess
      BY <2>1 DEF Init
    <3>2. \A p \in Processes : proc[p].pc = "idle" /\ proc[p].good = {} /\ proc[p].left = {}
      BY <2>2, IdleTyped
    <3>3. rows \subseteq Rows /\ Cardinality(rows) <= MaxRows /\ index \subseteq rows
      BY <2>1, <2>4
    <3>4. ASSUME NEW p \in Processes
          PROVE  /\ proc[p].pc \in {"idle", "insert", "record", "status", "page", "index",
                                    "told status", "told page"}
                 /\ proc[p].pc \in {"insert", "status"} <=> lock = p
                 /\ proc[p].good \cup proc[p].left \subseteq rows
      BY <2>1, <3>1, <3>2
    <3> QED
      BY <3>1, <3>3, <3>4 DEF TypeOK
  <2>6. \A p \in Processes : Knows(proc[p], seen[p])
    BY <2>2, IdleTyped DEF Knows
  <2> QED
    BY <2>2, <2>3, <2>4, <2>5, <2>6 DEF IInv
<1>2. IInv /\ [Next]_vars => IInv'
  <2> SUFFICES ASSUME IInv, [Next]_vars PROVE IInv'
    OBVIOUS
  <2>1. CASE UNCHANGED vars
    <3>1. TypeOK'
      BY <2>1 DEF vars, reality, IInv, TypeOK
    <3>2. \A p \in Processes : Knows(proc[p], seen[p])'
      BY <2>1 DEF vars, reality, IInv, Knows
    <3> QED
      BY <2>1, <3>1, <3>2 DEF vars, IInv
  <2> QED
    BY <2>1, AgentKeeps, WriteKeeps, InsertKeeps, StatusKeeps, PageKeeps, IndexKeeps DEF Next
<1> QED
  BY <1>1, <1>2, PTL DEF Spec

(* "HEAD_DRIFT is never disguised as a valid acceptance": who is told that *)
(* the task is accepted was told so of an ACCEPT of the commit on record,  *)
(* which was HEAD while the answer was being made, and by the CLI only if  *)
(* the report had the reviewed contents then; however the agent moves HEAD *)
(* and edits the file meanwhile.  (And all variables are of their types.)  *)
THEOREM AcceptanceCorrect == Spec => []AcceptanceObserved
<1>1. ASSUME IInv PROVE AcceptanceObserved
  <2>1. TypeOK
    BY <1>1 DEF IInv
  <2>2. ASSUME NEW p \in Processes,
               proc[p].pc \in {"told status", "told page"}, proc[p].good # {}
        PROVE  \E row \in proc[p].good :
                 /\ row.source = Recorded /\ row.source \in seen[p].heads
                 /\ proc[p].pc = "told status" => row.hash \in seen[p].files
    <3>1. PICK row \in proc[p].good : TRUE
      BY <2>2
    <3>2. Knows(proc[p], seen[p])
      BY <1>1 DEF IInv
    <3> QED
      BY <2>2, <3>1, <3>2 DEF Knows, Told
  <2> QED
    BY <2>1, <2>2 DEF AcceptanceObserved
<1> QED
  BY <1>1, Invariance, PTL

(* Every row was true of the file while its own transaction had the lock,  *)
(* and names a commit the task builds on.                                  *)
THEOREM RowsCorrect == Spec => RowsObserved
<1>1. IInv /\ [Next]_vars =>
        [\A row \in rows' \ rows :
           \E p \in Processes : lock = p /\ row.hash \in seen[p].files /\ row.source <= Recorded]_vars
  <2> SUFFICES ASSUME IInv, Next, NEW row \in rows' \ rows
               PROVE  \E p \in Processes : lock = p /\ row.hash \in seen[p].files /\ row.source <= Recorded
    BY DEF vars
  <2>1. PICK p \in Processes : Insert(p)
    BY DEF Next, MoveHead, Edit, BeginReview, BeginEvidence, LockEvidence, BeginStatus, EndStatus,
           BeginPage, EndPage, Return, BeginIndex, WriteIndex, CheckRow, CheckEvidence
  <2>2. row = proc[p].row /\ Valid(row, Recorded) /\ lock = p /\ proc[p].pc = "insert"
    BY <2>1 DEF Insert, Unlock
  <2>3. Knows(proc[p], seen[p])
    BY DEF IInv
  <2> QED
    BY <2>2, <2>3 DEF Knows, Valid
<1> QED
  BY <1>1, Invariance, PTL DEF Spec, RowsObserved

(* The index never lists a file that did not have the recorded contents    *)
(* while the index was being made.                                         *)
THEOREM IndexCorrect == Spec => IndexObserved
<1>1. IInv /\ [Next]_vars =>
        [index' # index =>
           \E p \in Processes : \A row \in index' : row.hash \in seen[p].files]_vars
  <2> SUFFICES ASSUME IInv, Next, index' # index
               PROVE  \E p \in Processes : \A row \in index' : row.hash \in seen[p].files
    BY DEF vars
  <2>1. PICK p \in Processes : WriteIndex(p)
    BY DEF Next, MoveHead, Edit, BeginReview, BeginEvidence, LockEvidence, Insert, BeginStatus,
           EndStatus, BeginPage, EndPage, Return, BeginIndex, CheckRow, CheckEvidence
  <2>2. proc[p].pc = "index" /\ index' = proc[p].good
    BY <2>1 DEF WriteIndex
  <2>3. Knows(proc[p], seen[p])
    BY DEF IInv
  <2> QED
    BY <2>2, <2>3 DEF Knows
<1> QED
  BY <1>1, Invariance, PTL DEF Spec, IndexObserved
=============================================================================
