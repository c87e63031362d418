----------------------------- MODULE GatesProofs ----------------------------
(***************************************************************************)
(* Proofs about Gates, for any processes, intents and nonces (finite or    *)
(* not) and any bounds.  What a process has checked before it commits a    *)
(* transition is still so when it does, because it has the control lock    *)
(* and whatever could change it asks for that lock; time only makes        *)
(* approvals expire.  The last part is about Page, the page on which       *)
(* intents are submitted and their outcome is read.                        *)
(***************************************************************************)
EXTENDS Gates, Page, FiniteSetTheorems, TLAPS

(* Who is between the check and the end has the lock, and its intent is    *)
(* pending.                                                                *)
HolderInv ==
  \A p \in Processes :
    /\ proc[p].pc \in {"transition", "finish"} <=> lock = p
    /\ proc[p].pc # "idle" => proc[p].intent \in Intents
    /\ lock = p => intent[proc[p].intent].status = "PENDING"

(* What was found when an intent was checked.                              *)
GateOpen(i) ==
  /\ PreparedOperations = {}
  /\ intent[i].action = "RESUME_REQUEST" => task.state = "PAUSED" /\ PendingApprovals = {}

GateInv == \A p \in Processes : proc[p].pc = "transition" => GateOpen(proc[p].intent)

Finishing(i) == \E p \in Processes : proc[p].pc = "finish" /\ proc[p].intent = i

StatusInv ==
  \A i \in Intents \ interrupted :
    /\ intent[i].status = "APPLIED" /\ intent[i].action # "APPROVAL_REQUEST" => applied[i] = 1
    /\ intent[i].status \in {"ABSENT", "REJECTED", "BLOCKED"} => applied[i] = 0
    /\ intent[i].status = "PENDING" => applied[i] = IF Finishing(i) THEN 1 ELSE 0

IInv == TypeOK /\ HolderInv /\ GateInv /\ StatusInv

-----------------------------------------------------------------------------
LEMMA VerdictFacts ==
  ASSUME NEW i \in Intents
  PROVE  /\ Verdict(i) \in {"BLOCKED", "REJECTED", "APPLIED", "none"}
         /\ Verdict(i) = "APPLIED" => intent[i].action = "APPROVAL_REQUEST"
         /\ Verdict(i) = "none" => GateOpen(i)
  BY DEF Verdict, GateOpen

LEMMA LegalTyped ==
  ASSUME TypeOK, NEW target \in TaskStates
  PROVE  [state |-> target, resume |-> NextResume(task.state, target, task.resume)]
           \in [state : TaskStates, resume : TaskStates \cup {NoState}]
<1>1. task.state \in TaskStates /\ task.resume \in TaskStates \cup {NoState}
  BY DEF TypeOK
<1>2. NextResume(task.state, target, task.resume) \in TaskStates \cup {NoState}
  BY <1>1 DEF NextResume
<1> QED
  BY <1>2

(* Only the process with the lock can be finishing.                        *)
LEMMA StatusCounts ==
  ASSUME TypeOK, HolderInv, StatusInv
  PROVE  StatusTellsTruth
<1>1. ASSUME NEW i \in Intents
      PROVE  Cardinality({p \in Processes : proc[p] = [pc |-> "finish", intent |-> i]})
               = IF Finishing(i) THEN 1 ELSE 0
  <2>1. \A p \in Processes : proc[p] = [pc |-> "finish", intent |-> i]
                             <=> proc[p].pc = "finish" /\ proc[p].intent = i
    BY DEF TypeOK
  <2>2. CASE Finishing(i)
    <3>1. PICK p \in Processes : proc[p].pc = "finish" /\ proc[p].intent = i
      BY <2>2 DEF Finishing
    <3>2. \A q \in Processes : proc[q].pc = "finish" => q = p
      BY <3>1 DEF HolderInv
    <3>3. {q \in Processes : proc[q] = [pc |-> "finish", intent |-> i]} = {p}
      BY <2>1, <3>1, <3>2
    <3>4. Cardinality({p}) = 1
      BY FS_Singleton
    <3> QED
      BY <2>2, <3>3, <3>4
  <2>3. CASE ~Finishing(i)
    <3>1. {q \in Processes : proc[q] = [pc |-> "finish", intent |-> i]} = {}
      BY <2>1, <2>3 DEF Finishing
    <3> QED
      BY <2>3, <3>1, FS_EmptySet
  <2> QED
    BY <2>2, <2>3
<1> QED
  BY <1>1 DEF StatusInv, StatusTellsTruth

-----------------------------------------------------------------------------
(* What a step of a process is.                                            *)
LEMMA MoveFacts ==
  ASSUME TypeOK, NEW p \in Processes, NEW pc
  PROVE  [proc EXCEPT ![p].pc = pc] = [proc EXCEPT ![p] = [pc |-> pc, intent |-> proc[p].intent]]
<1>1. proc[p] \in [pc : {"idle", "lock", "transition", "finish"}, intent : Intents \cup {NoIntent}]
  BY DEF TypeOK
<1>2. [proc[p] EXCEPT !.pc = pc] = [pc |-> pc, intent |-> proc[p].intent]
  BY <1>1
<1>3. [proc EXCEPT ![p].pc = pc] = [proc EXCEPT ![p] = [proc[p] EXCEPT !.pc = pc]]
  OBVIOUS
<1> QED
  BY <1>2, <1>3

(* A check finds the intent terminal, admits it, or gives its verdict.     *)
Settled(p) ==
  /\ proc' = [proc EXCEPT ![p] = Idle]
  /\ UNCHANGED <<tables, lock, actualHead, clock, history>>

Admitted(p, i) ==
  /\ intent[i].status = "PENDING" /\ GateOpen(i)
  /\ lock' = p
  /\ proc' = [proc EXCEPT ![p] = [pc |-> "transition", intent |-> i]]
  /\ UNCHANGED <<tables, actualHead, clock, history>>

Judged(p, i, verdict) ==
  /\ intent[i].status = "PENDING"
  /\ verdict = "APPLIED" => intent[i].action = "APPROVAL_REQUEST"
  /\ intent' = [intent EXCEPT ![i].status = verdict]
  /\ proc' = [proc EXCEPT ![p] = Idle]
  /\ UNCHANGED <<task, approval, operation, lock, actualHead, clock, history>>

LEMMA CheckFacts ==
  ASSUME TypeOK, HolderInv, NEW p \in Processes, Check(p)
  PROVE  /\ lock = NoProcess /\ proc[p].pc = "lock"
         /\ \E i \in Intents : \/ Settled(p) \/ Admitted(p, i)
                              \/ \E verdict \in {"BLOCKED", "REJECTED", "APPLIED"} : Judged(p, i, verdict)
<1> DEFINE i == proc[p].intent
<1>1. /\ proc[p].pc = "lock" /\ lock = NoProcess /\ i \in Intents
      /\ UNCHANGED <<task, approval, operation, actualHead, clock, history>>
  BY DEF Check, HolderInv
<1>2. [proc EXCEPT ![p].pc = "transition"] = [proc EXCEPT ![p] = [pc |-> "transition", intent |-> i]]
  BY MoveFacts
<1>3. CASE ~StillPending(i)
  BY <1>1, <1>3 DEF Check, Settled, tables
<1>4. ASSUME StillPending(i), NEW verdict \in {Verdict(i), "BLOCKED"}, verdict = "none",
             lock' = p, proc' = [proc EXCEPT ![p].pc = "transition"], UNCHANGED intent
      PROVE  Admitted(p, i)
  BY <1>1, <1>2, <1>4, VerdictFacts DEF StillPending, Admitted, tables
<1>5. ASSUME StillPending(i), NEW verdict \in {Verdict(i), "BLOCKED"}, verdict # "none",
             intent' = [intent EXCEPT ![i].status = verdict],
             proc' = [proc EXCEPT ![p] = Idle], UNCHANGED lock
      PROVE  verdict \in {"BLOCKED", "REJECTED", "APPLIED"} /\ Judged(p, i, verdict)
  BY <1>1, <1>5, VerdictFacts DEF StillPending, Judged
<1> QED
  BY <1>1, <1>3, <1>4, <1>5 DEF Check

LEMMA ApplyFacts ==
  ASSUME TypeOK, HolderInv, NEW p \in Processes, ApplyTransition(p)
  PROVE  LET i == proc[p].intent IN
         /\ i \in Intents /\ lock = p /\ proc[p].pc = "transition" /\ intent[i].status = "PENDING"
         /\ task' \in [state : TaskStates, resume : TaskStates \cup {NoState}]
         /\ task'.state = Target(i)
         /\ applied' = [applied EXCEPT ![i] = @ + 1]
         /\ proc' = [proc EXCEPT ![p] = [pc |-> "finish", intent |-> i]]
         /\ UNCHANGED <<intent, approval, operation, lock, actualHead, clock, interrupted, refused, crashes>>
<1> DEFINE i == proc[p].intent
<1>1. i \in Intents /\ lock = p /\ proc[p].pc = "transition" /\ intent[i].status = "PENDING"
  BY DEF ApplyTransition, HolderInv
<1>2. [proc EXCEPT ![p].pc = "finish"] = [proc EXCEPT ![p] = [pc |-> "finish", intent |-> i]]
  BY MoveFacts
<1>3. /\ Target(i) \in TaskStates
      /\ task' = [state |-> Target(i), resume |-> NextResume(task.state, Target(i), task.resume)]
  BY DEF ApplyTransition
<1>4. task' \in [state : TaskStates, resume : TaskStates \cup {NoState}] /\ task'.state = Target(i)
  BY <1>3, LegalTyped
<1> QED
  BY <1>1, <1>2, <1>4 DEF ApplyTransition

LEMMA FinishFacts ==
  ASSUME TypeOK, HolderInv, NEW p \in Processes, RejectTransition(p) \/ FinishApplied(p)
  PROVE  LET i == proc[p].intent IN
         /\ i \in Intents /\ lock = p /\ lock' = NoProcess
         /\ intent[i].status = "PENDING"
         /\ UNCHANGED <<task, approval, operation, actualHead, clock, history>>
         /\ proc' = [proc EXCEPT ![p] = Idle]
         /\ \/ proc[p].pc = "transition" /\ intent' = [intent EXCEPT ![i].status = "REJECTED"]
            \/ proc[p].pc = "finish" /\ intent' = [intent EXCEPT ![i].status = "APPLIED"]
  BY DEF RejectTransition, FinishApplied, FinishIntent, HolderInv

(* Commands that leave processes, intents and their histories alone: they  *)
(* find the lock free, or change nothing that a gate looks at but the time.*)
Commands ==
  \/ \E n \in Nonces : \/ RequestApproval(n) \/ ConsumeApproval(n)
                       \/ ExecuteApproved(n) \/ ReconcileApproved(n)
  \/ OperatorTransition \/ AgentCommits \/ Tick

LEMMA CommandFacts ==
  ASSUME TypeOK, Commands
  PROVE  /\ UNCHANGED <<intent, lock, proc, applied, interrupted, crashes>>
         /\ \/ lock = NoProcess
            \/ UNCHANGED <<task, operation>> /\ PendingApprovals' \subseteq PendingApprovals
         /\ task' \in [state : TaskStates, resume : TaskStates \cup {NoState}]
         /\ approval' \in [Nonces -> [status : {"ABSENT", "PENDING", "CONSUMED"}, expires : Nat]]
         /\ operation' \in [Nonces -> {"ABSENT", "PREPARED", "COMMITTED", "FAILED", "BLOCKED"}]
         /\ actualHead' \in Nat /\ clock' \in Nat /\ refused' \subseteq Nonces
<1>1. CASE \E n \in Nonces : RequestApproval(n)
  <2>1. PICK n \in Nonces : RequestApproval(n)
    BY <1>1
  <2>2. [status |-> "PENDING", expires |-> clock + Ttl]
          \in [status : {"ABSENT", "PENDING", "CONSUMED"}, expires : Nat]
    BY BoundsAssumption DEF TypeOK
  <2> QED
    BY <2>1, <2>2 DEF RequestApproval, TypeOK, history
<1>2. CASE \E n \in Nonces : ConsumeApproval(n)
  <2>1. PICK n \in Nonces : ConsumeApproval(n)
    BY <1>2
  <2>2. [approval[n] EXCEPT !.status = "CONSUMED"]
          \in [status : {"ABSENT", "PENDING", "CONSUMED"}, expires : Nat]
    BY DEF TypeOK
  <2>3. approval' = [approval EXCEPT ![n] = [approval[n] EXCEPT !.status = "CONSUMED"]]
    BY <2>1 DEF ConsumeApproval
  <2>4. approval' \in [Nonces -> [status : {"ABSENT", "PENDING", "CONSUMED"}, expires : Nat]]
    BY <2>2, <2>3 DEF TypeOK
  <2> QED
    BY <2>1, <2>4 DEF ConsumeApproval, TypeOK, history
<1>3. CASE \E n \in Nonces : ExecuteApproved(n) \/ ReconcileApproved(n)
  BY <1>3 DEF ExecuteApproved, ReconcileApproved, TypeOK, tables, history
<1>4. CASE OperatorTransition
  <2>1. /\ lock = NoProcess
        /\ UNCHANGED <<intent, approval, operation, lock, proc, actualHead, clock, history>>
        /\ \E target \in TaskStates :
             task' = [state |-> target, resume |-> NextResume(task.state, target, task.resume)]
    BY <1>4 DEF OperatorTransition
  <2>2. task' \in [state : TaskStates, resume : TaskStates \cup {NoState}]
    BY <2>1, LegalTyped
  <2> QED
    BY <2>1, <2>2 DEF TypeOK, history
<1>5. CASE AgentCommits
  BY <1>5 DEF AgentCommits, TypeOK, tables, history, PendingApprovals
<1>6. CASE Tick
  <2>1. clock' = clock + 1 /\ clock \in Nat /\ approval' = approval
    BY <1>6 DEF Tick, TypeOK, tables
  <2>2. \A n \in Nonces : approval[n].expires \in Nat
    BY DEF TypeOK
  <2>3. PendingApprovals' \subseteq PendingApprovals
    BY <2>1, <2>2 DEF PendingApprovals
  <2> QED
    BY <1>6, <2>1, <2>3 DEF Tick, TypeOK, tables, history
<1> QED
  BY <1>1, <1>2, <1>3, <1>4, <1>5, <1>6 DEF Commands

LEMMA SubmitFacts ==
  ASSUME TypeOK, NEW i \in Intents, NEW action \in Actions, Submit(i, action)
  PROVE  /\ lock = NoProcess /\ intent[i].status = "ABSENT"
         /\ \E target \in Nat : intent' = [intent EXCEPT ![i] =
              [action |-> action, target |-> target, status |-> "PENDING"]]
         /\ UNCHANGED <<task, approval, operation, lock, proc, actualHead, clock, history>>
<1>1. PICK target \in 0 .. actualHead : intent' = [intent EXCEPT ![i] =
        [action |-> action, target |-> target, status |-> "PENDING"]]
  BY DEF Submit
<1>2. target \in Nat
  BY DEF TypeOK
<1> QED
  BY <1>1, <1>2 DEF Submit

(* A process that gives up or dies takes back nothing but the lock.        *)
Leaving(p) ==
  /\ proc' = [proc EXCEPT ![p] = Idle]
  /\ lock' = IF lock = p THEN NoProcess ELSE lock
  /\ interrupted' = IF proc[p].pc = "finish"
                      THEN interrupted \cup {proc[p].intent} ELSE interrupted
  /\ crashes' \in Nat
  /\ UNCHANGED <<tables, actualHead, clock, applied, refused>>

LEMMA LeavingFacts ==
  ASSUME TypeOK, HolderInv, NEW p \in Processes, LockTimeout(p) \/ Crash(p)
  PROVE  Leaving(p)
<1>1. CASE LockTimeout(p)
  BY <1>1 DEF LockTimeout, Leaving, HolderInv, TypeOK, history
<1>2. CASE Crash(p)
  BY <1>2 DEF Crash, Leaving, TypeOK
<1> QED
  BY <1>1, <1>2

LEMMA NextCases ==
  ASSUME TypeOK, HolderInv, Next
  PROVE  \/ \E p \in Processes :
              \/ Check(p) \/ ApplyTransition(p) \/ Leaving(p)
              \/ RejectTransition(p) \/ FinishApplied(p)
              \/ \E i \in Intents : Process(p, i)
         \/ \E i \in Intents, action \in Actions : Submit(i, action)
         \/ Commands
  BY LeavingFacts DEF Next, Step, Commands

-----------------------------------------------------------------------------
LEMMA TypeStep ==
  ASSUME TypeOK, HolderInv, [Next]_vars
  PROVE  TypeOK'
<1>1. CASE UNCHANGED vars
  BY <1>1 DEF TypeOK, vars, tables, history
<1>2. ASSUME NEW pc \in {"idle", "lock", "transition", "finish"}, NEW i \in Intents \cup {NoIntent},
             NEW p \in Processes, proc' = [proc EXCEPT ![p] = [pc |-> pc, intent |-> i]]
      PROVE  proc' \in [Processes -> [pc : {"idle", "lock", "transition", "finish"},
                                      intent : Intents \cup {NoIntent}]]
  BY <1>2 DEF TypeOK
<1> DEFINE IntentRows == [action : Actions \cup {"none"}, target : Nat,
                          status : {"ABSENT", "PENDING", "APPLIED", "REJECTED", "BLOCKED"}]
<1>3. ASSUME NEW i \in Intents, NEW status \in {"APPLIED", "REJECTED", "BLOCKED"},
             intent' = [intent EXCEPT ![i].status = status]
      PROVE  intent' \in [Intents -> IntentRows]
  <2>1. [intent[i] EXCEPT !.status = status] \in IntentRows
    BY DEF TypeOK
  <2>2. intent' = [intent EXCEPT ![i] = [intent[i] EXCEPT !.status = status]]
    BY <1>3
  <2> HIDE DEF IntentRows
  <2>3. intent \in [Intents -> IntentRows]
    BY DEF TypeOK, IntentRows
  <2> QED
    BY <2>1, <2>2, <2>3
<1>4. ASSUME NEW p \in Processes, Check(p) PROVE TypeOK'
  <2>1. CASE Settled(p)
    BY <1>2, <2>1 DEF Settled, Idle, TypeOK, tables, history
  <2>2. ASSUME NEW i \in Intents, Admitted(p, i) PROVE TypeOK'
    BY <1>2, <2>2 DEF Admitted, TypeOK, tables, history
  <2>3. ASSUME NEW i \in Intents, NEW verdict \in {"BLOCKED", "REJECTED", "APPLIED"},
               Judged(p, i, verdict)
        PROVE  TypeOK'
    <3>1. proc' \in [Processes -> [pc : {"idle", "lock", "transition", "finish"},
                                   intent : Intents \cup {NoIntent}]]
      BY <1>2, <2>3 DEF Judged, Idle
    <3>2. intent' \in [Intents -> IntentRows]
      BY <1>3, <2>3 DEF Judged
    <3> QED
      BY <2>3, <3>1, <3>2 DEF Judged, TypeOK, history
  <2> QED
    BY <1>4, <2>1, <2>2, <2>3, CheckFacts
<1>5. ASSUME NEW p \in Processes, ApplyTransition(p) PROVE TypeOK'
  <2>1. proc' \in [Processes -> [pc : {"idle", "lock", "transition", "finish"},
                                 intent : Intents \cup {NoIntent}]]
    BY <1>2, <1>5, ApplyFacts
  <2>2. applied' \in [Intents -> Nat]
    BY <1>5, ApplyFacts DEF TypeOK
  <2> QED
    BY <1>5, <2>1, <2>2, ApplyFacts DEF TypeOK
<1>6. ASSUME NEW p \in Processes, RejectTransition(p) \/ FinishApplied(p) PROVE TypeOK'
  <2>1. intent' \in [Intents -> IntentRows]
    BY <1>3, <1>6, FinishFacts DEF TypeOK
  <2>2. proc' \in [Processes -> [pc : {"idle", "lock", "transition", "finish"},
                                 intent : Intents \cup {NoIntent}]]
    BY <1>2, <1>6, FinishFacts DEF Idle
  <2> QED
    BY <1>6, <2>1, <2>2, FinishFacts DEF TypeOK, history
<1>7. ASSUME NEW p \in Processes, Leaving(p) PROVE TypeOK'
  <2>1. proc' \in [Processes -> [pc : {"idle", "lock", "transition", "finish"},
                                 intent : Intents \cup {NoIntent}]]
    BY <1>2, <1>7 DEF Idle, Leaving
  <2>2. interrupted' \subseteq Intents /\ lock' \in Processes \cup {NoProcess}
    BY <1>7 DEF Leaving, HolderInv, TypeOK
  <2> QED
    BY <1>7, <2>1, <2>2 DEF Leaving, TypeOK, tables
<1>8. ASSUME NEW p \in Processes, NEW i \in Intents, Process(p, i) PROVE TypeOK'
  <2>1. proc' \in [Processes -> [pc : {"idle", "lock", "transition", "finish"},
                                 intent : Intents \cup {NoIntent}]]
    BY <1>2, <1>8 DEF Process
  <2> QED
    BY <1>8, <2>1 DEF Process, TypeOK, tables, history
<1>9. ASSUME NEW i \in Intents, NEW action \in Actions, Submit(i, action) PROVE TypeOK'
  <2>1. PICK target \in Nat :
          intent' = [intent EXCEPT ![i] = [action |-> action, target |-> target, status |-> "PENDING"]]
    BY <1>9, SubmitFacts
  <2>2. intent' \in [Intents -> IntentRows]
    BY <2>1 DEF TypeOK
  <2> QED
    BY <1>9, <2>2, SubmitFacts DEF TypeOK, history
<1>10. CASE Commands
  BY <1>10, CommandFacts DEF TypeOK
<1> QED
  BY <1>1, <1>4, <1>5, <1>6, <1>7, <1>8, <1>9, <1>10, NextCases

(* The lock changes hands only with the process that enters or leaves the  *)
(* part under it, and no intent loses PENDING but by its holder.           *)
LEMMA HolderStep ==
  ASSUME TypeOK, HolderInv, [Next]_vars
  PROVE  HolderInv'
<1>0. NoProcess \notin Processes /\ \A p, q \in Processes : lock = p /\ lock = q => p = q
  BY FreshAssumption
<1>1. CASE UNCHANGED <<lock, proc, intent>>
  BY <1>1 DEF HolderInv
<1>2. ASSUME NEW p \in Processes, Check(p) PROVE HolderInv'
  <2>0. lock = NoProcess
    BY <1>2, CheckFacts
  <2>1. CASE Settled(p)
    <3>1. /\ lock' = lock /\ proc'[p].pc = "idle"
          /\ \A q \in Processes \ {p} : proc'[q] = proc[q]
      BY <2>1 DEF Settled, Idle, TypeOK
    <3> QED
      BY <1>0, <2>0, <3>1 DEF HolderInv
  <2>2. ASSUME NEW i \in Intents, Admitted(p, i) PROVE HolderInv'
    <3>1. /\ lock' = p /\ intent' = intent /\ intent[i].status = "PENDING"
          /\ proc'[p].pc = "transition" /\ proc'[p].intent = i
          /\ \A q \in Processes \ {p} : proc'[q] = proc[q]
      BY <2>2 DEF Admitted, TypeOK, tables
    <3> QED
      BY <1>0, <2>0, <3>1 DEF HolderInv
  <2>3. ASSUME NEW i \in Intents, NEW verdict, Judged(p, i, verdict) PROVE HolderInv'
    <3>1. /\ lock' = NoProcess /\ proc'[p].pc = "idle"
          /\ \A q \in Processes \ {p} : proc'[q] = proc[q]
      BY <2>0, <2>3 DEF Judged, Idle, TypeOK
    <3> QED
      BY <1>0, <2>0, <3>1 DEF HolderInv
  <2> QED
    BY <1>2, <2>1, <2>2, <2>3, CheckFacts
<1>3. ASSUME NEW p \in Processes, ApplyTransition(p) PROVE HolderInv'
  <2>1. /\ lock = p /\ lock' = p /\ intent' = intent /\ proc[p].pc = "transition"
        /\ proc' = [proc EXCEPT ![p] = [pc |-> "finish", intent |-> proc[p].intent]]
    BY <1>3, ApplyFacts
  <2>2. /\ proc'[p].pc = "finish" /\ proc'[p].intent = proc[p].intent
        /\ \A q \in Processes \ {p} : proc'[q] = proc[q]
    BY <2>1 DEF TypeOK
  <2> QED
    BY <1>0, <2>1, <2>2 DEF HolderInv
<1>4. ASSUME NEW p \in Processes, RejectTransition(p) \/ FinishApplied(p) PROVE HolderInv'
  <2>1. lock = p /\ lock' = NoProcess /\ proc' = [proc EXCEPT ![p] = Idle]
    BY <1>4, FinishFacts
  <2>2. proc'[p].pc = "idle" /\ \A q \in Processes \ {p} : proc'[q] = proc[q]
    BY <2>1 DEF Idle, TypeOK
  <2> QED
    BY <1>0, <2>1, <2>2 DEF HolderInv
<1>5. ASSUME NEW p \in Processes, Leaving(p) PROVE HolderInv'
  <2>1. /\ lock' = IF lock = p THEN NoProcess ELSE lock
        /\ intent' = intent /\ proc'[p].pc = "idle"
        /\ \A q \in Processes \ {p} : proc'[q] = proc[q]
    BY <1>5 DEF Leaving, Idle, TypeOK, tables
  <2> QED
    BY <1>0, <2>1 DEF HolderInv
<1>6. ASSUME NEW p \in Processes, NEW i \in Intents, Process(p, i) PROVE HolderInv'
  <2>1. /\ proc' = [proc EXCEPT ![p] = [pc |-> "lock", intent |-> i]] /\ proc[p].pc = "idle"
        /\ lock' = lock /\ intent' = intent
    BY <1>6 DEF Process, tables
  <2>2. /\ proc'[p].pc = "lock" /\ proc'[p].intent = i
        /\ \A q \in Processes \ {p} : proc'[q] = proc[q]
    BY <2>1 DEF TypeOK
  <2> QED
    BY <2>1, <2>2 DEF HolderInv
<1>7. ASSUME NEW i \in Intents, NEW action \in Actions, Submit(i, action) PROVE HolderInv'
  <2>1. lock = NoProcess /\ lock' = lock /\ proc' = proc
    BY <1>7, SubmitFacts
  <2> QED
    BY <1>0, <2>1 DEF HolderInv
<1> QED
  BY <1>1, <1>2, <1>3, <1>4, <1>5, <1>6, <1>7, NextCases, CommandFacts DEF vars, tables

(* What was checked stays so: nothing that a gate looks at changes while   *)
(* the lock is held.                                                       *)
StillOpen(i) ==
  /\ PreparedOperations' = {}
  /\ intent'[i].action = "RESUME_REQUEST" => task'.state = "PAUSED" /\ PendingApprovals' = {}

LEMMA GateKept ==
  ASSUME UNCHANGED <<intent, task, operation>>, PendingApprovals' \subseteq PendingApprovals,
         NEW i \in Intents, GateOpen(i)
  PROVE  StillOpen(i)
  BY DEF GateOpen, StillOpen, PreparedOperations

LEMMA GateStep ==
  ASSUME TypeOK, HolderInv, GateInv, [Next]_vars
  PROVE  GateInv'
<1> SUFFICES ASSUME NEW q \in Processes, proc'[q].pc = "transition"
             PROVE  StillOpen(proc'[q].intent)
  BY DEF GateInv, GateOpen, StillOpen
<1>0. NoProcess \notin Processes
  BY FreshAssumption
<1>1. ASSUME proc'[q] = proc[q], UNCHANGED <<intent, task, operation>>,
             PendingApprovals' \subseteq PendingApprovals
      PROVE  StillOpen(proc'[q].intent)
  <2>1. proc[q].intent \in Intents /\ GateOpen(proc[q].intent)
    BY <1>1 DEF GateInv, HolderInv
  <2> QED
    BY <1>1, <2>1, GateKept
<1>2. ASSUME UNCHANGED <<tables, clock>> PROVE PendingApprovals' = PendingApprovals
  BY <1>2 DEF PendingApprovals, tables
<1>3. ASSUME lock = NoProcess PROVE proc[q].pc # "transition"
  BY <1>0, <1>3 DEF HolderInv
<1>4. ASSUME NEW p \in Processes, Check(p) PROVE StillOpen(proc'[q].intent)
  <2>1. CASE Settled(p)
    <3>1. proc'[p].pc = "idle" /\ \A r \in Processes \ {p} : proc'[r] = proc[r]
      BY <2>1 DEF Settled, Idle, TypeOK
    <3> QED
      BY <1>3, <1>4, <3>1, CheckFacts
  <2>2. ASSUME NEW i \in Intents, Admitted(p, i) PROVE StillOpen(proc'[q].intent)
    <3>1. /\ proc'[p].intent = i /\ \A r \in Processes \ {p} : proc'[r] = proc[r]
          /\ UNCHANGED <<tables, clock>> /\ GateOpen(i)
      BY <2>2 DEF Admitted, TypeOK
    <3>2. q = p
      BY <1>3, <1>4, <3>1, CheckFacts
    <3>3. UNCHANGED <<intent, task, operation>> /\ PendingApprovals' \subseteq PendingApprovals
      BY <1>2, <3>1 DEF tables
    <3> QED
      BY <3>1, <3>2, <3>3, GateKept
  <2>3. ASSUME NEW i \in Intents, NEW verdict, Judged(p, i, verdict)
        PROVE  StillOpen(proc'[q].intent)
    <3>1. proc'[p].pc = "idle" /\ \A r \in Processes \ {p} : proc'[r] = proc[r]
      BY <2>3 DEF Judged, Idle, TypeOK
    <3> QED
      BY <1>3, <1>4, <3>1, CheckFacts
  <2> QED
    BY <1>4, <2>1, <2>2, <2>3, CheckFacts
<1>5. ASSUME NEW p \in Processes, lock = p, proc'[p].pc # "transition",
             \A r \in Processes \ {p} : proc'[r] = proc[r]
      PROVE  FALSE
  BY <1>5 DEF HolderInv
<1>6. ASSUME NEW p \in Processes, ApplyTransition(p) PROVE FALSE
  <2>1. lock = p /\ proc' = [proc EXCEPT ![p] = [pc |-> "finish", intent |-> proc[p].intent]]
    BY <1>6, ApplyFacts
  <2> QED
    BY <1>5, <2>1 DEF TypeOK
<1>7. ASSUME NEW p \in Processes, RejectTransition(p) \/ FinishApplied(p) PROVE FALSE
  <2>1. lock = p /\ proc' = [proc EXCEPT ![p] = Idle]
    BY <1>7, FinishFacts
  <2> QED
    BY <1>5, <2>1 DEF Idle, TypeOK
<1>8. ASSUME NEW p \in Processes, Leaving(p) PROVE StillOpen(proc'[q].intent)
  <2>1. proc'[p].pc = "idle" /\ \A r \in Processes \ {p} : proc'[r] = proc[r]
    BY <1>8 DEF Leaving, Idle, TypeOK
  <2> QED
    BY <1>1, <1>2, <1>8, <2>1 DEF Leaving, tables
<1>9. ASSUME NEW p \in Processes, NEW i \in Intents, Process(p, i)
      PROVE  StillOpen(proc'[q].intent)
  <2>1. proc'[p].pc = "lock" /\ \A r \in Processes \ {p} : proc'[r] = proc[r]
    BY <1>9 DEF Process, TypeOK
  <2> QED
    BY <1>1, <1>2, <1>9, <2>1 DEF Process, tables
<1>10. ASSUME NEW i \in Intents, NEW action \in Actions, Submit(i, action) PROVE FALSE
  BY <1>3, <1>10, SubmitFacts
<1>11. CASE Commands
  BY <1>1, <1>3, <1>11, CommandFacts
<1>12. CASE UNCHANGED vars
  BY <1>1, <1>2, <1>12 DEF vars, tables
<1> QED
  BY <1>4, <1>6, <1>7, <1>8, <1>9, <1>10, <1>11, <1>12, NextCases

(* The status of an intent and the transitions made for it.                *)
LEMMA StatusStep ==
  ASSUME TypeOK, HolderInv, StatusInv, [Next]_vars
  PROVE  StatusInv'
<1> DEFINE Told(i, status, finishing) ==
             /\ status = "APPLIED" /\ intent'[i].action # "APPROVAL_REQUEST" => applied'[i] = 1
             /\ status \in {"ABSENT", "REJECTED", "BLOCKED"} => applied'[i] = 0
             /\ status = "PENDING" => applied'[i] = IF finishing THEN 1 ELSE 0
<1> SUFFICES ASSUME NEW i \in Intents \ interrupted'
             PROVE  Told(i, intent'[i].status, Finishing(i)')
  BY DEF StatusInv
<1>0. /\ NoProcess \notin Processes /\ intent[i].status \in {"ABSENT", "PENDING", "APPLIED", "REJECTED", "BLOCKED"}
      /\ applied[i] \in Nat
  BY FreshAssumption DEF TypeOK
<1>1. ASSUME UNCHANGED <<intent, applied>>, interrupted \subseteq interrupted',
             Finishing(i)' <=> Finishing(i)
      PROVE  Told(i, intent'[i].status, Finishing(i)')
  BY <1>1 DEF StatusInv
<1>2. lock = NoProcess => ~Finishing(i)
  BY <1>0 DEF Finishing, HolderInv
<1>3. ASSUME NEW p \in Processes, proc[p].pc # "finish", proc'[p].pc # "finish",
             \A r \in Processes \ {p} : proc'[r] = proc[r]
      PROVE  Finishing(i)' <=> Finishing(i)
  BY <1>3 DEF Finishing
<1>4. ASSUME NEW p \in Processes, Check(p) PROVE Told(i, intent'[i].status, Finishing(i)')
  <2>0. ~Finishing(i) /\ proc[p].pc = "lock"
    BY <1>2, <1>4, CheckFacts
  <2>1. CASE Settled(p)
    <3>1. proc'[p].pc = "idle" /\ \A r \in Processes \ {p} : proc'[r] = proc[r]
      BY <2>1 DEF Settled, Idle, TypeOK
    <3>2. Finishing(i)' <=> Finishing(i)
      BY <1>3, <2>0, <3>1
    <3> QED
      BY <1>1, <2>1, <3>2 DEF Settled, tables, history
  <2>2. ASSUME NEW j \in Intents, Admitted(p, j) PROVE Told(i, intent'[i].status, Finishing(i)')
    <3>1. proc'[p].pc = "transition" /\ \A r \in Processes \ {p} : proc'[r] = proc[r]
      BY <2>2 DEF Admitted, TypeOK
    <3>2. Finishing(i)' <=> Finishing(i)
      BY <1>3, <2>0, <3>1
    <3> QED
      BY <1>1, <2>2, <3>2 DEF Admitted, tables, history
  <2>3. ASSUME NEW j \in Intents, NEW verdict \in {"BLOCKED", "REJECTED", "APPLIED"},
               Judged(p, j, verdict)
        PROVE  Told(i, intent'[i].status, Finishing(i)')
    <3>1. /\ proc'[p].pc = "idle" /\ \A r \in Processes \ {p} : proc'[r] = proc[r]
          /\ UNCHANGED <<applied, interrupted>>
      BY <2>3 DEF Judged, Idle, TypeOK, history
    <3>2. ~Finishing(i)'
      BY <1>3, <2>0, <3>1
    <3>3. CASE i # j
      <4>1. intent'[i] = intent[i]
        BY <2>3, <3>3 DEF Judged, TypeOK
      <4> QED
        BY <2>0, <3>1, <3>2, <4>1 DEF StatusInv
    <3>4. CASE i = j
      <4>1. /\ intent'[i].status = verdict /\ intent'[i].action = intent[i].action
            /\ intent[i].status = "PENDING"
            /\ verdict = "APPLIED" => intent[i].action = "APPROVAL_REQUEST"
        BY <2>3, <3>4 DEF Judged, TypeOK
      <4>2. applied'[i] = 0
        BY <2>0, <3>1, <4>1 DEF StatusInv
      <4> QED
        BY <4>1, <4>2
    <3> QED
      BY <3>3, <3>4
  <2> QED
    BY <1>4, <2>1, <2>2, <2>3, CheckFacts
<1>5. ASSUME NEW p \in Processes, ApplyTransition(p)
      PROVE  Told(i, intent'[i].status, Finishing(i)')
  <2> DEFINE j == proc[p].intent
  <2>1. /\ j \in Intents /\ lock = p /\ proc[p].pc = "transition" /\ intent[j].status = "PENDING"
        /\ UNCHANGED <<intent, interrupted>> /\ applied' = [applied EXCEPT ![j] = @ + 1]
        /\ proc' = [proc EXCEPT ![p] = [pc |-> "finish", intent |-> j]]
    BY <1>5, ApplyFacts
  <2>2. /\ proc'[p].pc = "finish" /\ proc'[p].intent = j
        /\ \A r \in Processes \ {p} : proc'[r] = proc[r] /\ proc[r].pc # "finish"
    BY <2>1 DEF HolderInv, TypeOK
  <2>3. ~Finishing(i) /\ (Finishing(i)' <=> i = j)
    BY <2>1, <2>2 DEF Finishing
  <2>4. applied'[i] = IF i = j THEN applied[i] + 1 ELSE applied[i]
    BY <2>1 DEF TypeOK
  <2> QED
    BY <2>1, <2>3, <2>4 DEF StatusInv
<1>6. ASSUME NEW p \in Processes, RejectTransition(p) \/ FinishApplied(p)
      PROVE  Told(i, intent'[i].status, Finishing(i)')
  <2> DEFINE j == proc[p].intent
  <2>1. /\ j \in Intents /\ lock = p /\ intent[j].status = "PENDING"
        /\ UNCHANGED <<applied, interrupted>> /\ proc' = [proc EXCEPT ![p] = Idle]
        /\ \/ proc[p].pc = "transition" /\ intent' = [intent EXCEPT ![j].status = "REJECTED"]
           \/ proc[p].pc = "finish" /\ intent' = [intent EXCEPT ![j].status = "APPLIED"]
    BY <1>6, FinishFacts DEF history
  <2>2. /\ proc'[p].pc = "idle"
        /\ \A r \in Processes \ {p} : proc'[r] = proc[r] /\ proc[r].pc # "finish"
    BY <2>1 DEF HolderInv, Idle, TypeOK
  <2>3. ~Finishing(i)' /\ (Finishing(i) <=> proc[p].pc = "finish" /\ i = j)
    BY <2>2 DEF Finishing
  <2>4. CASE i # j
    <3>1. intent'[i] = intent[i]
      BY <2>1, <2>4 DEF TypeOK
    <3> QED
      BY <2>1, <2>3, <2>4, <3>1 DEF StatusInv
  <2>5. CASE i = j
    <3>1. /\ proc[p].pc = "transition" => intent'[i].status = "REJECTED"
          /\ proc[p].pc # "transition" => proc[p].pc = "finish" /\ intent'[i].status = "APPLIED"
      BY <2>1, <2>5 DEF TypeOK
    <3>2. applied'[i] = IF proc[p].pc = "finish" THEN 1 ELSE 0
      BY <2>1, <2>3, <2>5 DEF StatusInv
    <3> QED
      BY <3>1, <3>2
  <2> QED
    BY <2>4, <2>5
<1>7. ASSUME NEW p \in Processes, Leaving(p) PROVE Told(i, intent'[i].status, Finishing(i)')
  <2>1. /\ proc'[p].pc = "idle" /\ \A r \in Processes \ {p} : proc'[r] = proc[r]
        /\ interrupted' = IF proc[p].pc = "finish"
                            THEN interrupted \cup {proc[p].intent} ELSE interrupted
    BY <1>7 DEF Leaving, Idle, TypeOK
  <2>2. Finishing(i)' <=> Finishing(i)
    <3>1. CASE proc[p].pc # "finish"
      BY <1>3, <2>1, <3>1
    <3>2. CASE proc[p].pc = "finish"
      BY <2>1, <3>2 DEF Finishing
    <3> QED
      BY <3>1, <3>2
  <2> QED
    BY <1>1, <1>7, <2>1, <2>2 DEF Leaving, tables
<1>8. ASSUME NEW p \in Processes, NEW j \in Intents, Process(p, j)
      PROVE  Told(i, intent'[i].status, Finishing(i)')
  <2>1. /\ proc'[p].pc = "lock" /\ proc[p].pc = "idle"
        /\ \A r \in Processes \ {p} : proc'[r] = proc[r]
    BY <1>8 DEF Process, TypeOK
  <2>2. Finishing(i)' <=> Finishing(i)
    BY <1>3, <2>1
  <2> QED
    BY <1>1, <1>8, <2>2 DEF Process, tables, history
<1>9. ASSUME NEW j \in Intents, NEW action \in Actions, Submit(j, action)
      PROVE  Told(i, intent'[i].status, Finishing(i)')
  <2>1. /\ lock = NoProcess /\ intent[j].status = "ABSENT"
        /\ UNCHANGED <<applied, interrupted, proc>>
    BY <1>9, SubmitFacts DEF history
  <2>2. PICK target \in Nat : intent' = [intent EXCEPT ![j] =
          [action |-> action, target |-> target, status |-> "PENDING"]]
    BY <1>9, SubmitFacts
  <2>3. ~Finishing(i) /\ ~Finishing(i)'
    BY <1>2, <2>1 DEF Finishing
  <2>4. CASE i # j
    <3>1. intent'[i] = intent[i]
      BY <2>2, <2>4 DEF TypeOK
    <3> QED
      BY <2>1, <2>3, <3>1 DEF StatusInv
  <2>5. CASE i = j
    <3>1. intent'[i].status = "PENDING"
      BY <2>2, <2>5 DEF TypeOK
    <3>2. applied'[i] = 0
      BY <2>1, <2>5 DEF StatusInv
    <3> QED
      BY <2>3, <3>1, <3>2
  <2> QED
    BY <2>4, <2>5
<1>10. CASE Commands
  <2>1. UNCHANGED <<intent, proc, applied, interrupted>>
    BY <1>10, CommandFacts
  <2>2. Finishing(i)' <=> Finishing(i)
    BY <2>1 DEF Finishing
  <2> QED
    BY <1>1, <2>1, <2>2
<1>11. CASE UNCHANGED vars
  BY <1>1, <1>11 DEF vars, tables, history, Finishing
<1> QED
  BY <1>4, <1>5, <1>6, <1>7, <1>8, <1>9, <1>10, <1>11, NextCases

-----------------------------------------------------------------------------
LEMMA Invariance == Spec => []IInv
<1>1. Init => IInv
  <2> SUFFICES ASSUME Init PROVE IInv
    OBVIOUS
  <2>1. TypeOK
    BY BoundsAssumption DEF Init, TypeOK, NoRequest, NoApproval, Idle, TaskStates, Allowed
  <2>2. HolderInv /\ GateInv /\ StatusInv
    BY FreshAssumption DEF Init, HolderInv, GateInv, StatusInv, NoRequest, Idle
  <2> QED
    BY <2>1, <2>2 DEF IInv
<1>2. IInv /\ [Next]_vars => IInv'
  BY TypeStep, HolderStep, GateStep, StatusStep DEF IInv
<1> QED
  BY <1>1, <1>2, PTL DEF Spec

(* The row of an intent tells how often the task was moved on its behalf,  *)
(* unless a crash came between the two commits of its processing.          *)
THEOREM StatusCorrect == Spec => []StatusTellsTruth
<1>1. IInv => StatusTellsTruth
  BY StatusCounts DEF IInv
<1> QED
  BY <1>1, Invariance, PTL

(* A resume intent moves the task only out of PAUSED, to where the pause   *)
(* was asked for, with no approval pending and nothing prepared, although  *)
(* these were read before the transaction that moves it.                   *)
THEOREM ResumeGatedCorrect == Spec => ResumeIsGated
<1> DEFINE Gated ==
      \A i \in Intents :
        (applied'[i] # applied[i] /\ intent[i].action = "RESUME_REQUEST") =>
          /\ task.state = "PAUSED" /\ PendingApprovals = {} /\ PreparedOperations = {}
          /\ task'.state = task.resume
<1>1. IInv /\ [Next]_vars => [Gated]_vars
  <2> SUFFICES ASSUME IInv, [Next]_vars PROVE Gated
    OBVIOUS
  <2>0. TypeOK /\ HolderInv /\ GateInv
    BY DEF IInv
  <2>1. CASE applied' = applied
    BY <2>1
  <2>2. ASSUME NEW p \in Processes, ApplyTransition(p) PROVE Gated
    <3> DEFINE j == proc[p].intent
    <3>1. /\ applied' = [applied EXCEPT ![j] = @ + 1] /\ proc[p].pc = "transition"
          /\ task'.state = Target(j)
      BY <2>0, <2>2, ApplyFacts
    <3>2. GateOpen(j)
      BY <2>0, <3>1 DEF GateInv
    <3>3. \A i \in Intents : applied'[i] # applied[i] => i = j
      BY <2>0, <3>1 DEF TypeOK
    <3> QED
      BY <3>1, <3>2, <3>3 DEF GateOpen, Target
  <2>3. ASSUME NEW p \in Processes, Check(p) \/ RejectTransition(p) \/ FinishApplied(p)
        PROVE  applied' = applied
    BY <2>3 DEF Check, RejectTransition, FinishApplied, FinishIntent, history
  <2>4. ASSUME NEW p \in Processes, NEW i \in Intents, Process(p, i) PROVE applied' = applied
    BY <2>4 DEF Process, history
  <2>5. ASSUME NEW i \in Intents, NEW action \in Actions, Submit(i, action) PROVE applied' = applied
    BY <2>5 DEF Submit, history
  <2> QED
    BY <2>0, <2>1, <2>2, <2>3, <2>4, <2>5, NextCases, CommandFacts DEF Leaving, vars, history
<1> QED
  BY <1>1, Invariance, PTL DEF ResumeIsGated, Spec

(***************************************************************************)
(* Proofs about Page, for any tasks, commits, loads and readings and a     *)
(* finite set of parts.  Everything the page keeps was answered for the    *)
(* HEAD it is kept for, so that what is shown needs only to be compared    *)
(* with the HEAD and the task of the page; a refresh is handled only when  *)
(* all of its answers are of one HEAD, and those are kept until then.      *)
(***************************************************************************)
Shas == Heads \cup {None}
Answers == [at : {"unsent", "sent", "made", "failed", "answered"}, rows : Nat, head : Shas]
Keeps == [task : Tasks \cup {None}, expected : Shas, head : Shas, rows : Nat]
KeepsOrNone == Keeps \cup {None}
Contents ==
  [kind : {"loading", "overview", "tasks", "reading", "evidence", "error"}, base : SUBSET Shas,
   detail : KeepsOrNone, events : KeepsOrNone, evidence : KeepsOrNone]
Pages ==
  [view : Views, selectedTask : Tasks \cup {None}, sourceHeadSha : Shas, failed : BOOLEAN,
   base : SUBSET Shas, details : [Tasks -> KeepsOrNone], selectedDetail : KeepsOrNone, selectedEvents : KeepsOrNone,
   evidence : KeepsOrNone, content : Contents]
Refreshes ==
  [at : {"idle", "base", "details", "events"}, selected : Tasks \cup {None}, head : Shas,
   base : SUBSET Shas]
OwnLoads == [task : Tasks \cup {None}, head : Shas, newest : BOOLEAN]

(* What is kept has been answered for the HEAD it was kept for.            *)
OneSha(kept) == kept # None => kept.head = kept.expected

Consistent(p) ==
  /\ p \in Pages
  /\ p.base \subseteq {p.sourceHeadSha}
  /\ OneSha(p.selectedDetail) /\ OneSha(p.selectedEvents) /\ OneSha(p.evidence)
  /\ \A t \in Tasks : OneSha(p.details[t])

Belongs(p, kept) ==
  kept # None => kept.task = p.selectedTask /\ kept.head = p.sourceHeadSha

OnScreen(p) ==
  /\ p.content.base \subseteq {p.sourceHeadSha}
  /\ Belongs(p, p.content.detail) /\ Belongs(p, p.content.events) /\ Belongs(p, p.content.evidence)

(* What a refresh has, has come from one HEAD.                             *)
RefreshInv ==
  /\ refresh.at \in {"details", "events"} => refresh.base \subseteq {refresh.head}
  /\ refresh.at = "events" =>
       \A r \in OfDetails : request[r].at = "answered" /\ request[r].head = refresh.head

PageTypes ==
  /\ head \in Heads /\ rows \in Nat
  /\ request \in [Requests -> Answers]
  /\ refresh \in Refreshes
  /\ load \in [Loads -> OwnLoads] /\ reading \in [Readings -> OwnLoads]
  /\ submission \in Tasks \cup {None}

PageInv == PageTypes /\ Consistent(page) /\ OnScreen(page) /\ RefreshInv

-----------------------------------------------------------------------------
(* Rendering.                                                              *)
LEMMA BlankTypes ==
  /\ Blank \in Contents /\ Reading \in Contents /\ Opened \in Pages
  /\ Blank.base = {} /\ Blank.detail = None /\ Blank.events = None /\ Blank.evidence = None
  /\ Reading.base = {} /\ Reading.detail = None /\ Reading.events = None /\ Reading.evidence = None
<1>1. Blank \in Contents /\ Reading \in Contents
  BY DEF Blank, Reading, Contents, KeepsOrNone
<1>2. Opened \in Pages
  BY <1>1 DEF Opened, Pages, Views, Shas, KeepsOrNone
<1>3. /\ Blank.base = {} /\ Blank.detail = None /\ Blank.events = None /\ Blank.evidence = None
      /\ Reading.base = {} /\ Reading.detail = None /\ Reading.events = None
      /\ Reading.evidence = None
  BY DEF Blank, Reading
<1> QED
  BY <1>1, <1>2, <1>3

(* Content that is shown instead of what was.                              *)
LEMMA ContentShown ==
  ASSUME NEW p, Consistent(p), NEW c \in Contents,
         c.base \subseteq {p.sourceHeadSha},
         Belongs(p, c.detail), Belongs(p, c.events), Belongs(p, c.evidence)
  PROVE  Consistent([p EXCEPT !.content = c]) /\ OnScreen([p EXCEPT !.content = c])
<1> DEFINE q == [p EXCEPT !.content = c]
<1>1. p \in Pages
  BY DEF Consistent
<1>2. /\ q \in Pages /\ q.content = c
      /\ q.sourceHeadSha = p.sourceHeadSha /\ q.selectedTask = p.selectedTask /\ q.base = p.base
      /\ q.selectedDetail = p.selectedDetail /\ q.selectedEvents = p.selectedEvents
      /\ q.evidence = p.evidence /\ q.details = p.details
  BY <1>1 DEF Pages
<1> HIDE DEF q
<1>3. Consistent(q)
  BY <1>2 DEF Consistent
<1>4. OnScreen(q)
  BY <1>2 DEF OnScreen, Belongs
<1> QED
  BY <1>3, <1>4 DEF q

LEMMA ReadingShown ==
  ASSUME NEW p, Consistent(p)
  PROVE  Consistent([p EXCEPT !.content = Reading]) /\ OnScreen([p EXCEPT !.content = Reading])
  BY BlankTypes, ContentShown DEF Belongs

LEMMA ErrorShown ==
  ASSUME NEW p, Consistent(p)
  PROVE  Consistent(RenderError(p)) /\ OnScreen(RenderError(p))
<1> DEFINE c == [Blank EXCEPT !.kind = "error"]
<1>1. c \in Contents /\ c.base = {} /\ c.detail = None /\ c.events = None /\ c.evidence = None
  BY BlankTypes DEF Contents
<1> HIDE DEF c
<1>2. Consistent([p EXCEPT !.content = c]) /\ OnScreen([p EXCEPT !.content = c])
  BY <1>1, ContentShown DEF Belongs
<1> QED
  BY <1>2 DEF RenderError, c

LEMMA OverviewShown ==
  ASSUME NEW p, Consistent(p)
  PROVE  Consistent(RenderOverview(p)) /\ OnScreen(RenderOverview(p))
<1> DEFINE c == [Blank EXCEPT !.kind = "overview", !.base = p.base]
<1>0. p.base \in SUBSET Shas /\ p.base \subseteq {p.sourceHeadSha}
  BY DEF Consistent, Pages
<1>1. c \in Contents /\ c.base = p.base /\ c.detail = None /\ c.events = None /\ c.evidence = None
  BY <1>0, BlankTypes DEF Contents
<1> HIDE DEF c
<1>2. Consistent([p EXCEPT !.content = c]) /\ OnScreen([p EXCEPT !.content = c])
  BY <1>0, <1>1, ContentShown DEF Belongs
<1> QED
  BY <1>2 DEF RenderOverview, c

LEMMA ShownBelongs ==
  ASSUME NEW p, NEW kept \in KeepsOrNone, OneSha(kept)
  PROVE  Shown(p, kept) \in KeepsOrNone /\ OneSha(Shown(p, kept)) /\ Belongs(p, Shown(p, kept))
  BY DEF Shown, Current, OneSha, Belongs, KeepsOrNone

LEMMA EvidenceShown ==
  ASSUME NEW p, Consistent(p)
  PROVE  Consistent(RenderEvidence(p)) /\ OnScreen(RenderEvidence(p))
<1>0. p.evidence \in KeepsOrNone /\ OneSha(p.evidence)
  BY DEF Consistent, Pages
<1> DEFINE c == [Blank EXCEPT !.kind = "evidence"]
           d == [Blank EXCEPT !.kind = "evidence", !.evidence = p.evidence]
<1>1. c \in Contents /\ c.base = {} /\ c.detail = None /\ c.events = None /\ c.evidence = None
  BY BlankTypes DEF Contents
<1>2. d \in Contents /\ d.base = {} /\ d.detail = None /\ d.events = None /\ d.evidence = p.evidence
  BY <1>0, BlankTypes DEF Contents
<1> HIDE DEF c, d
<1>3. Consistent([p EXCEPT !.content = c]) /\ OnScreen([p EXCEPT !.content = c])
  BY <1>1, ContentShown DEF Belongs
<1>4. Shown(p, p.evidence) # None =>
        Consistent([p EXCEPT !.content = d]) /\ OnScreen([p EXCEPT !.content = d])
  <2> SUFFICES ASSUME Shown(p, p.evidence) # None
               PROVE  Consistent([p EXCEPT !.content = d]) /\ OnScreen([p EXCEPT !.content = d])
    OBVIOUS
  <2>1. Belongs(p, d.evidence)
    BY <1>0, <1>2, ShownBelongs DEF Shown
  <2> QED
    BY <1>2, <2>1, ContentShown DEF Belongs
<1>5. \/ RenderEvidence(p) = [p EXCEPT !.content = c]
      \/ RenderEvidence(p) = [p EXCEPT !.content = Reading]
      \/ Shown(p, p.evidence) # None /\ RenderEvidence(p) = [p EXCEPT !.content = d]
  BY DEF RenderEvidence, c, d
<1> QED
  BY <1>3, <1>4, <1>5, ReadingShown

LEMMA TasksShown ==
  ASSUME NEW p, Consistent(p)
  PROVE  Consistent(RenderTasks(p)) /\ OnScreen(RenderTasks(p))
<1> DEFINE detail == Shown(p, p.selectedDetail)
           timeline == Shown(p, p.selectedEvents)
           c == [kind |-> "tasks", base |-> p.base, detail |-> detail,
                 events |-> IF detail = None THEN None ELSE timeline, evidence |-> None]
           q == [p EXCEPT !.selectedEvents = timeline]
<1>0. /\ p \in Pages /\ p.selectedDetail \in KeepsOrNone /\ OneSha(p.selectedDetail)
      /\ p.selectedEvents \in KeepsOrNone /\ OneSha(p.selectedEvents)
      /\ p.base \in SUBSET Shas /\ p.base \subseteq {p.sourceHeadSha}
  BY DEF Consistent, Pages
<1>1. /\ detail \in KeepsOrNone /\ OneSha(detail) /\ Belongs(p, detail)
      /\ timeline \in KeepsOrNone /\ OneSha(timeline) /\ Belongs(p, timeline)
  BY <1>0, ShownBelongs
<1> HIDE DEF detail, timeline
<1>2. /\ c \in Contents /\ c.base = p.base /\ c.detail = detail /\ c.evidence = None
      /\ c.events \in {None, timeline}
  BY <1>0, <1>1 DEF Contents, KeepsOrNone
<1>3. /\ q \in Pages /\ q.selectedEvents = timeline
      /\ q.sourceHeadSha = p.sourceHeadSha /\ q.selectedTask = p.selectedTask /\ q.base = p.base
      /\ q.selectedDetail = p.selectedDetail /\ q.evidence = p.evidence /\ q.details = p.details
  BY <1>0, <1>1 DEF Pages
<1>4. RenderTasks(p) = [q EXCEPT !.content = c]
  BY <1>0 DEF RenderTasks, Pages, detail, timeline
<1> HIDE DEF c, q
<1>5. Consistent(q)
  BY <1>1, <1>3 DEF Consistent
<1>6. Belongs(q, c.detail) /\ Belongs(q, c.events) /\ Belongs(q, c.evidence)
  BY <1>1, <1>2, <1>3 DEF Belongs
<1> QED
  BY <1>0, <1>2, <1>3, <1>4, <1>5, <1>6, ContentShown

LEMMA ViewShown ==
  ASSUME NEW p, Consistent(p)
  PROVE  Consistent(RenderView(p)) /\ OnScreen(RenderView(p))
<1>1. p.view \in {"overview", "tasks", "evidence"}
  BY DEF Consistent, Pages, Views
<1> QED
  BY <1>1, OverviewShown, TasksShown, EvidenceShown DEF RenderView

LEMMA CurrentShown ==
  ASSUME NEW p, Consistent(p), OnScreen(p)
  PROVE  Consistent(RenderCurrent(p)) /\ OnScreen(RenderCurrent(p))
  BY ViewShown, ErrorShown, EvidenceShown DEF RenderCurrent

-----------------------------------------------------------------------------
(* Requests.                                                               *)
LEMMA RequestFacts ==
  /\ \A part \in Parts : <<"base", part>> \in Requests
  /\ \A t \in Tasks : <<"detail", t>> \in Requests
  /\ \A l \in Loads : OfLoad(l) \subseteq Requests
  /\ \A e \in Readings : <<"evidence", e>> \in Requests
  /\ refresh.selected \in Tasks \cup {None} => OfDetails \subseteq {"detail"} \X Tasks
  /\ <<"events", None>> \in Requests
<1>1. \A part \in Parts : <<"base", part>> \in Requests
  BY DEF Requests
<1>2. \A t \in Tasks : <<"detail", t>> \in Requests
  BY DEF Requests
<1>3. \A l \in Loads : OfLoad(l) \subseteq Requests
  <2> SUFFICES ASSUME NEW l \in Loads, NEW r \in OfLoad(l) PROVE r \in Requests
    OBVIOUS
  <2>1. r = <<"load detail", l>> \/ r = <<"load events", l>>
    BY DEF OfLoad
  <2>2. /\ <<"load detail", l>> \in {"load detail", "load events"} \X Loads
        /\ <<"load events", l>> \in {"load detail", "load events"} \X Loads
    OBVIOUS
  <2>3. {"load detail", "load events"} \X Loads \subseteq Requests
    BY Zenon DEF Requests
  <2> QED
    BY <2>1, <2>2, <2>3, Zenon
<1>4. \A e \in Readings : <<"evidence", e>> \in Requests
  BY DEF Requests
<1>5. refresh.selected \in Tasks \cup {None} => OfDetails \subseteq {"detail"} \X Tasks
  BY ActiveAssumption DEF OfDetails
<1>6. <<"events", None>> \in Requests
  BY DEF Requests
<1> QED
  BY <1>1, <1>2, <1>3, <1>4, <1>5, <1>6

LEMMA AskTypes ==
  ASSUME NEW now \in [Requests -> Answers], NEW R
  PROVE  /\ Ask(now, R) \in [Requests -> Answers]
         /\ \A r \in Requests : r \notin R => Ask(now, R)[r] = now[r]
<1>1. Sent \in Answers
  BY DEF Sent, Unsent, Answers, Shas
<1> QED
  BY <1>1 DEF Ask

LEMMA ForgetTypes ==
  ASSUME NEW now \in [Requests -> Answers], NEW R
  PROVE  /\ Forget(now, R) \in [Requests -> Answers]
         /\ \A r \in Requests : r \notin R => Forget(now, R)[r] = now[r]
<1>1. Unsent \in Answers
  BY DEF Unsent, Answers, Shas
<1> QED
  BY <1>1 DEF Forget

LEMMA NewestTypes ==
  ASSUME NEW D, NEW loads \in [D -> OwnLoads], NEW l, NEW t \in Tasks \cup {None},
         NEW p, p.sourceHeadSha \in Shas
  PROVE  Newest(loads, l, t, p) \in [D -> OwnLoads]
<1>1. [task |-> t, head |-> p.sourceHeadSha, newest |-> TRUE] \in OwnLoads
  BY DEF OwnLoads
<1>2. \A m \in D : [loads[m] EXCEPT !.newest = FALSE] \in OwnLoads
  BY DEF OwnLoads
<1> QED
  BY <1>1, <1>2 DEF Newest

LEMMA NoneTypes == NoLoad \in OwnLoads /\ NoRefresh \in Refreshes /\ NoRefresh.at = "idle"
  BY DEF NoLoad, OwnLoads, NoRefresh, Refreshes, Shas

(* The details a refresh has checked stay as they are as long as nothing   *)
(* but other requests changes.                                             *)
LEMMA RefreshRests ==
  ASSUME PageTypes, RefreshInv, refresh' = refresh,
         \A r \in {"detail"} \X Tasks : request[r].at = "answered" => request'[r] = request[r]
  PROVE  RefreshInv'
<1>1. OfDetails \subseteq {"detail"} \X Tasks
  BY RequestFacts DEF PageTypes, Refreshes
<1>2. OfDetails' = OfDetails
  BY DEF OfDetails
<1> QED
  BY <1>1, <1>2 DEF RefreshInv

LEMMA IdleRests == refresh' = NoRefresh => RefreshInv'
  BY NoneTypes DEF RefreshInv

LEMMA ElsewhereRests ==
  ASSUME NEW R, R \cap ({"detail"} \X Tasks) = {}, PageTypes, NEW now, now \in [Requests -> Answers]
  PROVE  /\ \A r \in {"detail"} \X Tasks : Ask(now, R)[r] = now[r]
         /\ \A r \in {"detail"} \X Tasks : Forget(now, R)[r] = now[r]
<1>1. {"detail"} \X Tasks \subseteq Requests
  BY DEF Requests
<1>2. \A r \in {"detail"} \X Tasks : r \in Requests /\ r \notin R
  BY <1>1
<1> QED
  BY <1>2, AskTypes, ForgetTypes

-----------------------------------------------------------------------------
LEMMA PageStarts == PageInit => PageInv
<1> SUFFICES ASSUME PageInit PROVE PageInv
  OBVIOUS
<1>1. PageTypes
  <2>1. Unsent \in Answers
    BY DEF Unsent, Answers, Shas
  <2> QED
    BY <2>1, NoneTypes DEF PageInit, PageTypes
<1>2. RefreshInv
  BY NoneTypes DEF PageInit, RefreshInv
<1>3. Consistent(Opened) /\ OnScreen(Opened)
  <2>1. Consistent(Opened)
    BY BlankTypes DEF Consistent, Opened, OneSha
  <2>2. OnScreen(Opened)
    BY BlankTypes DEF OnScreen, Opened, Belongs
  <2> QED
    BY <2>1, <2>2
<1>4. ASSUME NEW t \in Tasks, NEW view \in Views, NEW evidence
      PROVE  Consistent(InUse(t, view, evidence)) /\ OnScreen(InUse(t, view, evidence))
  <2> DEFINE kept(u) == [task |-> u, expected |-> head, head |-> head, rows |-> 0]
             p == [view |-> view, selectedTask |-> t, sourceHeadSha |-> head, failed |-> FALSE,
                   base |-> {head},
                   details |-> [u \in Tasks |-> IF u \in Active \cup {t} THEN kept(u) ELSE None],
                   selectedDetail |-> kept(t), selectedEvents |-> kept(t),
                   evidence |-> IF evidence THEN kept(t) ELSE None, content |-> Blank]
  <2>1. \A u \in Tasks : kept(u) \in KeepsOrNone /\ OneSha(kept(u))
    BY <1>1 DEF PageTypes, KeepsOrNone, Keeps, Shas, OneSha
  <2> HIDE DEF kept
  <2>2. p \in Pages
    BY <1>1, <1>4, <2>1, BlankTypes DEF PageTypes, Pages, Shas, KeepsOrNone
  <2>3. Consistent(p)
    BY <2>1, <2>2 DEF Consistent, OneSha
  <2>4. InUse(t, view, evidence) = RenderView(p)
    BY DEF InUse, kept
  <2> HIDE DEF p
  <2> QED
    BY <2>3, <2>4, ViewShown
<1>5. Consistent(page) /\ OnScreen(page)
  BY <1>3, <1>4 DEF PageInit, Views
<1> QED
  BY <1>1, <1>2, <1>5 DEF PageInv

-----------------------------------------------------------------------------
(* The repository, the server and the connection.                          *)
LEMMA OutsideKeeps ==
  ASSUME PageInv,
         MoveHead \/ ChangeRows \/ \E r \in Requests : MakeAnswer(r) \/ Answer(r) \/ Fail(r)
  PROVE  PageInv'
<1>0. PageTypes /\ Consistent(page) /\ OnScreen(page) /\ RefreshInv
  BY DEF PageInv
<1>1. page' = page /\ refresh' = refresh /\ load' = load /\ reading' = reading
      /\ submission' = submission
  BY DEF MoveHead, ChangeRows, MakeAnswer, Answer, Fail
<1>2. head' \in Heads /\ rows' \in Nat
  <2>1. \/ UNCHANGED server
        \/ head' \in Heads /\ rows' = rows
        \/ head' = head /\ rows' = rows + 1
    BY DEF MoveHead, ChangeRows, MakeAnswer, Answer, Fail
  <2> QED
    BY <1>0, <2>1 DEF PageTypes, server
<1>3. /\ request' \in [Requests -> Answers]
      /\ \A r \in Requests : request[r].at = "answered" => request'[r] = request[r]
  <2>1. CASE MoveHead \/ ChangeRows
    BY <1>0, <2>1 DEF MoveHead, ChangeRows, PageTypes
  <2>2. ASSUME NEW r \in Requests, MakeAnswer(r) \/ Answer(r) \/ Fail(r)
        PROVE  /\ request' \in [Requests -> Answers]
               /\ \A s \in Requests : request[s].at = "answered" => request'[s] = request[s]
    <3>1. PICK a \in Answers : request' = [request EXCEPT ![r] = a]
      <4>1. Failed \in Answers
        BY DEF Failed, Unsent, Answers, Shas
      <4>2. [Unsent EXCEPT !.at = "made", !.rows = rows] \in Answers
        BY <1>0 DEF PageTypes, Unsent, Answers, Shas
      <4>3. [request[r] EXCEPT !.at = "answered", !.head = head] \in Answers
        BY <1>0 DEF PageTypes, Answers, Shas
      <4>4. \/ request' = [request EXCEPT ![r] = [Unsent EXCEPT !.at = "made", !.rows = rows]]
            \/ request' = [request EXCEPT ![r] =
                             [request[r] EXCEPT !.at = "answered", !.head = head]]
            \/ request' = [request EXCEPT ![r] = Failed]
        BY <2>2 DEF MakeAnswer, Answer, Fail
      <4> QED
        BY <4>1, <4>2, <4>3, <4>4, Zenon
    <3>2. request[r].at # "answered"
      BY <2>2 DEF MakeAnswer, Answer, Fail
    <3> QED
      BY <1>0, <3>1, <3>2 DEF PageTypes
  <2> QED
    BY <2>1, <2>2
<1>4. PageTypes'
  BY <1>0, <1>1, <1>2, <1>3 DEF PageTypes
<1>5. RefreshInv'
  BY <1>0, <1>1, <1>3, RefreshRests DEF Requests
<1> QED
  BY <1>0, <1>1, <1>4, <1>5 DEF PageInv

-----------------------------------------------------------------------------
(* Loads.                                                                  *)
LEMMA LoadApart ==
  /\ \A l : OfLoad(l) \cap ({"detail"} \X Tasks) = {}
  /\ \A e : {<<"evidence", e>>} \cap ({"detail"} \X Tasks) = {}
<1>1. \A r \in {"detail"} \X Tasks : r[1] = "detail"
  OBVIOUS
<1>2. \A l : <<"load detail", l>>[1] = "load detail" /\ <<"load events", l>>[1] = "load events"
  OBVIOUS
<1>3. \A e : <<"evidence", e>>[1] = "evidence"
  OBVIOUS
<1>4. \A l : \A r \in OfLoad(l) : r[1] # "detail"
  BY <1>2 DEF OfLoad
<1> QED
  BY <1>1, <1>3, <1>4

LEMMA FreeOne ==
  ASSUME NEW loads, Room(loads)
  PROVE  Free(loads) \in DOMAIN loads
  BY DEF Room, Free

(* BeginLoad and BeginReading on top of a page that is as it should be.    *)
LEMMA LoadBegins ==
  ASSUME PageInv, NEW t \in Tasks \cup {None}, NEW p \in Pages, BeginLoad(t, p), refresh' = refresh
  PROVE  /\ load' \in [Loads -> OwnLoads] /\ request' \in [Requests -> Answers] /\ RefreshInv'
<1>0. PageTypes /\ RefreshInv /\ p.sourceHeadSha \in Shas
  BY DEF PageInv, Pages
<1>1. load' \in [Loads -> OwnLoads]
  BY <1>0, NewestTypes DEF BeginLoad, PageTypes
<1>2. request' \in [Requests -> Answers]
  BY <1>0, AskTypes DEF BeginLoad, PageTypes
<1>3. \A r \in {"detail"} \X Tasks : request'[r] = request[r]
  BY <1>0, LoadApart, ElsewhereRests DEF BeginLoad, PageTypes
<1> QED
  BY <1>0, <1>1, <1>2, <1>3, RefreshRests

LEMMA ReadingBegins ==
  ASSUME PageInv, NEW p \in Pages, BeginReading(p), refresh' = refresh
  PROVE  /\ reading' \in [Readings -> OwnLoads] /\ request' \in [Requests -> Answers] /\ RefreshInv'
<1>0. PageTypes /\ RefreshInv /\ p.sourceHeadSha \in Shas /\ p.selectedTask \in Tasks \cup {None}
  BY DEF PageInv, Pages
<1>1. reading' \in [Readings -> OwnLoads]
  BY <1>0, NewestTypes DEF BeginReading, PageTypes
<1>2. request' \in [Requests -> Answers]
  BY <1>0, AskTypes DEF BeginReading, PageTypes
<1>3. \A r \in {"detail"} \X Tasks : request'[r] = request[r]
  BY <1>0, LoadApart, ElsewhereRests DEF BeginReading, PageTypes
<1> QED
  BY <1>0, <1>1, <1>2, <1>3, RefreshRests

(* What has been answered for the HEAD it was asked for may be kept.       *)
LEMMA KeptTypes ==
  ASSUME NEW t \in Tasks \cup {None}, NEW h \in Shas, NEW a \in Answers
  PROVE  Kept(t, h, a) \in KeepsOrNone /\ (a.head = h => OneSha(Kept(t, h, a)))
  BY DEF Kept, Answers, Keeps, KeepsOrNone, OneSha

LEMMA LoadDoneKeeps ==
  ASSUME PageInv, NEW l \in Loads, LoadDone(l)
  PROVE  PageInv'
<1>0. PageTypes /\ Consistent(page) /\ OnScreen(page) /\ RefreshInv
  BY DEF PageInv
<1> DEFINE own == load[l]
           detail == Kept(own.task, own.head, request[<<"load detail", l>>])
           timeline == Kept(own.task, own.head, request[<<"load events", l>>])
           good == Answered(OfLoad(l)) /\ OfHead(OfLoad(l), own.head)
           p == [page EXCEPT !.selectedDetail = detail, !.selectedEvents = timeline]
<1>1. /\ own.task \in Tasks \cup {None} /\ own.head \in Shas
      /\ request[<<"load detail", l>>] \in Answers /\ request[<<"load events", l>>] \in Answers
  BY <1>0, RequestFacts DEF PageTypes, OwnLoads, OfLoad
<1>2. /\ detail \in KeepsOrNone /\ timeline \in KeepsOrNone
      /\ good => OneSha(detail) /\ OneSha(timeline)
  BY <1>1, KeptTypes DEF OfHead, OfLoad
<1>3. \/ page' = page
      \/ good /\ page' = RenderTasks(p)
      \/ page' = RenderError(page)
  BY DEF LoadDone
<1> HIDE DEF own, detail, timeline, good
<1>4. good => Consistent(p)
  <2>1. page \in Pages
    BY <1>0 DEF Consistent
  <2>2. /\ p \in Pages /\ p.selectedDetail = detail /\ p.selectedEvents = timeline
        /\ p.base = page.base /\ p.sourceHeadSha = page.sourceHeadSha
        /\ p.evidence = page.evidence /\ p.details = page.details
    BY <1>2, <2>1 DEF Pages
  <2> HIDE DEF p
  <2> QED
    BY <1>0, <1>2, <2>2 DEF Consistent
<1> HIDE DEF p
<1>5. Consistent(page') /\ OnScreen(page')
  BY <1>0, <1>3, <1>4, TasksShown, ErrorShown
<1>6. PageTypes'
  BY <1>0, NoneTypes, ForgetTypes DEF LoadDone, PageTypes, server
<1>7. RefreshInv'
  BY <1>0, LoadApart, ElsewhereRests, RefreshRests DEF LoadDone, PageTypes
<1> QED
  BY <1>5, <1>6, <1>7 DEF PageInv

LEMMA ReadingDoneKeeps ==
  ASSUME PageInv, NEW e \in Readings, ReadingDone(e)
  PROVE  PageInv'
<1>0. PageTypes /\ Consistent(page) /\ OnScreen(page) /\ RefreshInv
  BY DEF PageInv
<1> DEFINE own == reading[e]
           kept == Kept(own.task, own.head, request[<<"evidence", e>>])
           good == Answered({<<"evidence", e>>}) /\ OfHead({<<"evidence", e>>}, own.head)
           p == [page EXCEPT !.evidence = kept]
<1>1. own.task \in Tasks \cup {None} /\ own.head \in Shas /\ request[<<"evidence", e>>] \in Answers
  BY <1>0, RequestFacts DEF PageTypes, OwnLoads
<1>2. kept \in KeepsOrNone /\ (good => OneSha(kept))
  BY <1>1, KeptTypes DEF OfHead
<1>3. \/ page' = page
      \/ good /\ page' = RenderEvidence(p)
      \/ page' = RenderError(page)
  BY DEF ReadingDone
<1> HIDE DEF own, kept, good
<1>4. good => Consistent(p)
  <2>1. page \in Pages
    BY <1>0 DEF Consistent
  <2>2. /\ p \in Pages /\ p.selectedDetail = page.selectedDetail
        /\ p.selectedEvents = page.selectedEvents
        /\ p.base = page.base /\ p.sourceHeadSha = page.sourceHeadSha
        /\ p.evidence = kept /\ p.details = page.details
    BY <1>2, <2>1 DEF Pages
  <2> HIDE DEF p
  <2> QED
    BY <1>0, <1>2, <2>2 DEF Consistent
<1> HIDE DEF p
<1>5. Consistent(page') /\ OnScreen(page')
  BY <1>0, <1>3, <1>4, EvidenceShown, ErrorShown
<1>6. PageTypes'
  BY <1>0, NoneTypes, ForgetTypes DEF ReadingDone, PageTypes, server
<1>7. RefreshInv'
  BY <1>0, LoadApart, ElsewhereRests, RefreshRests DEF ReadingDone, PageTypes
<1> QED
  BY <1>5, <1>6, <1>7 DEF PageInv

-----------------------------------------------------------------------------
(* The user.                                                               *)
LEMMA ChooseTaskKeeps ==
  ASSUME PageInv, NEW t \in Tasks, ChooseTask(t)
  PROVE  PageInv'
<1>0. PageTypes /\ Consistent(page) /\ OnScreen(page) /\ RefreshInv /\ page \in Pages
  BY DEF PageInv, Consistent
<1> DEFINE q == [page EXCEPT
                   !.view = "tasks", !.selectedTask = t, !.selectedDetail = page.details[t],
                   !.selectedEvents = None,
                   !.evidence = IF @ # None /\ @.task = t THEN @ ELSE None]
           p == RenderTasks(q)
<1>1. /\ q \in Pages /\ q.selectedDetail = page.details[t] /\ q.selectedEvents = None
      /\ q.base = page.base /\ q.sourceHeadSha = page.sourceHeadSha
      /\ q.evidence \in {None, page.evidence} /\ q.details = page.details
  BY <1>0 DEF Pages, Views, KeepsOrNone
<1>2. page' = p /\ BeginLoad(t, p) /\ UNCHANGED <<server, refresh, reading, submission>>
  BY DEF ChooseTask
<1> HIDE DEF q
<1>3. Consistent(q)
  BY <1>0, <1>1 DEF Consistent, OneSha
<1>4. Consistent(p) /\ OnScreen(p)
  BY <1>3, TasksShown
<1> HIDE DEF p
<1>5. p \in Pages
  BY <1>4 DEF Consistent
<1>6. load' \in [Loads -> OwnLoads] /\ request' \in [Requests -> Answers] /\ RefreshInv'
  BY <1>2, <1>5, LoadBegins
<1>7. PageTypes'
  BY <1>0, <1>2, <1>6 DEF PageTypes, server
<1> QED
  BY <1>2, <1>4, <1>6, <1>7 DEF PageInv

LEMMA ChooseEvidenceKeeps ==
  ASSUME PageInv, ChooseEvidence
  PROVE  PageInv'
<1>0. PageTypes /\ Consistent(page) /\ OnScreen(page) /\ RefreshInv /\ page \in Pages
  BY DEF PageInv, Consistent
<1> DEFINE q == [page EXCEPT !.view = "evidence", !.selectedTask = page.content.detail.task]
           p == [page EXCEPT !.view = "evidence", !.selectedTask = page.content.detail.task,
                             !.content = Reading]
<1>1. page.content.detail.task \in Tasks \cup {None}
  <2>1. page.content.detail \in Keeps
    BY <1>0 DEF ChooseEvidence, Pages, Contents, KeepsOrNone
  <2> QED
    BY <2>1 DEF Keeps
<1>2. /\ q \in Pages /\ q.selectedDetail = page.selectedDetail
      /\ q.selectedEvents = page.selectedEvents
      /\ q.base = page.base /\ q.sourceHeadSha = page.sourceHeadSha
      /\ q.evidence = page.evidence /\ q.details = page.details
  BY <1>0, <1>1 DEF Pages, Views
<1>3. p = [q EXCEPT !.content = Reading]
  BY <1>0 DEF Pages
<1>4. page' = p /\ BeginReading(p) /\ UNCHANGED <<server, refresh, load, submission>>
  BY DEF ChooseEvidence
<1> HIDE DEF q, p
<1>5. Consistent(q)
  BY <1>0, <1>2 DEF Consistent
<1>6. Consistent(p) /\ OnScreen(p)
  BY <1>3, <1>5, ReadingShown
<1>7. p \in Pages
  BY <1>6 DEF Consistent
<1>8. reading' \in [Readings -> OwnLoads] /\ request' \in [Requests -> Answers] /\ RefreshInv'
  BY <1>4, <1>7, ReadingBegins
<1>9. PageTypes'
  BY <1>0, <1>4, <1>8 DEF PageTypes, server
<1> QED
  BY <1>4, <1>6, <1>8, <1>9 DEF PageInv

LEMMA ChooseViewKeeps ==
  ASSUME PageInv, NEW v \in Views, ChooseView(v)
  PROVE  PageInv'
<1>0. PageTypes /\ Consistent(page) /\ OnScreen(page) /\ RefreshInv /\ page \in Pages
  BY DEF PageInv, Consistent
<1> DEFINE p == [page EXCEPT !.view = v]
<1>1. /\ p \in Pages /\ p.selectedDetail = page.selectedDetail
      /\ p.selectedEvents = page.selectedEvents
      /\ p.base = page.base /\ p.sourceHeadSha = page.sourceHeadSha
      /\ p.evidence = page.evidence /\ p.details = page.details
      /\ p.selectedTask = page.selectedTask /\ p.content = page.content
  BY <1>0 DEF Pages, Views
<1>2. /\ \/ page' = [p EXCEPT !.content = Reading] /\ BeginReading(p)
         \/ page' = RenderCurrent(p) /\ UNCHANGED <<reading, request>>
      /\ UNCHANGED <<server, refresh, load, submission>>
  BY DEF ChooseView
<1> HIDE DEF p
<1>3. Consistent(p)
  BY <1>0, <1>1 DEF Consistent
<1>8. OnScreen(p)
  BY <1>0, <1>1 DEF OnScreen, Belongs
<1>4. Consistent(page') /\ OnScreen(page')
  BY <1>2, <1>3, <1>8, ReadingShown, CurrentShown
<1>5. reading' \in [Readings -> OwnLoads] /\ request' \in [Requests -> Answers] /\ RefreshInv'
  <2>1. CASE BeginReading(p)
    BY <1>1, <1>2, <2>1, ReadingBegins
  <2>2. CASE UNCHANGED <<reading, request>>
    BY <1>0, <1>2, <2>2, RefreshRests DEF PageTypes
  <2> QED
    BY <1>2, <2>1, <2>2
<1>6. PageTypes'
  BY <1>0, <1>2, <1>5 DEF PageTypes, server
<1> QED
  BY <1>4, <1>5, <1>6 DEF PageInv

LEMMA IntentKeeps ==
  ASSUME PageInv, SubmitIntent \/ IntentAccepted \/ IntentRefused
  PROVE  PageInv'
<1>0. PageTypes /\ Consistent(page) /\ OnScreen(page) /\ RefreshInv /\ page \in Pages
  BY DEF PageInv, Consistent
<1>1. page' = page /\ refresh' = refresh /\ reading' = reading /\ UNCHANGED server
  BY DEF SubmitIntent, IntentAccepted, IntentRefused
<1>2. submission' \in Tasks \cup {None}
  <2>1. SubmitIntent => page.selectedDetail \in Keeps
    BY <1>0 DEF SubmitIntent, Pages, KeepsOrNone
  <2> QED
    BY <1>0, <2>1 DEF SubmitIntent, IntentAccepted, IntentRefused, PageTypes, Keeps
<1>3. load' \in [Loads -> OwnLoads] /\ request' \in [Requests -> Answers] /\ RefreshInv'
  <2>1. CASE IntentAccepted
    <3>1. submission \in Tasks \cup {None} /\ BeginLoad(submission, page)
      BY <1>0, <2>1 DEF IntentAccepted, PageTypes
    <3> QED
      BY <1>0, <1>1, <3>1, LoadBegins
  <2>2. CASE UNCHANGED <<request, load>>
    BY <1>0, <1>1, <2>2, RefreshRests DEF PageTypes
  <2> QED
    BY <2>1, <2>2 DEF SubmitIntent, IntentRefused
<1>4. PageTypes'
  BY <1>0, <1>1, <1>2, <1>3 DEF PageTypes, server
<1> QED
  BY <1>0, <1>1, <1>3, <1>4 DEF PageInv

-----------------------------------------------------------------------------
(* refresh.                                                                *)
LEMMA StartRefreshKeeps ==
  ASSUME PageInv, StartRefresh
  PROVE  PageInv'
<1>0. PageTypes /\ Consistent(page) /\ OnScreen(page) /\ page \in Pages
  BY DEF PageInv, Consistent
<1>1. refresh' \in Refreshes /\ refresh'.at = "base"
  BY <1>0, NoneTypes DEF StartRefresh, Refreshes, Pages
<1>2. request' \in [Requests -> Answers]
  BY <1>0, AskTypes DEF StartRefresh, PageTypes
<1>3. PageTypes'
  BY <1>0, <1>1, <1>2 DEF StartRefresh, PageTypes, server
<1>4. RefreshInv'
  BY <1>1 DEF RefreshInv
<1>5. Consistent(page') /\ OnScreen(page')
  BY <1>0, BlankTypes, ContentShown DEF StartRefresh, Belongs
<1> QED
  BY <1>3, <1>4, <1>5 DEF PageInv

LEMMA OneHeadMeans ==
  ASSUME PageTypes, OneHead, NEW part \in Parts
  PROVE  {request[r].head : r \in OfBase} = {request[<<"base", part>>].head}
<1> DEFINE S == {request[r].head : r \in OfBase}
           f == [x \in Parts |-> request[<<"base", x>>].head]
<1>1. S = {f[x] : x \in Parts}
  <2>1. ASSUME NEW x \in Parts PROVE f[x] \in S
    <3>1. <<"base", x>> \in OfBase
      BY DEF OfBase
    <3> QED
      BY <3>1, Zenon
  <2>2. ASSUME NEW r \in OfBase PROVE \E x \in Parts : request[r].head = f[x]
    <3>1. r[2] \in Parts /\ r = <<"base", r[2]>>
      BY DEF OfBase
    <3> QED
      BY <3>1, Zenon
  <2>3. S \subseteq {f[x] : x \in Parts}
    <3>1. ASSUME NEW s \in S PROVE s \in {f[x] : x \in Parts}
      <4>1. PICK r \in OfBase : s = request[r].head
        BY Zenon
      <4>2. PICK x \in Parts : request[r].head = f[x]
        BY <2>2, Zenon
      <4> HIDE DEF f
      <4> QED
        BY <4>1, <4>2, Zenon
    <3> QED
      BY <3>1, Zenon
  <2>4. {f[x] : x \in Parts} \subseteq S
    <3> HIDE DEF S, f
    <3> QED
      BY <2>1, Zenon
  <2> HIDE DEF S, f
  <2> QED
    BY <2>3, <2>4, Zenon
<1>2. f \in Surjection(Parts, S)
  BY <1>1 DEF Surjection
<1>3. IsFiniteSet(S)
  BY <1>2, PartsAssumption, FS_Surjection
<1>4. Cardinality(S) = 1
  BY DEF OneHead
<1>5. PICK h : S = {h}
  BY <1>3, <1>4, FS_Singleton
<1>6. request[<<"base", part>>].head \in S
  BY <1>1
<1> QED
  BY <1>5, <1>6

LEMMA BaseDoneKeeps ==
  ASSUME PageInv, BaseDone
  PROVE  PageInv'
<1>0. PageTypes /\ Consistent(page) /\ OnScreen(page)
  BY DEF PageInv
<1> DEFINE S == {request[r].head : r \in OfBase}
<1>1. PICK part \in Parts :
        refresh' = [refresh EXCEPT !.at = "details", !.head = request[<<"base", part>>].head,
                                   !.base = S]
  BY DEF BaseDone
<1>2. S = {request[<<"base", part>>].head}
  BY <1>0, OneHeadMeans DEF BaseDone
<1>3. request[<<"base", part>>].head \in Shas
  BY <1>0, RequestFacts DEF PageTypes, Answers
<1> HIDE DEF S
<1>4. /\ refresh' \in Refreshes /\ refresh'.at = "details"
      /\ refresh'.head = request[<<"base", part>>].head /\ refresh'.base = S
  BY <1>0, <1>1, <1>2, <1>3 DEF PageTypes, Refreshes
<1>5. request' \in [Requests -> Answers]
  <2>1. Forget(request, OfBase) \in [Requests -> Answers]
    BY <1>0, ForgetTypes DEF PageTypes
  <2> QED
    BY <2>1, AskTypes DEF BaseDone
<1>6. PageTypes' /\ page' = page
  BY <1>0, <1>4, <1>5 DEF BaseDone, PageTypes, server
<1>7. RefreshInv'
  BY <1>2, <1>4 DEF RefreshInv
<1> QED
  BY <1>0, <1>6, <1>7 DEF PageInv

LEMMA DetailsDoneKeeps ==
  ASSUME PageInv, DetailsDone
  PROVE  PageInv'
<1>0. PageTypes /\ Consistent(page) /\ OnScreen(page) /\ RefreshInv
  BY DEF PageInv
<1>1. /\ refresh' \in Refreshes /\ refresh'.at = "events" /\ refresh'.selected = refresh.selected
      /\ refresh'.head = refresh.head /\ refresh'.base = refresh.base
  BY <1>0 DEF DetailsDone, PageTypes, Refreshes
<1>2. request' \in [Requests -> Answers]
  BY <1>0, AskTypes DEF DetailsDone, PageTypes
<1>3. PageTypes' /\ page' = page
  BY <1>0, <1>1, <1>2 DEF DetailsDone, PageTypes, server
<1>4. \A r \in {"detail"} \X Tasks : request'[r] = request[r]
  <2>1. OfEvents \cap ({"detail"} \X Tasks) = {}
    <3>1. \A r \in {"detail"} \X Tasks : r[1] = "detail"
      OBVIOUS
    <3>2. <<"events", None>>[1] = "events"
      OBVIOUS
    <3> QED
      BY <3>1, <3>2 DEF OfEvents
  <2>2. request' = Ask(request, OfEvents) /\ request \in [Requests -> Answers]
    BY <1>0 DEF DetailsDone, PageTypes
  <2>3. {"detail"} \X Tasks \subseteq Requests
    BY Zenon DEF Requests
  <2>4. \A r \in {"detail"} \X Tasks : r \in Requests /\ r \notin OfEvents
    BY <2>1, <2>3, Zenon
  <2> QED
    BY <2>2, <2>4 DEF Ask
<1>5. OfDetails' = OfDetails /\ OfDetails \subseteq {"detail"} \X Tasks
  BY <1>0, <1>1, RequestFacts DEF OfDetails, PageTypes, Refreshes
<1>6. \A r \in OfDetails : request[r].at = "answered" /\ request[r].head = refresh.head
  BY DEF DetailsDone, Answered, OfHead
<1>7. refresh.base \subseteq {refresh.head}
  BY <1>0 DEF DetailsDone, RefreshInv
<1>8. RefreshInv'
  BY <1>1, <1>4, <1>5, <1>6, <1>7 DEF RefreshInv
<1> QED
  BY <1>0, <1>3, <1>8 DEF PageInv

LEMMA RefreshFailsKeeps ==
  ASSUME PageInv, RefreshFails
  PROVE  PageInv'
<1>0. PageTypes /\ Consistent(page) /\ OnScreen(page)
  BY DEF PageInv
<1>1. Consistent(page') /\ OnScreen(page')
  <2> DEFINE q == [page EXCEPT !.failed = TRUE]
  <2>1. page \in Pages
    BY <1>0 DEF Consistent
  <2>2. /\ q \in Pages /\ q.base = page.base /\ q.sourceHeadSha = page.sourceHeadSha
        /\ q.selectedDetail = page.selectedDetail /\ q.selectedEvents = page.selectedEvents
        /\ q.evidence = page.evidence /\ q.details = page.details
    BY <2>1 DEF Pages
  <2>3. page' = page \/ page' = RenderError(q)
    BY DEF RefreshFails
  <2> HIDE DEF q
  <2>4. Consistent(q)
    BY <1>0, <2>2 DEF Consistent
  <2> QED
    BY <1>0, <2>3, <2>4, ErrorShown
<1>2. request' \in [Requests -> Answers]
  BY <1>0, ForgetTypes DEF RefreshFails, PageTypes
<1>3. PageTypes' /\ RefreshInv'
  BY <1>0, <1>2, NoneTypes, IdleRests DEF RefreshFails, PageTypes, server
<1> QED
  BY <1>1, <1>3 DEF PageInv

(* What is published: the details, and perhaps the events, of one HEAD.    *)
LEMMA PublishedConsistent ==
  ASSUME PageInv, Publish
  PROVE  Consistent(Published)
<1>0. /\ PageTypes /\ Consistent(page) /\ RefreshInv /\ page \in Pages
      /\ refresh \in Refreshes /\ refresh.head \in Shas /\ refresh.selected \in Tasks \cup {None}
  BY DEF PageInv, Consistent, PageTypes, Refreshes
<1> DEFINE h == refresh.head
           fresh(t) == IF <<"detail", t>> \in OfDetails
                       THEN Kept(t, h, request[<<"detail", t>>]) ELSE None
           timeline == IF refresh.selected = None THEN None
                       ELSE Kept(refresh.selected, h, request[<<"events", None>>])
           details == [t \in Tasks |-> fresh(t)]
           evidence == IF page.evidence # None /\ page.evidence.expected = h
                       THEN page.evidence ELSE None
           base == [page EXCEPT !.base = refresh.base, !.sourceHeadSha = h,
                                !.failed = FALSE, !.details = details, !.evidence = evidence]
           detail == IF refresh.selected = None THEN None ELSE fresh(refresh.selected)
<1>1. refresh.base \subseteq {h} /\ refresh.base \in SUBSET Shas
  BY <1>0 DEF Publish, RefreshInv, Refreshes
<1>2. \A t \in Tasks : fresh(t) \in KeepsOrNone /\ OneSha(fresh(t))
  <2> SUFFICES ASSUME NEW t \in Tasks PROVE fresh(t) \in KeepsOrNone /\ OneSha(fresh(t))
    OBVIOUS
  <2>1. CASE <<"detail", t>> \notin OfDetails
    BY <2>1 DEF KeepsOrNone, OneSha
  <2>2. CASE <<"detail", t>> \in OfDetails
    <3>1. request[<<"detail", t>>] \in Answers
      BY <1>0, RequestFacts DEF PageTypes
    <3>2. request[<<"detail", t>>].head = h
      BY <1>0, <2>2 DEF Publish, OfHead, RefreshInv
    <3> QED
      BY <1>0, <2>2, <3>1, <3>2, KeptTypes
  <2> QED
    BY <2>1, <2>2
<1>3. timeline \in KeepsOrNone /\ OneSha(timeline)
  <2>1. CASE refresh.selected = None
    BY <2>1 DEF KeepsOrNone, OneSha
  <2>2. CASE refresh.selected # None
    <3>1. request[<<"events", None>>] \in Answers
      BY <1>0, RequestFacts DEF PageTypes
    <3>2. request[<<"events", None>>].head = h
      BY <2>2 DEF Publish, OfHead, OfEvents
    <3> QED
      BY <1>0, <2>2, <3>1, <3>2, KeptTypes
  <2> QED
    BY <2>1, <2>2
<1>4. detail \in KeepsOrNone /\ OneSha(detail)
  BY <1>0, <1>2 DEF KeepsOrNone, OneSha
<1>5. details \in [Tasks -> KeepsOrNone] /\ \A t \in Tasks : OneSha(details[t])
  BY <1>2
<1>6. evidence \in KeepsOrNone /\ OneSha(evidence)
  BY <1>0 DEF Consistent, Pages, KeepsOrNone, OneSha
<1>7. \/ Published = [base EXCEPT !.selectedDetail = detail, !.selectedEvents = timeline]
      \/ Published = base
      \/ Published = [base EXCEPT !.selectedDetail = None, !.selectedEvents = None]
  BY <1>0 DEF Published, Pages
<1> HIDE DEF h, fresh, timeline, details, evidence, detail
<1>8. /\ base \in Pages /\ base.base = refresh.base /\ base.sourceHeadSha = h
      /\ base.selectedDetail = page.selectedDetail /\ base.selectedEvents = page.selectedEvents
      /\ base.evidence = evidence /\ base.details = details
  BY <1>0, <1>1, <1>5, <1>6 DEF Pages, h
<1> HIDE DEF base
<1>9. Consistent(base)
  BY <1>0, <1>1, <1>5, <1>6, <1>8 DEF Consistent
<1>10. ASSUME NEW d \in KeepsOrNone, OneSha(d), NEW e \in KeepsOrNone, OneSha(e)
       PROVE  Consistent([base EXCEPT !.selectedDetail = d, !.selectedEvents = e])
  <2> DEFINE q == [base EXCEPT !.selectedDetail = d, !.selectedEvents = e]
  <2>1. /\ q \in Pages /\ q.base = base.base /\ q.sourceHeadSha = base.sourceHeadSha
        /\ q.selectedDetail = d /\ q.selectedEvents = e
        /\ q.evidence = base.evidence /\ q.details = base.details
    BY <1>8, <1>10 DEF Pages
  <2> HIDE DEF q
  <2>2. Consistent(q)
    BY <1>9, <1>10, <2>1 DEF Consistent
  <2> QED
    BY <2>2 DEF q
<1>11. None \in KeepsOrNone /\ OneSha(None)
  BY DEF KeepsOrNone, OneSha
<1> QED
  BY <1>3, <1>4, <1>7, <1>9, <1>10, <1>11

LEMMA PublishKeeps ==
  ASSUME PageInv, Publish
  PROVE  PageInv'
<1>0. PageTypes
  BY DEF PageInv
<1> DEFINE p == Published
<1>1. Consistent(p)
  BY PublishedConsistent
<1>2. /\ p \in Pages /\ p.sourceHeadSha \in Shas /\ p.selectedTask \in Tasks \cup {None}
  BY <1>1 DEF Consistent, Pages
<1>3. \/ page' = [RenderView(p) EXCEPT !.content = Reading]
      \/ page' = RenderView(p)
  BY DEF Publish
<1>4. /\ load' = load \/ load' = Newest(load, Free(load), p.selectedTask, p)
      /\ reading' = reading \/ reading' = Newest(reading, Free(reading), p.selectedTask, p)
      /\ \E R : request' = Ask(Forget(request, OfRefresh), R)
      /\ refresh' = NoRefresh /\ UNCHANGED <<server, submission>>
  BY DEF Publish
<1> HIDE DEF p
<1>5. Consistent(page') /\ OnScreen(page')
  BY <1>1, <1>3, ViewShown, ReadingShown
<1>6. load' \in [Loads -> OwnLoads] /\ reading' \in [Readings -> OwnLoads]
  BY <1>0, <1>2, <1>4, NewestTypes DEF PageTypes
<1>7. request' \in [Requests -> Answers]
  <2>1. Forget(request, OfRefresh) \in [Requests -> Answers]
    BY <1>0, ForgetTypes DEF PageTypes
  <2> QED
    BY <1>4, <2>1, AskTypes
<1>8. PageTypes' /\ RefreshInv'
  BY <1>0, <1>4, <1>6, <1>7, NoneTypes, IdleRests DEF PageTypes, server
<1> QED
  BY <1>5, <1>8 DEF PageInv

-----------------------------------------------------------------------------
LEMMA PageKept == PageInv /\ [PageNext]_pageVars => PageInv'
<1> SUFFICES ASSUME PageInv, [PageNext]_pageVars PROVE PageInv'
  OBVIOUS
<1>1. CASE Serve \/ MoveHead \/ ChangeRows \/ \E r \in Requests : Fail(r)
  BY <1>1, OutsideKeeps DEF Serve
<1>2. CASE Handle
  BY <1>2, StartRefreshKeeps, BaseDoneKeeps, DetailsDoneKeeps, PublishKeeps, RefreshFailsKeeps,
     LoadDoneKeeps, ReadingDoneKeeps, IntentKeeps DEF Handle
<1>3. CASE User
  BY <1>3, ChooseTaskKeeps, ChooseEvidenceKeeps, ChooseViewKeeps, IntentKeeps DEF User
<1>4. CASE UNCHANGED pageVars
  <2>1. OfDetails' = OfDetails
    BY <1>4 DEF pageVars, OfDetails
  <2> QED
    BY <1>4, <2>1 DEF pageVars, server, PageInv, PageTypes, Consistent, OnScreen, Belongs, OneSha,
         RefreshInv
<1> QED
  BY <1>1, <1>2, <1>3, <1>4 DEF PageNext

(* Whatever order answers, clicks, changes of HEAD and refreshes come in,  *)
(* what is on the screen is of the task selected and of the HEAD named.    *)
THEOREM ScreenCorrect == PageSpec => []ScreenBelongsTogether
<1>1. PageInv => ScreenBelongsTogether
  BY DEF PageInv, OnScreen, Belongs, ScreenBelongsTogether
<1> QED
  BY <1>1, PageStarts, PageKept, PTL DEF PageSpec
=============================================================================
