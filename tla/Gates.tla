-------------------------------- MODULE Gates -------------------------------
(***************************************************************************)
(* The gates between a request and its effect on one task: the intents a   *)
(* browser submits and Codex processes (IntentService in                   *)
(* team_control/intents.py) and the human approvals that are requested and *)
(* consumed (request_approval and consume_approval in service.py), over    *)
(* the rows of ControlStore.                                               *)
(*                                                                         *)
(* process holds the control lock throughout but commits the transition    *)
(* and the intent's terminal status in two transactions; everything else   *)
(* is one transaction under the lock.  The HEAD of the task's worktree     *)
(* moves without any lock.  SHAs are numbers, and 0 is the recorded        *)
(* current_head_sha of the task, which no code ever updates.               *)
(***************************************************************************)
EXTENDS Naturals, FiniteSets, StateMachine

CONSTANTS Processes, Intents, Nonces,
          MaxHead,      \* bound on commits of the agent
          MaxClock,     \* bound on time
          Ttl,          \* life of an approval
          MaxCrashes,   \* bound on crashes
          NoProcess, NoIntent

ASSUME BoundsAssumption ==
  MaxHead \in Nat /\ MaxClock \in Nat /\ Ttl \in Nat \ {0} /\ MaxCrashes \in Nat
ASSUME FreshAssumption == NoProcess \notin Processes /\ NoIntent \notin Intents

VARIABLES
  task,         \* state and resume_state of the task
  intent,       \* intent[i]: the intents row of idempotency key i
  approval,     \* approval[n]: the approvals row of nonce n
  operation,    \* operation[n]: phase of the operation consuming n prepared
  lock,         \* holder of the control lock
  proc,         \* each process: where it is, the intent it processes
  actualHead,   \* actual HEAD
  clock,
  applied,      \* history: transitions made on behalf of an intent
  interrupted,  \* history: intents whose processing died between its commits
  refused,      \* history: approved operations execute_git refused to run
  crashes

tables == <<task, intent, approval, operation>>
history == <<applied, interrupted, refused, crashes>>
vars == <<tables, lock, proc, actualHead, clock, history>>

Recorded == 0
Actions == {"PAUSE_REQUEST", "RESUME_REQUEST", "APPROVAL_REQUEST"}
NoRequest == [action |-> "none", target |-> 0, status |-> "ABSENT"]
NoApproval == [status |-> "ABSENT", expires |-> 0]
Idle == [pc |-> "idle", intent |-> NoIntent]

Init ==
  /\ task = [state |-> "PLANNED", resume |-> NoState]
  /\ intent = [i \in Intents |-> NoRequest]
  /\ approval = [n \in Nonces |-> NoApproval]
  /\ operation = [n \in Nonces |-> "ABSENT"]
  /\ lock = NoProcess
  /\ proc = [p \in Processes |-> Idle]
  /\ actualHead = 0
  /\ clock = 0
  /\ applied = [i \in Intents |-> 0]
  /\ interrupted = {}
  /\ refused = {}
  /\ crashes = 0

-----------------------------------------------------------------------------
(* Intents                                                                 *)

(* create_intent: an unknown key is inserted PENDING, a known one returns  *)
(* its row or an error.  The browser names a SHA it has been shown.        *)
Submit(i, action) ==
  /\ lock = NoProcess
  /\ intent[i].status = "ABSENT"
  /\ \E target \in 0 .. actualHead :
       intent' = [intent EXCEPT ![i] =
         [action |-> action, target |-> target, status |-> "PENDING"]]
  /\ UNCHANGED <<task, approval, operation, lock, proc, actualHead, clock, history>>

(* pending_approvals: not consumed, not expired.                           *)
PendingApprovals ==
  {n \in Nonces : approval[n].status = "PENDING" /\ approval[n].expires > clock}

PreparedOperations == {n \in Nonces : operation[n] = "PREPARED"}

(* Faulty variants of Verdict: an undecided intent is left with no status; *)
(* pending approvals do not gate a resume.                                 *)
VerdictBlank(i) == IF PreparedOperations = {} THEN "none" ELSE ""
VerdictUngated(i) ==
  IF PreparedOperations # {} THEN "BLOCKED"
  ELSE IF ~(actualHead = intent[i].target /\ intent[i].target = Recorded) THEN "REJECTED"
  ELSE IF intent[i].action = "APPROVAL_REQUEST" THEN "APPLIED"
  ELSE IF intent[i].action = "RESUME_REQUEST" /\ task.state # "PAUSED" THEN "REJECTED"
  ELSE "none"

(* process up to its first commit: the terminal status of an intent that   *)
(* no transition may follow; "none" if one may.                            *)
Verdict(i) ==
  LET action == intent[i].action IN
  IF PreparedOperations # {} THEN "BLOCKED"
  ELSE IF ~(actualHead = intent[i].target /\ intent[i].target = Recorded) THEN "REJECTED"
  ELSE IF action = "APPROVAL_REQUEST"
    THEN IF task.state \in {"CLOSED", "RELEASED"} THEN "REJECTED" ELSE "APPLIED"
  ELSE IF action = "RESUME_REQUEST" /\ PendingApprovals # {} THEN "BLOCKED"
  ELSE IF action = "RESUME_REQUEST" /\ task.state # "PAUSED" THEN "REJECTED"
  ELSE "none"

(* process, or one round of process_pending's snapshot: the intent may     *)
(* have become terminal before the lock is held.                           *)
Process(p, i) ==
  /\ proc[p].pc = "idle"
  /\ intent[i].status # "ABSENT"
  /\ proc' = [proc EXCEPT ![p] = [pc |-> "lock", intent |-> i]]
  /\ UNCHANGED <<tables, lock, actualHead, clock, history>>

(* The row is read again under the lock; faulty variant: the snapshot that *)
(* process_pending took before is trusted.                                 *)
StillPendingStale(i) == intent[i].status # "ABSENT"
StillPending(i) == intent[i].status = "PENDING"

(* A trusted working directory that cannot be established (unavailable,    *)
(* symlinked, another repository) blocks the intent.                       *)
Check(p) ==
  LET i == proc[p].intent IN
  /\ proc[p].pc = "lock" /\ lock = NoProcess
  /\ \/ /\ ~StillPending(i)
        /\ proc' = [proc EXCEPT ![p] = Idle]
        /\ UNCHANGED <<intent, lock>>
     \/ /\ StillPending(i)
        /\ \E verdict \in {Verdict(i), "BLOCKED"} :
             IF verdict = "none"
               THEN /\ lock' = p
                    /\ proc' = [proc EXCEPT ![p].pc = "transition"]
                    /\ UNCHANGED intent
               ELSE /\ intent' = [intent EXCEPT ![i].status = verdict]
                    /\ proc' = [proc EXCEPT ![p] = Idle]
                    /\ UNCHANGED lock
  /\ UNCHANGED <<task, approval, operation, actualHead, clock, history>>

(* The transition, in a transaction of its own.  A resume reads its target *)
(* from the row in that transaction.                                       *)
Target(i) ==
  IF intent[i].action = "RESUME_REQUEST" THEN task.resume ELSE "PAUSE_REQUESTED"

ApplyTransition(p) ==
  LET i == proc[p].intent
      target == Target(i) IN
  /\ proc[p].pc = "transition"
  /\ target \in TaskStates
  /\ Legal(task.state, target, task.resume)
  /\ task' = [state |-> target, resume |-> NextResume(task.state, target, task.resume)]
  /\ applied' = [applied EXCEPT ![i] = @ + 1]
  /\ proc' = [proc EXCEPT ![p].pc = "finish"]
  /\ UNCHANGED <<intent, approval, operation, lock, actualHead, clock,
                 interrupted, refused, crashes>>

(* _finish_intent_durable and the release of the lock.                     *)
FinishIntent(p, status) ==
  /\ intent[proc[p].intent].status = "PENDING"
  /\ intent' = [intent EXCEPT ![proc[p].intent].status = status]
  /\ proc' = [proc EXCEPT ![p] = Idle]
  /\ lock' = NoProcess
  /\ UNCHANGED <<task, approval, operation, actualHead, clock, history>>

RejectTransition(p) ==
  /\ proc[p].pc = "transition"
  /\ ~Legal(task.state, Target(proc[p].intent), task.resume)
  /\ FinishIntent(p, "REJECTED")

FinishApplied(p) ==
  /\ proc[p].pc = "finish"
  /\ FinishIntent(p, "APPLIED")

LockTimeout(p) ==
  /\ proc[p].pc = "lock" /\ lock # NoProcess
  /\ proc' = [proc EXCEPT ![p] = Idle]
  /\ UNCHANGED <<tables, lock, actualHead, clock, history>>

Crash(p) ==
  /\ proc[p].pc # "idle" /\ crashes < MaxCrashes
  /\ crashes' = crashes + 1
  /\ proc' = [proc EXCEPT ![p] = Idle]
  /\ lock' = IF lock = p THEN NoProcess ELSE lock
  /\ interrupted' = IF proc[p].pc = "finish"
                      THEN interrupted \cup {proc[p].intent} ELSE interrupted
  /\ UNCHANGED <<tables, actualHead, clock, applied, refused>>

-----------------------------------------------------------------------------
(* Approvals                                                               *)

(* create_approval: a nonce names one request for good.                    *)
RequestApproval(n) ==
  /\ lock = NoProcess
  /\ approval[n].status = "ABSENT"
  /\ approval' = [approval EXCEPT ![n] = [status |-> "PENDING", expires |-> clock + Ttl]]
  /\ UNCHANGED <<task, intent, operation, lock, proc, actualHead, clock, history>>

(* consume_approval: the row becomes CONSUMED and its operation PREPARED in *)
(* one transaction; HEAD is observed under the lock.                       *)
MayConsume(n) ==
  /\ approval[n].status = "PENDING"
  /\ approval[n].expires > clock
  /\ actualHead = Recorded

ConsumeApproval(n) ==
  /\ lock = NoProcess
  /\ MayConsume(n)
  /\ approval' = [approval EXCEPT ![n].status = "CONSUMED"]
  /\ operation' = [operation EXCEPT ![n] = "PREPARED"]
  /\ UNCHANGED <<task, intent, lock, proc, actualHead, clock, history>>

(* execute_git under the key of the consumed approval.                     *)
ExecuteApproved(n) ==
  /\ lock = NoProcess
  /\ approval[n].status = "CONSUMED" /\ actualHead = Recorded
  /\ operation[n] = "PREPARED"
  /\ refused' = refused \cup {n}
  /\ UNCHANGED <<tables, lock, proc, actualHead, clock, applied, interrupted, crashes>>

(* reconcile_one of that operation.                                        *)
ReconcileApproved(n) ==
  /\ lock = NoProcess
  /\ operation[n] = "PREPARED"
  /\ \E phase \in {"COMMITTED", "FAILED", "BLOCKED"} :
       operation' = [operation EXCEPT ![n] = phase]
  /\ UNCHANGED <<task, intent, approval, lock, proc, actualHead, clock, history>>

-----------------------------------------------------------------------------
(* Other commands, the agent and the clock                                 *)
OperatorTransition ==
  /\ lock = NoProcess
  /\ \E target \in TaskStates :
       /\ Legal(task.state, target, task.resume)
       /\ task' = [state |-> target, resume |-> NextResume(task.state, target, task.resume)]
  /\ UNCHANGED <<intent, approval, operation, lock, proc, actualHead, clock, history>>

AgentCommits ==
  /\ actualHead < MaxHead
  /\ actualHead' = actualHead + 1
  /\ UNCHANGED <<tables, lock, proc, clock, history>>

Tick ==
  /\ clock < MaxClock
  /\ clock' = clock + 1
  /\ UNCHANGED <<tables, lock, proc, actualHead, history>>

Step(p) ==
  Check(p) \/ ApplyTransition(p) \/ RejectTransition(p) \/ FinishApplied(p) \/ LockTimeout(p)

Next ==
  \/ \E p \in Processes : Step(p) \/ Crash(p) \/ \E i \in Intents : Process(p, i)
  \/ \E i \in Intents, action \in Actions : Submit(i, action)
  \/ \E n \in Nonces : \/ RequestApproval(n) \/ ConsumeApproval(n)
                       \/ ExecuteApproved(n) \/ ReconcileApproved(n)
  \/ OperatorTransition \/ AgentCommits \/ Tick

Spec == Init /\ [][Next]_vars

-----------------------------------------------------------------------------
TypeOK ==
  /\ task \in [state : TaskStates, resume : TaskStates \cup {NoState}]
  /\ intent \in [Intents -> [action : Actions \cup {"none"}, target : Nat,
       status : {"ABSENT", "PENDING", "APPLIED", "REJECTED", "BLOCKED"}]]
  /\ approval \in [Nonces -> [status : {"ABSENT", "PENDING", "CONSUMED"}, expires : Nat]]
  /\ operation \in [Nonces -> {"ABSENT", "PREPARED", "COMMITTED", "FAILED", "BLOCKED"}]
  /\ lock \in Processes \cup {NoProcess}
  /\ proc \in [Processes -> [pc : {"idle", "lock", "transition", "finish"},
                             intent : Intents \cup {NoIntent}]]
  /\ actualHead \in Nat /\ clock \in Nat
  /\ applied \in [Intents -> Nat]
  /\ interrupted \subseteq Intents /\ refused \subseteq Nonces
  /\ crashes \in Nat

(* What an intent's row says is what happened to the task on its behalf,   *)
(* unless processing died between its two commits: APPLIED pauses and      *)
(* resumes made exactly one transition, refused intents none, and a        *)
(* pending one none that is not being finished right now.  (All variables  *)
(* are of their types.)                                                    *)
StatusTellsTruth ==
  /\ TypeOK
  /\ \A i \in Intents \ interrupted :
       /\ intent[i].status = "APPLIED" /\ intent[i].action # "APPROVAL_REQUEST" => applied[i] = 1
       /\ intent[i].status \in {"ABSENT", "REJECTED", "BLOCKED"} => applied[i] = 0
       /\ intent[i].status = "PENDING" =>
            applied[i] = Cardinality({p \in Processes : proc[p] = [pc |-> "finish", intent |-> i]})

(* A resume intent takes a task out of PAUSED only while no approval is    *)
(* pending and no operation is PREPARED, although both were read before    *)
(* the transition's own transaction.                                       *)
ResumeIsGated ==
  [][\A i \in Intents :
       (applied'[i] # applied[i] /\ intent[i].action = "RESUME_REQUEST") =>
         /\ task.state = "PAUSED" /\ PendingApprovals = {} /\ PreparedOperations = {}
         /\ task'.state = task.resume]_vars

(* After approval an action whose target has not drifted is executed once  *)
(* (design 6.3); it is not refused.                                        *)
ApprovedIsExecuted == refused = {}
=============================================================================
