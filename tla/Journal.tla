------------------------------ MODULE Journal -------------------------------
(***************************************************************************)
(* The journal of Git operations and the repository control lock           *)
(* (OperationCoordinator in team_control/operations.py with the operation  *)
(* methods of ControlStore).  Several processes of one repository execute, *)
(* retry and reconcile operations; each may crash at any point.            *)
(*                                                                         *)
(* A request is the key a caller chose, a digest standing for the identity *)
(* that the store compares (dispatch, action, request hash, target SHA),   *)
(* and whether the caller passes on_verified.  What Git did is effect: the *)
(* postcondition of an operation is untouched, partly established or done. *)
(***************************************************************************)
EXTENDS Naturals, FiniteSets

CONSTANTS Processes,   \* operating-system processes using the store
          Keys,        \* idempotency keys
          Digests,     \* request identities
          Requests,    \* the requests callers make
          MaxCrashes,  \* bound on crashes in a behaviour
          Orphans,     \* a Git command outlives its crashed parent
          NoProcess, NoRequest, NoKey

ASSUME RequestsAssumption ==
  Requests \subseteq [key : Keys, digest : Digests, callback : BOOLEAN]
ASSUME BoundsAssumption == MaxCrashes \in Nat /\ Orphans \in BOOLEAN
ASSUME FreshAssumption ==
  NoProcess \notin Processes /\ NoRequest \notin Requests /\ NoKey \notin Keys

VARIABLES
  row,        \* row[k]: the durable operations row of key k
  lock,       \* holder of the flock on the common directory
  effect,     \* effect[k]: what Git shows of the operation of key k
  git,        \* keys whose git child process is alive
  pc,         \* where each process is
  request,    \* the request a process executes
  cur,        \* the key a process works on
  todo,       \* keys a process still has to reconcile
  commands,   \* history: Git commands started for a key
  callbacks,  \* history: keys whose callback has run
  told,       \* history: requests answered COMMITTED
  crashes     \* history: crashes so far

store == <<row, lock>>
world == <<effect, git>>
local == <<pc, request, cur, todo>>
history == <<commands, callbacks, told, crashes>>
vars == <<store, world, local, history>>

Terminal == {"COMMITTED", "FAILED", "BLOCKED"}
Absent == [digest |-> NoRequest, phase |-> "ABSENT", callback |-> "none"]
PreparedKeys == {k \in Keys : row[k].phase = "PREPARED"}

Init ==
  /\ row = [k \in Keys |-> Absent]
  /\ lock = NoProcess
  /\ effect = [k \in Keys |-> "none"]
  /\ git = {}
  /\ pc = [p \in Processes |-> "idle"]
  /\ request = [p \in Processes |-> NoRequest]
  /\ cur = [p \in Processes |-> NoKey]
  /\ todo = [p \in Processes |-> {}]
  /\ commands = [k \in Keys |-> 0]
  /\ callbacks = {}
  /\ told = {}
  /\ crashes = 0

(* The call of p ends, by return or by exception: the context managers     *)
(* release the lock if p holds it.                                         *)
Unlock(p) == lock' = IF lock = p THEN NoProcess ELSE lock

Return(p) ==
  /\ pc' = [pc EXCEPT ![p] = "idle"]
  /\ request' = [request EXCEPT ![p] = NoRequest]
  /\ cur' = [cur EXCEPT ![p] = NoKey]
  /\ todo' = [todo EXCEPT ![p] = {}]
  /\ Unlock(p)

Goto(p, label) ==
  /\ pc' = [pc EXCEPT ![p] = label]
  /\ UNCHANGED <<request, cur, todo>>

-----------------------------------------------------------------------------
(* execute_git                                                             *)

ExecuteGit(p, r) ==
  /\ pc[p] = "idle"
  /\ pc' = [pc EXCEPT ![p] = "execute"]
  /\ request' = [request EXCEPT ![p] = r]
  /\ cur' = [cur EXCEPT ![p] = r.key]
  /\ UNCHANGED <<todo, store, world, history>>

(* Taking the flock; faulty variant: the lock is not kept.                 *)
AcquireNothing(p) == lock = NoProcess /\ lock' = lock
Acquire(p) == lock = NoProcess /\ lock' = p

(* Faulty variant of LockTimeout: the poll has no deadline.                *)
LockForever(p) == FALSE /\ Return(p) /\ UNCHANGED <<row, world, history>>

(* _acquire_lock polls for lock_timeout seconds, then raises StoreBusyError *)
(* while some other process holds the lock.                                *)
LockTimeout(p) ==
  /\ pc[p] \in {"execute", "reconcile", "mark"}
  /\ lock # NoProcess
  /\ Return(p)
  /\ UNCHANGED <<row, world, history>>

(* Faulty variants of CallbackPending: the phase is ignored; the callback  *)
(* is run only after it has been completed.                                *)
CallbackUnverified(r, o) == r.callback
CallbackLate(r, o) == r.callback /\ o.phase = "COMMITTED" /\ o.callback = "COMPLETED"

(* Is the callback of the caller still to be run for a terminal row?       *)
CallbackPending(r, o) ==
  r.callback /\ o.phase = "COMMITTED" /\ o.callback = "PENDING"

(* After the journal is terminal: _run_pending_callback, outside the lock. *)
AfterTerminal(p, o) ==
  IF CallbackPending(request[p], o)
    THEN Goto(p, "callback") /\ Unlock(p) /\ UNCHANGED told
    ELSE /\ Return(p)
         /\ told' = IF o.phase = "COMMITTED" THEN told \cup {request[p]} ELSE told

(* The key is known and settled: return the recorded answer, run no command.*)
ExecuteKnown(p) ==
  LET o == row[cur[p]] IN
  /\ pc[p] = "execute" /\ lock = NoProcess
  /\ o.phase \in Terminal
  /\ o.digest = request[p].digest
  /\ AfterTerminal(p, o)
  /\ UNCHANGED <<row, world, commands, callbacks, crashes>>

(* ReconciliationError: the key names another request, or is PREPARED, or  *)
(* some other operation is; or the task, cwd, HEAD or preflight is refused.*)
ExecuteRefused(p) ==
  /\ pc[p] = "execute" /\ lock = NoProcess
  /\ \/ /\ row[cur[p]].phase # "ABSENT"
        /\ row[cur[p]].digest # request[p].digest \/ row[cur[p]].phase = "PREPARED"
     \/ row[cur[p]].phase = "ABSENT"
  /\ Return(p)
  /\ UNCHANGED <<row, world, history>>

(* Only an unknown key may be prepared, and only while no operation is.    *)
(* Faulty variants: one resumes its own PREPARED key, one looks at its own *)
(* key only.                                                               *)
MayPrepareAgain(k) == row[k].phase \in {"ABSENT", "PREPARED"} /\ PreparedKeys \subseteq {k}
MayPrepareBeside(k) == row[k].phase = "ABSENT"
MayPrepare(k) == row[k].phase = "ABSENT" /\ PreparedKeys = {}

(* Every check passed under the lock: the PREPARED row becomes durable, and *)
(* the lock stays held.                                                    *)
ExecutePrepare(p) ==
  /\ pc[p] = "execute"
  /\ Acquire(p)
  /\ MayPrepare(cur[p])
  /\ row' = [row EXCEPT ![cur[p]] =
       [digest |-> request[p].digest, phase |-> "PREPARED",
        callback |-> IF request[p].callback THEN "PENDING" ELSE "none"]]
  /\ Goto(p, "prepared")
  /\ UNCHANGED <<world, history>>

StartCommand(p) ==
  /\ pc[p] = "prepared"
  /\ git' = git \cup {cur[p]}
  /\ commands' = [commands EXCEPT ![cur[p]] = @ + 1]
  /\ Goto(p, "running")
  /\ UNCHANGED <<store, effect, callbacks, told, crashes>>

CommandReturned(p) ==
  /\ pc[p] = "running"
  /\ cur[p] \notin git
  /\ Goto(p, "verify")
  /\ UNCHANGED <<store, world, history>>

(* A verifier reads Git: True only of a done effect, False only of one that *)
(* is not, None whenever it cannot tell (or, in reconcile_all, when the     *)
(* action has no verifier).                                                *)
(* Faulty variant: a partial effect counts as done.                        *)
VerdictsPartial(k) == {"null", IF effect[k] # "none" THEN "true" ELSE "false"}
Verdicts(k) == {"null", IF effect[k] = "done" THEN "true" ELSE "false"}

(* Faulty variants of TerminalPhase: an undecided verdict is stored as such *)
(* or counts as a failure.                                                 *)
TerminalPhaseUndecided(verdict) ==
  IF verdict = "true" THEN "COMMITTED" ELSE IF verdict = "null" THEN "UNKNOWN" ELSE "FAILED"
TerminalPhaseFailed(verdict) == IF verdict = "true" THEN "COMMITTED" ELSE "FAILED"

TerminalPhase(verdict) ==
  CASE verdict = "true"  -> "COMMITTED"
    [] verdict = "false" -> "FAILED"
    [] verdict = "null"  -> "BLOCKED"

(* Faulty variant of Settled: a reconciled operation forgets its callback. *)
SettledWithoutCallback(k, verdict) ==
  [digest |-> row[k].digest, phase |-> TerminalPhase(verdict), callback |-> "none"]

(* _terminal_result keeps the recorded callback intent of a verified       *)
(* operation; the phase is written by the guarded UPDATE of finish.        *)
Settled(k, verdict) ==
  [digest |-> row[k].digest,
   phase |-> TerminalPhase(verdict),
   callback |-> IF verdict = "true" THEN row[k].callback ELSE "none"]

Finish(p, verdict) ==
  /\ row[cur[p]].phase = "PREPARED"
  /\ row' = [row EXCEPT ![cur[p]] = Settled(cur[p], verdict)]

ExecuteSettle(p) ==
  /\ pc[p] = "verify"
  /\ \E verdict \in Verdicts(cur[p]) :
       /\ Finish(p, verdict)
       /\ AfterTerminal(p, row'[cur[p]])
  /\ UNCHANGED <<world, commands, callbacks, crashes>>

(* The command cannot be started, or the verifier raises or returns        *)
(* something that is no verdict: the row stays PREPARED.                   *)
VerifierRaises(p) ==
  /\ pc[p] \in {"prepared", "verify", "recheck"}
  /\ Return(p)
  /\ UNCHANGED <<row, world, history>>

(* on_verified runs outside the lock; an exception leaves PENDING behind.  *)
RunCallback(p) ==
  /\ pc[p] = "callback"
  /\ \/ callbacks' = callbacks \cup {cur[p]} /\ Goto(p, "mark") /\ UNCHANGED lock
     \/ Return(p) /\ UNCHANGED callbacks
  /\ UNCHANGED <<row, world, commands, told, crashes>>

(* complete_operation_callback, idempotent.                                *)
MarkCallback(p) ==
  /\ pc[p] = "mark" /\ lock = NoProcess
  /\ row[cur[p]].phase = "COMMITTED"
  /\ row[cur[p]].callback \in {"PENDING", "COMPLETED"}
  /\ row' = [row EXCEPT ![cur[p]].callback = "COMPLETED"]
  /\ told' = told \cup {request[p]}
  /\ Return(p)
  /\ UNCHANGED <<world, commands, callbacks, crashes>>

-----------------------------------------------------------------------------
(* reconcile_one of one known operation, reconcile_all of those that are   *)
(* PREPARED when the unlocked query reads them.                            *)
Reconcile(p) ==
  /\ pc[p] = "idle"
  /\ pc' = [pc EXCEPT ![p] = "reconcile"]
  /\ \/ \E k \in Keys : row[k].phase # "ABSENT" /\ todo' = [todo EXCEPT ![p] = {k}]
     \/ todo' = [todo EXCEPT ![p] = PreparedKeys]
  /\ UNCHANGED <<request, cur, store, world, history>>

(* Under the lock the row is read again: settled meanwhile, nothing to do. *)
ReconcileSettled(p) ==
  /\ pc[p] = "reconcile" /\ lock = NoProcess
  /\ \E k \in todo[p] :
       /\ row[k].phase # "PREPARED"
       /\ todo' = [todo EXCEPT ![p] = @ \ {k}]
  /\ UNCHANGED <<pc, request, cur, store, world, history>>

ReconcileBegin(p) ==
  /\ pc[p] = "reconcile"
  /\ Acquire(p)
  /\ \E k \in todo[p] :
       /\ row[k].phase = "PREPARED"
       /\ cur' = [cur EXCEPT ![p] = k]
  /\ pc' = [pc EXCEPT ![p] = "recheck"]
  /\ UNCHANGED <<row, request, todo, world, history>>

ReconcileSettle(p) ==
  /\ pc[p] = "recheck"
  /\ \E verdict \in Verdicts(cur[p]) : Finish(p, verdict)
  /\ Unlock(p)
  /\ pc' = [pc EXCEPT ![p] = "reconcile"]
  /\ todo' = [todo EXCEPT ![p] = @ \ {cur[p]}]
  /\ cur' = [cur EXCEPT ![p] = NoKey]
  /\ UNCHANGED <<request, world, history>>

ReconcileReturn(p) ==
  /\ pc[p] = "reconcile"
  /\ todo[p] = {}
  /\ Return(p)
  /\ UNCHANGED <<row, world, history>>

-----------------------------------------------------------------------------
(* A PREPARED row without a command and without callback intent: what      *)
(* consume_approval inserts, and what the public prepare_operation can.    *)
PrepareOnly(r) ==
  /\ lock = NoProcess
  /\ row[r.key].phase = "ABSENT"
  /\ row' = [row EXCEPT ![r.key] =
       [digest |-> r.digest, phase |-> "PREPARED", callback |-> "none"]]
  /\ UNCHANGED <<lock, world, local, history>>

(* The git child: it establishes its postcondition in two steps and may    *)
(* exit, with any status, after any of them.                               *)
GitProgress(k) ==
  /\ k \in git
  /\ effect[k] # "done"
  /\ effect' = [effect EXCEPT ![k] = IF @ = "none" THEN "partial" ELSE "done"]
  /\ UNCHANGED <<git, store, local, history>>

GitExit(k) ==
  /\ k \in git
  /\ git' = git \ {k}
  /\ UNCHANGED <<effect, store, local, history>>

(* A process dies: the kernel drops its flock, its memory is gone, durable *)
(* rows stay; a git child it was waiting for dies with it or lives on.     *)
Crash(p) ==
  /\ crashes < MaxCrashes
  /\ pc[p] # "idle"
  /\ crashes' = crashes + 1
  /\ Return(p)
  /\ git' = IF pc[p] = "running" /\ ~Orphans THEN git \ {cur[p]} ELSE git
  /\ UNCHANGED <<row, effect, commands, callbacks, told>>

Step(p) ==
  \/ LockTimeout(p)
  \/ ExecuteKnown(p) \/ ExecuteRefused(p) \/ ExecutePrepare(p)
  \/ StartCommand(p) \/ CommandReturned(p) \/ ExecuteSettle(p)
  \/ VerifierRaises(p) \/ RunCallback(p) \/ MarkCallback(p)
  \/ ReconcileSettled(p) \/ ReconcileBegin(p) \/ ReconcileSettle(p)
  \/ ReconcileReturn(p)

Call(p) == (\E r \in Requests : ExecuteGit(p, r)) \/ Reconcile(p)

GitStep(k) == GitProgress(k) \/ GitExit(k)

Next ==
  \/ \E p \in Processes : Step(p) \/ Call(p) \/ Crash(p)
  \/ \E k \in Keys : GitStep(k)
  \/ \E r \in Requests : PrepareOnly(r)

Spec == Init /\ [][Next]_vars

(* The operating system runs every process that can run, and every git     *)
(* command terminates; nobody has to call, retry or reconcile.             *)
Fairness ==
  /\ \A p \in Processes : WF_vars(Step(p))
  /\ \A k \in Keys : WF_vars(GitExit(k))

FairSpec == Spec /\ Fairness

-----------------------------------------------------------------------------
Rows == [digest : Digests \cup {NoRequest},
         phase : {"ABSENT", "PREPARED"} \cup Terminal,
         callback : {"none", "PENDING", "COMPLETED"}]
Labels == {"idle", "execute", "prepared", "running", "verify", "callback",
           "mark", "reconcile", "recheck"}

TypeOK ==
  /\ row \in [Keys -> Rows]
  /\ lock \in Processes \cup {NoProcess}
  /\ effect \in [Keys -> {"none", "partial", "done"}]
  /\ git \subseteq Keys
  /\ pc \in [Processes -> Labels]
  /\ request \in [Processes -> Requests \cup {NoRequest}]
  /\ cur \in [Processes -> Keys \cup {NoKey}]
  /\ todo \in [Processes -> SUBSET Keys]
  /\ commands \in [Keys -> Nat]
  /\ callbacks \subseteq Keys
  /\ told \subseteq Requests
  /\ crashes \in Nat

(* Whatever is retried, reconciled or lost in a crash, the Git command of  *)
(* an operation is never run twice.                                        *)
CommandAtMostOnce == \A k \in Keys : commands[k] <= 1

(* From PREPARED to the terminal row an executing process has the journal  *)
(* to itself: its own operation is the only unsettled one.                 *)
SoleOperation ==
  \A p \in Processes :
    pc[p] \in {"prepared", "running", "verify"} => PreparedKeys = {cur[p]}

(* A COMMITTED row is right about Git for good, whatever children of       *)
(* crashed processes are still at work.                                    *)
CommittedIsDone == \A k \in Keys : row[k].phase = "COMMITTED" => effect[k] = "done"

(* As long as no process has died, the control lock serialises controlled  *)
(* Git commands, and FAILED means not done, now and later: whoever settles *)
(* an operation does so when its command has ended.                        *)
SerialUntilCrash ==
  crashes = 0 =>
    /\ Cardinality(git) <= 1
    /\ \A k \in Keys : row[k].phase = "FAILED" => effect[k] # "done"

(* The callback of an operation runs only once its result is durable and   *)
(* verified, and is marked completed only after it has run.                *)
CallbackAfterCommit ==
  \A k \in Keys :
    /\ k \in callbacks => row[k].phase = "COMMITTED" /\ row[k].callback # "none"
    /\ row[k].callback = "COMPLETED" => k \in callbacks

(* A caller that was told COMMITTED was told so about its own request, of  *)
(* which Git shows the effect; and no callback recorded for the operation  *)
(* is still owed to a caller that passed one.                              *)
ToldTruth ==
  \A r \in told :
    /\ row[r.key].digest = r.digest
    /\ row[r.key].phase = "COMMITTED"
    /\ effect[r.key] = "done"
    /\ r.callback => row[r.key].callback # "PENDING"

(* A settled row is settled for good; only PENDING may become COMPLETED.   *)
(* The identity of a key never changes, and a recorded callback intent is  *)
(* lost only with an operation that was not verified.                      *)
SettledForGood ==
  [][\A k \in Keys :
       /\ row[k].phase \in Terminal =>
            /\ row'[k].phase = row[k].phase
            /\ row'[k].callback # row[k].callback =>
                 row[k].callback = "PENDING" /\ row'[k].callback = "COMPLETED"
       /\ row[k].phase # "ABSENT" => row'[k].digest = row[k].digest
       /\ (row[k].callback = "PENDING" /\ row'[k].phase \in {"PREPARED", "COMMITTED"})
            => row'[k].callback \in {"PENDING", "COMPLETED"}]_vars

(* No call waits for ever: the lock is polled with a deadline, and its     *)
(* holder always lets go of it.                                            *)
EveryCallReturns == \A p \in Processes : pc[p] # "idle" ~> pc[p] = "idle"

(* The journal keeps the promises of the abstract log.                     *)
Log == INSTANCE OperationLog WITH
         phase <- [k \in Keys |-> row[k].phase],
         ran <- {k \in Keys : commands[k] > 0},
         handed <- callbacks,
         delivered <- {k \in Keys : row[k].callback = "COMPLETED"}

KeepsLogPromises == Log!Spec
=============================================================================
