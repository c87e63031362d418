----------------------------- MODULE WriteTask ------------------------------
(***************************************************************************)
(* Starting a write task and building its worktree: start_write_task in    *)
(* team_control/service.py, the WorktreeDoctor in doctor.py and the task   *)
(* methods of ControlStore they call.  One dispatch, several processes     *)
(* that start or repair it, possibly under conflicting identities.         *)
(*                                                                         *)
(* An identity (agent, slug) determines the branch and the path.  What Git *)
(* shows of an identity is its stage: "none" (NO_RESIDUE), "branch"        *)
(* (REPAIRABLE_BRANCH_ONLY), "healthy", or "residue" for every other       *)
(* classification.  The operations of one chain of retry keys              *)
(* (base, base:retry:<failed operation>, ...) are a sequence; a key is an  *)
(* index into it.  The create chain belongs to the dispatch, a repair      *)
(* chain to an identity.  Every action guarded by lock = NoProcess that    *)
(* leaves lock alone is one transaction under the control lock.            *)
(***************************************************************************)
EXTENDS Naturals, Sequences, FiniteSets, StateMachine

CONSTANTS Processes, Idents,
          Calls,            \* what they call: "start", "repair"
          InitialStages,    \* what Git may show before the first start
          OperatorTargets,  \* targets of transitions made by other commands
          MaxMain,          \* bound on commits to main
          MaxFaults,        \* bound on crashes, failing commands and verifiers
          NoProcess, NoIdent

Stages == {"none", "branch", "residue", "healthy"}

ASSUME StagesAssumption == InitialStages \subseteq Stages
ASSUME CallsAssumption == Calls \subseteq {"start", "repair"}
ASSUME TargetsAssumption == OperatorTargets \subseteq TaskStates
ASSUME BoundsAssumption == MaxMain \in Nat /\ MaxFaults \in Nat
ASSUME FreshAssumption ==
  NoProcess \notin Processes /\ NoIdent \notin Idents /\ "create" \notin Idents

VARIABLES
  row,      \* the task row: state, task_base_sha, identity, worktree_path
  chain,    \* the operations of each chain of retry keys
  lock,     \* holder of the repository control lock
  stage,    \* stage[i]: what Git shows of identity i
  main,     \* HEAD of main
  proc,     \* the local state of each process
  answers,  \* history: identities a caller of start was told is started
  byHand,   \* history: another command dispatched the task
  faults    \* history: faults so far

history == <<byHand, faults>>
vars == <<row, chain, lock, stage, main, proc, answers, history>>

Kinds == {"create", "repair"}
Chains == {"create"} \cup Idents
ChainOf(kind, i) == IF kind = "create" THEN "create" ELSE i
Expected(kind) == IF kind = "create" THEN "none" ELSE "branch"

NoRow == [state |-> NoState, base |-> 0, ident |-> NoIdent, path |-> NoIdent]
Idle == [pc |-> "idle", call |-> "none", ident |-> NoIdent, base |-> 0,
         class |-> "none", kind |-> "create", key |-> 0]

Ops == UNION {{c} \X DOMAIN chain[c] : c \in Chains}
Prepared == {o \in Ops : chain[o[1]][o[2]].phase = "PREPARED"}

Init ==
  /\ row \in {NoRow, [NoRow EXCEPT !.state = "PLANNED"]}
  /\ chain = [c \in Chains |-> <<>>]
  /\ lock = NoProcess
  /\ stage \in [Idents -> InitialStages]
  /\ main = 0
  /\ proc = [p \in Processes |-> Idle]
  /\ answers = {}
  /\ byHand = FALSE
  /\ faults = 0

-----------------------------------------------------------------------------
(* Control of one process                                                  *)

Unlock(p) == lock' = IF lock = p THEN NoProcess ELSE lock

Goto(p, label) == proc' = [proc EXCEPT ![p].pc = label]

Finish(p, answer) ==
  /\ proc' = [proc EXCEPT ![p] = Idle]
  /\ Unlock(p)
  /\ answers' = IF proc[p].call = "start" /\ answer = "started"
                  THEN answers \cup {proc[p].ident} ELSE answers

(* A ReconciliationError or TransitionError: start looks once more whether *)
(* the task was dispatched meanwhile, doctor repair reports the error.     *)
Fail(p) ==
  IF proc[p].call = "start"
    THEN Goto(p, "rescue") /\ Unlock(p) /\ UNCHANGED answers
    ELSE Finish(p, "refused")

(* WorktreeDoctor.inspect: the classification against the stored task.     *)
Class(p) ==
  LET i == proc[p].ident IN
  IF \/ row.state = NoState \/ row.base # proc[p].base
     \/ row.ident \notin {NoIdent, i} \/ row.path \notin {NoIdent, i}
    THEN "mismatch"
    ELSE stage[i]

(* inspect takes no lock and reads Git several times: while a command of   *)
(* the same identity runs, it may mix what it reads.                       *)
Readings(p) ==
  {Class(p)} \cup
  IF \E q \in Processes : proc[q].pc = "running" /\ proc[q].ident = proc[p].ident
    THEN {"residue"} ELSE {}

(* Faulty variant of NextKey: a failed operation is never retried.         *)
NextKeyStuck(c) == IF c = <<>> THEN 1 ELSE Len(c)

(* _retryable_idempotency_key: the first key of the chain whose operation  *)
(* is absent or did not fail; every key but the last has failed.           *)
NextKey(c) ==
  IF c = <<>> THEN 1
  ELSE IF c[Len(c)].phase = "FAILED" THEN Len(c) + 1 ELSE Len(c)

(* The request hash covers the identity and the report; a HEALTHY report   *)
(* is rewritten to the one the operation started from.                     *)
SameRequest(p, c) ==
  c = <<>> \/ (c[1].ident = proc[p].ident
               /\ proc[p].class \in {"healthy", Expected(proc[p].kind)})

MyChain(p) == ChainOf(proc[p].kind, proc[p].ident)

(* Faulty variant of SettleRow: an unhealthy worktree leaves it undecided. *)
SettleRowUndecided(c, n, class) ==
  chain' = [chain EXCEPT ![c][n].phase = IF class = "healthy" THEN "COMMITTED" ELSE "BLOCKED"]

(* The verifier: HEALTHY or not, never undecided.                          *)
Settled(op, class) ==
  IF class = "healthy" THEN [op EXCEPT !.phase = "COMMITTED"]
                       ELSE [op EXCEPT !.phase = "FAILED", !.callback = "none"]

SettleRow(c, n, class) == chain' = [chain EXCEPT ![c][n] = Settled(@, class)]

-----------------------------------------------------------------------------
(* start_write_task                                                        *)

Start(p, i) ==
  /\ proc[p].pc = "idle" /\ "start" \in Calls
  /\ proc' = [proc EXCEPT ![p] =
       [Idle EXCEPT !.pc = "register", !.call = "start", !.ident = i, !.base = main]]
  /\ UNCHANGED <<row, chain, lock, stage, main, answers, history>>

(* create_or_get_write_task: insert the task with its identity, or check   *)
(* that the stored one is the same request and adopt an unnamed one.       *)
Register(p) ==
  LET i == proc[p].ident IN
  /\ proc[p].pc = "register" /\ lock = NoProcess
  /\ \/ /\ row.state = NoState
        /\ row' = [state |-> "PLANNED", base |-> proc[p].base,
                   ident |-> i, path |-> NoIdent]
        /\ Goto(p, "list") /\ UNCHANGED <<lock, answers>>
     \/ /\ row.state \in {"PLANNED", "DISPATCHED"} /\ row.base = proc[p].base
        /\ <<row.ident, row.path>> \in {<<NoIdent, NoIdent>>, <<i, NoIdent>>, <<i, i>>}
        /\ row' = [row EXCEPT !.ident = i]
        /\ Goto(p, IF row.state = "DISPATCHED" THEN "dispatched" ELSE "list")
        /\ UNCHANGED <<lock, answers>>
     \/ /\ row.state # NoState
        /\ \/ row.state \notin {"PLANNED", "DISPATCHED"} \/ row.base # proc[p].base
           \/ <<row.ident, row.path>> \notin
                {<<NoIdent, NoIdent>>, <<i, NoIdent>>, <<i, i>>}
        /\ Finish(p, "refused") /\ UNCHANGED row
  /\ UNCHANGED <<chain, stage, main, history>>

(* The task had been dispatched before: return it if Git still agrees.     *)
AlreadyDispatched(p) ==
  /\ proc[p].pc = "dispatched"
  /\ \E class \in Readings(p) :
       Finish(p, IF class = "healthy" THEN "started" ELSE "refused")
  /\ UNCHANGED <<row, chain, stage, main, history>>

(* reconcile_prepared_create: the interrupted create of this dispatch is   *)
(* found without the lock and settled under it.                            *)
ListPrepared(p) ==
  LET c == chain["create"] IN
  /\ proc[p].pc = "list"
  /\ IF c # <<>> /\ c[Len(c)].phase = "PREPARED"
       THEN IF c[Len(c)].ident = proc[p].ident
              THEN /\ proc' = [proc EXCEPT ![p].pc = "reconcile", ![p].key = Len(c)]
                   /\ UNCHANGED <<lock, answers>>
              ELSE Fail(p)
       ELSE Goto(p, "route") /\ UNCHANGED <<lock, answers>>
  /\ UNCHANGED <<row, chain, stage, main, history>>

(* reconcile_one under the lock; no command runs, so the reading is sound. *)
ReconcileOne(p, label, c, next) ==
  /\ proc[p].pc = label /\ lock = NoProcess
  /\ IF chain[c][proc[p].key].phase = "PREPARED"
       THEN SettleRow(c, proc[p].key, Class(p))
       ELSE UNCHANGED chain
  /\ Goto(p, next)
  /\ UNCHANGED <<row, lock, stage, main, answers, history>>

ReconcileCreate(p) == ReconcileOne(p, "reconcile", "create", "route")

(* A branch at the task base is repaired, anything else goes to create.    *)
Route(p) ==
  /\ proc[p].pc = "route"
  /\ \E class \in Readings(p) :
       proc' = [proc EXCEPT ![p].pc = "fresh",
                            ![p].kind = IF class = "branch" THEN "repair" ELSE "create"]
  /\ UNCHANGED <<row, chain, lock, stage, main, answers, history>>

-----------------------------------------------------------------------------
(* WorktreeDoctor.create and WorktreeDoctor.repair                         *)

(* The doctor's own repair command, with the base its caller names.        *)
Repair(p, i) ==
  /\ proc[p].pc = "idle" /\ "repair" \in Calls
  /\ \E base \in 0 .. main :
       proc' = [proc EXCEPT ![p] =
         [Idle EXCEPT !.pc = "fresh", !.call = "repair", !.ident = i,
                      !.base = base, !.kind = "repair"]]
  /\ UNCHANGED <<row, chain, lock, stage, main, answers, history>>

FreshReport(p) ==
  /\ proc[p].pc = "fresh"
  /\ \E class \in Readings(p) :
       proc' = [proc EXCEPT ![p].pc = "key", ![p].class = class]
  /\ UNCHANGED <<row, chain, lock, stage, main, answers, history>>

(* The retryable key, and whether its operation must be reconciled first.  *)
ChooseKey(p) ==
  LET c == chain[MyChain(p)]
      n == NextKey(c) IN
  /\ proc[p].pc = "key"
  /\ IF ~SameRequest(p, c) THEN Fail(p)
     ELSE /\ proc' = [proc EXCEPT ![p].key = n, ![p].pc =
               IF n <= Len(c) /\ c[n].phase = "PREPARED" THEN "settle" ELSE "decide"]
          /\ UNCHANGED <<lock, answers>>
  /\ UNCHANGED <<row, chain, stage, main, history>>

ReconcileKey(p) == ReconcileOne(p, "settle", MyChain(p), "decide")

MayGoOn(p, c) ==
  IF proc[p].class = "healthy"
    THEN NextKey(c) <= Len(c) /\ c[NextKey(c)].phase = "COMMITTED"
    ELSE proc[p].class = Expected(proc[p].kind)

(* The key again, and whether to go on with it.                            *)
Decide(p) ==
  LET c == chain[MyChain(p)] IN
  /\ proc[p].pc = "decide"
  /\ IF SameRequest(p, c) /\ MayGoOn(p, c)
       THEN /\ proc' = [proc EXCEPT ![p].key = NextKey(c), ![p].pc = "assert",
                                 ![p].class = "none"]
            /\ UNCHANGED <<lock, answers>>
       ELSE Fail(p)
  /\ UNCHANGED <<row, chain, stage, main, history>>

(* _assert_mutation_allowed, without the lock.                             *)
AssertPlanned(p) ==
  /\ proc[p].pc = "assert"
  /\ IF row.state = "PLANNED"
       THEN Goto(p, "reserve") /\ UNCHANGED <<lock, answers>>
       ELSE Fail(p)
  /\ UNCHANGED <<row, chain, stage, main, history>>

(* reserve_worktree_identity: only an unnamed task takes a new identity.   *)
(* Faulty variant: the last caller wins.                                   *)
MayReserveAny(i) == i \in Idents
MayReserve(i) == row.ident \in {NoIdent, i}

Reserve(p) ==
  /\ proc[p].pc = "reserve" /\ lock = NoProcess
  /\ IF MayReserve(proc[p].ident)
       THEN /\ row' = [row EXCEPT !.ident = proc[p].ident]
            /\ Goto(p, "execute") /\ UNCHANGED <<lock, answers>>
       ELSE Fail(p) /\ UNCHANGED row
  /\ UNCHANGED <<chain, stage, main, history>>

(* Faulty variants of AfterTerminal: the callback is marked completed, or  *)
(* passed over, without being run.                                         *)
AfterTerminalMarked(p, o) ==
  IF o.phase = "COMMITTED"
    THEN /\ Goto(p, IF o.callback = "PENDING" THEN "mark" ELSE "confirm")
         /\ Unlock(p) /\ UNCHANGED answers
    ELSE Fail(p)
AfterTerminalSkipped(p, o) ==
  IF o.phase = "COMMITTED" THEN Goto(p, "confirm") /\ Unlock(p) /\ UNCHANGED answers
                           ELSE Fail(p)

(* After the journal is terminal: the attach callback is owed, or was run. *)
AfterTerminal(p, o) ==
  IF o.phase = "COMMITTED"
    THEN /\ Goto(p, IF o.callback = "PENDING" THEN "attach" ELSE "confirm")
         /\ Unlock(p) /\ UNCHANGED answers
    ELSE Fail(p)

(* _preflight, under the lock; faulty variant: without the state of the    *)
(* task, which was checked before the lock was taken.                      *)
PreflightStateless(p) ==
  Class(p) = Expected(proc[p].kind) /\ row.path = NoIdent /\ row.base = main
Preflight(p) ==
  /\ Class(p) = Expected(proc[p].kind)
  /\ row.state = "PLANNED"
  /\ row.path = NoIdent
  /\ row.base = main

(* execute_git, a known key: its recorded answer, or an error.             *)
ExecuteKnown(p) ==
  LET c == chain[MyChain(p)]
      n == proc[p].key IN
  /\ proc[p].pc = "execute" /\ lock = NoProcess
  /\ n <= Len(c)
  /\ IF c[n].ident = proc[p].ident /\ c[n].phase # "PREPARED"
       THEN AfterTerminal(p, c[n])
       ELSE Fail(p)
  /\ UNCHANGED <<row, chain, stage, main, history>>

(* execute_git, a new key: refused, or PREPARED and the command started.   *)
ExecuteNew(p) ==
  LET c == MyChain(p) IN
  /\ proc[p].pc = "execute" /\ lock = NoProcess
  /\ proc[p].key > Len(chain[c])
  /\ IF Prepared = {} /\ Preflight(p)
       THEN /\ chain' = [chain EXCEPT ![c] = Append(@,
                 [ident |-> proc[p].ident, phase |-> "PREPARED", callback |-> "PENDING"])]
            /\ lock' = p
            /\ Goto(p, "running") /\ UNCHANGED answers
       ELSE Fail(p) /\ UNCHANGED chain
  /\ UNCHANGED <<row, stage, main, history>>

(* git worktree add: the branch, the directory with its registration, the  *)
(* checkout.  It may fail after any of them, cleaning up the directory.    *)
GitProgress(p) ==
  LET i == proc[p].ident IN
  /\ proc[p].pc = "running" /\ stage[i] # "healthy"
  /\ stage' = [stage EXCEPT ![i] =
       CASE @ = "none" -> "branch" [] @ = "branch" -> "residue" [] @ = "residue" -> "healthy"]
  /\ UNCHANGED <<row, chain, lock, main, proc, answers, history>>

GitReturns(p) ==
  LET i == proc[p].ident IN
  /\ proc[p].pc = "running"
  /\ \/ stage[i] = "healthy" /\ UNCHANGED <<stage, faults>>
     \/ /\ stage[i] # "healthy" /\ faults < MaxFaults
        /\ faults' = faults + 1
        /\ \/ UNCHANGED stage
           \/ stage[i] = "residue" /\ stage' = [stage EXCEPT ![i] = "branch"]
  /\ Goto(p, "verify")
  /\ UNCHANGED <<row, chain, lock, main, answers, byHand>>

SettleOwn(p) ==
  LET c == MyChain(p) IN
  /\ proc[p].pc = "verify"
  /\ SettleRow(c, proc[p].key, Class(p))
  /\ AfterTerminal(p, chain'[c][proc[p].key])
  /\ UNCHANGED <<row, stage, main, history>>

(* The verifier raises an error start does not handle; PREPARED stays.     *)
VerifierRaises(p) ==
  /\ \/ proc[p].pc = "verify"
     \/ proc[p].pc \in {"reconcile", "settle"} /\ lock = NoProcess
  /\ faults < MaxFaults /\ faults' = faults + 1
  /\ Finish(p, "refused")
  /\ UNCHANGED <<row, chain, stage, main, byHand>>

(* The callback: attach_worktree, which looks at the identity only.        *)
Attach(p) ==
  LET i == proc[p].ident IN
  /\ proc[p].pc = "attach" /\ lock = NoProcess
  /\ IF <<row.ident, row.path>> \in {<<NoIdent, NoIdent>>, <<i, NoIdent>>, <<i, i>>}
       THEN /\ row' = [row EXCEPT !.ident = i, !.path = i]
            /\ Goto(p, "mark") /\ UNCHANGED <<lock, answers>>
       ELSE Fail(p) /\ UNCHANGED row
  /\ UNCHANGED <<chain, stage, main, history>>

(* complete_operation_callback                                             *)
Mark(p) ==
  /\ proc[p].pc = "mark" /\ lock = NoProcess
  /\ chain' = [chain EXCEPT ![MyChain(p)][proc[p].key].callback = "COMPLETED"]
  /\ Goto(p, "confirm")
  /\ UNCHANGED <<row, lock, stage, main, answers, history>>

Confirm(p) ==
  /\ proc[p].pc = "confirm"
  /\ \E class \in Readings(p) :
       IF class # "healthy" THEN Fail(p)
       ELSE IF proc[p].call = "start" THEN Goto(p, "dispatch") /\ UNCHANGED <<lock, answers>>
       ELSE Finish(p, "repaired")
  /\ UNCHANGED <<row, chain, stage, main, history>>

(* The transition to DISPATCHED is a transaction of its own.               *)
Dispatch(p) ==
  /\ proc[p].pc = "dispatch" /\ lock = NoProcess
  /\ IF Legal(row.state, "DISPATCHED", NoState)
       THEN row' = [row EXCEPT !.state = "DISPATCHED"] /\ Finish(p, "started")
       ELSE Fail(p) /\ UNCHANGED row
  /\ UNCHANGED <<chain, stage, main, history>>

(* Somebody else may have dispatched the task: then that is the answer.    *)
Rescue(p) ==
  /\ proc[p].pc = "rescue"
  /\ \E class \in Readings(p) :
       Finish(p, IF row.state = "DISPATCHED" /\ class = "healthy"
                   THEN "started" ELSE "refused")
  /\ UNCHANGED <<row, chain, stage, main, history>>

(* StoreBusyError is handled by nobody.                                    *)
LockTimeout(p) ==
  /\ proc[p].pc \in {"register", "reconcile", "settle", "reserve", "execute",
                     "attach", "mark", "dispatch"}
  /\ lock # NoProcess
  /\ Finish(p, "busy")
  /\ UNCHANGED <<row, chain, stage, main, history>>

Crash(p) ==
  /\ proc[p].pc # "idle"
  /\ faults < MaxFaults /\ faults' = faults + 1
  /\ Finish(p, "crashed")
  /\ UNCHANGED <<row, chain, stage, main, byHand>>

-----------------------------------------------------------------------------
(* Everybody else: commits to main, transitions by other commands, and the *)
(* agent that works in the worktree of a dispatched task.                  *)
MainAdvances ==
  /\ main < MaxMain
  /\ main' = main + 1
  /\ UNCHANGED <<row, chain, lock, stage, proc, answers, history>>

OperatorTransition ==
  /\ lock = NoProcess /\ row.state # NoState
  /\ \E target \in OperatorTargets :
       /\ Legal(row.state, target, NoState)
       /\ row' = [row EXCEPT !.state = target]
       /\ byHand' = (byHand \/ target = "DISPATCHED")
  /\ UNCHANGED <<chain, lock, stage, main, proc, answers, faults>>

AgentWorks ==
  /\ row.state \notin {NoState, "PLANNED"} /\ row.path # NoIdent
  /\ stage[row.path] = "healthy"
  /\ stage' = [stage EXCEPT ![row.path] = "residue"]
  /\ UNCHANGED <<row, chain, lock, main, proc, answers, history>>

Step(p) ==
  \/ Register(p) \/ AlreadyDispatched(p) \/ ListPrepared(p) \/ ReconcileCreate(p)
  \/ Route(p) \/ FreshReport(p) \/ ChooseKey(p) \/ ReconcileKey(p) \/ Decide(p)
  \/ AssertPlanned(p) \/ Reserve(p) \/ ExecuteKnown(p) \/ ExecuteNew(p)
  \/ SettleOwn(p) \/ VerifierRaises(p) \/ Attach(p) \/ Mark(p) \/ Confirm(p)
  \/ Dispatch(p) \/ Rescue(p) \/ LockTimeout(p)
  \/ GitProgress(p) \/ GitReturns(p)

Next ==
  \/ \E p \in Processes : \/ Step(p) \/ Crash(p)
                          \/ \E i \in Idents : Start(p, i) \/ Repair(p, i)
  \/ MainAdvances \/ OperatorTransition \/ AgentWorks

Spec == Init /\ [][Next]_vars

(* Processes run and Git commands end; the operator keeps starting the     *)
(* task until it is dispatched.                                            *)
FairSpec ==
  /\ Spec
  /\ \A p \in Processes :
       /\ WF_vars(Step(p))
       /\ SF_vars(\E i \in Idents : row.state # "DISPATCHED" /\ Start(p, i))

-----------------------------------------------------------------------------
Labels ==
  {"idle", "register", "dispatched", "list", "reconcile", "route", "fresh", "key",
   "settle", "decide", "assert", "reserve", "execute", "running", "verify",
   "attach", "mark", "confirm", "dispatch", "rescue"}
Operations == [ident : Idents, phase : {"PREPARED", "COMMITTED", "FAILED"},
               callback : {"none", "PENDING", "COMPLETED"}]

TypeOK ==
  /\ row \in [state : TaskStates \cup {NoState}, base : Nat,
              ident : Idents \cup {NoIdent}, path : Idents \cup {NoIdent}]
  /\ chain \in [Chains -> Seq(Operations)]
  /\ lock \in Processes \cup {NoProcess}
  /\ stage \in [Idents -> Stages]
  /\ main \in Nat
  /\ proc \in [Processes ->
       [pc : Labels, call : {"none", "start", "repair"}, ident : Idents \cup {NoIdent},
        base : Nat, class : Stages \cup {"mismatch"}, kind : Kinds, key : Nat]]
  /\ answers \subseteq Idents
  /\ byHand \in BOOLEAN /\ faults \in Nat

(* One write task, one branch, one worktree: whoever races to start or     *)
(* repair the dispatch under whatever identity, every Git operation ever   *)
(* prepared is of the identity the row has reserved, and at most one       *)
(* succeeded.  (All variables are of their types.)                         *)
OneWorktree ==
  /\ TypeOK
  /\ \A o \in Ops : chain[o[1]][o[2]].ident = row.ident
  /\ Cardinality({o \in Ops : chain[o[1]][o[2]].phase = "COMMITTED"}) <= 1

(* While git worktree add runs, the task it was decided for has not moved: *)
(* still PLANNED, of the same identity and base, with no worktree.         *)
CommandOnPlannedTask ==
  \A p \in Processes :
    proc[p].pc \in {"running", "verify"} =>
      row = [state |-> "PLANNED", base |-> proc[p].base,
             ident |-> proc[p].ident, path |-> NoIdent]

(* A recorded worktree path was established by a Git operation that was    *)
(* verified; a callback marked completed has really attached it; and a     *)
(* caller told that its write task is started finds the worktree it asked  *)
(* for recorded, whichever of the four ways to that answer it took, unless *)
(* another command called the task DISPATCHED without one.                 *)
AttachedIsVerified ==
  /\ row.path # NoIdent =>
       /\ row.path = row.ident
       /\ \E o \in Ops : chain[o[1]][o[2]].phase = "COMMITTED"
  /\ \A o \in Ops : chain[o[1]][o[2]].callback = "COMPLETED" => row.path # NoIdent
  /\ byHand \/ \A i \in answers : row.path = i

(* What no start gets past, so that a person has to step in: Git was left  *)
(* with something that is neither a branch alone nor a worktree; or with a *)
(* worktree that a repair has made and that nobody came to dispatch, since *)
(* a start takes a worktree for its own only from a create operation.      *)
LeftByRepair(i) ==
  stage[i] = "healthy" /\ \E n \in DOMAIN chain[i] : chain[i][n].phase # "FAILED"
NeedsAPerson == \E i \in Idents : stage[i] = "residue" \/ LeftByRepair(i)


(* What a start promises is kept, in any interleaving with repairs, other  *)
(* commands and crashes.                                                   *)
Promise == INSTANCE TaskStart WITH
             state <- row.state, base <- row.base, ident <- row.ident, path <- row.path,
             worktree <- IF \E o \in Ops : chain[o[1]][o[2]].phase = "COMMITTED" THEN "built"
                         ELSE IF Prepared # {} THEN "attempted" ELSE "none",
             Dispatchable <- {s \in TaskStates : Legal(s, "DISPATCHED", NoState)},
             Commands <- {m \in TaskStates \X OperatorTargets : Legal(m[1], m[2], NoState)}

StartKeepsPromise == Promise!Spec
=============================================================================
