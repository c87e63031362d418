---------------------------- MODULE JournalProofs ---------------------------
(***************************************************************************)
(* Proofs about Journal for any number of processes, keys and requests,    *)
(* any crash bound, and whether or not git children outlive their parents. *)
(***************************************************************************)
EXTENDS Journal, FiniteSetTheorems, TLAPS

(***************************************************************************)
(* The inductive invariant.  CommandAtMostOnce needs to know that the lock *)
(* holder is the process between PREPARED and the terminal row, that its   *)
(* row is still PREPARED, and that a process about to start the command    *)
(* sits on a row for which none was started; ToldTruth needs to know what  *)
(* a process that owes a callback knows about its row.                     *)
(***************************************************************************)
HoldLabels == {"prepared", "running", "verify", "recheck"}
ExecLabels == {"prepared", "running", "verify"}
DoneLabels == {"callback", "mark"}

ProcessInv(p) ==
  /\ pc[p] \in HoldLabels <=> lock = p
  /\ pc[p] \in ExecLabels \cup DoneLabels \cup {"execute"}
       => request[p] \in Requests /\ cur[p] = request[p].key
  /\ pc[p] \in HoldLabels => cur[p] \in Keys /\ row[cur[p]].phase = "PREPARED"
  /\ pc[p] \in ExecLabels =>
       /\ row[cur[p]].digest = request[p].digest
       /\ \A k \in Keys : row[k].phase = "PREPARED" => k = cur[p]
  /\ pc[p] = "prepared" => commands[cur[p]] = 0
  /\ pc[p] \in DoneLabels =>
       /\ row[cur[p]].phase = "COMMITTED"
       /\ row[cur[p]].callback \in {"PENDING", "COMPLETED"}
       /\ row[cur[p]].digest = request[p].digest
  /\ pc[p] = "mark" => cur[p] \in callbacks

KeyInv(k) ==
  /\ commands[k] <= 1
  /\ row[k].phase = "ABSENT" => commands[k] = 0 /\ row[k].callback = "none"
  /\ row[k].phase = "COMMITTED" => effect[k] = "done"
  /\ k \in callbacks => row[k].phase = "COMMITTED" /\ row[k].callback # "none"
  /\ row[k].callback = "COMPLETED" => k \in callbacks

ToldInv(r) ==
  /\ row[r.key].digest = r.digest
  /\ row[r.key].phase = "COMMITTED"
  /\ r.callback => row[r.key].callback # "PENDING"

IInv ==
  /\ TypeOK
  /\ \A p \in Processes : ProcessInv(p)
  /\ \A k \in Keys : KeyInv(k)
  /\ \A r \in told : ToldInv(r)

-----------------------------------------------------------------------------
LEMMA NoProcessFacts ==
  /\ NoProcess \notin Processes
  /\ \A r \in Requests : r.key \in Keys /\ r.digest \in Digests /\ r.callback \in BOOLEAN
  BY FreshAssumption, RequestsAssumption

(* A settled row is a row.                                                 *)
LEMMA SettledFacts ==
  ASSUME NEW k \in Keys, row[k] \in Rows, NEW v \in Verdicts(k)
  PROVE  /\ Settled(k, v) \in Rows
         /\ Settled(k, v).phase \in Terminal
         /\ Settled(k, v).digest = row[k].digest
         /\ Settled(k, v).phase = "COMMITTED" =>
              effect[k] = "done" /\ Settled(k, v).callback = row[k].callback
         /\ Settled(k, v).phase # "COMMITTED" => Settled(k, v).callback = "none"
         /\ Settled(k, v).callback \in {"none", row[k].callback}
<1>1. v \in {"null", "true", "false"} /\ (v = "true" => effect[k] = "done")
  BY DEF Verdicts
<1>2. /\ v = "true" => TerminalPhase(v) = "COMMITTED"
      /\ v = "false" => TerminalPhase(v) = "FAILED"
      /\ v = "null" => TerminalPhase(v) = "BLOCKED"
  BY DEF TerminalPhase
<1> QED
  BY <1>1, <1>2 DEF Settled, Rows, Terminal

(* What the end of a call does to its process and to the lock.             *)
LEMMA ReturnFacts ==
  ASSUME TypeOK, NEW p \in Processes, Return(p)
  PROVE  /\ pc'[p] = "idle"
         /\ \A q \in Processes \ {p} :
              pc'[q] = pc[q] /\ cur'[q] = cur[q] /\ request'[q] = request[q]
         /\ lock' = IF lock = p THEN NoProcess ELSE lock
         /\ pc' \in [Processes -> Labels]
         /\ request' \in [Processes -> Requests \cup {NoRequest}]
         /\ cur' \in [Processes -> Keys \cup {NoKey}]
         /\ todo' \in [Processes -> SUBSET Keys]
         /\ lock' \in Processes \cup {NoProcess}
  BY DEF TypeOK, Return, Unlock, Labels

LEMMA GotoFacts ==
  ASSUME TypeOK, NEW p \in Processes, NEW l \in Labels, Goto(p, l)
  PROVE  /\ pc'[p] = l
         /\ \A q \in Processes \ {p} : pc'[q] = pc[q]
         /\ pc' \in [Processes -> Labels]
         /\ request' = request /\ cur' = cur /\ todo' = todo
  BY DEF TypeOK, Goto, Labels

(* Both ends of a terminal row: the caller owes the callback, or the call  *)
(* returns.                                                                *)
LEMMA AfterTerminalFacts ==
  ASSUME TypeOK, NEW p \in Processes, NEW o, AfterTerminal(p, o)
  PROVE  \/ /\ CallbackPending(request[p], o) /\ Goto(p, "callback") /\ told' = told
            /\ lock' = IF lock = p THEN NoProcess ELSE lock
         \/ /\ ~CallbackPending(request[p], o) /\ Return(p)
            /\ told' = IF o.phase = "COMMITTED" THEN told \cup {request[p]} ELSE told
  BY DEF AfterTerminal, Unlock

-----------------------------------------------------------------------------
(* Every variable keeps its type.                                          *)
LEMMA TypeStep == TypeOK /\ (\A p \in Processes : ProcessInv(p)) /\ [Next]_vars => TypeOK'
<1> SUFFICES ASSUME TypeOK, \A p \in Processes : ProcessInv(p), [Next]_vars PROVE TypeOK'
  OBVIOUS
<1> USE NoProcessFacts
<1>1. CASE UNCHANGED vars
  BY <1>1 DEF TypeOK, vars, store, world, local, history
<1>2. ASSUME NEW p \in Processes, NEW r \in Requests, ExecuteGit(p, r) PROVE TypeOK'
  BY <1>2 DEF TypeOK, ExecuteGit, store, world, history, Labels
<1>3. ASSUME NEW p \in Processes,
             \/ LockTimeout(p) \/ ExecuteRefused(p) \/ VerifierRaises(p)
             \/ ReconcileReturn(p)
      PROVE  TypeOK'
  <2>1. Return(p) /\ UNCHANGED <<row, effect, git, commands, callbacks, told, crashes>>
    BY <1>3 DEF LockTimeout, ExecuteRefused, VerifierRaises, ReconcileReturn,
                world, history
  <2> QED
    BY <2>1, ReturnFacts DEF TypeOK
<1>4. ASSUME NEW p \in Processes, ExecuteKnown(p) PROVE TypeOK'
  <2>1. request[p] \in Requests
    BY <1>4 DEF ExecuteKnown, ProcessInv
  <2>2. /\ AfterTerminal(p, row[cur[p]])
        /\ UNCHANGED <<row, effect, git, commands, callbacks, crashes>>
    BY <1>4 DEF ExecuteKnown, world
  <2>3. CASE Goto(p, "callback") /\ told' = told /\ lock' = IF lock = p THEN NoProcess ELSE lock
    BY <2>2, <2>3, GotoFacts DEF TypeOK, Labels
  <2>4. CASE Return(p) /\ told' \subseteq told \cup {request[p]}
    BY <2>1, <2>2, <2>4, ReturnFacts DEF TypeOK
  <2> QED
    BY <2>2, <2>3, <2>4, AfterTerminalFacts
<1>5. ASSUME NEW p \in Processes, ExecutePrepare(p) PROVE TypeOK'
  <2>1. request[p] \in Requests /\ cur[p] \in Keys
    BY <1>5 DEF ExecutePrepare, Acquire, MayPrepare, ProcessInv
  <2>2. Goto(p, "prepared") /\ UNCHANGED <<effect, git, commands, callbacks, told, crashes>>
    BY <1>5 DEF ExecutePrepare, Acquire, MayPrepare, world, history
  <2>3. row' \in [Keys -> Rows]
    BY <1>5, <2>1 DEF ExecutePrepare, Acquire, MayPrepare, TypeOK, Rows
  <2> QED
    BY <1>5, <2>2, <2>3, GotoFacts DEF ExecutePrepare, Acquire, MayPrepare, TypeOK, Labels
<1>6. ASSUME NEW p \in Processes, StartCommand(p) PROVE TypeOK'
  <2>1. cur[p] \in Keys /\ Goto(p, "running")
    BY <1>6 DEF StartCommand, ProcessInv, HoldLabels
  <2> QED
    BY <1>6, <2>1, GotoFacts DEF StartCommand, TypeOK, store, Labels
<1>7. ASSUME NEW p \in Processes, CommandReturned(p) PROVE TypeOK'
  <2>1. Goto(p, "verify")
    BY <1>7 DEF CommandReturned
  <2> QED
    BY <1>7, <2>1, GotoFacts DEF CommandReturned, TypeOK, store, world, history, Labels
<1>8. ASSUME NEW p \in Processes, ExecuteSettle(p) PROVE TypeOK'
  <2>1. cur[p] \in Keys /\ request[p] \in Requests
    BY <1>8 DEF ExecuteSettle, ProcessInv, HoldLabels, ExecLabels
  <2>2. PICK v \in Verdicts(cur[p]) :
          Finish(p, v) /\ AfterTerminal(p, row'[cur[p]])
    BY <1>8 DEF ExecuteSettle
  <2>3. row' \in [Keys -> Rows]
    BY <2>1, <2>2, SettledFacts DEF Finish, TypeOK
  <2>4. UNCHANGED <<effect, git, commands, callbacks, crashes>>
    BY <1>8 DEF ExecuteSettle, world
  <2>5. CASE Goto(p, "callback") /\ told' = told /\ lock' = IF lock = p THEN NoProcess ELSE lock
    BY <2>3, <2>4, <2>5, GotoFacts DEF TypeOK, Labels
  <2>6. CASE Return(p) /\ told' \subseteq told \cup {request[p]}
    BY <2>1, <2>3, <2>4, <2>6, ReturnFacts DEF TypeOK
  <2> QED
    BY <2>2, <2>5, <2>6, AfterTerminalFacts
<1>9. ASSUME NEW p \in Processes, RunCallback(p) PROVE TypeOK'
  <2>1. cur[p] \in Keys
    BY <1>9 DEF RunCallback, ProcessInv, DoneLabels
  <2>2. UNCHANGED <<row, effect, git, commands, told, crashes>>
    BY <1>9 DEF RunCallback, world
  <2>3. CASE callbacks' = callbacks \cup {cur[p]} /\ Goto(p, "mark") /\ UNCHANGED lock
    BY <2>1, <2>2, <2>3, GotoFacts DEF TypeOK, Labels
  <2>4. CASE Return(p) /\ UNCHANGED callbacks
    BY <2>2, <2>4, ReturnFacts DEF TypeOK
  <2> QED
    BY <1>9, <2>3, <2>4 DEF RunCallback
<1>10. ASSUME NEW p \in Processes, MarkCallback(p) PROVE TypeOK'
  <2>1. cur[p] \in Keys /\ request[p] \in Requests /\ Return(p)
    BY <1>10 DEF MarkCallback, ProcessInv, DoneLabels
  <2>2. row' \in [Keys -> Rows]
    BY <1>10, <2>1 DEF MarkCallback, TypeOK, Rows
  <2> QED
    BY <1>10, <2>1, <2>2, ReturnFacts DEF MarkCallback, TypeOK, world
<1>11. ASSUME NEW p \in Processes, Reconcile(p) PROVE TypeOK'
  BY <1>11 DEF Reconcile, TypeOK, store, world, history, Labels, PreparedKeys
<1>12. ASSUME NEW p \in Processes, ReconcileSettled(p) PROVE TypeOK'
  BY <1>12 DEF ReconcileSettled, TypeOK, store, world, history
<1>13. ASSUME NEW p \in Processes, ReconcileBegin(p) PROVE TypeOK'
  <2>1. PICK k \in todo[p] : row[k].phase = "PREPARED" /\ cur' = [cur EXCEPT ![p] = k]
    BY <1>13 DEF ReconcileBegin, Acquire
  <2>2. k \in Keys
    BY DEF TypeOK
  <2> QED
    BY <1>13, <2>1, <2>2 DEF ReconcileBegin, Acquire, TypeOK, world, history, Labels
<1>14. ASSUME NEW p \in Processes, ReconcileSettle(p) PROVE TypeOK'
  <2>1. cur[p] \in Keys
    BY <1>14 DEF ReconcileSettle, ProcessInv, HoldLabels
  <2>2. PICK v \in Verdicts(cur[p]) : Finish(p, v)
    BY <1>14 DEF ReconcileSettle
  <2>3. row' \in [Keys -> Rows]
    BY <2>1, <2>2, SettledFacts DEF Finish, TypeOK
  <2> QED
    BY <1>14, <2>3 DEF ReconcileSettle, Unlock, TypeOK, world, history, Labels
<1>15. ASSUME NEW r \in Requests, PrepareOnly(r) PROVE TypeOK'
  <2>1. row' \in [Keys -> Rows]
    BY <1>15 DEF PrepareOnly, TypeOK, Rows
  <2> QED
    BY <1>15, <2>1 DEF PrepareOnly, TypeOK, world, local, history
<1>16. ASSUME NEW k \in Keys, GitStep(k) PROVE TypeOK'
  <2>1. CASE GitProgress(k)
    BY <2>1 DEF GitProgress, TypeOK, store, local, history
  <2>2. CASE GitExit(k)
    BY <2>2 DEF GitExit, TypeOK, store, local, history
  <2> QED
    BY <1>16, <2>1, <2>2 DEF GitStep
<1>17. ASSUME NEW p \in Processes, Crash(p) PROVE TypeOK'
  <2>1. Return(p) /\ UNCHANGED <<row, effect, commands, callbacks, told>>
        /\ crashes' = crashes + 1 /\ git' \subseteq git
    BY <1>17 DEF Crash
  <2> QED
    BY <2>1, ReturnFacts DEF TypeOK
<1> QED
  BY <1>1, <1>2, <1>3, <1>4, <1>5, <1>6, <1>7, <1>8, <1>9, <1>10, <1>11, <1>12,
     <1>13, <1>14, <1>15, <1>16, <1>17 DEF Next, Step, Call
-----------------------------------------------------------------------------
(* What every step leaves alone, seen from a process that does not take it *)
(* and from the records.                                                   *)
LEMMA OtherProcess ==
  ASSUME NEW q \in Processes, ProcessInv(q),
         pc'[q] = pc[q], request'[q] = request[q], cur'[q] = cur[q],
         lock' = q <=> lock = q,
         callbacks \subseteq callbacks',
         lock = q => row' = row /\ commands' = commands,
         cur[q] \in Keys /\ row[cur[q]].phase = "COMMITTED" =>
           /\ row'[cur[q]].phase = "COMMITTED"
           /\ row'[cur[q]].digest = row[cur[q]].digest
           /\ row[cur[q]].callback \in {"PENDING", "COMPLETED"}
                => row'[cur[q]].callback \in {"PENDING", "COMPLETED"}
  PROVE  ProcessInv(q)'
<1>1. pc[q] \in DoneLabels => cur[q] \in Keys
  BY NoProcessFacts DEF ProcessInv
<1>2. pc[q] \in ExecLabels => pc[q] \in HoldLabels
  BY DEF ExecLabels, HoldLabels
<1> QED
  BY <1>1, <1>2 DEF ProcessInv, HoldLabels, ExecLabels, DoneLabels

LEMMA SameRecords ==
  ASSUME \A k \in Keys : KeyInv(k), \A r \in told : ToldInv(r),
         UNCHANGED <<row, commands, callbacks, told>>,
         \A k \in Keys : effect[k] = "done" => effect'[k] = "done"
  PROVE  (\A k \in Keys : KeyInv(k))' /\ (\A r \in told : ToldInv(r))'
  BY DEF KeyInv, ToldInv

(* The end of a call that changes no record.                               *)
LEMMA QuietReturn ==
  ASSUME IInv, NEW p \in Processes, Return(p),
         UNCHANGED <<row, effect, commands, callbacks, told>>
  PROVE  /\ (\A q \in Processes : ProcessInv(q))'
         /\ (\A k \in Keys : KeyInv(k))'
         /\ (\A r \in told : ToldInv(r))'
<1>1. /\ pc'[p] = "idle"
      /\ \A q \in Processes \ {p} :
           pc'[q] = pc[q] /\ cur'[q] = cur[q] /\ request'[q] = request[q]
      /\ lock' = IF lock = p THEN NoProcess ELSE lock
  BY ReturnFacts DEF IInv
<1>2. ProcessInv(p)'
  BY <1>1, NoProcessFacts DEF ProcessInv, HoldLabels, ExecLabels, DoneLabels
<1>3. ASSUME NEW q \in Processes, q # p PROVE ProcessInv(q)'
  <2>1. ProcessInv(q) /\ (lock' = q <=> lock = q)
    BY <1>1, <1>3, NoProcessFacts DEF IInv
  <2> QED
    BY <1>1, <1>3, <2>1, OtherProcess
<1> QED
  BY <1>2, <1>3, SameRecords DEF IInv

-----------------------------------------------------------------------------
(* The terminal row of an executing process, and what follows it: shared   *)
(* by ExecuteKnown (the row was there) and ExecuteSettle (just written).   *)
LEMMA AfterTerminalStep ==
  ASSUME IInv, TypeOK', NEW p \in Processes, AfterTerminal(p, row'[cur[p]]),
         request[p] \in Requests, cur[p] = request[p].key,
         row'[cur[p]].digest = request[p].digest,
         \A q \in Processes \ {p} :
           /\ lock = q => row' = row
           /\ cur[q] \in Keys /\ row[cur[q]].phase = "COMMITTED"
                => row'[cur[q]] = row[cur[q]],
         \A r \in told : row'[r.key] = row[r.key],
         UNCHANGED <<commands, callbacks>>
  PROVE  /\ (\A q \in Processes : ProcessInv(q))'
         /\ (\A r \in told : ToldInv(r))'
<1> DEFINE o == row'[cur[p]]
<1> USE NoProcessFacts
<1>1. o \in Rows
  BY DEF TypeOK
<1>2. CASE /\ CallbackPending(request[p], o) /\ Goto(p, "callback") /\ told' = told
           /\ lock' = IF lock = p THEN NoProcess ELSE lock
  <2>1. /\ pc'[p] = "callback"
        /\ \A q \in Processes \ {p} : pc'[q] = pc[q]
        /\ request' = request /\ cur' = cur
    BY <1>2, GotoFacts DEF IInv, Labels
  <2>2. ProcessInv(p)'
    BY <1>2, <2>1 DEF ProcessInv, CallbackPending, HoldLabels, ExecLabels, DoneLabels
  <2>3. ASSUME NEW q \in Processes, q # p PROVE ProcessInv(q)'
    <3>1. ProcessInv(q) /\ (lock' = q <=> lock = q)
      BY <1>2, <2>3 DEF IInv
    <3> QED
      BY <2>1, <2>3, <3>1, OtherProcess
  <2>4. (\A r \in told : ToldInv(r))'
    BY <1>2 DEF IInv, ToldInv
  <2> QED
    BY <2>2, <2>3, <2>4
<1>3. CASE /\ ~CallbackPending(request[p], o) /\ Return(p)
           /\ told' = IF o.phase = "COMMITTED" THEN told \cup {request[p]} ELSE told
  <2>1. /\ pc'[p] = "idle"
        /\ \A q \in Processes \ {p} :
             pc'[q] = pc[q] /\ cur'[q] = cur[q] /\ request'[q] = request[q]
        /\ lock' = IF lock = p THEN NoProcess ELSE lock
    BY <1>3, ReturnFacts DEF IInv
  <2>2. ProcessInv(p)'
    BY <2>1 DEF ProcessInv, HoldLabels, ExecLabels, DoneLabels
  <2>3. ASSUME NEW q \in Processes, q # p PROVE ProcessInv(q)'
    <3>1. ProcessInv(q) /\ (lock' = q <=> lock = q)
      BY <2>1, <2>3 DEF IInv
    <3> QED
      BY <2>1, <2>3, <3>1, OtherProcess
  <2>4. ASSUME NEW r \in told' PROVE ToldInv(r)'
    <3>1. CASE r \in told
      BY <3>1 DEF IInv, ToldInv
    <3>2. CASE r = request[p] /\ o.phase = "COMMITTED"
      BY <1>3, <3>2 DEF ToldInv, CallbackPending
    <3> QED
      BY <1>3, <2>4, <3>1, <3>2
  <2> QED
    BY <2>2, <2>3, <2>4
<1> QED
  BY <1>2, <1>3, AfterTerminalFacts DEF IInv

(* A row written by a finish under the lock: every key keeps KeyInv.       *)
LEMMA FinishFacts ==
  ASSUME IInv, NEW p \in Processes, lock = p, cur[p] \in Keys,
         NEW v \in Verdicts(cur[p]), Finish(p, v),
         UNCHANGED <<effect, commands, callbacks>>
  PROVE  /\ (\A k \in Keys : KeyInv(k))'
         /\ \A k \in Keys : row[k].phase # "PREPARED" => row'[k] = row[k]
         /\ \A r \in told : row'[r.key] = row[r.key]
         /\ row'[cur[p]].digest = row[cur[p]].digest
         /\ row'[cur[p]].phase \in Terminal
<1>1. /\ row[cur[p]].phase = "PREPARED"
      /\ row' = [row EXCEPT ![cur[p]] = Settled(cur[p], v)]
      /\ row \in [Keys -> Rows]
  BY DEF Finish, IInv, TypeOK
<1>2. /\ Settled(cur[p], v).phase \in Terminal
      /\ Settled(cur[p], v).digest = row[cur[p]].digest
      /\ Settled(cur[p], v).phase = "COMMITTED" =>
           effect[cur[p]] = "done" /\ Settled(cur[p], v).callback = row[cur[p]].callback
      /\ Settled(cur[p], v).callback \in {"none", row[cur[p]].callback}
  BY <1>1, SettledFacts
<1>3. \A r \in told : r.key \in Keys /\ row[r.key].phase = "COMMITTED"
  BY NoProcessFacts DEF IInv, TypeOK, ToldInv
<1>4. ASSUME NEW k \in Keys PROVE KeyInv(k)'
  <2>1. KeyInv(k)
    BY DEF IInv
  <2>2. CASE k = cur[p]
    BY <1>1, <1>2, <2>1, <2>2 DEF KeyInv, Terminal
  <2>3. CASE k # cur[p]
    BY <1>1, <2>1, <2>3 DEF KeyInv
  <2> QED
    BY <2>2, <2>3
<1> QED
  BY <1>1, <1>2, <1>3, <1>4

-----------------------------------------------------------------------------
(* The rest of the inductive invariant, step by step.                      *)
Records == /\ \A p \in Processes : ProcessInv(p)
           /\ \A k \in Keys : KeyInv(k)
           /\ \A r \in told : ToldInv(r)

LEMMA RecordsStep == IInv /\ [Next]_vars => Records'
<1> SUFFICES ASSUME IInv, [Next]_vars PROVE Records'
  OBVIOUS
<1> USE NoProcessFacts
<1>0. TypeOK /\ TypeOK'
  BY TypeStep DEF IInv
<1>1. CASE UNCHANGED vars
  BY <1>1 DEF IInv, Records, ProcessInv, KeyInv, ToldInv, vars, store, world,
              local, history
<1>2. ASSUME NEW p \in Processes, NEW r \in Requests, ExecuteGit(p, r) PROVE Records'
  <2>1. /\ pc'[p] = "execute" /\ request'[p] = r /\ cur'[p] = r.key /\ pc[p] = "idle"
        /\ \A q \in Processes \ {p} :
             pc'[q] = pc[q] /\ cur'[q] = cur[q] /\ request'[q] = request[q]
        /\ UNCHANGED <<row, lock, effect, commands, callbacks, told>>
    BY <1>0, <1>2 DEF ExecuteGit, TypeOK, store, world, history
  <2>2. ProcessInv(p)'
    BY <2>1 DEF IInv, ProcessInv, HoldLabels, ExecLabels, DoneLabels
  <2>3. ASSUME NEW q \in Processes, q # p PROVE ProcessInv(q)'
    BY <2>1, <2>3, OtherProcess DEF IInv
  <2> QED
    BY <2>1, <2>2, <2>3, SameRecords DEF IInv, Records
<1>3. ASSUME NEW p \in Processes,
             \/ LockTimeout(p) \/ ExecuteRefused(p) \/ VerifierRaises(p)
             \/ ReconcileReturn(p) \/ Crash(p)
      PROVE  Records'
  <2>1. Return(p) /\ UNCHANGED <<row, effect, commands, callbacks, told>>
    BY <1>3 DEF LockTimeout, ExecuteRefused, VerifierRaises, ReconcileReturn,
                Crash, world, history
  <2> QED
    BY <2>1, QuietReturn DEF Records
<1>4. ASSUME NEW p \in Processes, ExecuteKnown(p) PROVE Records'
  <2>1. /\ AfterTerminal(p, row'[cur[p]]) /\ row[cur[p]].digest = request[p].digest
        /\ UNCHANGED <<row, effect, commands, callbacks>> /\ pc[p] = "execute"
    BY <1>4 DEF ExecuteKnown, world
  <2>2. request[p] \in Requests /\ cur[p] = request[p].key
    BY <2>1 DEF IInv, ProcessInv
  <2>3. (\A q \in Processes : ProcessInv(q))' /\ (\A r \in told : ToldInv(r))'
    BY <1>0, <2>1, <2>2, AfterTerminalStep
  <2>4. (\A k \in Keys : KeyInv(k))'
    BY <2>1 DEF IInv, KeyInv
  <2> QED
    BY <2>3, <2>4 DEF Records
<1>5. ASSUME NEW p \in Processes, ExecutePrepare(p) PROVE Records'
  <2>1. /\ pc[p] = "execute" /\ lock = NoProcess /\ lock' = p
        /\ Goto(p, "prepared") /\ row[cur[p]].phase = "ABSENT"
        /\ PreparedKeys = {}
        /\ UNCHANGED <<effect, commands, callbacks, told>>
    BY <1>5 DEF ExecutePrepare, Acquire, MayPrepare, world, history
  <2>2. request[p] \in Requests /\ cur[p] = request[p].key /\ cur[p] \in Keys
    BY <2>1 DEF IInv, ProcessInv
  <2>3. /\ row'[cur[p]].phase = "PREPARED" /\ row'[cur[p]].digest = request[p].digest
        /\ row'[cur[p]].callback \in {"PENDING", "none"}
        /\ \A k \in Keys \ {cur[p]} : row'[k] = row[k]
    BY <1>0, <1>5, <2>2 DEF ExecutePrepare, Acquire, MayPrepare, TypeOK
  <2>4. /\ pc'[p] = "prepared" /\ request' = request /\ cur' = cur
        /\ \A q \in Processes \ {p} : pc'[q] = pc[q]
    BY <1>0, <2>1, GotoFacts DEF Labels
  <2>5. ProcessInv(p)'
    <3>1. \A k \in Keys : row'[k].phase = "PREPARED" => k = cur[p]
      BY <2>1, <2>3 DEF PreparedKeys
    <3>2. commands[cur[p]] = 0
      BY <2>1, <2>2 DEF IInv, KeyInv
    <3> QED
      BY <2>1, <2>2, <2>3, <2>4, <3>1, <3>2
         DEF ProcessInv, HoldLabels, ExecLabels, DoneLabels
  <2>6. ASSUME NEW q \in Processes, q # p PROVE ProcessInv(q)'
    BY <2>1, <2>2, <2>3, <2>4, <2>6, OtherProcess DEF IInv
  <2>7. ASSUME NEW k \in Keys PROVE KeyInv(k)'
    BY <2>1, <2>2, <2>3 DEF IInv, KeyInv
  <2>8. ASSUME NEW r \in told' PROVE ToldInv(r)'
    BY <1>0, <2>1, <2>2, <2>3 DEF IInv, ToldInv, TypeOK
  <2> QED
    BY <2>5, <2>6, <2>7, <2>8 DEF Records
<1>6. ASSUME NEW p \in Processes, StartCommand(p) PROVE Records'
  <2>1. /\ pc[p] = "prepared" /\ Goto(p, "running")
        /\ commands' = [commands EXCEPT ![cur[p]] = @ + 1]
        /\ UNCHANGED <<row, lock, effect, callbacks, told>>
    BY <1>6 DEF StartCommand, store
  <2>2. lock = p /\ cur[p] \in Keys /\ commands[cur[p]] = 0
        /\ row[cur[p]].phase = "PREPARED"
    BY <2>1 DEF IInv, ProcessInv, HoldLabels
  <2>3. /\ pc'[p] = "running" /\ request' = request /\ cur' = cur
        /\ \A q \in Processes \ {p} : pc'[q] = pc[q]
    BY <1>0, <2>1, GotoFacts DEF Labels
  <2>4. ProcessInv(p)'
    BY <2>1, <2>3 DEF IInv, ProcessInv, HoldLabels, ExecLabels, DoneLabels
  <2>5. ASSUME NEW q \in Processes, q # p PROVE ProcessInv(q)'
    BY <2>1, <2>2, <2>3, <2>5, OtherProcess DEF IInv
  <2>6. ASSUME NEW k \in Keys PROVE KeyInv(k)'
    BY <1>0, <2>1, <2>2 DEF IInv, KeyInv, TypeOK
  <2>7. (\A r \in told : ToldInv(r))'
    BY <2>1 DEF IInv, ToldInv
  <2> QED
    BY <2>4, <2>5, <2>6, <2>7 DEF Records
<1>7. ASSUME NEW p \in Processes, CommandReturned(p) PROVE Records'
  <2>1. /\ pc[p] = "running" /\ Goto(p, "verify")
        /\ UNCHANGED <<row, lock, effect, commands, callbacks, told>>
    BY <1>7 DEF CommandReturned, store, world, history
  <2>2. /\ pc'[p] = "verify" /\ request' = request /\ cur' = cur
        /\ \A q \in Processes \ {p} : pc'[q] = pc[q]
    BY <1>0, <2>1, GotoFacts DEF Labels
  <2>3. ProcessInv(p)'
    BY <2>1, <2>2 DEF IInv, ProcessInv, HoldLabels, ExecLabels, DoneLabels
  <2>4. ASSUME NEW q \in Processes, q # p PROVE ProcessInv(q)'
    BY <2>1, <2>2, <2>4, OtherProcess DEF IInv
  <2> QED
    BY <2>1, <2>3, <2>4, SameRecords DEF IInv, Records
<1>8. ASSUME NEW p \in Processes, ExecuteSettle(p) PROVE Records'
  <2>1. /\ lock = p /\ cur[p] \in Keys /\ request[p] \in Requests
        /\ cur[p] = request[p].key /\ row[cur[p]].digest = request[p].digest
    BY <1>8 DEF ExecuteSettle, IInv, ProcessInv, HoldLabels, ExecLabels
  <2>2. PICK v \in Verdicts(cur[p]) : Finish(p, v) /\ AfterTerminal(p, row'[cur[p]])
    BY <1>8 DEF ExecuteSettle
  <2>3. UNCHANGED <<effect, commands, callbacks>>
    BY <1>8 DEF ExecuteSettle, world
  <2>4. /\ (\A k \in Keys : KeyInv(k))'
        /\ \A k \in Keys : row[k].phase # "PREPARED" => row'[k] = row[k]
        /\ \A r \in told : row'[r.key] = row[r.key]
        /\ row'[cur[p]].digest = row[cur[p]].digest
    BY <2>1, <2>2, <2>3, FinishFacts
  <2>5. (\A q \in Processes : ProcessInv(q))' /\ (\A r \in told : ToldInv(r))'
    BY <1>0, <2>1, <2>2, <2>3, <2>4, AfterTerminalStep
  <2> QED
    BY <2>4, <2>5 DEF Records
<1>9. ASSUME NEW p \in Processes, RunCallback(p) PROVE Records'
  <2>1. /\ pc[p] = "callback"
        /\ UNCHANGED <<row, effect, commands, told>>
    BY <1>9 DEF RunCallback, world
  <2>2. CASE Return(p) /\ UNCHANGED callbacks
    BY <2>1, <2>2, QuietReturn DEF Records
  <2>3. CASE callbacks' = callbacks \cup {cur[p]} /\ Goto(p, "mark") /\ UNCHANGED lock
    <3>1. /\ pc'[p] = "mark" /\ request' = request /\ cur' = cur
          /\ \A q \in Processes \ {p} : pc'[q] = pc[q]
      BY <1>0, <2>3, GotoFacts DEF Labels
    <3>2. row[cur[p]].phase = "COMMITTED" /\ row[cur[p]].callback \in {"PENDING", "COMPLETED"}
      BY <2>1 DEF IInv, ProcessInv, DoneLabels
    <3>3. ProcessInv(p)'
      BY <2>1, <2>3, <3>1 DEF IInv, ProcessInv, HoldLabels, ExecLabels, DoneLabels
    <3>4. ASSUME NEW q \in Processes, q # p PROVE ProcessInv(q)'
      BY <2>1, <2>3, <3>1, <3>4, OtherProcess DEF IInv
    <3>5. ASSUME NEW k \in Keys PROVE KeyInv(k)'
      BY <2>1, <2>3, <3>2 DEF IInv, KeyInv
    <3>6. (\A r \in told : ToldInv(r))'
      BY <2>1 DEF IInv, ToldInv
    <3> QED
      BY <3>3, <3>4, <3>5, <3>6 DEF Records
  <2> QED
    BY <1>9, <2>2, <2>3 DEF RunCallback
<1>10. ASSUME NEW p \in Processes, MarkCallback(p) PROVE Records'
  <2>1. /\ pc[p] = "mark" /\ lock = NoProcess /\ Return(p)
        /\ told' = told \cup {request[p]}
        /\ UNCHANGED <<effect, commands, callbacks>>
    BY <1>10 DEF MarkCallback, world
  <2>2. /\ request[p] \in Requests /\ cur[p] = request[p].key /\ cur[p] \in Keys
        /\ row[cur[p]].phase = "COMMITTED" /\ row[cur[p]].digest = request[p].digest
        /\ cur[p] \in callbacks
    BY <2>1 DEF IInv, ProcessInv, DoneLabels
  <2>3. /\ row'[cur[p]].phase = "COMMITTED" /\ row'[cur[p]].callback = "COMPLETED"
        /\ row'[cur[p]].digest = request[p].digest
        /\ \A k \in Keys \ {cur[p]} : row'[k] = row[k]
    BY <1>0, <1>10, <2>2 DEF MarkCallback, TypeOK, Rows
  <2>4. /\ pc'[p] = "idle"
        /\ \A q \in Processes \ {p} :
             pc'[q] = pc[q] /\ cur'[q] = cur[q] /\ request'[q] = request[q]
        /\ lock' = NoProcess
    BY <1>0, <2>1, ReturnFacts
  <2>5. ProcessInv(p)'
    BY <2>4 DEF ProcessInv, HoldLabels, ExecLabels, DoneLabels
  <2>6. ASSUME NEW q \in Processes, q # p PROVE ProcessInv(q)'
    BY <2>1, <2>2, <2>3, <2>4, <2>6, OtherProcess DEF IInv
  <2>7. ASSUME NEW k \in Keys PROVE KeyInv(k)'
    BY <2>1, <2>2, <2>3 DEF IInv, KeyInv
  <2>8. ASSUME NEW r \in told' PROVE ToldInv(r)'
    <3>1. CASE r.key = cur[p] /\ r \in told
      BY <2>2, <2>3, <3>1 DEF IInv, ToldInv
    <3>2. CASE r.key # cur[p] /\ r \in told
      BY <1>0, <2>3, <3>2 DEF IInv, ToldInv, TypeOK
    <3>3. CASE r = request[p]
      BY <2>2, <2>3, <3>3 DEF ToldInv
    <3> QED
      BY <2>1, <2>8, <3>1, <3>2, <3>3
  <2> QED
    BY <2>5, <2>6, <2>7, <2>8 DEF Records
<1>11. ASSUME NEW p \in Processes, Reconcile(p) \/ ReconcileSettled(p) PROVE Records'
  <2>1. /\ pc[p] \in {"idle", "reconcile"} /\ pc'[p] = "reconcile"
        /\ \A q \in Processes \ {p} : pc'[q] = pc[q]
        /\ UNCHANGED <<request, cur, row, lock, effect, commands, callbacks, told>>
    BY <1>0, <1>11 DEF Reconcile, ReconcileSettled, TypeOK, store, world, history
  <2>2. ProcessInv(p)'
    BY <2>1 DEF IInv, ProcessInv, HoldLabels, ExecLabels, DoneLabels
  <2>3. ASSUME NEW q \in Processes, q # p PROVE ProcessInv(q)'
    BY <2>1, <2>3, OtherProcess DEF IInv
  <2> QED
    BY <2>1, <2>2, <2>3, SameRecords DEF IInv, Records
<1>12. ASSUME NEW p \in Processes, ReconcileBegin(p) PROVE Records'
  <2>1. PICK k \in todo[p] : row[k].phase = "PREPARED" /\ cur' = [cur EXCEPT ![p] = k]
    BY <1>12 DEF ReconcileBegin, Acquire
  <2>2. /\ k \in Keys /\ cur'[p] = k /\ pc'[p] = "recheck"
        /\ lock = NoProcess /\ lock' = p
        /\ \A q \in Processes \ {p} : pc'[q] = pc[q] /\ cur'[q] = cur[q]
        /\ UNCHANGED <<request, row, effect, commands, callbacks, told>>
    BY <1>0, <1>12, <2>1 DEF ReconcileBegin, Acquire, TypeOK, world, history
  <2>3. ProcessInv(p)'
    BY <2>1, <2>2 DEF ProcessInv, HoldLabels, ExecLabels, DoneLabels
  <2>4. ASSUME NEW q \in Processes, q # p PROVE ProcessInv(q)'
    BY <2>2, <2>4, OtherProcess DEF IInv
  <2> QED
    BY <2>2, <2>3, <2>4, SameRecords DEF IInv, Records
<1>13. ASSUME NEW p \in Processes, ReconcileSettle(p) PROVE Records'
  <2>1. lock = p /\ cur[p] \in Keys
    BY <1>13 DEF ReconcileSettle, IInv, ProcessInv, HoldLabels
  <2>2. PICK v \in Verdicts(cur[p]) : Finish(p, v)
    BY <1>13 DEF ReconcileSettle
  <2>3. /\ pc'[p] = "reconcile" /\ lock' = NoProcess
        /\ \A q \in Processes \ {p} : pc'[q] = pc[q] /\ cur'[q] = cur[q]
        /\ UNCHANGED <<request, effect, commands, callbacks, told>>
    BY <1>0, <1>13, <2>1 DEF ReconcileSettle, Unlock, TypeOK, world, history
  <2>4. /\ (\A k \in Keys : KeyInv(k))'
        /\ \A k \in Keys : row[k].phase # "PREPARED" => row'[k] = row[k]
        /\ \A r \in told : row'[r.key] = row[r.key]
    BY <2>1, <2>2, <2>3, FinishFacts
  <2>5. ProcessInv(p)'
    BY <2>3 DEF ProcessInv, HoldLabels, ExecLabels, DoneLabels
  <2>6. ASSUME NEW q \in Processes, q # p PROVE ProcessInv(q)'
    BY <2>1, <2>3, <2>4, <2>6, OtherProcess DEF IInv
  <2>7. (\A r \in told : ToldInv(r))'
    BY <2>3, <2>4 DEF IInv, ToldInv
  <2> QED
    BY <2>4, <2>5, <2>6, <2>7 DEF Records
<1>14. ASSUME NEW r \in Requests, PrepareOnly(r) PROVE Records'
  <2>1. /\ lock = NoProcess /\ row[r.key].phase = "ABSENT"
        /\ UNCHANGED <<lock, pc, request, cur, effect, commands, callbacks, told>>
    BY <1>14 DEF PrepareOnly, world, local, history
  <2>2. /\ row'[r.key].phase = "PREPARED" /\ row'[r.key].callback = "none"
        /\ \A k \in Keys \ {r.key} : row'[k] = row[k]
    BY <1>0, <1>14 DEF PrepareOnly, TypeOK
  <2>3. ASSUME NEW q \in Processes PROVE ProcessInv(q)'
    BY <2>1, <2>2, OtherProcess DEF IInv
  <2>4. ASSUME NEW k \in Keys PROVE KeyInv(k)'
    BY <2>1, <2>2 DEF IInv, KeyInv
  <2>5. ASSUME NEW t \in told PROVE ToldInv(t)'
    BY <1>0, <2>1, <2>2 DEF IInv, ToldInv, TypeOK
  <2> QED
    BY <2>1, <2>3, <2>4, <2>5 DEF Records
<1>15. ASSUME NEW k \in Keys, GitStep(k) PROVE Records'
  <2>1. /\ UNCHANGED <<row, lock, pc, request, cur, commands, callbacks, told>>
        /\ \A j \in Keys : effect[j] = "done" => effect'[j] = "done"
    BY <1>0, <1>15 DEF GitStep, GitProgress, GitExit, TypeOK, store, local, history
  <2>2. (\A q \in Processes : ProcessInv(q))'
    BY <2>1 DEF IInv, ProcessInv
  <2> QED
    BY <2>1, <2>2, SameRecords DEF IInv, Records
<1> QED
  BY <1>1, <1>2, <1>3, <1>4, <1>5, <1>6, <1>7, <1>8, <1>9, <1>10, <1>11, <1>12,
     <1>13, <1>14, <1>15 DEF Next, Step, Call

-----------------------------------------------------------------------------
LEMMA InitIInv == Init => IInv
<1> SUFFICES ASSUME Init PROVE IInv
  OBVIOUS
<1>1. TypeOK
  BY DEF Init, TypeOK, Rows, Absent, Labels
<1>2. \A p \in Processes : ProcessInv(p)
  BY NoProcessFacts DEF Init, ProcessInv, HoldLabels, ExecLabels, DoneLabels
<1>3. (\A k \in Keys : KeyInv(k)) /\ told = {}
  BY DEF Init, Absent, KeyInv
<1> QED
  BY <1>1, <1>2, <1>3 DEF IInv

LEMMA StepIInv == IInv /\ [Next]_vars => IInv'
  BY TypeStep, RecordsStep DEF IInv, Records

LEMMA Invariance == Spec => []IInv
<1>1. Init => IInv
  BY InitIInv
<1>2. IInv /\ [Next]_vars => IInv'
  BY StepIInv
<1> QED
  BY <1>1, <1>2, PTL DEF Spec

(* Every variable keeps its type.                                          *)
THEOREM TypeCorrect == Spec => []TypeOK
<1>1. IInv => TypeOK
  BY DEF IInv
<1> QED
  BY <1>1, Invariance, PTL

(* The Git command of a key is run at most once.                           *)
THEOREM CommandsCorrect == Spec => []CommandAtMostOnce
<1>1. IInv => CommandAtMostOnce
  BY DEF IInv, KeyInv, CommandAtMostOnce
<1> QED
  BY <1>1, Invariance, PTL

(* A process between PREPARED and the terminal row has the journal to      *)
(* itself: its own operation is the only unsettled one.                    *)
THEOREM SoleCorrect == Spec => []SoleOperation
<1>1. IInv => SoleOperation
  BY DEF IInv, ProcessInv, SoleOperation, PreparedKeys, ExecLabels, HoldLabels
<1> QED
  BY <1>1, Invariance, PTL

(* A COMMITTED row is right about Git, even if git children outlive their  *)
(* parents.                                                                *)
THEOREM CommittedCorrect == Spec => []CommittedIsDone
<1>1. IInv => CommittedIsDone
  BY DEF IInv, KeyInv, CommittedIsDone
<1> QED
  BY <1>1, Invariance, PTL

(* Callbacks follow the commit, and completion follows the callback.       *)
THEOREM CallbacksCorrect == Spec => []CallbackAfterCommit
<1>1. IInv => CallbackAfterCommit
  BY DEF IInv, KeyInv, CallbackAfterCommit
<1> QED
  BY <1>1, Invariance, PTL

(* A caller told COMMITTED was told the truth about its own request.       *)
THEOREM AnswersCorrect == Spec => []ToldTruth
<1>1. IInv => ToldTruth
  BY NoProcessFacts DEF IInv, TypeOK, KeyInv, ToldInv, ToldTruth
<1> QED
  BY <1>1, Invariance, PTL

-----------------------------------------------------------------------------
(* Until a process dies, a git child has a process that waits for it and   *)
(* holds the lock; so whoever settles an operation does so when no child   *)
(* is left that could still complete it.                                   *)
Attended == \A k \in git : \E p \in Processes : pc[p] = "running" /\ cur[p] = k
FailedIsNotDone == \A k \in Keys : row[k].phase = "FAILED" => effect[k] # "done"
SerialInv == crashes = 0 => Attended /\ FailedIsNotDone

(* The holder of the lock that is not running has no child beside it.      *)
LEMMA HolderIsAlone ==
  ASSUME IInv, Attended, NEW p \in Processes, pc[p] \in HoldLabels
  PROVE  /\ \A q \in Processes : pc[q] = "running" => q = p
         /\ \A k \in git : pc[p] = "running" /\ cur[p] = k
  BY DEF IInv, ProcessInv, Attended, HoldLabels

(* A step in which the processes keep their children, and no row fails.    *)
LEMMA QuietForSerial ==
  ASSUME TypeOK, Attended, FailedIsNotDone, NEW p \in Processes,
         pc[p] # "running",
         \A q \in Processes \ {p} : pc'[q] = pc[q] /\ cur'[q] = cur[q],
         UNCHANGED <<git, effect>>,
         \A k \in Keys : row'[k].phase = "FAILED" => row[k].phase = "FAILED"
  PROVE  Attended' /\ FailedIsNotDone'
  BY DEF Attended, FailedIsNotDone

LEMMA SerialStep == IInv /\ SerialInv /\ [Next]_vars => SerialInv'
<1> SUFFICES ASSUME IInv, SerialInv, [Next]_vars, crashes' = 0
             PROVE  Attended' /\ FailedIsNotDone'
  BY DEF SerialInv
<1> USE NoProcessFacts
<1>0. TypeOK
  BY DEF IInv
<1>1. CASE UNCHANGED vars
  BY <1>1 DEF vars, store, world, local, history, SerialInv, Attended, FailedIsNotDone
<1>2. ASSUME NEW p \in Processes, Crash(p) PROVE FALSE
  BY <1>0, <1>2 DEF Crash, TypeOK
<1>3. ASSUME crashes' = crashes PROVE Attended /\ FailedIsNotDone
  BY <1>3 DEF SerialInv
<1>4. ASSUME NEW p \in Processes,
             \/ LockTimeout(p) \/ ExecuteRefused(p) \/ VerifierRaises(p)
             \/ ReconcileReturn(p) \/ ExecuteKnown(p) \/ RunCallback(p) \/ MarkCallback(p)
      PROVE  Attended' /\ FailedIsNotDone'
  <2>1. /\ pc[p] # "running"
        /\ UNCHANGED <<git, effect, crashes>>
        /\ UNCHANGED row \/ MarkCallback(p)
        /\ (\E l \in {"callback", "mark"} : Goto(p, l)) \/ Return(p)
    BY <1>4 DEF LockTimeout, ExecuteRefused, VerifierRaises, ReconcileReturn, ExecuteKnown,
                AfterTerminal, RunCallback, MarkCallback, world, history
  <2>2. \A q \in Processes \ {p} : pc'[q] = pc[q] /\ cur'[q] = cur[q]
    BY <1>0, <2>1, ReturnFacts, GotoFacts DEF Labels
  <2>3. \A k \in Keys : row'[k].phase = "FAILED" => row[k].phase = "FAILED"
    BY <1>0, <2>1 DEF MarkCallback, TypeOK, Rows
  <2> QED
    BY <1>0, <1>3, <2>1, <2>2, <2>3, QuietForSerial
<1>5. ASSUME NEW p \in Processes,
             \/ \E r \in Requests : ExecuteGit(p, r)
             \/ ExecutePrepare(p) \/ Reconcile(p) \/ ReconcileSettled(p) \/ ReconcileBegin(p)
      PROVE  Attended' /\ FailedIsNotDone'
  <2>1. /\ pc[p] # "running"
        /\ UNCHANGED <<git, effect, crashes>>
        /\ \A q \in Processes \ {p} : pc'[q] = pc[q] /\ cur'[q] = cur[q]
        /\ UNCHANGED row \/ ExecutePrepare(p)
    BY <1>0, <1>5 DEF ExecuteGit, ExecutePrepare, Reconcile, ReconcileSettled, ReconcileBegin,
                Goto, store, world, history, TypeOK
  <2>2. \A k \in Keys : row'[k].phase = "FAILED" => row[k].phase = "FAILED"
    <3>1. CASE UNCHANGED row
      BY <3>1
    <3>2. CASE ExecutePrepare(p)
      <4>1. row' = [row EXCEPT ![cur[p]] = row'[cur[p]]] /\ row'[cur[p]].phase = "PREPARED"
        BY <1>0, <1>5, <3>2 DEF ExecutePrepare, MayPrepare, TypeOK, IInv, ProcessInv
      <4> QED
        BY <1>0, <4>1 DEF TypeOK, Rows
    <3> QED
      BY <2>1, <3>1, <3>2
  <2> QED
    BY <1>0, <1>3, <2>1, <2>2, QuietForSerial
<1>6. ASSUME NEW p \in Processes, StartCommand(p) PROVE Attended' /\ FailedIsNotDone'
  <2>1. /\ pc[p] = "prepared" /\ git' = git \cup {cur[p]} /\ Goto(p, "running")
        /\ UNCHANGED <<row, effect, crashes>>
    BY <1>6 DEF StartCommand, store
  <2>2. pc'[p] = "running" /\ cur' = cur
    BY <1>0, <2>1, GotoFacts DEF Labels
  <2>3. git = {}
    BY <1>3, <2>1, HolderIsAlone DEF HoldLabels
  <2> QED
    BY <1>3, <2>1, <2>2, <2>3 DEF Attended, FailedIsNotDone
<1>7. ASSUME NEW p \in Processes, CommandReturned(p) PROVE Attended' /\ FailedIsNotDone'
  <2>1. pc[p] = "running" /\ cur[p] \notin git /\ UNCHANGED <<row, effect, git, crashes>>
    BY <1>7 DEF CommandReturned, store, world, history
  <2>2. git = {}
    BY <1>3, <2>1, HolderIsAlone DEF HoldLabels
  <2> QED
    BY <1>3, <2>1, <2>2 DEF Attended, FailedIsNotDone
<1>8. ASSUME NEW p \in Processes, ExecuteSettle(p) \/ ReconcileSettle(p)
      PROVE  Attended' /\ FailedIsNotDone'
  <2>1. /\ pc[p] \in {"verify", "recheck"} /\ UNCHANGED <<effect, git, crashes>>
        /\ \E verdict \in Verdicts(cur[p]) : Finish(p, verdict)
    BY <1>8 DEF ExecuteSettle, ReconcileSettle, world, history
  <2>2. git = {}
    BY <1>3, <2>1, HolderIsAlone DEF HoldLabels
  <2>3. PICK verdict \in Verdicts(cur[p]) : Finish(p, verdict)
    BY <2>1
  <2>4. cur[p] \in Keys
    BY <2>1 DEF IInv, ProcessInv, HoldLabels
  <2>5. row'[cur[p]].phase = "FAILED" => effect[cur[p]] # "done"
    BY <1>0, <2>3, <2>4 DEF Finish, Settled, TerminalPhase, Verdicts, TypeOK
  <2>6. \A k \in Keys \ {cur[p]} : row'[k] = row[k]
    BY <1>0, <2>3 DEF Finish, TypeOK
  <2> QED
    BY <1>3, <2>1, <2>2, <2>5, <2>6 DEF Attended, FailedIsNotDone
<1>9. ASSUME NEW k \in Keys, GitStep(k) PROVE Attended' /\ FailedIsNotDone'
  <2>1. /\ k \in git /\ git' \subseteq git /\ UNCHANGED <<row, pc, cur, crashes>>
        /\ \A j \in Keys \ {k} : effect'[j] = effect[j]
    BY <1>0, <1>9 DEF GitStep, GitProgress, GitExit, store, local, history, TypeOK
  <2>2. row[k].phase = "PREPARED"
    BY <1>3, <2>1 DEF Attended, IInv, ProcessInv, HoldLabels
  <2> QED
    BY <1>3, <2>1, <2>2 DEF Attended, FailedIsNotDone
<1>10. ASSUME NEW r \in Requests, PrepareOnly(r) PROVE Attended' /\ FailedIsNotDone'
  <2>1. UNCHANGED <<effect, git, pc, cur, crashes>>
    BY <1>10 DEF PrepareOnly, world, local, history
  <2>2. \A k \in Keys : row'[k].phase = "FAILED" => row[k].phase = "FAILED"
    BY <1>0, <1>10 DEF PrepareOnly, TypeOK, Rows
  <2> QED
    BY <1>3, <2>1, <2>2 DEF Attended, FailedIsNotDone
<1> QED
  BY <1>1, <1>2, <1>4, <1>5, <1>6, <1>7, <1>8, <1>9, <1>10 DEF Next, Step, Call

(* As long as no process has died, at most one controlled command is       *)
(* running, and FAILED means not done, now and later.                      *)
THEOREM SerialCorrect == Spec => []SerialUntilCrash
<1>1. Init => SerialInv
  BY DEF Init, SerialInv, Attended, FailedIsNotDone, Absent
<1>2. IInv /\ SerialInv => SerialUntilCrash
  <2> SUFFICES ASSUME IInv, SerialInv, crashes = 0
               PROVE  Cardinality(git) <= 1 /\ FailedIsNotDone
    BY DEF SerialUntilCrash, FailedIsNotDone
  <2>1. Attended /\ FailedIsNotDone
    BY DEF SerialInv
  <2>2. CASE git = {}
    BY <2>1, <2>2, FS_EmptySet
  <2>3. ASSUME NEW k \in git PROVE Cardinality(git) = 1
    <3>1. PICK p \in Processes : pc[p] = "running" /\ cur[p] = k
      BY <2>1, <2>3 DEF Attended
    <3>2. git = {k}
      BY <2>1, <2>3, <3>1, HolderIsAlone DEF HoldLabels
    <3> QED
      BY <3>2, FS_Singleton
  <2> QED
    BY <2>1, <2>2, <2>3
<1> QED
  BY <1>1, <1>2, Invariance, SerialStep, PTL DEF Spec

-----------------------------------------------------------------------------
(* What one step can do to the journal: nothing, or one thing to one key.  *)
OnlyRow(k) ==
  /\ row' = [row EXCEPT ![k] = row'[k]]
  /\ row'[k] \in Rows
  /\ UNCHANGED <<commands, callbacks>>

Recorded(k) ==
  OnlyRow(k) /\ row[k].phase = "ABSENT" /\ row'[k].phase = "PREPARED"
  /\ row'[k].callback \in {"none", "PENDING"}
Ran(k) ==
  /\ row[k].phase = "PREPARED" /\ commands[k] = 0
  /\ commands' = [commands EXCEPT ![k] = @ + 1]
  /\ UNCHANGED <<row, callbacks>>
WasSettled(k) ==
  /\ OnlyRow(k) /\ row[k].phase = "PREPARED" /\ row'[k].phase \in Terminal
  /\ row'[k].digest = row[k].digest
  /\ row'[k].callback \in {"none", row[k].callback}
  /\ row'[k].phase = "COMMITTED" => row'[k].callback = row[k].callback
HandedOver(k) ==
  /\ row[k].phase = "COMMITTED"
  /\ callbacks' = callbacks \cup {k}
  /\ UNCHANGED <<row, commands>>
Marked(k) ==
  /\ OnlyRow(k) /\ row[k].phase = "COMMITTED" /\ k \in callbacks
  /\ row[k].callback \in {"PENDING", "COMPLETED"}
  /\ row'[k].phase = "COMMITTED" /\ row'[k].digest = row[k].digest
  /\ row'[k].callback = "COMPLETED"

LEMMA StepKinds ==
  IInv /\ [Next]_vars =>
    \/ UNCHANGED <<row, commands, callbacks>>
    \/ \E k \in Keys : Recorded(k) \/ Ran(k) \/ WasSettled(k) \/ HandedOver(k) \/ Marked(k)
<1> SUFFICES ASSUME IInv, [Next]_vars
             PROVE  \/ UNCHANGED <<row, commands, callbacks>>
                    \/ \E k \in Keys : \/ Recorded(k) \/ Ran(k) \/ WasSettled(k)
                                       \/ HandedOver(k) \/ Marked(k)
  OBVIOUS
<1> USE NoProcessFacts
<1>0. TypeOK /\ TypeOK'
  BY TypeStep DEF IInv
<1>1. ASSUME \/ UNCHANGED vars
             \/ \E p \in Processes :
                  \/ \E r \in Requests : ExecuteGit(p, r)
                  \/ Reconcile(p) \/ LockTimeout(p) \/ ExecuteKnown(p) \/ ExecuteRefused(p)
                  \/ CommandReturned(p) \/ VerifierRaises(p) \/ ReconcileSettled(p)
                  \/ ReconcileBegin(p) \/ ReconcileReturn(p) \/ Crash(p)
             \/ \E k \in Keys : GitStep(k)
      PROVE  UNCHANGED <<row, commands, callbacks>>
  BY <1>1 DEF vars, store, world, local, history, ExecuteGit, Reconcile, LockTimeout,
     ExecuteKnown, ExecuteRefused, CommandReturned, VerifierRaises, ReconcileSettled,
     ReconcileBegin, ReconcileReturn, Crash, GitStep, GitProgress, GitExit
<1>2. ASSUME NEW p \in Processes, ExecutePrepare(p) PROVE cur[p] \in Keys /\ Recorded(cur[p])
  <2>1. request[p] \in Requests /\ cur[p] \in Keys
    BY <1>2 DEF ExecutePrepare, Acquire, MayPrepare, IInv, ProcessInv
  <2> QED
    BY <1>0, <1>2, <2>1 DEF ExecutePrepare, Acquire, MayPrepare, Recorded, OnlyRow, TypeOK, world, history
<1>3. ASSUME NEW r \in Requests, PrepareOnly(r) PROVE Recorded(r.key)
  BY <1>0, <1>3 DEF PrepareOnly, Recorded, OnlyRow, TypeOK, history
<1>4. ASSUME NEW p \in Processes, StartCommand(p) PROVE cur[p] \in Keys /\ Ran(cur[p])
  BY <1>4 DEF StartCommand, Ran, IInv, ProcessInv, HoldLabels, store
<1>5. ASSUME NEW p \in Processes, ExecuteSettle(p) \/ ReconcileSettle(p)
      PROVE  cur[p] \in Keys /\ WasSettled(cur[p])
  <2>1. cur[p] \in Keys
    BY <1>5 DEF ExecuteSettle, ReconcileSettle, IInv, ProcessInv, HoldLabels
  <2>2. PICK v \in Verdicts(cur[p]) : Finish(p, v)
    BY <1>5 DEF ExecuteSettle, ReconcileSettle
  <2>3. UNCHANGED <<commands, callbacks>>
    BY <1>5 DEF ExecuteSettle, ReconcileSettle, history
  <2>4. row' = [row EXCEPT ![cur[p]] = Settled(cur[p], v)] /\ row[cur[p]].phase = "PREPARED"
    BY <2>2 DEF Finish
  <2>5. row'[cur[p]] = Settled(cur[p], v)
    BY <1>0, <2>1, <2>4 DEF TypeOK
  <2>6. /\ Settled(cur[p], v) \in Rows
        /\ Settled(cur[p], v).phase \in Terminal
        /\ Settled(cur[p], v).digest = row[cur[p]].digest
        /\ Settled(cur[p], v).phase = "COMMITTED" =>
             Settled(cur[p], v).callback = row[cur[p]].callback
        /\ Settled(cur[p], v).callback \in {"none", row[cur[p]].callback}
    BY <1>0, <2>1, SettledFacts DEF TypeOK
  <2> QED
    BY <2>1, <2>3, <2>4, <2>5, <2>6 DEF WasSettled, OnlyRow
<1>6. ASSUME NEW p \in Processes, RunCallback(p)
      PROVE  \/ UNCHANGED <<row, commands, callbacks>>
             \/ cur[p] \in Keys /\ HandedOver(cur[p])
  BY <1>6 DEF RunCallback, HandedOver, IInv, ProcessInv, DoneLabels, world
<1>7. ASSUME NEW p \in Processes, MarkCallback(p) PROVE cur[p] \in Keys /\ Marked(cur[p])
  <2>1. cur[p] \in Keys /\ cur[p] \in callbacks
    BY <1>7 DEF MarkCallback, IInv, ProcessInv, DoneLabels
  <2>2. /\ row' = [row EXCEPT ![cur[p]].callback = "COMPLETED"]
        /\ row[cur[p]].phase = "COMMITTED"
        /\ row[cur[p]].callback \in {"PENDING", "COMPLETED"}
        /\ UNCHANGED <<commands, callbacks>>
    BY <1>7 DEF MarkCallback
  <2> QED
    BY <1>0, <2>1, <2>2 DEF Marked, OnlyRow, TypeOK, Rows
<1> QED
  BY <1>1, <1>2, <1>3, <1>4, <1>5, <1>6, <1>7 DEF Next, Step, Call

(* A settled row is settled for good; the identity of a key never changes. *)
THEOREM SettledRowsStay == Spec => SettledForGood
<1> DEFINE Stays(k) ==
       /\ row[k].phase \in Terminal =>
            /\ row'[k].phase = row[k].phase
            /\ row'[k].callback # row[k].callback =>
                 row[k].callback = "PENDING" /\ row'[k].callback = "COMPLETED"
       /\ row[k].phase # "ABSENT" => row'[k].digest = row[k].digest
       /\ (row[k].callback = "PENDING" /\ row'[k].phase \in {"PREPARED", "COMMITTED"})
            => row'[k].callback \in {"PENDING", "COMPLETED"}
<1>1. IInv /\ [Next]_vars => [\A k \in Keys : Stays(k)]_vars
  <2> SUFFICES ASSUME IInv, [Next]_vars, NEW k \in Keys PROVE Stays(k)
    OBVIOUS
  <2>1. row \in [Keys -> Rows]
    BY DEF IInv, TypeOK
  <2>2. CASE row' = row
    BY <2>2 DEF Terminal
  <2>3. ASSUME NEW j \in Keys, Recorded(j) \/ WasSettled(j) \/ Marked(j) PROVE Stays(k)
    <3>1. row' = [row EXCEPT ![j] = row'[j]]
      BY <2>3 DEF Recorded, WasSettled, Marked, OnlyRow
    <3>2. CASE k # j
      BY <2>1, <3>1, <3>2 DEF Terminal
    <3>3. CASE k = j
      <4>1. row[k].phase = "ABSENT" => row[k].callback = "none"
        BY DEF IInv, KeyInv
      <4> QED
        BY <2>3, <3>3, <4>1 DEF Recorded, WasSettled, Marked, Terminal
    <3> QED
      BY <3>2, <3>3
  <2> QED
    BY <2>2, <2>3, StepKinds DEF Ran, HandedOver
<1> QED
  BY <1>1, Invariance, PTL DEF Spec, SettledForGood

(* The journal implements the abstract operation log.                      *)
THEOREM ImplementsLog == Spec => KeepsLogPromises
<1>1. Init => Log!Init
  BY DEF Init, Log!Init, Absent
<1>2. IInv /\ [Next]_vars => [Log!Next]_Log!vars
  <2> SUFFICES ASSUME IInv, [Next]_vars PROVE Log!Next \/ UNCHANGED Log!vars
    OBVIOUS
  <2>0. /\ row \in [Keys -> Rows] /\ commands \in [Keys -> Nat]
        /\ \A k \in Keys : row[k].callback = "COMPLETED" => row[k].phase = "COMMITTED"
    BY DEF IInv, TypeOK, KeyInv
  <2>1. CASE UNCHANGED <<row, commands, callbacks>>
    BY <2>1 DEF Log!vars
  <2>2. ASSUME NEW k \in Keys, Recorded(k) PROVE Log!Record(k)
    BY <2>0, <2>2 DEF Recorded, OnlyRow, Log!Record
  <2>3. ASSUME NEW k \in Keys, Ran(k) PROVE Log!Run(k)
    BY <2>0, <2>3 DEF Ran, Log!Run
  <2>4. ASSUME NEW k \in Keys, WasSettled(k)
        PROVE  \E terminal \in Log!Terminal : Log!SettleAs(k, terminal)
    <3>1. PICK terminal \in Log!Terminal : row'[k].phase = terminal
      BY <2>4 DEF WasSettled, Terminal, Log!Terminal
    <3>2. Log!SettleAs(k, terminal)
      BY <2>0, <2>4, <3>1 DEF WasSettled, OnlyRow, Log!SettleAs
    <3> QED
      BY <3>2
  <2>5. ASSUME NEW k \in Keys, HandedOver(k) PROVE Log!HandOver(k)
    BY <2>5 DEF HandedOver, Log!HandOver
  <2>6. ASSUME NEW k \in Keys, Marked(k) PROVE Log!MarkDelivered(k)
    BY <2>0, <2>6 DEF Marked, OnlyRow, Log!MarkDelivered
  <2>7. ASSUME NEW k \in Keys,
               Recorded(k) \/ Ran(k) \/ WasSettled(k) \/ HandedOver(k) \/ Marked(k)
        PROVE  Log!Next
    <3>1. CASE Recorded(k)
      BY <2>2, <3>1 DEF Log!Next
    <3>2. CASE Ran(k)
      BY <2>3, <3>2 DEF Log!Next
    <3>3. CASE WasSettled(k)
      BY <2>4, <3>3 DEF Log!Next
    <3>4. CASE HandedOver(k)
      BY <2>5, <3>4 DEF Log!Next
    <3>5. CASE Marked(k)
      BY <2>6, <3>5 DEF Log!Next
    <3> QED
      BY <2>7, <3>1, <3>2, <3>3, <3>4, <3>5
  <2> QED
    BY <2>1, <2>7, StepKinds
<1> QED
  BY <1>1, <1>2, Invariance, PTL DEF Spec, KeepsLogPromises, Log!Spec

=============================================================================
