--------------------------- MODULE WriteTaskProofs --------------------------
(***************************************************************************)
(* Proofs about WriteTask, for any processes and identities (finite or     *)
(* not), any first residue and any bounds, with other commands that move   *)
(* the task wherever the table lets them.                                  *)
(*                                                                         *)
(* The core is SoleInv: at most one operation is PREPARED or COMMITTED.    *)
(* It needs to know that an operation that succeeded has left a healthy    *)
(* worktree until its path is recorded (so no command is prepared that     *)
(* starts from anything else), and what each process has established of    *)
(* the row and of its own operation when it gets to a place.               *)
(***************************************************************************)
EXTENDS WriteTask, FiniteSetTheorems, TLAPS

Live == {"PREPARED", "COMMITTED"}

RowInv ==
  /\ row.state = NoState => row.ident = NoIdent
  /\ row.path \in {NoIdent, row.ident}
  /\ row.path # NoIdent =>
       \E c \in Chains : \E n \in DOMAIN chain[c] : chain[c][n].phase = "COMMITTED"
  /\ row.state = "DISPATCHED" => byHand \/ row.path # NoIdent

AnswersInv == byHand \/ \A i \in answers : row.path = i

OpsInv ==
  \A c \in Chains : \A n \in DOMAIN chain[c] :
    /\ chain[c][n].ident = row.ident
    /\ chain[c][n].phase = "PREPARED" => chain[c][n].callback = "PENDING"
    /\ chain[c][n].phase = "COMMITTED" =>
         /\ chain[c][n].callback # "none"
         /\ stage[row.ident] = "healthy" \/ row.path # NoIdent
    /\ chain[c][n].callback = "COMPLETED" => row.path # NoIdent

SoleInv ==
  \A c, d \in Chains : \A n \in DOMAIN chain[c], m \in DOMAIN chain[d] :
    chain[c][n].phase \in Live /\ chain[d][m].phase \in Live => c = d /\ n = m

(* Whoever runs a command has the lock, and the task has not moved.        *)
HolderInv(p) ==
  /\ proc[p].pc \in {"running", "verify"} <=> lock = p
  /\ lock = p =>
       /\ row = [state |-> "PLANNED", base |-> proc[p].base,
                 ident |-> proc[p].ident, path |-> NoIdent]
       /\ proc[p].key \in DOMAIN chain[MyChain(p)]
       /\ chain[MyChain(p)][proc[p].key].phase = "PREPARED"

(* What a process knows at a place, although it does not have the lock.    *)
Place(r) ==
  /\ r.pc # "idle" => r.ident \in Idents
  /\ r.pc = "reserve" => row.state # NoState
  /\ r.pc = "execute" => row.ident = r.ident
  /\ r.pc \in {"assert", "reserve", "execute"} =>
       r.key \in Nat \ {0} /\ r.key <= Len(chain[ChainOf(r.kind, r.ident)]) + 1
  /\ r.pc = "reconcile" => r.key \in DOMAIN chain["create"]
  /\ r.pc \in {"settle", "attach", "mark"} => r.key \in DOMAIN chain[ChainOf(r.kind, r.ident)]
  /\ r.pc \in {"attach", "mark"} =>
       chain[ChainOf(r.kind, r.ident)][r.key].phase = "COMMITTED" /\ row.ident = r.ident
  /\ r.pc \in {"mark", "confirm"} => row.path # NoIdent
  /\ r.pc = "dispatch" => row.path = r.ident
  /\ r.pc = "dispatched" => byHand \/ row.path = r.ident

PlaceInv(p) == Place(proc[p])

Inv == TypeOK /\ RowInv /\ OpsInv /\ SoleInv /\ \A p \in Processes : HolderInv(p) /\ PlaceInv(p)
IInv == Inv /\ AnswersInv

-----------------------------------------------------------------------------
(* The chains of operations.                                               *)
LEMMA ChainTypes ==
  ASSUME TypeOK
  PROVE  /\ \A c \in Chains : /\ chain[c] \in Seq(Operations) /\ Len(chain[c]) \in Nat
                              /\ DOMAIN chain[c] = 1 .. Len(chain[c])
                              /\ \A n \in DOMAIN chain[c] : chain[c][n] \in Operations
         /\ "create" \in Chains /\ Idents \subseteq Chains
         /\ \A p \in Processes : proc[p].ident \in Idents => MyChain(p) \in Chains
  BY DEF TypeOK, Chains, MyChain, ChainOf

(* One operation is rewritten; one is added at the end of its chain.       *)
Rewrites(c, n, op) ==
  /\ chain' \in [Chains -> Seq(Operations)]
  /\ \A d \in Chains : Len(chain'[d]) = Len(chain[d]) /\ DOMAIN chain'[d] = DOMAIN chain[d]
  /\ chain'[c][n] = op
  /\ \A d \in Chains : \A m \in DOMAIN chain[d] : d # c \/ m # n => chain'[d][m] = chain[d][m]

LEMMA RewriteFacts ==
  ASSUME TypeOK, NEW c \in Chains, NEW n \in DOMAIN chain[c], NEW op \in Operations,
         chain' = [chain EXCEPT ![c] = [chain[c] EXCEPT ![n] = op]]
  PROVE  Rewrites(c, n, op)
<1> DEFINE new == [chain[c] EXCEPT ![n] = op]
<1>1. /\ new \in Seq(Operations) /\ Len(new) = Len(chain[c]) /\ DOMAIN new = DOMAIN chain[c]
      /\ new[n] = op /\ \A m \in DOMAIN chain[c] : m # n => new[m] = chain[c][m]
  BY ChainTypes
<1> HIDE DEF new
<1>2. chain' \in [Chains -> Seq(Operations)] /\ chain'[c] = new
      /\ \A d \in Chains \ {c} : chain'[d] = chain[d]
  BY <1>1 DEF TypeOK, new
<1> QED
  BY <1>1, <1>2 DEF Rewrites

Extends(c, op) ==
  /\ chain' \in [Chains -> Seq(Operations)]
  /\ DOMAIN chain'[c] = DOMAIN chain[c] \cup {Len(chain[c]) + 1}
  /\ Len(chain'[c]) = Len(chain[c]) + 1
  /\ chain'[c][Len(chain[c]) + 1] = op
  /\ \A d \in Chains \ {c} : chain'[d] = chain[d]
  /\ \A d \in Chains : \A m \in DOMAIN chain[d] : chain'[d][m] = chain[d][m]

LEMMA ExtendFacts ==
  ASSUME TypeOK, NEW c \in Chains, NEW op \in Operations,
         chain' = [chain EXCEPT ![c] = Append(@, op)]
  PROVE  Extends(c, op)
<1> DEFINE new == Append(chain[c], op)
<1>1. /\ new \in Seq(Operations) /\ Len(new) = Len(chain[c]) + 1
      /\ DOMAIN new = DOMAIN chain[c] \cup {Len(chain[c]) + 1}
      /\ new[Len(chain[c]) + 1] = op /\ \A m \in DOMAIN chain[c] : new[m] = chain[c][m]
  BY ChainTypes
<1> HIDE DEF new
<1>2. chain' \in [Chains -> Seq(Operations)] /\ chain'[c] = new
      /\ \A d \in Chains \ {c} : chain'[d] = chain[d]
  BY <1>1 DEF TypeOK, new
<1> QED
  BY <1>1, <1>2 DEF Extends

LEMMA SettleFacts ==
  ASSUME TypeOK, NEW c \in Chains, NEW n \in DOMAIN chain[c], NEW class, SettleRow(c, n, class)
  PROVE  \E op \in Operations :
           /\ Rewrites(c, n, op)
           /\ op.ident = chain[c][n].ident
           /\ op.phase = IF class = "healthy" THEN "COMMITTED" ELSE "FAILED"
           /\ op.callback = IF class = "healthy" THEN chain[c][n].callback ELSE "none"
<1> DEFINE op == Settled(chain[c][n], class)
<1>1. /\ op \in Operations /\ op.ident = chain[c][n].ident
      /\ op.phase = IF class = "healthy" THEN "COMMITTED" ELSE "FAILED"
      /\ op.callback = IF class = "healthy" THEN chain[c][n].callback ELSE "none"
  <2>1. chain[c][n] \in Operations
    BY ChainTypes
  <2> QED
    BY <2>1 DEF Operations, Settled
<1>2. chain' = [chain EXCEPT ![c] = [chain[c] EXCEPT ![n] = op]]
  BY DEF SettleRow
<1> HIDE DEF op
<1>3. Rewrites(c, n, op)
  BY <1>1, <1>2, RewriteFacts
<1> QED
  BY <1>1, <1>3

LEMMA MarkFacts ==
  ASSUME TypeOK, NEW c \in Chains, NEW n \in DOMAIN chain[c],
         chain' = [chain EXCEPT ![c][n].callback = "COMPLETED"]
  PROVE  \E op \in Operations :
           /\ Rewrites(c, n, op)
           /\ op.ident = chain[c][n].ident /\ op.phase = chain[c][n].phase
           /\ op.callback = "COMPLETED"
<1> DEFINE op == [chain[c][n] EXCEPT !.callback = "COMPLETED"]
<1>1. /\ op \in Operations /\ op.ident = chain[c][n].ident /\ op.phase = chain[c][n].phase
      /\ op.callback = "COMPLETED"
  <2>1. chain[c][n] \in Operations
    BY ChainTypes
  <2> QED
    BY <2>1 DEF Operations
<1>2. chain' = [chain EXCEPT ![c] = [chain[c] EXCEPT ![n] = op]]
  OBVIOUS
<1> HIDE DEF op
<1>3. Rewrites(c, n, op)
  BY <1>1, <1>2, RewriteFacts
<1> QED
  BY <1>1, <1>3

-----------------------------------------------------------------------------
(* The report of the doctor.                                               *)
LEMMA ReadingFacts ==
  ASSUME TypeOK, NEW p \in Processes, proc[p].ident \in Idents
  PROVE  /\ Class(p) \in Stages \cup {"mismatch"} /\ Readings(p) \subseteq Stages \cup {"mismatch"}
         /\ \A class \in Readings(p) : class = "healthy" => Class(p) = "healthy"
         /\ Class(p) # "mismatch" =>
              /\ Class(p) = stage[proc[p].ident]
              /\ row.state # NoState /\ row.base = proc[p].base
              /\ row.ident \in {NoIdent, proc[p].ident} /\ row.path \in {NoIdent, proc[p].ident}
<1>1. stage[proc[p].ident] \in Stages /\ "mismatch" \notin Stages /\ "residue" \in Stages
  BY DEF TypeOK, Stages
<1>2. \A class \in Readings(p) : class = Class(p) \/ class = "residue"
  BY DEF Readings
<1>3. Class(p) \in Stages \cup {"mismatch"}
  BY <1>1 DEF Class
<1> QED
  BY <1>1, <1>2, <1>3 DEF Class

(* The first free key of a chain is inside or just behind it.              *)
LEMMA NextKeyFacts ==
  ASSUME TypeOK, NEW c \in Chains
  PROVE  /\ NextKey(chain[c]) \in Nat \ {0} /\ NextKey(chain[c]) <= Len(chain[c]) + 1
         /\ \A n \in Nat \ {0} : n <= Len(chain[c]) <=> n \in DOMAIN chain[c]
<1>1. Len(chain[c]) \in Nat /\ DOMAIN chain[c] = 1 .. Len(chain[c]) /\ chain[c] \in Seq(Operations)
  BY ChainTypes
<1>2. chain[c] # <<>> => Len(chain[c]) # 0
  BY <1>1
<1>3. chain[c] = <<>> => Len(chain[c]) = 0
  BY <1>1
<1> QED
  BY <1>1, <1>2, <1>3 DEF NextKey

-----------------------------------------------------------------------------
(* Moves of one process.                                                   *)
Procs ==
  [pc : Labels, call : {"none", "start", "repair"}, ident : Idents \cup {NoIdent},
   base : Nat, class : Stages \cup {"mismatch"}, kind : Kinds, key : Nat]

Moves(p, r) ==
  /\ r \in Procs /\ proc' \in [Processes -> Procs] /\ proc'[p] = r
  /\ \A q \in Processes \ {p} : proc'[q] = proc[q]

LEMMA MoveFacts ==
  ASSUME TypeOK, NEW p \in Processes, NEW r \in Procs, proc' = [proc EXCEPT ![p] = r]
  PROVE  Moves(p, r)
  BY DEF TypeOK, Moves, Procs

Gets(p, label) ==
  \E r \in Procs :
    /\ Moves(p, r) /\ r.pc = label /\ r.ident = proc[p].ident /\ r.base = proc[p].base
    /\ r.kind = proc[p].kind /\ r.key = proc[p].key

LEMMA GotoFacts ==
  ASSUME TypeOK, NEW p \in Processes, NEW label \in Labels, Goto(p, label)
  PROVE  Gets(p, label)
<1> DEFINE r == [proc[p] EXCEPT !.pc = label]
<1>1. /\ r \in Procs /\ r.pc = label /\ r.ident = proc[p].ident
      /\ r.base = proc[p].base /\ r.kind = proc[p].kind /\ r.key = proc[p].key
  <2>1. proc[p] \in Procs
    BY DEF TypeOK, Procs
  <2> QED
    BY <2>1 DEF Procs
<1>2. proc' = [proc EXCEPT ![p] = r]
  BY DEF Goto
<1> HIDE DEF r
<1> QED
  BY <1>1, <1>2, MoveFacts DEF Gets

LEMMA IdleTyped == Idle \in Procs
  BY DEF Idle, Procs, Labels, Stages, Kinds

(* What the end of a call, and an error on the way, leave behind.          *)
Leaves(p, pc) ==
  /\ \E r \in Procs :
       /\ Moves(p, r) /\ r.pc = pc
       /\ pc # "idle" => r.ident = proc[p].ident
  /\ Unlock(p)

LEMMA FinishFacts ==
  ASSUME TypeOK, NEW p \in Processes, NEW answer, Finish(p, answer)
  PROVE  /\ Leaves(p, "idle")
         /\ answers' = answers \/ (answer = "started" /\ answers' = answers \cup {proc[p].ident})
<1>1. Moves(p, Idle)
  BY IdleTyped, MoveFacts DEF Finish
<1>2. Idle.pc = "idle" /\ Idle.ident = NoIdent
  BY DEF Idle
<1> QED
  BY <1>1, <1>2, IdleTyped DEF Finish, Leaves

LEMMA FailFacts ==
  ASSUME TypeOK, NEW p \in Processes, Fail(p)
  PROVE  (Leaves(p, "idle") \/ Leaves(p, "rescue")) /\ answers' = answers
<1>1. CASE proc[p].call = "start"
  <2>1. Goto(p, "rescue") /\ Unlock(p) /\ answers' = answers
    BY <1>1 DEF Fail
  <2>2. PICK r \in Procs : Moves(p, r) /\ r.pc = "rescue" /\ r.ident = proc[p].ident
    BY <2>1, GotoFacts DEF Gets, Labels
  <2> QED
    BY <2>1, <2>2 DEF Leaves
<1>2. CASE proc[p].call # "start"
  <2>1. Finish(p, "refused")
    BY <1>2 DEF Fail
  <2> QED
    BY <2>1, FinishFacts
<1> QED
  BY <1>1, <1>2

-----------------------------------------------------------------------------
(* What every step leaves to those who do not take it: they stay where     *)
(* they are, the lock is neither taken from them nor given to them, and    *)
(* neither the task nor a chain changes while they have it.  What they     *)
(* know without it is of what never changes back.                          *)
Grows ==
  /\ row.ident # NoIdent => row'.ident = row.ident
  /\ row.path # NoIdent => row'.path = row.path
  /\ row.state # NoState => row'.state # NoState
  /\ byHand => byHand'
  /\ \A c \in Chains :
       /\ Len(chain'[c]) >= Len(chain[c]) /\ DOMAIN chain[c] \subseteq DOMAIN chain'[c]
       /\ Len(chain'[c]) \in Nat
       /\ \A n \in DOMAIN chain[c] :
            chain[c][n].phase = "COMMITTED" => chain'[c][n].phase = "COMMITTED"

Spares(q) ==
  /\ proc'[q] = proc[q]
  /\ lock' = q <=> lock = q
  /\ lock = q => row' = row /\ chain' = chain

LEMMA SparedStays ==
  ASSUME Inv, Grows, NEW q \in Processes, Spares(q)
  PROVE  HolderInv(q)' /\ PlaceInv(q)'
<1>0. TypeOK /\ HolderInv(q) /\ PlaceInv(q) /\ NoIdent \notin Idents
  BY FreshAssumption DEF Inv
<1>1. proc'[q] = proc[q] /\ MyChain(q)' = MyChain(q)
  BY DEF Spares, MyChain
<1>2. HolderInv(q)'
  BY <1>0, <1>1 DEF HolderInv, Spares
<1>3. proc[q].pc # "idle" => MyChain(q) \in Chains /\ Len(chain[MyChain(q)]) \in Nat
  BY <1>0, ChainTypes DEF PlaceInv, Place, MyChain
<1>4. "create" \in Chains /\ proc[q].key \in Nat
  BY <1>0 DEF Chains, TypeOK
<1>5. PlaceInv(q)'
  <2>1. proc[q].pc \in {"assert", "reserve", "execute"} =>
          proc[q].key \in Nat \ {0} /\ proc[q].key <= Len(chain'[MyChain(q)]) + 1
    BY <1>0, <1>3, <1>4 DEF PlaceInv, Place, MyChain, Grows
  <2>2. /\ proc[q].pc = "reconcile" => proc[q].key \in DOMAIN chain'["create"]
        /\ proc[q].pc \in {"settle", "attach", "mark"} => proc[q].key \in DOMAIN chain'[MyChain(q)]
        /\ proc[q].pc \in {"attach", "mark"} => chain'[MyChain(q)][proc[q].key].phase = "COMMITTED"
    BY <1>0, <1>3, <1>4 DEF PlaceInv, Place, MyChain, Grows
  <2>3. /\ proc[q].pc \in {"execute", "attach", "mark"} => row'.ident = proc[q].ident
        /\ proc[q].pc \in {"mark", "confirm"} => row'.path # NoIdent
        /\ proc[q].pc = "dispatch" => row'.path = proc[q].ident
        /\ proc[q].pc = "dispatched" => byHand' \/ row'.path = proc[q].ident
        /\ proc[q].pc = "reserve" => row'.state # NoState
    BY <1>0 DEF PlaceInv, Place, MyChain, Grows
  <2> QED
    BY <1>0, <1>1, <2>1, <2>2, <2>3 DEF PlaceInv, Place, MyChain
<1> QED
  BY <1>2, <1>5

-----------------------------------------------------------------------------
(* The row, the chains and what Git shows: what each kind of step does.    *)
RowTypes == [state : TaskStates \cup {NoState}, base : Nat,
             ident : Idents \cup {NoIdent}, path : Idents \cup {NoIdent}]

Holds ==
  /\ row' \in RowTypes /\ chain' \in [Chains -> Seq(Operations)]
  /\ stage' \in [Idents -> Stages] /\ byHand' \in BOOLEAN
  /\ RowInv' /\ OpsInv' /\ SoleInv' /\ Grows

LEMMA QuietHolds ==
  ASSUME Inv, UNCHANGED <<row, chain, stage, byHand>>
  PROVE  Holds
<1>1. TypeOK /\ RowInv /\ OpsInv /\ SoleInv
  BY DEF Inv
<1>2. Grows
  BY <1>1, ChainTypes DEF Grows
<1>3. RowInv' /\ OpsInv' /\ SoleInv'
  BY <1>1 DEF RowInv, OpsInv, SoleInv
<1> QED
  BY <1>1, <1>2, <1>3 DEF Holds, TypeOK, RowTypes

LEMMA StageHolds ==
  ASSUME Inv, UNCHANGED <<row, chain, byHand>>, stage' \in [Idents -> Stages],
         row.path # NoIdent \/ \E c \in Chains : \E n \in DOMAIN chain[c] : chain[c][n].phase = "PREPARED"
  PROVE  Holds
<1>1. TypeOK /\ RowInv /\ OpsInv /\ SoleInv
  BY DEF Inv
<1>2. Grows
  BY <1>1, ChainTypes DEF Grows
<1>3. RowInv' /\ SoleInv'
  BY <1>1 DEF RowInv, SoleInv
<1>4. row.path # NoIdent \/ \A c \in Chains : \A n \in DOMAIN chain[c] : chain[c][n].phase # "COMMITTED"
  BY <1>1 DEF SoleInv, Live
<1>5. OpsInv'
  BY <1>1, <1>4 DEF OpsInv
<1> QED
  BY <1>1, <1>2, <1>3, <1>5 DEF Holds, TypeOK, RowTypes

LEMMA RowHolds ==
  ASSUME Inv, UNCHANGED <<chain, stage>>, row' \in RowTypes, row'.state # NoState,
         row.ident # NoIdent => row'.ident = row.ident,
         \/ row'.path = row.path
         \/ /\ row.path \in {NoIdent, row'.path} /\ row'.path = row'.ident
            /\ \E c \in Chains : \E n \in DOMAIN chain[c] : chain[c][n].phase = "COMMITTED",
         byHand' \in BOOLEAN, byHand => byHand',
         row'.state = "DISPATCHED" => byHand' \/ row'.path # NoIdent
  PROVE  Holds
<1>1. TypeOK /\ RowInv /\ OpsInv /\ SoleInv
  BY DEF Inv
<1>2. Grows
  BY <1>1, ChainTypes DEF Grows, RowInv
<1>3. RowInv' /\ SoleInv'
  BY <1>1 DEF RowInv, SoleInv
<1>4. \A c \in Chains : \A n \in DOMAIN chain[c] : chain[c][n].ident # NoIdent
  BY <1>1, ChainTypes, FreshAssumption DEF Operations
<1>5. OpsInv'
  <2>1. \A c \in Chains : \A n \in DOMAIN chain[c] : row'.ident = row.ident
    BY <1>1, <1>4 DEF OpsInv
  <2>2. row.path # NoIdent => row'.path # NoIdent
    BY <1>2 DEF Grows
  <2> QED
    BY <1>1, <2>1, <2>2 DEF OpsInv
<1> QED
  BY <1>1, <1>2, <1>3, <1>5 DEF Holds, TypeOK

(* An operation that was PREPARED is settled by what Git shows of the      *)
(* identity, which is the one it was prepared for.                         *)
LEMMA SettleHolds ==
  ASSUME Inv, UNCHANGED <<row, stage, byHand>>, NEW p \in Processes, proc[p].ident \in Idents,
         NEW c \in Chains, NEW n \in DOMAIN chain[c], chain[c][n].phase = "PREPARED",
         SettleRow(c, n, Class(p))
  PROVE  Holds
<1>1. TypeOK /\ RowInv /\ OpsInv /\ SoleInv
  BY DEF Inv
<1>2. PICK op \in Operations :
        /\ Rewrites(c, n, op)
        /\ op.ident = chain[c][n].ident
        /\ op.phase = IF Class(p) = "healthy" THEN "COMMITTED" ELSE "FAILED"
        /\ op.callback = IF Class(p) = "healthy" THEN chain[c][n].callback ELSE "none"
  BY <1>1, SettleFacts
<1>3. /\ \A d \in Chains : DOMAIN chain'[d] = DOMAIN chain[d] /\ Len(chain'[d]) = Len(chain[d])
      /\ chain'[c][n] = op
      /\ \A d \in Chains : \A m \in DOMAIN chain[d] : d # c \/ m # n => chain'[d][m] = chain[d][m]
      /\ chain' \in [Chains -> Seq(Operations)]
  BY <1>2 DEF Rewrites
<1>4. /\ chain[c][n].ident = row.ident /\ chain[c][n].callback = "PENDING"
      /\ row.ident \in Idents /\ row.ident # NoIdent
  <2>1. chain[c][n].ident \in Idents
    BY <1>1, ChainTypes DEF Operations
  <2> QED
    BY <1>1, <2>1, FreshAssumption DEF OpsInv
<1>5. Class(p) = "healthy" => stage[row.ident] = "healthy"
  BY <1>1, <1>4, ReadingFacts
<1>6. \A d \in Chains : Len(chain[d]) \in Nat
  BY <1>1, ChainTypes
<1>7. \A d \in Chains : \A m \in DOMAIN chain[d] :
        chain[d][m].phase = "COMMITTED" => chain'[d][m].phase = "COMMITTED"
  BY <1>3
<1>8. Grows
  BY <1>3, <1>6, <1>7 DEF Grows
<1>9. RowInv'
  BY <1>1, <1>3, <1>7 DEF RowInv
<1>10. OpsInv'
  <2>1. ASSUME NEW d \in Chains, NEW m \in DOMAIN chain[d], d # c \/ m # n
        PROVE  /\ chain'[d][m].ident = row.ident
               /\ chain'[d][m].phase = "PREPARED" => chain'[d][m].callback = "PENDING"
               /\ chain'[d][m].phase = "COMMITTED" =>
                    /\ chain'[d][m].callback # "none"
                    /\ stage[row.ident] = "healthy" \/ row.path # NoIdent
               /\ chain'[d][m].callback = "COMPLETED" => row.path # NoIdent
    BY <1>1, <1>3, <2>1 DEF OpsInv
  <2>2. /\ chain'[c][n].ident = row.ident
        /\ chain'[c][n].phase = "PREPARED" => chain'[c][n].callback = "PENDING"
        /\ chain'[c][n].phase = "COMMITTED" =>
             /\ chain'[c][n].callback # "none"
             /\ stage[row.ident] = "healthy" \/ row.path # NoIdent
        /\ chain'[c][n].callback = "COMPLETED" => row.path # NoIdent
    BY <1>2, <1>3, <1>4, <1>5
  <2> QED
    BY <1>3, <2>1, <2>2 DEF OpsInv
<1>11. SoleInv'
  <2>1. \A d \in Chains : \A m \in DOMAIN chain[d] :
          chain'[d][m].phase \in Live => chain[d][m].phase \in Live
    BY <1>3 DEF Live
  <2> QED
    BY <1>1, <1>3, <2>1 DEF SoleInv
<1> QED
  BY <1>1, <1>3, <1>8, <1>9, <1>10, <1>11 DEF Holds, TypeOK, RowTypes

LEMMA MarkHolds ==
  ASSUME Inv, UNCHANGED <<row, stage, byHand>>, row.path # NoIdent,
         NEW c \in Chains, NEW n \in DOMAIN chain[c], chain[c][n].phase = "COMMITTED",
         chain' = [chain EXCEPT ![c][n].callback = "COMPLETED"]
  PROVE  Holds
<1>1. TypeOK /\ RowInv /\ OpsInv /\ SoleInv
  BY DEF Inv
<1>2. PICK op \in Operations :
        /\ Rewrites(c, n, op) /\ op.ident = chain[c][n].ident
        /\ op.phase = "COMMITTED" /\ op.callback = "COMPLETED"
  BY <1>1, MarkFacts
<1>3. /\ \A d \in Chains : DOMAIN chain'[d] = DOMAIN chain[d] /\ Len(chain'[d]) = Len(chain[d])
      /\ chain'[c][n] = op
      /\ \A d \in Chains : \A m \in DOMAIN chain[d] : d # c \/ m # n => chain'[d][m] = chain[d][m]
      /\ chain' \in [Chains -> Seq(Operations)]
  BY <1>2 DEF Rewrites
<1>4. \A d \in Chains : \A m \in DOMAIN chain[d] :
        chain'[d][m].ident = chain[d][m].ident /\ chain'[d][m].phase = chain[d][m].phase
  BY <1>2, <1>3
<1>5. Grows
  BY <1>1, <1>3, <1>4, ChainTypes DEF Grows
<1>6. RowInv' /\ SoleInv'
  BY <1>1, <1>3, <1>4 DEF RowInv, SoleInv
<1>7. OpsInv'
  <2>1. \A d \in Chains : \A m \in DOMAIN chain[d] :
          chain'[d][m].callback = chain[d][m].callback
            \/ (chain[d][m].phase = "COMMITTED" /\ chain'[d][m].callback = "COMPLETED")
    BY <1>2, <1>3
  <2> QED
    BY <1>1, <1>3, <1>4, <2>1 DEF OpsInv
<1> QED
  BY <1>1, <1>3, <1>5, <1>6, <1>7 DEF Holds, TypeOK, RowTypes

(* Nothing is PREPARED, and what the command starts from shows that        *)
(* nothing is COMMITTED.                                                   *)
LEMMA PrepareHolds ==
  ASSUME Inv, UNCHANGED <<row, stage, byHand>>, NEW p \in Processes, proc[p].ident \in Idents,
         row.ident = proc[p].ident, Prepared = {}, Preflight(p), NEW c \in Chains,
         Extends(c, [ident |-> proc[p].ident, phase |-> "PREPARED", callback |-> "PENDING"])
  PROVE  Holds
<1> DEFINE op == [ident |-> proc[p].ident, phase |-> "PREPARED", callback |-> "PENDING"]
           last == Len(chain[c]) + 1
<1>1. TypeOK /\ RowInv /\ OpsInv /\ SoleInv
  BY DEF Inv
<1>2. /\ chain' \in [Chains -> Seq(Operations)]
      /\ DOMAIN chain'[c] = DOMAIN chain[c] \cup {last} /\ Len(chain'[c]) = last
      /\ chain'[c][last] = op
      /\ \A d \in Chains \ {c} : chain'[d] = chain[d]
      /\ \A d \in Chains : \A m \in DOMAIN chain[d] : chain'[d][m] = chain[d][m]
  BY DEF Extends
<1>3. \A d \in Chains : Len(chain[d]) \in Nat /\ DOMAIN chain[d] = 1 .. Len(chain[d])
  BY <1>1, ChainTypes
<1>4. ASSUME NEW d \in Chains, NEW m \in DOMAIN chain[d] PROVE chain[d][m].phase \notin Live
  <2>1. chain[d][m].phase # "PREPARED"
    <3>1. <<d, m>> \in Ops
      BY DEF Ops
    <3> QED
      BY <3>1 DEF Prepared
  <2>2. chain[d][m].phase # "COMMITTED"
    <3>1. Class(p) \in {"none", "branch"} /\ row.path = NoIdent
      BY DEF Preflight, Expected
    <3>2. stage[row.ident] # "healthy"
      BY <1>1, <3>1, ReadingFacts
    <3> QED
      BY <1>1, <3>1, <3>2 DEF OpsInv
  <2> QED
    BY <2>1, <2>2 DEF Live
<1>5. \A d \in Chains : \A m \in DOMAIN chain'[d] : m \in DOMAIN chain[d] \/ (d = c /\ m = last)
  BY <1>2
<1>6. \A d \in Chains : DOMAIN chain[d] \subseteq DOMAIN chain'[d]
  BY <1>2
<1> HIDE DEF last
<1>7. Grows
  <2>1. \A d \in Chains : Len(chain'[d]) \in Nat /\ Len(chain'[d]) >= Len(chain[d])
    BY <1>2, <1>3 DEF last
  <2> QED
    BY <1>2, <1>6, <2>1 DEF Grows
<1>8. RowInv'
  BY <1>1, <1>2, <1>6 DEF RowInv
<1>9. OpsInv'
  BY <1>1, <1>2, <1>5 DEF OpsInv
<1>10. SoleInv'
  BY <1>2, <1>4, <1>5 DEF SoleInv
<1> QED
  BY <1>1, <1>2, <1>7, <1>8, <1>9, <1>10 DEF Holds, TypeOK, RowTypes

-----------------------------------------------------------------------------
(* What every step of a process does.                                      *)
Answered(p) ==
  \/ answers' = answers
  \/ /\ answers' = answers \cup {proc[p].ident} /\ proc[p].ident \in Idents
     /\ byHand' \/ row'.path = proc[p].ident

Acts(p) ==
  /\ Holds /\ proc' \in [Processes -> Procs] /\ lock' \in Processes \cup {NoProcess}
  /\ \A q \in Processes \ {p} : Spares(q)
  /\ HolderInv(p)' /\ PlaceInv(p)'
  /\ Answered(p)
  /\ main' \in Nat /\ faults' \in Nat

(* The lock stays with whom has it, or goes from nobody to p, or from p to *)
(* nobody; and p touches rows only with it or while it is free.            *)
Entitled(p) ==
  /\ lock' = lock \/ (lock = p /\ lock' = NoProcess) \/ (lock = NoProcess /\ lock' = p)
  /\ lock \in {p, NoProcess} \/ UNCHANGED <<row, chain>>

LEMMA SparesOthers ==
  ASSUME NEW p \in Processes, NEW r \in Procs, Moves(p, r), Entitled(p)
  PROVE  \A q \in Processes \ {p} : Spares(q)
  BY FreshAssumption DEF Moves, Entitled, Spares

(* A step to a place that is not under the lock.                           *)
LEMMA StepActs ==
  ASSUME Inv, NEW p \in Processes, NEW r \in Procs, Moves(p, r), Holds,
         r.pc \notin {"running", "verify"}, PlaceInv(p)',
         \/ lock' = lock /\ proc[p].pc \notin {"running", "verify"}
         \/ Unlock(p),
         lock \in {p, NoProcess} \/ UNCHANGED <<row, chain>>,
         Answered(p), main' \in Nat, faults' \in Nat
  PROVE  Acts(p)
<1>0. TypeOK /\ HolderInv(p) /\ NoProcess \notin Processes
  BY FreshAssumption DEF Inv
<1>1. Entitled(p) /\ lock' # p /\ lock' \in Processes \cup {NoProcess}
  BY <1>0 DEF Entitled, Unlock, HolderInv, TypeOK
<1>2. \A q \in Processes \ {p} : Spares(q)
  BY <1>1, SparesOthers
<1>3. proc'[p].pc = r.pc /\ proc' \in [Processes -> Procs]
  BY DEF Moves
<1>4. HolderInv(p)'
  BY <1>1, <1>3 DEF HolderInv
<1> QED
  BY <1>1, <1>2, <1>3, <1>4 DEF Acts

(* The end of a call, also on an error.                                    *)
LEMMA LeaveActs ==
  ASSUME Inv, NEW p \in Processes, proc[p].pc # "idle", Holds,
         Leaves(p, "idle") \/ Leaves(p, "rescue"),
         lock \in {p, NoProcess} \/ UNCHANGED <<row, chain>>,
         Answered(p), main' \in Nat, faults' \in Nat
  PROVE  Acts(p)
<1>0. proc[p].ident \in Idents
  BY DEF Inv, PlaceInv, Place
<1>1. PICK r \in Procs : /\ Moves(p, r) /\ Unlock(p) /\ r.pc \in {"idle", "rescue"}
                         /\ r.pc # "idle" => r.ident = proc[p].ident
  BY DEF Leaves
<1>2. PlaceInv(p)'
  BY <1>0, <1>1 DEF PlaceInv, Place, Moves
<1> QED
  BY <1>1, <1>2, StepActs

(* A step that only takes the process further, without the lock.           *)
LEMMA QuietActs ==
  ASSUME Inv, NEW p \in Processes, NEW r \in Procs, Moves(p, r), Place(r),
         UNCHANGED <<row, chain, stage, main, history>>, answers' = answers,
         r.pc \notin {"running", "verify"},
         \/ lock' = lock /\ proc[p].pc \notin {"running", "verify"}
         \/ Unlock(p)
  PROVE  Acts(p)
<1>1. Holds
  BY QuietHolds DEF history
<1>2. PlaceInv(p)'
  BY DEF PlaceInv, Place, Moves, history
<1>3. main' \in Nat /\ faults' \in Nat
  BY DEF Inv, TypeOK, history
<1> QED
  BY <1>1, <1>2, <1>3, StepActs DEF Answered

LEMMA FailActs ==
  ASSUME Inv, NEW p \in Processes, proc[p].pc # "idle", Fail(p),
         UNCHANGED <<row, chain, stage, main, history>>
  PROVE  Acts(p)
<1>1. Holds
  BY QuietHolds DEF history
<1>2. TypeOK
  BY DEF Inv
<1>3. (Leaves(p, "idle") \/ Leaves(p, "rescue")) /\ Answered(p)
  BY <1>2, FailFacts DEF Answered
<1>4. main' \in Nat /\ faults' \in Nat
  BY <1>2 DEF TypeOK, history
<1> QED
  BY <1>1, <1>3, <1>4, LeaveActs

LEMMA FinishActs ==
  ASSUME Inv, NEW p \in Processes, proc[p].pc # "idle", NEW answer, Finish(p, answer),
         UNCHANGED <<row, chain, stage, main, byHand>>, faults' \in Nat,
         answer = "started" => byHand \/ row.path = proc[p].ident
  PROVE  Acts(p)
<1>1. Holds
  BY QuietHolds
<1>2. TypeOK /\ proc[p].ident \in Idents
  BY DEF Inv, PlaceInv, Place
<1>3. Leaves(p, "idle") /\ Answered(p)
  BY <1>2, FinishFacts DEF Answered
<1>4. main' \in Nat
  BY <1>2 DEF TypeOK
<1> QED
  BY <1>1, <1>3, <1>4, LeaveActs

-----------------------------------------------------------------------------
(* The steps of start_write_task and of the doctor that only read.         *)
LEMMA BeginActs ==
  ASSUME Inv, NEW p \in Processes, NEW i \in Idents, Start(p, i) \/ Repair(p, i)
  PROVE  Acts(p)
<1>0. TypeOK
  BY DEF Inv
<1>1. CASE Start(p, i)
  <2> DEFINE r == [Idle EXCEPT !.pc = "register", !.call = "start", !.ident = i, !.base = main]
  <2>1. r \in Procs /\ r.pc = "register" /\ r.ident = i
    BY <1>0 DEF Idle, Procs, Labels, Stages, Kinds, TypeOK
  <2>2. proc' = [proc EXCEPT ![p] = r]
    BY <1>1 DEF Start
  <2> HIDE DEF r
  <2>3. Moves(p, r) /\ Place(r)
    BY <1>0, <2>1, <2>2, MoveFacts DEF Place
  <2> QED
    BY <1>1, <2>1, <2>3, QuietActs DEF Start
<1>2. CASE Repair(p, i)
  <2>1. PICK base \in 0 .. main : proc' = [proc EXCEPT ![p] =
          [Idle EXCEPT !.pc = "fresh", !.call = "repair", !.ident = i, !.base = base, !.kind = "repair"]]
    BY <1>2 DEF Repair
  <2> DEFINE r == [Idle EXCEPT !.pc = "fresh", !.call = "repair", !.ident = i, !.base = base,
                               !.kind = "repair"]
  <2>2. base \in Nat
    BY <1>0 DEF TypeOK
  <2>3. r \in Procs /\ r.pc = "fresh" /\ r.ident = i
    BY <2>2 DEF Idle, Procs, Labels, Stages, Kinds
  <2>4. proc' = [proc EXCEPT ![p] = r]
    BY <2>1
  <2> HIDE DEF r
  <2>5. Moves(p, r) /\ Place(r)
    BY <1>0, <2>3, <2>4, MoveFacts DEF Place
  <2> QED
    BY <1>2, <2>3, <2>5, QuietActs DEF Repair
<1> QED
  BY <1>1, <1>2

LEMMA AnswerActs ==
  ASSUME Inv, NEW p \in Processes,
         AlreadyDispatched(p) \/ Rescue(p) \/ LockTimeout(p) \/ VerifierRaises(p) \/ Crash(p)
  PROVE  Acts(p)
<1>0. TypeOK /\ RowInv /\ Place(proc[p])
  BY DEF Inv, PlaceInv
<1>1. CASE AlreadyDispatched(p)
  <2>1. PICK class \in Readings(p) : Finish(p, IF class = "healthy" THEN "started" ELSE "refused")
    BY <1>1 DEF AlreadyDispatched
  <2>2. /\ proc[p].pc = "dispatched" /\ UNCHANGED <<row, chain, stage, main, byHand>> /\ faults' = faults
        /\ faults \in Nat
    BY <1>0, <1>1 DEF AlreadyDispatched, history, TypeOK
  <2>3. byHand \/ row.path = proc[p].ident
    BY <1>0, <2>2 DEF Place
  <2> QED
    BY <2>1, <2>2, <2>3, FinishActs
<1>2. CASE Rescue(p)
  <2>1. PICK class \in Readings(p) :
          Finish(p, IF row.state = "DISPATCHED" /\ class = "healthy" THEN "started" ELSE "refused")
    BY <1>2 DEF Rescue
  <2>2. /\ proc[p].pc = "rescue" /\ UNCHANGED <<row, chain, stage, main, byHand>> /\ faults' = faults
        /\ faults \in Nat
    BY <1>0, <1>2 DEF Rescue, history, TypeOK
  <2>3. row.state = "DISPATCHED" /\ class = "healthy" => byHand \/ row.path = proc[p].ident
    <3>1. class = "healthy" => row.path \in {NoIdent, proc[p].ident}
      BY <1>0, <2>1, <2>2, ReadingFacts DEF Place
    <3> QED
      BY <1>0, <3>1 DEF RowInv
  <2> QED
    BY <2>1, <2>2, <2>3, FinishActs
<1>3. ASSUME proc[p].pc # "idle", NEW answer \in {"busy", "refused", "crashed"}, Finish(p, answer),
             UNCHANGED <<row, chain, stage, main, byHand>>, faults' \in {faults, faults + 1}
      PROVE  Acts(p)
  <2>1. faults' \in Nat
    BY <1>0, <1>3 DEF TypeOK
  <2> QED
    BY <1>3, <2>1, FinishActs
<1>4. CASE LockTimeout(p)
  BY <1>3, <1>4 DEF LockTimeout, history
<1>5. CASE VerifierRaises(p)
  BY <1>3, <1>5 DEF VerifierRaises
<1>6. CASE Crash(p)
  BY <1>3, <1>6 DEF Crash
<1> QED
  BY <1>1, <1>2, <1>4, <1>5, <1>6

(* A step to a place that is determined by its label.                      *)
LEMMA GotoActs ==
  ASSUME Inv, NEW p \in Processes, NEW label \in Labels \ {"running", "verify"}, Goto(p, label),
         UNCHANGED <<row, chain, stage, main, history>>, answers' = answers,
         \/ lock' = lock /\ proc[p].pc \notin {"running", "verify"}
         \/ Unlock(p),
         \A r \in Procs : /\ r.pc = label /\ r.ident = proc[p].ident
                          /\ r.kind = proc[p].kind /\ r.key = proc[p].key
                          => Place(r)
  PROVE  Acts(p)
<1>1. PICK r \in Procs : /\ Moves(p, r) /\ r.pc = label /\ r.ident = proc[p].ident
                         /\ r.kind = proc[p].kind /\ r.key = proc[p].key
  BY GotoFacts DEF Gets, Inv
<1>2. Place(r)
  BY <1>1
<1> QED
  BY <1>1, <1>2, QuietActs

LEMMA ReadActs ==
  ASSUME Inv, NEW p \in Processes,
         ListPrepared(p) \/ Route(p) \/ FreshReport(p) \/ AssertPlanned(p)
  PROVE  Acts(p)
<1>0. TypeOK /\ Place(proc[p]) /\ proc[p] \in Procs
  BY DEF Inv, PlaceInv, TypeOK, Procs
<1>1. CASE ListPrepared(p)
  <2> DEFINE c == chain["create"]
  <2>1. /\ proc[p].pc = "list" /\ UNCHANGED <<row, chain, stage, main, history>>
        /\ proc[p].ident \in Idents
    BY <1>0, <1>1 DEF ListPrepared, Place
  <2>2. CASE c # <<>> /\ c[Len(c)].phase = "PREPARED" /\ c[Len(c)].ident = proc[p].ident
    <3> DEFINE r == [proc[p] EXCEPT !.pc = "reconcile", !.key = Len(c)]
    <3>1. Len(c) \in DOMAIN c /\ Len(c) \in Nat
      <4>1. c \in Seq(Operations) /\ Len(c) \in Nat /\ DOMAIN c = 1 .. Len(c)
        BY <1>0, ChainTypes
      <4>2. Len(c) # 0
        BY <2>2, <4>1
      <4> QED
        BY <4>1, <4>2
    <3>2. r \in Procs /\ r.pc = "reconcile" /\ r.ident = proc[p].ident /\ r.key = Len(c)
      BY <1>0, <3>1 DEF Procs, Labels
    <3>3. proc' = [proc EXCEPT ![p] = r] /\ lock' = lock /\ answers' = answers
      BY <1>1, <2>2 DEF ListPrepared
    <3> HIDE DEF r
    <3>4. Moves(p, r) /\ Place(r)
      BY <1>0, <2>1, <3>1, <3>2, <3>3, MoveFacts DEF Place
    <3> QED
      BY <2>1, <3>2, <3>3, <3>4, QuietActs
  <2>3. CASE c # <<>> /\ c[Len(c)].phase = "PREPARED" /\ c[Len(c)].ident # proc[p].ident
    <3>1. Fail(p)
      BY <1>1, <2>3 DEF ListPrepared
    <3> QED
      BY <2>1, <3>1, FailActs
  <2>4. CASE ~(c # <<>> /\ c[Len(c)].phase = "PREPARED")
    <3>1. Goto(p, "route") /\ lock' = lock /\ answers' = answers
      BY <1>1, <2>4 DEF ListPrepared
    <3>2. \A r \in Procs : r.pc = "route" /\ r.ident = proc[p].ident => Place(r)
      BY <2>1 DEF Place
    <3> QED
      BY <2>1, <3>1, <3>2, GotoActs DEF Labels
  <2> QED
    BY <2>2, <2>3, <2>4
<1>2. CASE Route(p)
  <2>1. PICK class \in Readings(p) : proc' = [proc EXCEPT ![p] =
          [proc[p] EXCEPT !.pc = "fresh", !.kind = IF class = "branch" THEN "repair" ELSE "create"]]
    BY <1>2 DEF Route
  <2> DEFINE r == [proc[p] EXCEPT !.pc = "fresh",
                                  !.kind = IF class = "branch" THEN "repair" ELSE "create"]
  <2>2. proc[p].pc = "route" /\ proc[p].ident \in Idents
    BY <1>0, <1>2 DEF Route, Place
  <2>3. r \in Procs /\ r.pc = "fresh" /\ r.ident = proc[p].ident
    BY <1>0 DEF Procs, Labels, Kinds
  <2> HIDE DEF r
  <2>4. Moves(p, r) /\ Place(r)
    BY <1>0, <2>1, <2>2, <2>3, MoveFacts DEF Place, r
  <2> QED
    BY <1>2, <2>2, <2>3, <2>4, QuietActs DEF Route
<1>3. CASE FreshReport(p)
  <2>1. PICK class \in Readings(p) : proc' = [proc EXCEPT ![p] =
          [proc[p] EXCEPT !.pc = "key", !.class = class]]
    BY <1>3 DEF FreshReport
  <2> DEFINE r == [proc[p] EXCEPT !.pc = "key", !.class = class]
  <2>2. proc[p].pc = "fresh" /\ proc[p].ident \in Idents
    BY <1>0, <1>3 DEF FreshReport, Place
  <2>3. r \in Procs /\ r.pc = "key" /\ r.ident = proc[p].ident
    <3>1. class \in Stages \cup {"mismatch"}
      BY <1>0, <2>1, <2>2, ReadingFacts
    <3> QED
      BY <1>0, <3>1 DEF Procs, Labels
  <2> HIDE DEF r
  <2>4. Moves(p, r) /\ Place(r)
    BY <1>0, <2>1, <2>2, <2>3, MoveFacts DEF Place, r
  <2> QED
    BY <1>3, <2>2, <2>3, <2>4, QuietActs DEF FreshReport
<1>4. CASE AssertPlanned(p)
  <2>1. proc[p].pc = "assert" /\ UNCHANGED <<row, chain, stage, main, history>>
    BY <1>4 DEF AssertPlanned
  <2>2. CASE row.state = "PLANNED"
    <3>1. Goto(p, "reserve") /\ lock' = lock /\ answers' = answers
      BY <1>4, <2>2 DEF AssertPlanned
    <3>2. \A r \in Procs : /\ r.pc = "reserve" /\ r.ident = proc[p].ident
                           /\ r.kind = proc[p].kind /\ r.key = proc[p].key
                           => Place(r)
      BY <1>0, <2>1, <2>2 DEF Place, NoState
    <3> QED
      BY <2>1, <3>1, <3>2, GotoActs DEF Labels
  <2>3. CASE row.state # "PLANNED"
    <3>1. Fail(p)
      BY <1>4, <2>3 DEF AssertPlanned
    <3> QED
      BY <2>1, <3>1, FailActs
  <2> QED
    BY <2>2, <2>3
<1> QED
  BY <1>1, <1>2, <1>3, <1>4

(* The place to which the outcome of an operation leads.                   *)
LEMMA KeyActs ==
  ASSUME Inv, NEW p \in Processes, ChooseKey(p) \/ Decide(p)
  PROVE  Acts(p)
<1> DEFINE c == chain[MyChain(p)]
           n == NextKey(c)
<1>0. TypeOK /\ Place(proc[p]) /\ proc[p] \in Procs
  BY DEF Inv, PlaceInv, TypeOK, Procs
<1>1. /\ proc[p].pc \in {"key", "decide"} /\ UNCHANGED <<row, chain, stage, main, history>>
      /\ proc[p].ident \in Idents /\ MyChain(p) \in Chains
  BY <1>0, ChainTypes DEF ChooseKey, Decide, Place
<1>2. /\ n \in Nat \ {0} /\ n <= Len(c) + 1 /\ (n <= Len(c) => n \in DOMAIN c)
  BY <1>0, <1>1, NextKeyFacts
<1> HIDE DEF n
<1>3. CASE Fail(p)
  BY <1>1, <1>3, FailActs
<1>4. ASSUME NEW r \in Procs, proc' = [proc EXCEPT ![p] = r], r.ident = proc[p].ident,
             r.kind = proc[p].kind, r.key = n, r.pc \in {"settle", "decide", "assert"},
             r.pc = "settle" => n <= Len(c), lock' = lock, answers' = answers
      PROVE  Acts(p)
  <2>1. Moves(p, r)
    BY <1>0, <1>4, MoveFacts
  <2>2. Place(r)
    BY <1>1, <1>2, <1>4 DEF Place, MyChain
  <2> QED
    BY <1>1, <1>4, <2>1, <2>2, QuietActs
<1>5. CASE ChooseKey(p) /\ ~Fail(p)
  <2> DEFINE r == [proc[p] EXCEPT !.key = n, !.pc =
                     IF n <= Len(c) /\ c[n].phase = "PREPARED" THEN "settle" ELSE "decide"]
  <2>1. proc' = [proc EXCEPT ![p] = r] /\ lock' = lock /\ answers' = answers
    BY <1>5 DEF ChooseKey, n
  <2>2. /\ r \in Procs /\ r.ident = proc[p].ident /\ r.kind = proc[p].kind /\ r.key = n
        /\ r.pc \in {"settle", "decide"} /\ (r.pc = "settle" => n <= Len(c))
    BY <1>0, <1>2 DEF Procs, Labels
  <2> HIDE DEF r
  <2> QED
    BY <1>4, <2>1, <2>2
<1>6. CASE Decide(p) /\ ~Fail(p)
  <2> DEFINE r == [proc[p] EXCEPT !.key = n, !.pc = "assert", !.class = "none"]
  <2>1. proc' = [proc EXCEPT ![p] = r] /\ lock' = lock /\ answers' = answers
    BY <1>6 DEF Decide, n
  <2>2. /\ r \in Procs /\ r.ident = proc[p].ident /\ r.kind = proc[p].kind /\ r.key = n
        /\ r.pc = "assert"
    BY <1>0, <1>2 DEF Procs, Labels, Stages
  <2> HIDE DEF r
  <2> QED
    BY <1>4, <2>1, <2>2
<1> QED
  BY <1>3, <1>5, <1>6

-----------------------------------------------------------------------------
(* An operation that is terminal leads to its callback, to what follows a  *)
(* callback that was run, or to an error.                                  *)
LEMMA TerminalActs ==
  ASSUME Inv, NEW p \in Processes, proc[p].pc \in {"execute", "verify"}, Holds,
         proc[p].key \in DOMAIN chain[MyChain(p)], row.ident = proc[p].ident,
         AfterTerminal(p, chain'[MyChain(p)][proc[p].key]),
         lock \in {p, NoProcess}, UNCHANGED <<row, main, history>>
  PROVE  Acts(p)
<1> DEFINE o == chain'[MyChain(p)][proc[p].key]
<1>0. /\ TypeOK /\ proc[p].ident \in Idents /\ MyChain(p) \in Chains
      /\ MyChain(p) = ChainOf(proc[p].kind, proc[p].ident)
  BY ChainTypes DEF Inv, PlaceInv, Place, MyChain
<1>1. main' \in Nat /\ faults' \in Nat
  BY <1>0 DEF TypeOK, history
<1>2. CASE o.phase = "COMMITTED"
  <2>1. PICK label \in {"attach", "confirm"} :
          /\ Goto(p, label) /\ Unlock(p) /\ answers' = answers
          /\ o.callback # "PENDING" <=> label = "confirm"
    BY <1>2 DEF AfterTerminal
  <2>2. PICK r \in Procs : /\ Moves(p, r) /\ r.pc = label /\ r.ident = proc[p].ident
                           /\ r.kind = proc[p].kind /\ r.key = proc[p].key
    BY <1>0, <2>1, GotoFacts DEF Gets, Labels
  <2>3. proc[p].key \in DOMAIN chain'[MyChain(p)]
    BY <1>0 DEF Holds, Grows
  <2>4. label = "confirm" => row'.path # NoIdent
    <3>1. o \in Operations
      BY <1>0, <2>3 DEF Holds
    <3> QED
      BY <1>0, <1>2, <2>1, <2>3, <3>1 DEF Holds, OpsInv, Operations
  <2>5. PlaceInv(p)'
    BY <1>0, <1>2, <2>1, <2>2, <2>3, <2>4 DEF PlaceInv, Place, Moves
  <2> QED
    BY <1>1, <2>1, <2>2, <2>5, StepActs DEF Answered
<1>3. CASE o.phase # "COMMITTED"
  <2>1. Fail(p)
    BY <1>3 DEF AfterTerminal
  <2>2. (Leaves(p, "idle") \/ Leaves(p, "rescue")) /\ Answered(p)
    BY <1>0, <2>1, FailFacts DEF Answered
  <2> QED
    BY <1>1, <2>2, LeaveActs
<1> QED
  BY <1>2, <1>3

LEMMA ExecuteKnownActs ==
  ASSUME Inv, NEW p \in Processes, ExecuteKnown(p)
  PROVE  Acts(p)
<1>0. /\ TypeOK /\ Place(proc[p]) /\ proc[p].pc = "execute" /\ lock = NoProcess
      /\ UNCHANGED <<row, chain, stage, main, history>>
  BY DEF Inv, PlaceInv, ExecuteKnown
<1>1. /\ proc[p].key \in DOMAIN chain[MyChain(p)] /\ row.ident = proc[p].ident
  <2>1. /\ proc[p].ident \in Idents /\ proc[p].key \in Nat \ {0} /\ row.ident = proc[p].ident
        /\ proc[p].key <= Len(chain[MyChain(p)]) /\ MyChain(p) \in Chains
    BY <1>0, ChainTypes DEF Place, ExecuteKnown
  <2> QED
    BY <1>0, <2>1, NextKeyFacts
<1>2. Holds
  BY <1>0, QuietHolds DEF history
<1>3. CASE AfterTerminal(p, chain[MyChain(p)][proc[p].key])
  <2>1. AfterTerminal(p, chain'[MyChain(p)][proc[p].key])
    BY <1>0, <1>3
  <2> QED
    BY <1>0, <1>1, <1>2, <2>1, TerminalActs
<1>4. CASE Fail(p)
  BY <1>0, <1>4, FailActs
<1> QED
  BY <1>3, <1>4 DEF ExecuteKnown

LEMMA ConfirmActs ==
  ASSUME Inv, NEW p \in Processes, Confirm(p)
  PROVE  Acts(p)
<1>0. /\ TypeOK /\ Place(proc[p]) /\ proc[p].pc = "confirm"
      /\ UNCHANGED <<row, chain, stage, main, history>> /\ faults' = faults /\ faults \in Nat
      /\ UNCHANGED <<row, chain, stage, main, byHand>>
  BY DEF Inv, PlaceInv, Confirm, history, TypeOK
<1>1. PICK class \in Readings(p) :
        \/ Fail(p)
        \/ class = "healthy" /\ Goto(p, "dispatch") /\ UNCHANGED <<lock, answers>>
        \/ Finish(p, "repaired")
  BY DEF Confirm
<1>2. CASE Fail(p)
  BY <1>0, <1>2, FailActs
<1>3. CASE class = "healthy" /\ Goto(p, "dispatch") /\ UNCHANGED <<lock, answers>>
  <2>1. row.path = proc[p].ident /\ proc[p].ident \in Idents
    BY <1>0, <1>1, <1>3, ReadingFacts DEF Place
  <2>2. \A r \in Procs : r.pc = "dispatch" /\ r.ident = proc[p].ident => Place(r)
    BY <2>1 DEF Place
  <2> QED
    BY <1>0, <1>3, <2>2, GotoActs DEF Labels
<1>4. CASE Finish(p, "repaired")
  BY <1>0, <1>4, FinishActs
<1> QED
  BY <1>1, <1>2, <1>3, <1>4

-----------------------------------------------------------------------------
(* The steps that write the row.                                           *)
LEMMA RegisterActs ==
  ASSUME Inv, NEW p \in Processes, Register(p)
  PROVE  Acts(p)
<1> DEFINE i == proc[p].ident
<1>0. /\ TypeOK /\ RowInv /\ i \in Idents /\ proc[p].pc = "register" /\ lock = NoProcess
      /\ UNCHANGED <<chain, stage, main>> /\ byHand' = byHand /\ faults' = faults
      /\ row \in RowTypes /\ NoIdent \notin Idents
  BY FreshAssumption DEF Inv, PlaceInv, Place, Register, TypeOK, RowTypes, history
<1>1. byHand' \in BOOLEAN /\ main' \in Nat /\ faults' \in Nat
  BY <1>0 DEF TypeOK
<1>2. ASSUME NEW label \in {"list", "dispatched"}, Goto(p, label), UNCHANGED <<lock, answers>>, Holds,
             label = "dispatched" => byHand' \/ row'.path = i
      PROVE  Acts(p)
  <2>1. PICK r \in Procs : Moves(p, r) /\ r.pc = label /\ r.ident = i
    BY <1>0, <1>2, GotoFacts DEF Gets, Labels
  <2>2. PlaceInv(p)'
    BY <1>0, <1>2, <2>1 DEF PlaceInv, Place, Moves
  <2> QED
    BY <1>0, <1>1, <1>2, <2>1, <2>2, StepActs DEF Answered
<1>3. CASE /\ row.state = NoState
           /\ row' = [state |-> "PLANNED", base |-> proc[p].base, ident |-> i, path |-> NoIdent]
           /\ Goto(p, "list") /\ UNCHANGED <<lock, answers>>
  <2>1. row.ident = NoIdent /\ row.path = NoIdent
    BY <1>0, <1>3 DEF RowInv
  <2>2. "PLANNED" \in TaskStates /\ proc[p].base \in Nat
    BY <1>0 DEF TaskStates, Allowed, TypeOK
  <2>3. /\ row' \in RowTypes /\ row'.state # NoState /\ row'.state # "DISPATCHED"
        /\ row'.path = row.path
    BY <1>0, <1>3, <2>1, <2>2 DEF RowTypes, NoState
  <2>4. Holds
    BY <1>0, <1>1, <2>1, <2>3, RowHolds
  <2> QED
    BY <1>2, <1>3, <2>4
<1>4. CASE /\ row.state \in {"PLANNED", "DISPATCHED"} /\ row.base = proc[p].base
           /\ <<row.ident, row.path>> \in {<<NoIdent, NoIdent>>, <<i, NoIdent>>, <<i, i>>}
           /\ row' = [row EXCEPT !.ident = i]
           /\ Goto(p, IF row.state = "DISPATCHED" THEN "dispatched" ELSE "list")
           /\ UNCHANGED <<lock, answers>>
  <2>1. /\ row' \in RowTypes /\ row'.state = row.state /\ row'.path = row.path /\ row'.ident = i
        /\ row.ident \in {NoIdent, i} /\ row.path \in {NoIdent, i} /\ row.state # NoState
    BY <1>0, <1>4 DEF RowTypes, NoState
  <2>2. Holds
    BY <1>0, <1>1, <2>1, RowHolds DEF RowInv
  <2>3. row.state = "DISPATCHED" => byHand' \/ row'.path = i
    BY <1>0, <2>1 DEF RowInv
  <2> QED
    BY <1>2, <1>4, <2>2, <2>3
<1>5. CASE Finish(p, "refused") /\ UNCHANGED row
  BY <1>0, <1>1, <1>5, FinishActs
<1> QED
  BY <1>3, <1>4, <1>5 DEF Register

LEMMA ReserveActs ==
  ASSUME Inv, NEW p \in Processes, Reserve(p)
  PROVE  Acts(p)
<1> DEFINE i == proc[p].ident
<1>0. /\ TypeOK /\ RowInv /\ Place(proc[p]) /\ i \in Idents /\ proc[p].pc = "reserve" /\ lock = NoProcess
      /\ UNCHANGED <<chain, stage, main, history>> /\ row \in RowTypes /\ NoIdent \notin Idents
  BY FreshAssumption DEF Inv, PlaceInv, Place, Reserve, TypeOK, RowTypes
<1>1. byHand' = byHand /\ byHand \in BOOLEAN /\ main' \in Nat /\ faults' \in Nat
  BY <1>0 DEF TypeOK, history
<1>2. CASE /\ MayReserve(i) /\ row' = [row EXCEPT !.ident = i]
           /\ Goto(p, "execute") /\ UNCHANGED <<lock, answers>>
  <2>1. /\ row' \in RowTypes /\ row'.state = row.state /\ row'.path = row.path /\ row'.ident = i
        /\ row.ident \in {NoIdent, i} /\ row.state # NoState
    BY <1>0, <1>2 DEF RowTypes, MayReserve, Place
  <2>2. Holds
    BY <1>0, <1>1, <2>1, RowHolds DEF RowInv
  <2>3. PICK r \in Procs : /\ Moves(p, r) /\ r.pc = "execute" /\ r.ident = i
                           /\ r.kind = proc[p].kind /\ r.key = proc[p].key
    BY <1>0, <1>2, GotoFacts DEF Gets, Labels
  <2>4. PlaceInv(p)'
    BY <1>0, <2>1, <2>3 DEF PlaceInv, Place, Moves
  <2> QED
    BY <1>0, <1>1, <1>2, <2>2, <2>3, <2>4, StepActs DEF Answered
<1>3. CASE Fail(p) /\ UNCHANGED row
  BY <1>0, <1>3, FailActs
<1> QED
  BY <1>2, <1>3 DEF Reserve

LEMMA AttachActs ==
  ASSUME Inv, NEW p \in Processes, Attach(p)
  PROVE  Acts(p)
<1> DEFINE i == proc[p].ident
<1>0. /\ TypeOK /\ RowInv /\ Place(proc[p]) /\ i \in Idents /\ proc[p].pc = "attach" /\ lock = NoProcess
      /\ UNCHANGED <<chain, stage, main, history>> /\ row \in RowTypes /\ NoIdent \notin Idents
      /\ MyChain(p) \in Chains
  BY FreshAssumption, ChainTypes DEF Inv, PlaceInv, Place, Attach, TypeOK, RowTypes
<1>1. byHand' = byHand /\ byHand \in BOOLEAN /\ main' \in Nat /\ faults' \in Nat
  BY <1>0 DEF TypeOK, history
<1>2. CASE /\ <<row.ident, row.path>> \in {<<NoIdent, NoIdent>>, <<i, NoIdent>>, <<i, i>>}
           /\ row' = [row EXCEPT !.ident = i, !.path = i]
           /\ Goto(p, "mark") /\ UNCHANGED <<lock, answers>>
  <2>1. /\ row' \in RowTypes /\ row'.state = row.state /\ row'.path = i /\ row'.ident = i
        /\ row.ident \in {NoIdent, i} /\ row.path \in {NoIdent, i} /\ row.ident = i
    BY <1>0, <1>2 DEF RowTypes, Place
  <2>2. /\ proc[p].key \in DOMAIN chain[MyChain(p)] /\ row.state # NoState
        /\ chain[MyChain(p)][proc[p].key].phase = "COMMITTED"
    BY <1>0, <2>1 DEF Place, MyChain, RowInv
  <2>3. Holds
    BY <1>0, <1>1, <2>1, <2>2, RowHolds
  <2>4. PICK r \in Procs : /\ Moves(p, r) /\ r.pc = "mark" /\ r.ident = i
                           /\ r.kind = proc[p].kind /\ r.key = proc[p].key
    BY <1>0, <1>2, GotoFacts DEF Gets, Labels
  <2>5. PlaceInv(p)'
    BY <1>0, <2>1, <2>2, <2>4 DEF PlaceInv, Place, Moves, MyChain
  <2> QED
    BY <1>0, <1>1, <1>2, <2>3, <2>4, <2>5, StepActs DEF Answered
<1>3. CASE Fail(p) /\ UNCHANGED row
  BY <1>0, <1>3, FailActs
<1> QED
  BY <1>2, <1>3 DEF Attach

LEMMA DispatchActs ==
  ASSUME Inv, NEW p \in Processes, Dispatch(p)
  PROVE  Acts(p)
<1> DEFINE i == proc[p].ident
<1>0. /\ TypeOK /\ RowInv /\ Place(proc[p]) /\ i \in Idents /\ proc[p].pc = "dispatch"
      /\ lock = NoProcess /\ row.path = i
      /\ UNCHANGED <<chain, stage, main, history>> /\ row \in RowTypes /\ NoIdent \notin Idents
  BY FreshAssumption DEF Inv, PlaceInv, Place, Dispatch, TypeOK, RowTypes
<1>1. byHand' = byHand /\ byHand \in BOOLEAN /\ main' \in Nat /\ faults' \in Nat
  BY <1>0 DEF TypeOK, history
<1>2. CASE row' = [row EXCEPT !.state = "DISPATCHED"] /\ Finish(p, "started")
  <2>1. /\ row' \in RowTypes /\ row'.state = "DISPATCHED" /\ row'.path = row.path
        /\ row'.ident = row.ident
    <3>1. "DISPATCHED" \in TaskStates
      BY DEF TaskStates, Allowed
    <3> QED
      BY <1>0, <1>2, <3>1 DEF RowTypes
  <2>2. Holds
    BY <1>0, <1>1, <2>1, RowHolds DEF NoState
  <2>3. Leaves(p, "idle") /\ Answered(p)
    BY <1>0, <1>2, <2>1, FinishFacts DEF Answered
  <2> QED
    BY <1>0, <1>1, <2>2, <2>3, LeaveActs
<1>3. CASE Fail(p) /\ UNCHANGED row
  BY <1>0, <1>3, FailActs
<1> QED
  BY <1>2, <1>3 DEF Dispatch

-----------------------------------------------------------------------------
(* The steps that write operations.                                        *)
LEMMA ReconcileActs ==
  ASSUME Inv, NEW p \in Processes, ReconcileCreate(p) \/ ReconcileKey(p)
  PROVE  Acts(p)
<1>0. TypeOK /\ Place(proc[p])
  BY DEF Inv, PlaceInv
<1>1. ASSUME NEW label \in {"reconcile", "settle"}, NEW c \in Chains, NEW next \in {"route", "decide"},
             proc[p].ident \in Idents, proc[p].key \in DOMAIN chain[c], ReconcileOne(p, label, c, next)
      PROVE  Acts(p)
  <2>1. /\ proc[p].pc = label /\ lock = NoProcess /\ UNCHANGED <<row, lock, stage, main, answers, history>>
        /\ Goto(p, next)
    BY <1>1 DEF ReconcileOne
  <2>2. byHand' = byHand /\ main' \in Nat /\ faults' \in Nat
    BY <1>0, <2>1 DEF TypeOK, history
  <2>3. Holds
    <3>1. CASE chain[c][proc[p].key].phase = "PREPARED"
      BY <1>1, <2>1, <2>2, <3>1, SettleHolds DEF ReconcileOne
    <3>2. CASE chain[c][proc[p].key].phase # "PREPARED"
      BY <1>1, <2>1, <2>2, <3>2, QuietHolds DEF ReconcileOne
    <3> QED
      BY <3>1, <3>2
  <2>4. PICK r \in Procs : Moves(p, r) /\ r.pc = next /\ r.ident = proc[p].ident
    BY <1>0, <2>1, GotoFacts DEF Gets, Labels
  <2>5. PlaceInv(p)'
    BY <1>1, <2>4 DEF PlaceInv, Place, Moves
  <2> QED
    BY <1>1, <2>1, <2>2, <2>3, <2>4, <2>5, StepActs DEF Answered
<1>2. CASE ReconcileCreate(p)
  <2>1. /\ proc[p].pc = "reconcile" /\ ReconcileOne(p, "reconcile", "create", "route")
    BY <1>2 DEF ReconcileCreate, ReconcileOne
  <2>2. "create" \in Chains /\ proc[p].ident \in Idents /\ proc[p].key \in DOMAIN chain["create"]
    BY <1>0, <2>1, ChainTypes DEF Place
  <2> QED
    BY <1>1, <2>1, <2>2
<1>3. CASE ReconcileKey(p)
  <2>1. proc[p].pc = "settle" /\ ReconcileOne(p, "settle", MyChain(p), "decide")
    BY <1>3 DEF ReconcileKey, ReconcileOne
  <2>2. /\ proc[p].ident \in Idents /\ MyChain(p) \in Chains
        /\ proc[p].key \in DOMAIN chain[MyChain(p)]
    BY <1>0, <2>1, ChainTypes DEF Place, MyChain
  <2> QED
    BY <1>1, <2>1, <2>2
<1> QED
  BY <1>2, <1>3

LEMMA ExecuteNewActs ==
  ASSUME Inv, NEW p \in Processes, ExecuteNew(p)
  PROVE  Acts(p)
<1> DEFINE c == MyChain(p)
           op == [ident |-> proc[p].ident, phase |-> "PREPARED", callback |-> "PENDING"]
<1>0. /\ TypeOK /\ Place(proc[p]) /\ proc[p].pc = "execute" /\ lock = NoProcess
      /\ UNCHANGED <<row, stage, main, history>> /\ NoProcess \notin Processes
  BY FreshAssumption DEF Inv, PlaceInv, ExecuteNew
<1>1. /\ byHand' = byHand /\ main' \in Nat /\ faults' \in Nat
      /\ proc[p].ident \in Idents /\ row.ident = proc[p].ident
      /\ c \in Chains /\ op \in Operations
      /\ proc[p].key = Len(chain[c]) + 1
  <2>1. proc[p].ident \in Idents /\ c \in Chains
    BY <1>0, ChainTypes DEF Place
  <2>2. Len(chain[c]) \in Nat /\ proc[p].key \in Nat
    BY <1>0, <2>1, ChainTypes DEF Place
  <2> QED
    BY <1>0, <2>1, <2>2 DEF TypeOK, history, Place, MyChain, ExecuteNew, Operations
<1>2. CASE Prepared = {} /\ Preflight(p)
  <2>1. /\ chain' = [chain EXCEPT ![c] = Append(@, op)] /\ lock' = p
        /\ Goto(p, "running") /\ answers' = answers
    BY <1>2 DEF ExecuteNew
  <2>2. Extends(c, op)
    BY <1>0, <1>1, <2>1, ExtendFacts
  <2>3. Holds
    BY <1>0, <1>1, <1>2, <2>2, PrepareHolds
  <2>4. PICK r \in Procs : /\ Moves(p, r) /\ r.pc = "running" /\ r.ident = proc[p].ident
                           /\ r.base = proc[p].base /\ r.kind = proc[p].kind /\ r.key = proc[p].key
    BY <1>0, <2>1, GotoFacts DEF Gets, Labels
  <2>5. Entitled(p) /\ \A q \in Processes \ {p} : Spares(q)
    <3>1. Entitled(p)
      BY <1>0, <2>1 DEF Entitled
    <3> QED
      BY <2>4, <3>1, SparesOthers
  <2>6. PlaceInv(p)'
    BY <1>1, <2>4 DEF PlaceInv, Place, Moves
  <2>7. row = [state |-> "PLANNED", base |-> proc[p].base, ident |-> proc[p].ident, path |-> NoIdent]
    <3>1. Class(p) # "mismatch" /\ row.state = "PLANNED" /\ row.path = NoIdent
      BY <1>2 DEF Preflight, Expected
    <3>2. row.base = proc[p].base
      BY <1>0, <1>1, <3>1, ReadingFacts
    <3> QED
      BY <1>0, <1>1, <3>1, <3>2 DEF TypeOK
  <2>8. proc'[p] = r /\ MyChain(p)' = c
    BY <2>4 DEF Moves, MyChain
  <2>9. proc[p].key \in DOMAIN chain'[c] /\ chain'[c][proc[p].key].phase = "PREPARED"
    BY <1>1, <2>2 DEF Extends
  <2>10. HolderInv(p)'
    BY <1>0, <2>1, <2>4, <2>7, <2>8, <2>9 DEF HolderInv
  <2> QED
    BY <1>1, <2>1, <2>3, <2>4, <2>5, <2>6, <2>10 DEF Acts, Answered, Moves
<1>3. CASE Fail(p) /\ UNCHANGED chain
  BY <1>0, <1>3, FailActs
<1> QED
  BY <1>2, <1>3 DEF ExecuteNew

LEMMA SettleOwnActs ==
  ASSUME Inv, NEW p \in Processes, SettleOwn(p)
  PROVE  Acts(p)
<1>0. /\ TypeOK /\ Place(proc[p]) /\ HolderInv(p) /\ proc[p].pc = "verify"
      /\ UNCHANGED <<row, stage, main, history>> /\ byHand' = byHand
  BY DEF Inv, PlaceInv, SettleOwn, history
<1>1. /\ lock = p /\ row.ident = proc[p].ident
      /\ proc[p].key \in DOMAIN chain[MyChain(p)]
      /\ chain[MyChain(p)][proc[p].key].phase = "PREPARED"
  BY <1>0 DEF HolderInv
<1>2. proc[p].ident \in Idents /\ MyChain(p) \in Chains
  BY <1>0, ChainTypes DEF Place
<1>3. SettleRow(MyChain(p), proc[p].key, Class(p))
  BY DEF SettleOwn
<1>4. Holds
  BY <1>0, <1>1, <1>2, <1>3, SettleHolds
<1> QED
  BY <1>0, <1>1, <1>4, TerminalActs DEF SettleOwn

LEMMA MarkActs ==
  ASSUME Inv, NEW p \in Processes, Mark(p)
  PROVE  Acts(p)
<1>0. /\ TypeOK /\ Place(proc[p]) /\ proc[p].pc = "mark" /\ lock = NoProcess
      /\ UNCHANGED <<row, lock, stage, main, answers, history>> /\ Goto(p, "confirm")
      /\ chain' = [chain EXCEPT ![MyChain(p)][proc[p].key].callback = "COMPLETED"]
  BY DEF Inv, PlaceInv, Mark
<1>1. /\ byHand' = byHand /\ main' \in Nat /\ faults' \in Nat
      /\ proc[p].ident \in Idents /\ MyChain(p) \in Chains /\ row.path # NoIdent
      /\ proc[p].key \in DOMAIN chain[MyChain(p)]
      /\ chain[MyChain(p)][proc[p].key].phase = "COMMITTED"
  BY <1>0, ChainTypes DEF TypeOK, history, Place, MyChain
<1>2. Holds
  BY <1>0, <1>1, MarkHolds
<1>3. PICK r \in Procs : Moves(p, r) /\ r.pc = "confirm" /\ r.ident = proc[p].ident
  BY <1>0, GotoFacts DEF Gets, Labels
<1>4. PlaceInv(p)'
  BY <1>0, <1>1, <1>3 DEF PlaceInv, Place, Moves
<1> QED
  BY <1>0, <1>1, <1>2, <1>3, <1>4, StepActs DEF Answered

-----------------------------------------------------------------------------
(* Git, and everybody else.                                                *)
LEMMA GitActs ==
  ASSUME Inv, NEW p \in Processes, GitProgress(p) \/ GitReturns(p)
  PROVE  Acts(p)
<1>0. /\ TypeOK /\ Place(proc[p]) /\ HolderInv(p) /\ proc[p].pc = "running"
      /\ UNCHANGED <<row, chain, lock, main, answers, byHand>> /\ proc \in [Processes -> Procs]
      /\ NoProcess \notin Processes
  BY FreshAssumption DEF Inv, PlaceInv, GitProgress, GitReturns, TypeOK, Procs, history
<1>1. /\ lock = p /\ proc[p].ident \in Idents /\ MyChain(p) \in Chains
      /\ proc[p].key \in DOMAIN chain[MyChain(p)]
      /\ chain[MyChain(p)][proc[p].key].phase = "PREPARED"
      /\ main' \in Nat /\ lock' \in Processes \cup {NoProcess}
  BY <1>0, ChainTypes DEF HolderInv, Place, TypeOK
<1>2. stage' \in [Idents -> Stages] /\ faults' \in Nat
  <2>1. CASE GitProgress(p)
    <3>1. stage[proc[p].ident] \in {"none", "branch", "residue"}
      BY <1>0, <1>1, <2>1 DEF GitProgress, TypeOK, Stages
    <3> QED
      BY <1>0, <1>1, <2>1, <3>1 DEF GitProgress, TypeOK, Stages, history
  <2>2. CASE GitReturns(p)
    <3>1. stage \in [Idents -> Stages] /\ faults \in Nat /\ "branch" \in Stages
      BY <1>0 DEF TypeOK, Stages
    <3>2. stage' = stage \/ stage' = [stage EXCEPT ![proc[p].ident] = "branch"]
      BY <2>2 DEF GitReturns
    <3>3. faults' = faults \/ faults' = faults + 1
      BY <2>2 DEF GitReturns
    <3>4. stage' \in [Idents -> Stages]
      BY <3>1, <3>2
    <3> QED
      BY <3>1, <3>3, <3>4
  <2> QED
    BY <2>1, <2>2
<1>3. Holds
  BY <1>0, <1>1, <1>2, StageHolds
<1>4. PICK r \in Procs : /\ Moves(p, r) /\ r.pc \in {"running", "verify"} /\ r.ident = proc[p].ident
                         /\ r.base = proc[p].base /\ r.kind = proc[p].kind /\ r.key = proc[p].key
  <2>1. CASE GitProgress(p)
    <3>1. proc' = proc /\ proc[p] \in Procs
      BY <1>0, <2>1 DEF GitProgress
    <3>2. Moves(p, proc[p])
      BY <1>0, <3>1 DEF Moves
    <3> QED
      BY <1>0, <3>1, <3>2
  <2>2. CASE GitReturns(p)
    BY <1>0, <2>2, GotoFacts DEF GitReturns, Gets, Labels
  <2> QED
    BY <2>1, <2>2
<1>5. \A q \in Processes \ {p} : Spares(q)
  <2>1. Entitled(p)
    BY <1>0, <1>1 DEF Entitled
  <2> QED
    BY <1>4, <2>1, SparesOthers
<1>6. proc'[p] = r /\ MyChain(p)' = MyChain(p)
  BY <1>4 DEF Moves, MyChain
<1>7. HolderInv(p)' /\ PlaceInv(p)'
  BY <1>0, <1>1, <1>4, <1>6 DEF HolderInv, PlaceInv, Place
<1> QED
  BY <1>0, <1>1, <1>2, <1>3, <1>4, <1>5, <1>7 DEF Acts, Answered, Moves

LEMMA OthersAct ==
  ASSUME Inv, MainAdvances \/ OperatorTransition \/ AgentWorks
  PROVE  /\ Holds /\ UNCHANGED <<proc, lock, answers>> /\ main' \in Nat /\ faults' \in Nat
         /\ \A q \in Processes : Spares(q)
<1>0. TypeOK /\ RowInv /\ NoProcess \notin Processes
  BY FreshAssumption DEF Inv
<1>1. CASE MainAdvances
  <2>1. Holds
    BY <1>1, QuietHolds DEF MainAdvances, history
  <2> QED
    BY <1>0, <1>1, <2>1 DEF MainAdvances, history, Spares, TypeOK
<1>2. CASE OperatorTransition
  <2>1. PICK target \in OperatorTargets :
          /\ row' = [row EXCEPT !.state = target]
          /\ byHand' = (byHand \/ target = "DISPATCHED")
    BY <1>2 DEF OperatorTransition
  <2>2. target \in TaskStates /\ target # NoState
    BY TargetsAssumption DEF TaskStates, Allowed, NoState
  <2>3. /\ row' \in RowTypes /\ row'.state = target /\ row'.path = row.path /\ row'.ident = row.ident
    BY <1>0, <2>1, <2>2 DEF RowTypes, TypeOK
  <2>4. byHand' \in BOOLEAN /\ (byHand => byHand') /\ (row'.state = "DISPATCHED" => byHand')
    BY <1>0, <2>1, <2>3 DEF TypeOK
  <2>5. UNCHANGED <<chain, stage>> /\ UNCHANGED <<proc, lock, main, answers, faults>> /\ lock = NoProcess
    BY <1>2 DEF OperatorTransition
  <2>6. Holds
    BY <2>2, <2>3, <2>4, <2>5, RowHolds
  <2> QED
    BY <1>0, <2>5, <2>6 DEF Spares, TypeOK
<1>3. CASE AgentWorks
  <2>1. stage' \in [Idents -> Stages]
    BY <1>0, <1>3 DEF AgentWorks, TypeOK, Stages
  <2>2. Holds
    BY <1>3, <2>1, StageHolds DEF AgentWorks, history
  <2> QED
    BY <1>0, <1>3, <2>2 DEF AgentWorks, history, Spares, TypeOK
<1> QED
  BY <1>1, <1>2, <1>3

-----------------------------------------------------------------------------
(* The invariant and what follows from it.                                 *)
LEMMA KeepsAnswers ==
  ASSUME Inv, AnswersInv, Grows,
         answers' = answers \/ \E p \in Processes : Answered(p)
  PROVE  AnswersInv'
<1>1. answers \subseteq Idents /\ NoIdent \notin Idents
  BY FreshAssumption DEF Inv, TypeOK
<1>2. byHand' \/ \A i \in answers : row'.path = i
  BY <1>1 DEF AnswersInv, Grows
<1>3. byHand' \/ \A i \in answers' \ answers : row'.path = i
  BY DEF Answered
<1> QED
  BY <1>2, <1>3 DEF AnswersInv

LEMMA Invariance == Spec => []IInv
<1>1. Init => IInv
  <2> SUFFICES ASSUME Init PROVE IInv
    OBVIOUS
  <2>1. /\ row.state \in TaskStates \cup {NoState} /\ row \in RowTypes
        /\ row.ident = NoIdent /\ row.path = NoIdent /\ row.state # "DISPATCHED"
    BY DEF Init, NoRow, RowTypes, TaskStates, Allowed, NoState
  <2>2. TypeOK
    <3>1. chain \in [Chains -> Seq(Operations)] /\ stage \in [Idents -> Stages]
      BY StagesAssumption DEF Init
    <3>2. proc \in [Processes -> Procs]
      BY IdleTyped DEF Init
    <3>3. lock = NoProcess /\ main \in Nat /\ answers = {} /\ byHand = FALSE /\ faults \in Nat
      BY DEF Init
    <3> QED
      BY <2>1, <3>1, <3>2, <3>3 DEF TypeOK, RowTypes, Procs
  <2>3. \A c \in Chains : DOMAIN chain[c] = {}
    BY DEF Init
  <2>4. RowInv /\ OpsInv /\ SoleInv /\ AnswersInv
    BY <2>1, <2>3 DEF RowInv, OpsInv, SoleInv, AnswersInv, Init
  <2>5. \A p \in Processes : HolderInv(p) /\ PlaceInv(p)
    BY FreshAssumption DEF Init, Idle, HolderInv, PlaceInv, Place
  <2> QED
    BY <2>2, <2>4, <2>5 DEF IInv, Inv
<1>2. IInv /\ [Next]_vars => IInv'
  <2> SUFFICES ASSUME IInv, [Next]_vars PROVE IInv'
    OBVIOUS
  <2>0. Inv /\ AnswersInv /\ answers \subseteq Idents
    BY DEF IInv, Inv, TypeOK
  <2>1. ASSUME NEW p \in Processes, Acts(p) PROVE IInv'
    <3>1. Holds /\ AnswersInv'
      BY <2>0, <2>1, KeepsAnswers DEF Acts, Holds
    <3>2. answers' \subseteq Idents
      BY <2>0, <2>1 DEF Acts, Answered
    <3>3. TypeOK'
      BY <2>1, <3>1, <3>2 DEF Acts, Holds, TypeOK, RowTypes, Procs
    <3>4. ASSUME NEW q \in Processes PROVE HolderInv(q)' /\ PlaceInv(q)'
      BY <2>0, <2>1, <3>1, SparedStays DEF Acts, Holds
    <3> QED
      BY <3>1, <3>3, <3>4 DEF IInv, Inv, Holds
  <2>2. ASSUME MainAdvances \/ OperatorTransition \/ AgentWorks PROVE IInv'
    <3>1. /\ Holds /\ UNCHANGED <<proc, lock, answers>> /\ main' \in Nat /\ faults' \in Nat
          /\ \A q \in Processes : Spares(q)
      BY <2>0, <2>2, OthersAct
    <3>2. AnswersInv'
      BY <2>0, <3>1, KeepsAnswers DEF Holds
    <3>3. TypeOK'
      BY <2>0, <3>1 DEF Inv, Holds, TypeOK, RowTypes
    <3>4. ASSUME NEW q \in Processes PROVE HolderInv(q)' /\ PlaceInv(q)'
      BY <2>0, <3>1, SparedStays DEF Holds
    <3> QED
      BY <3>1, <3>2, <3>3, <3>4 DEF IInv, Inv, Holds
  <2>3. CASE UNCHANGED vars
    <3>1. TypeOK' /\ RowInv' /\ OpsInv' /\ SoleInv' /\ AnswersInv'
      BY <2>0, <2>3 DEF Inv, vars, history, TypeOK, RowInv, OpsInv, SoleInv, AnswersInv
    <3>2. ASSUME NEW q \in Processes PROVE HolderInv(q)' /\ PlaceInv(q)'
      BY <2>0, <2>3 DEF Inv, vars, history, HolderInv, PlaceInv, Place, MyChain
    <3> QED
      BY <3>1, <3>2 DEF IInv, Inv
  <2>4. ASSUME NEW p \in Processes, Step(p) PROVE Acts(p)
    BY <2>0, <2>4, RegisterActs, AnswerActs, ReadActs, KeyActs, ReconcileActs, ReserveActs,
       ExecuteKnownActs, ExecuteNewActs, SettleOwnActs, AttachActs, MarkActs, ConfirmActs,
       DispatchActs, GitActs DEF Step
  <2> QED
    BY <2>0, <2>1, <2>2, <2>3, <2>4, BeginActs, AnswerActs DEF Next
<1> QED
  BY <1>1, <1>2, PTL DEF Spec

LEMMA OneCommitted ==
  ASSUME SoleInv
  PROVE  Cardinality({o \in Ops : chain[o[1]][o[2]].phase = "COMMITTED"}) <= 1
<1> DEFINE C == {o \in Ops : chain[o[1]][o[2]].phase = "COMMITTED"}
<1> SUFFICES Cardinality(C) <= 1
  OBVIOUS
<1>0. \A u \in C : u \in Ops /\ chain[u[1]][u[2]].phase = "COMMITTED"
  OBVIOUS
<1> HIDE DEF C
<1>1. CASE C = {}
  <2>1. Cardinality(C) = 0
    BY <1>1, FS_EmptySet
  <2> QED
    BY <2>1
<1>2. CASE C # {}
  <2>1. PICK o \in C : TRUE
    BY <1>2
  <2>2. ASSUME NEW u \in C PROVE u = o
    <3>1. PICK c \in Chains : u \in {c} \X DOMAIN chain[c]
      BY <1>0 DEF Ops
    <3>2. PICK d \in Chains : o \in {d} \X DOMAIN chain[d]
      BY <1>0, <2>1 DEF Ops
    <3>3. PICK n \in DOMAIN chain[c] : u = <<c, n>>
      BY <3>1
    <3>4. PICK m \in DOMAIN chain[d] : o = <<d, m>>
      BY <3>2
    <3>5. chain[c][n].phase \in Live /\ chain[d][m].phase \in Live
      BY <1>0, <2>1, <2>2, <3>3, <3>4 DEF Live
    <3> QED
      BY <3>3, <3>4, <3>5 DEF SoleInv
  <2>3. C = {o}
    BY <2>1, <2>2
  <2>4. Cardinality({o}) = 1
    BY FS_Singleton
  <2> QED
    BY <2>3, <2>4
<1> QED
  BY <1>1, <1>2

LEMMA OpsFacts ==
  ASSUME NEW o \in Ops
  PROVE  o[1] \in Chains /\ o[2] \in DOMAIN chain[o[1]]
BY DEF Ops

(* Whoever races to start or repair the dispatch, in however many          *)
(* processes, under whatever identities and from whatever residue: every   *)
(* Git operation ever prepared is of the identity the row has reserved,    *)
(* and at most one succeeded.  (And all variables are of their types.)     *)
THEOREM OneWorktreeCorrect == Spec => []OneWorktree
<1>1. ASSUME IInv PROVE OneWorktree
  <2>1. TypeOK /\ SoleInv /\ OpsInv
    BY <1>1 DEF IInv, Inv
  <2>2. \A o \in Ops : chain[o[1]][o[2]].ident = row.ident
    BY <2>1, OpsFacts DEF OpsInv
  <2> QED
    BY <2>1, <2>2, OneCommitted DEF OneWorktree
<1> QED
  BY <1>1, Invariance, PTL

(* While a git worktree add runs and until its outcome is settled, the     *)
(* task it was decided for has not moved under it: the lock is held, and   *)
(* no other start, repair or command of the control plane gets past it.    *)
THEOREM CommandCorrect == Spec => []CommandOnPlannedTask
<1>1. IInv => CommandOnPlannedTask
  BY DEF IInv, Inv, HolderInv, CommandOnPlannedTask
<1> QED
  BY <1>1, Invariance, PTL

(* A recorded worktree path comes from a verified operation of the         *)
(* reserved identity, a callback marked completed has attached it, and     *)
(* whoever was told that the write task is started finds the worktree      *)
(* recorded, unless another command had called the task DISPATCHED.        *)
THEOREM AttachedCorrect == Spec => []AttachedIsVerified
<1>1. ASSUME IInv PROVE AttachedIsVerified
  <2>1. TypeOK /\ RowInv /\ OpsInv /\ AnswersInv
    BY <1>1 DEF IInv, Inv
  <2>2. ASSUME row.path # NoIdent
        PROVE  row.path = row.ident /\ \E o \in Ops : chain[o[1]][o[2]].phase = "COMMITTED"
    <3>1. PICK c \in Chains : \E n \in DOMAIN chain[c] : chain[c][n].phase = "COMMITTED"
      BY <2>1, <2>2 DEF RowInv
    <3>2. PICK n \in DOMAIN chain[c] : chain[c][n].phase = "COMMITTED"
      BY <3>1
    <3>3. <<c, n>> \in Ops
      BY DEF Ops
    <3> QED
      BY <2>1, <2>2, <3>2, <3>3 DEF RowInv
  <2>3. \A o \in Ops : chain[o[1]][o[2]].callback = "COMPLETED" => row.path # NoIdent
    BY <2>1, OpsFacts DEF OpsInv
  <2> QED
    BY <2>1, <2>2, <2>3 DEF AttachedIsVerified, AnswersInv
<1> QED
  BY <1>1, Invariance, PTL

-----------------------------------------------------------------------------
(* The refinement of TaskStart.  The worktree of the abstract dispatch.    *)
Some(phase) == \E c \in Chains : \E n \in DOMAIN chain[c] : chain[c][n].phase = phase
Worktree ==
  IF Some("COMMITTED") THEN "built" ELSE IF Some("PREPARED") THEN "attempted" ELSE "none"

LEMMA MapFacts ==
  /\ (IF \E o \in Ops : chain[o[1]][o[2]].phase = "COMMITTED" THEN "built"
      ELSE IF Prepared # {} THEN "attempted" ELSE "none") = Worktree
  /\ (IF \E o \in Ops : chain[o[1]][o[2]].phase = "COMMITTED" THEN "built"
      ELSE IF Prepared # {} THEN "attempted" ELSE "none")' = Worktree'
<1>1. ASSUME NEW phase PROVE (\E o \in Ops : chain[o[1]][o[2]].phase = phase) <=> Some(phase)
  <2>1. ASSUME NEW o \in Ops, chain[o[1]][o[2]].phase = phase PROVE Some(phase)
    BY <2>1, OpsFacts DEF Some
  <2>2. ASSUME NEW c \in Chains, NEW n \in DOMAIN chain[c], chain[c][n].phase = phase
        PROVE  \E o \in Ops : chain[o[1]][o[2]].phase = phase
    <3>1. <<c, n>> \in Ops
      BY DEF Ops
    <3> QED
      BY <2>2, <3>1
  <2> QED
    BY <2>1, <2>2 DEF Some
<1>2. ASSUME NEW phase PROVE (\E o \in Ops' : chain'[o[1]][o[2]].phase = phase) <=> Some(phase)'
  <2>1. ASSUME NEW o \in Ops', chain'[o[1]][o[2]].phase = phase PROVE Some(phase)'
    <3>1. o[1] \in Chains /\ o[2] \in DOMAIN chain'[o[1]]
      BY DEF Ops
    <3> QED
      BY <2>1, <3>1 DEF Some
  <2>2. ASSUME NEW c \in Chains, NEW n \in DOMAIN chain'[c], chain'[c][n].phase = phase
        PROVE  \E o \in Ops' : chain'[o[1]][o[2]].phase = phase
    <3>1. <<c, n>> \in Ops'
      BY DEF Ops
    <3> QED
      BY <2>2, <3>1
  <2> QED
    BY <2>1, <2>2 DEF Some
<1>3. /\ Prepared # {} <=> \E o \in Ops : chain[o[1]][o[2]].phase = "PREPARED"
      /\ Prepared' # {} <=> \E o \in Ops' : chain'[o[1]][o[2]].phase = "PREPARED"
  BY DEF Prepared
<1> QED
  BY <1>1, <1>2, <1>3 DEF Worktree

(* An operation is settled: it was the only one alive.                     *)
LEMMA SettleRefines ==
  ASSUME Inv, UNCHANGED row, NEW c \in Chains, NEW n \in DOMAIN chain[c], NEW class,
         chain[c][n].phase = "PREPARED", SettleRow(c, n, class)
  PROVE  Promise!Settle
<1>1. TypeOK /\ SoleInv
  BY DEF Inv
<1>2. PICK op \in Operations :
        /\ Rewrites(c, n, op) /\ op.phase = IF class = "healthy" THEN "COMMITTED" ELSE "FAILED"
  BY <1>1, SettleFacts
<1>3. /\ \A d \in Chains : DOMAIN chain'[d] = DOMAIN chain[d]
      /\ chain'[c][n] = op
      /\ \A d \in Chains : \A m \in DOMAIN chain[d] : d # c \/ m # n => chain'[d][m] = chain[d][m]
  BY <1>2 DEF Rewrites
<1>4. \A d \in Chains : \A m \in DOMAIN chain[d] : d # c \/ m # n => chain[d][m].phase \notin Live
  BY <1>1 DEF SoleInv, Live
<1>5. Worktree = "attempted"
  BY <1>4 DEF Worktree, Some, Live
<1>6. Worktree' \in {"none", "built"}
  <2>1. ~Some("PREPARED")'
    BY <1>2, <1>3, <1>4 DEF Some, Live
  <2> QED
    BY <2>1 DEF Worktree
<1> QED
  BY <1>5, <1>6, MapFacts DEF Promise!Settle

LEMMA AttemptRefines ==
  ASSUME Inv, NEW p \in Processes, ExecuteNew(p), chain' # chain
  PROVE  Promise!Attempt
<1> DEFINE c == MyChain(p)
           op == [ident |-> proc[p].ident, phase |-> "PREPARED", callback |-> "PENDING"]
<1>0. /\ TypeOK /\ RowInv /\ OpsInv /\ Place(proc[p]) /\ proc[p].pc = "execute" /\ row' = row
      /\ NoIdent \notin Idents
  BY FreshAssumption DEF Inv, PlaceInv, ExecuteNew
<1>1. /\ Prepared = {} /\ Preflight(p) /\ chain' = [chain EXCEPT ![c] = Append(@, op)]
  BY DEF ExecuteNew
<1>2. /\ proc[p].ident \in Idents /\ row.ident = proc[p].ident /\ c \in Chains /\ op \in Operations
  BY <1>0, ChainTypes DEF Place, Operations
<1>3. Extends(c, op)
  BY <1>0, <1>1, <1>2, ExtendFacts
<1>4. /\ c \in Chains /\ Len(chain[c]) + 1 \in DOMAIN chain'[c] /\ chain'[c][Len(chain[c]) + 1] = op
      /\ \A d \in Chains : \A m \in DOMAIN chain[d] : chain'[d][m] = chain[d][m]
      /\ \A d \in Chains : \A m \in DOMAIN chain'[d] :
           m \in DOMAIN chain[d] \/ (d = c /\ m = Len(chain[c]) + 1)
  BY <1>2, <1>3 DEF Extends
<1>5. row.state = "PLANNED" /\ row.path = NoIdent /\ row.ident # NoIdent
  BY <1>0, <1>1, <1>2 DEF Preflight
<1>6. ~Some("COMMITTED")
  <2>1. stage[row.ident] # "healthy"
    <3>1. Class(p) \in {"none", "branch"}
      BY <1>1 DEF Preflight, Expected
    <3> QED
      BY <1>0, <1>2, <3>1, ReadingFacts
  <2> QED
    BY <1>0, <1>5, <2>1 DEF OpsInv, Some
<1>7. ~Some("PREPARED")
  <2>1. ASSUME NEW d \in Chains, NEW m \in DOMAIN chain[d] PROVE chain[d][m].phase # "PREPARED"
    <3>1. <<d, m>> \in Ops
      BY DEF Ops
    <3> QED
      BY <1>1, <3>1 DEF Prepared
  <2> QED
    BY <2>1 DEF Some
<1>8. ~Some("COMMITTED")' /\ Some("PREPARED")'
  <2> HIDE DEF c
  <2>1. Some("PREPARED")'
    BY <1>4 DEF Some
  <2>2. ~Some("COMMITTED")'
    BY <1>4, <1>6 DEF Some
  <2> QED
    BY <2>1, <2>2
<1>9. Worktree = "none" /\ Worktree' = "attempted"
  BY <1>6, <1>7, <1>8 DEF Worktree
<1> QED
  BY <1>0, <1>5, <1>9, MapFacts DEF Promise!Attempt

(* A callback is marked: no operation changes its phase.                   *)
LEMMA MarkRefines ==
  ASSUME Inv, NEW p \in Processes, Mark(p)
  PROVE  row' = row /\ Worktree' = Worktree
<1>0. /\ TypeOK /\ Place(proc[p]) /\ proc[p].pc = "mark" /\ row' = row
      /\ chain' = [chain EXCEPT ![MyChain(p)][proc[p].key].callback = "COMPLETED"]
  BY DEF Inv, PlaceInv, Mark
<1>1. MyChain(p) \in Chains /\ proc[p].key \in DOMAIN chain[MyChain(p)]
  BY <1>0, ChainTypes DEF Place, MyChain
<1>2. PICK op \in Operations :
        Rewrites(MyChain(p), proc[p].key, op) /\ op.phase = chain[MyChain(p)][proc[p].key].phase
  BY <1>0, <1>1, MarkFacts
<1>3. \A d \in Chains : /\ DOMAIN chain'[d] = DOMAIN chain[d]
                        /\ \A m \in DOMAIN chain[d] : chain'[d][m].phase = chain[d][m].phase
  BY <1>2 DEF Rewrites
<1> QED
  BY <1>0, <1>3 DEF Worktree, Some

LEMMA ReconcileRefines ==
  ASSUME Inv, NEW p \in Processes, ReconcileCreate(p) \/ ReconcileKey(p)
  PROVE  Promise!Settle \/ (row' = row /\ chain' = chain)
<1>0. TypeOK /\ Place(proc[p])
  BY DEF Inv, PlaceInv
<1>1. ASSUME NEW label, NEW c \in Chains, NEW next,
             proc[p].key \in DOMAIN chain[c], ReconcileOne(p, label, c, next)
      PROVE  Promise!Settle \/ (row' = row /\ chain' = chain)
  BY <1>1, SettleRefines DEF ReconcileOne
<1>2. CASE ReconcileCreate(p)
  <2>1. proc[p].pc = "reconcile" /\ ReconcileOne(p, "reconcile", "create", "route")
    BY <1>2 DEF ReconcileCreate, ReconcileOne
  <2>2. "create" \in Chains /\ proc[p].key \in DOMAIN chain["create"]
    BY <1>0, <2>1, ChainTypes DEF Place
  <2> QED
    BY <1>1, <2>1, <2>2
<1>3. CASE ReconcileKey(p)
  <2>1. proc[p].pc = "settle" /\ ReconcileOne(p, "settle", MyChain(p), "decide")
    BY <1>3 DEF ReconcileKey, ReconcileOne
  <2>2. MyChain(p) \in Chains /\ proc[p].key \in DOMAIN chain[MyChain(p)]
    BY <1>0, <2>1, ChainTypes DEF Place, MyChain
  <2> QED
    BY <1>1, <2>1, <2>2
<1> QED
  BY <1>2, <1>3

LEMMA SettleOwnRefines ==
  ASSUME Inv, NEW p \in Processes, SettleOwn(p)
  PROVE  Promise!Settle
<1>1. /\ TypeOK /\ Place(proc[p]) /\ HolderInv(p) /\ proc[p].pc = "verify" /\ row' = row
      /\ SettleRow(MyChain(p), proc[p].key, Class(p))
  BY DEF Inv, PlaceInv, SettleOwn
<1>2. /\ MyChain(p) \in Chains /\ proc[p].key \in DOMAIN chain[MyChain(p)]
      /\ chain[MyChain(p)][proc[p].key].phase = "PREPARED"
  BY <1>1, ChainTypes DEF HolderInv, Place
<1> QED
  BY <1>1, <1>2, SettleRefines

(* The steps that write the row.                                           *)
LEMMA RowRefines ==
  ASSUME Inv, NEW p \in Processes, Register(p) \/ Reserve(p) \/ Attach(p) \/ Dispatch(p)
  PROVE  row' = row \/ Promise!Plan \/ Promise!Name \/ Promise!Attach \/ Promise!Dispatch
<1> DEFINE i == proc[p].ident
<1>0. /\ TypeOK /\ RowInv /\ Place(proc[p]) /\ proc[p].pc # "idle" /\ i \in Idents
      /\ row \in RowTypes /\ NoIdent \notin Idents /\ UNCHANGED chain
  BY FreshAssumption
     DEF Inv, PlaceInv, Place, Register, Reserve, Attach, Dispatch, TypeOK, RowTypes
<1>1. Worktree' = Worktree
  BY <1>0 DEF Worktree, Some
<1>2. ASSUME row.state # NoState, row' = [row EXCEPT !.ident = i], row.ident \in {NoIdent, i}
      PROVE  row' = row \/ Promise!Name
  <2>1. CASE row.ident = i
    BY <1>0, <1>2, <2>1 DEF RowTypes
  <2>2. CASE row.ident = NoIdent
    <3>1. /\ row'.ident = i /\ row'.state = row.state /\ row'.base = row.base /\ row'.path = row.path
      BY <1>0, <1>2 DEF RowTypes
    <3> QED
      BY <1>0, <1>1, <1>2, <2>2, <3>1, MapFacts DEF Promise!Name
  <2> QED
    BY <1>2, <2>1, <2>2
<1>3. CASE Register(p)
  <2>1. CASE /\ row.state = NoState
             /\ row' = [state |-> "PLANNED", base |-> proc[p].base, ident |-> i, path |-> NoIdent]
    <3>1. row.path = NoIdent /\ proc[p].base \in Nat
      BY <1>0, <2>1 DEF RowInv, TypeOK
    <3>2. /\ row'.state = "PLANNED" /\ row'.base \in Nat /\ row'.ident \in Idents
          /\ row'.path = row.path
      BY <1>0, <2>1, <3>1
    <3> QED
      BY <1>1, <2>1, <3>2, MapFacts DEF Promise!Plan
  <2>2. CASE /\ row.state \in {"PLANNED", "DISPATCHED"}
             /\ <<row.ident, row.path>> \in {<<NoIdent, NoIdent>>, <<i, NoIdent>>, <<i, i>>}
             /\ row' = [row EXCEPT !.ident = i]
    BY <1>2, <2>2 DEF NoState
  <2> QED
    BY <1>3, <2>1, <2>2 DEF Register
<1>4. CASE Reserve(p)
  <2>1. row.state # NoState
    BY <1>0, <1>4 DEF Place, Reserve
  <2> QED
    BY <1>2, <1>4, <2>1 DEF Reserve, MayReserve
<1>5. CASE Attach(p)
  <2>1. /\ row.ident = i /\ Some("COMMITTED") /\ row.path \in {NoIdent, i}
    <3>1. proc[p].pc = "attach" /\ MyChain(p) \in Chains
      BY <1>0, <1>5, ChainTypes DEF Attach
    <3> QED
      BY <1>0, <3>1 DEF Place, RowInv, Some, MyChain
  <2>2. CASE row' = [row EXCEPT !.ident = i, !.path = i]
    <3>1. CASE row.path = i
      BY <1>0, <2>1, <2>2, <3>1 DEF RowTypes
    <3>2. CASE row.path = NoIdent
      <4>1. /\ row'.ident = row.ident /\ row'.path = row.ident
            /\ row'.state = row.state /\ row'.base = row.base
        BY <1>0, <2>1, <2>2 DEF RowTypes
      <4>2. Worktree = "built"
        BY <2>1 DEF Worktree
      <4> QED
        BY <1>1, <3>2, <4>1, <4>2, MapFacts DEF Promise!Attach
    <3> QED
      BY <2>1, <3>1, <3>2
  <2> QED
    BY <1>5, <2>2 DEF Attach
<1>6. CASE Dispatch(p)
  <2>1. /\ row.path = i /\ row.ident = i /\ Some("COMMITTED")
    BY <1>0, <1>6 DEF Place, Dispatch, RowInv, Some
  <2>2. CASE /\ Legal(row.state, "DISPATCHED", NoState)
             /\ row' = [row EXCEPT !.state = "DISPATCHED"]
    <3>1. /\ row'.state = "DISPATCHED" /\ row'.ident = row.ident /\ row'.path = row.path
          /\ row'.base = row.base
      BY <1>0, <2>2 DEF RowTypes
    <3>2. Worktree = "built"
      BY <2>1 DEF Worktree
    <3>3. row.state \in {s \in TaskStates : Legal(s, "DISPATCHED", NoState)}
      <4>1. row.state # NoState
        BY <1>0, <2>1 DEF RowInv
      <4> QED
        BY <1>0, <2>2, <4>1 DEF RowTypes
    <3> QED
      BY <1>0, <1>1, <2>1, <3>1, <3>2, <3>3, MapFacts DEF Promise!Dispatch
  <2> QED
    BY <1>6, <2>2 DEF Dispatch
<1> QED
  BY <1>3, <1>4, <1>5, <1>6

LEMMA CommandRefines ==
  ASSUME Inv, OperatorTransition
  PROVE  Promise!Command
<1>0. TypeOK
  BY DEF Inv
<1>1. PICK t \in OperatorTargets :
        Legal(row.state, t, NoState) /\ row' = [row EXCEPT !.state = t]
  BY DEF OperatorTransition
<1>2. /\ row'.state = t /\ row'.ident = row.ident /\ row'.path = row.path /\ row'.base = row.base
      /\ row.state \in TaskStates /\ chain' = chain
  BY <1>0, <1>1 DEF OperatorTransition, TypeOK
<1>3. Worktree' = Worktree
  BY <1>2 DEF Worktree, Some
<1>4. <<row.state, row'.state>> \in {m \in TaskStates \X OperatorTargets : Legal(m[1], m[2], NoState)}
  BY <1>1, <1>2
<1> QED
  BY <1>2, <1>3, <1>4, MapFacts DEF Promise!Command

(* However starts, repairs and other commands of one dispatch are          *)
(* interleaved, repeated or cut short, what becomes of its row and its     *)
(* worktree is what a start promises.                                      *)
THEOREM StartRefined == Spec => StartKeepsPromise
<1>1. Init => Promise!Init
  <2> SUFFICES ASSUME Init PROVE Promise!Init
    OBVIOUS
  <2>1. /\ row.state \in {NoState, "PLANNED"} /\ row.base = 0
        /\ row.ident = NoIdent /\ row.path = NoIdent
    BY DEF Init, NoRow
  <2>2. Worktree = "none"
    BY DEF Init, Worktree, Some
  <2> QED
    BY <2>1, <2>2, MapFacts DEF Promise!Init
<1>2. IInv /\ [Next]_vars => [Promise!Next]_Promise!vars
  <2> SUFFICES ASSUME Inv, [Next]_vars PROVE Promise!Next \/ UNCHANGED Promise!vars
    BY DEF IInv
  <2>1. ASSUME row' = row, Worktree' = Worktree PROVE UNCHANGED Promise!vars
    BY <2>1, MapFacts DEF Promise!vars
  <2>2. chain' = chain => Worktree' = Worktree
    BY DEF Worktree, Some
  <2>3. CASE UNCHANGED vars
    BY <2>1, <2>2, <2>3 DEF vars
  <2>4. CASE MainAdvances \/ AgentWorks
    BY <2>1, <2>2, <2>4 DEF MainAdvances, AgentWorks
  <2>5. CASE OperatorTransition
    BY <2>5, CommandRefines DEF Promise!Next
  <2>6. ASSUME NEW p \in Processes,
               \/ Crash(p) \/ AlreadyDispatched(p) \/ ListPrepared(p) \/ Route(p) \/ FreshReport(p)
               \/ ChooseKey(p) \/ Decide(p) \/ AssertPlanned(p) \/ ExecuteKnown(p)
               \/ VerifierRaises(p) \/ Confirm(p) \/ Rescue(p) \/ LockTimeout(p)
               \/ GitProgress(p) \/ GitReturns(p)
               \/ \E i \in Idents : Start(p, i) \/ Repair(p, i)
        PROVE  row' = row /\ chain' = chain
    BY <2>6 DEF Crash, AlreadyDispatched, ListPrepared, Route, FreshReport, ChooseKey, Decide,
         AssertPlanned, ExecuteKnown, VerifierRaises, Confirm, Rescue, LockTimeout, GitProgress,
         GitReturns, Start, Repair
  <2>7. ASSUME NEW p \in Processes, Register(p) \/ Reserve(p) \/ Attach(p) \/ Dispatch(p)
        PROVE  Promise!Next \/ UNCHANGED Promise!vars
    <3>1. chain' = chain
      BY <2>7 DEF Register, Reserve, Attach, Dispatch
    <3> QED
      BY <2>1, <2>2, <2>7, <3>1, RowRefines DEF Promise!Next
  <2>8. ASSUME NEW p \in Processes, ReconcileCreate(p) \/ ReconcileKey(p) \/ SettleOwn(p)
        PROVE  Promise!Next \/ UNCHANGED Promise!vars
    BY <2>1, <2>2, <2>8, ReconcileRefines, SettleOwnRefines DEF Promise!Next
  <2>9. ASSUME NEW p \in Processes, ExecuteNew(p) PROVE Promise!Next \/ UNCHANGED Promise!vars
    <3>1. row' = row
      BY <2>9 DEF ExecuteNew
    <3> QED
      BY <2>1, <2>2, <2>9, <3>1, AttemptRefines DEF Promise!Next
  <2>10. ASSUME NEW p \in Processes, Mark(p) PROVE UNCHANGED Promise!vars
    BY <2>1, <2>10, MarkRefines
  <2> QED
    BY <2>1, <2>2, <2>3, <2>4, <2>5, <2>6, <2>7, <2>8, <2>9, <2>10 DEF Next, Step
<1> QED
  BY <1>1, <1>2, Invariance, PTL DEF Spec, StartKeepsPromise, Promise!Spec
=============================================================================
