----------------------------- MODULE TaskStart ------------------------------
(***************************************************************************)
(* What starting and repairing a write task promises of one dispatch,      *)
(* whoever races, fails, crashes or tries again: the task is planned once, *)
(* its base is never changed, it is named once, a worktree is attempted by *)
(* one command at a time and built at most once, its path is recorded only *)
(* when it has been verified, and the task is called DISPATCHED on its     *)
(* account only then.  Other commands change nothing but the state.        *)
(***************************************************************************)
EXTENDS Naturals

CONSTANTS Idents,
          Dispatchable,   \* states that may be followed by DISPATCHED
          Commands,       \* pairs of states other commands lead through
          NoState, NoIdent

VARIABLES
  state, base, ident, path,   \* what the row of the task says
  worktree                    \* "none", "attempted" or "built"

vars == <<state, base, ident, path, worktree>>

Init ==
  /\ state \in {NoState, "PLANNED"}
  /\ base = 0 /\ ident = NoIdent /\ path = NoIdent
  /\ worktree = "none"

Plan ==
  /\ state = NoState
  /\ state' = "PLANNED" /\ base' \in Nat /\ ident' \in Idents
  /\ UNCHANGED <<path, worktree>>

Name ==
  /\ state # NoState /\ ident = NoIdent
  /\ ident' \in Idents
  /\ UNCHANGED <<state, base, path, worktree>>

Attempt ==
  /\ state = "PLANNED" /\ ident # NoIdent /\ path = NoIdent
  /\ worktree = "none" /\ worktree' = "attempted"
  /\ UNCHANGED <<state, base, ident, path>>

Settle ==
  /\ worktree = "attempted" /\ worktree' \in {"none", "built"}
  /\ UNCHANGED <<state, base, ident, path>>

Attach ==
  /\ worktree = "built" /\ path = NoIdent
  /\ path' = ident
  /\ UNCHANGED <<state, base, ident, worktree>>

Dispatch ==
  /\ worktree = "built" /\ path # NoIdent /\ path = ident
  /\ state \in Dispatchable /\ state' = "DISPATCHED"
  /\ UNCHANGED <<base, ident, path, worktree>>

Command ==
  /\ <<state, state'>> \in Commands
  /\ UNCHANGED <<base, ident, path, worktree>>

Next == Plan \/ Name \/ Attempt \/ Settle \/ Attach \/ Dispatch \/ Command

Spec == Init /\ [][Next]_vars
=============================================================================
