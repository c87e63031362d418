---------------------------- MODULE AgentReports ----------------------------
(***************************************************************************)
(* The records that grow around a task while it lives: beside its row and  *)
(* history (Lifecycle) the progress reports of its agents                  *)
(* (upsert_agent_status in team_control/store.py).  An agent's reports     *)
(* reach the store in any order, some never and some several times; the    *)
(* time in a report is the agent's, normalised so that the text order is   *)
(* the order of time.  The upsert is one transaction under the control     *)
(* lock.                                                                   *)
(***************************************************************************)
EXTENDS Lifecycle

CONSTANTS Agents, Times, Bodies,  \* what else a report says
          None

ASSUME TimesAssumption == Times \subseteq Nat

Reports == [at : Times, body : Bodies]
ASSUME NoneAssumption == None \notin Reports

VARIABLES
  stored,     \* stored[d, a]: the agents row of agent a for task d
  arrived     \* history: arrived[d, a]: the reports that were taken or refused

reports == <<stored, arrived>>
records == <<vars, reports>>

RecordsInit ==
  /\ Init
  /\ stored = [k \in Tasks \X Agents |-> None]
  /\ arrived = [k \in Tasks \X Agents |-> {}]

(* Faulty variant: a report is stored whatever its time.                   *)
ReplacesAlways(old, new) == old # new
Replaces(old, new) == old = None \/ new.at > old.at

(* An older report is refused as stale, another one of the same time as a  *)
(* conflict; the very report that is stored is confirmed.  A report about  *)
(* a task that does not exist raises KeyError.                             *)
Upsert(d, a, report) ==
  /\ Exists(d)
  /\ stored' = [stored EXCEPT ![<<d, a>>] = IF Replaces(@, report) THEN report ELSE @]
  /\ arrived' = [arrived EXCEPT ![<<d, a>>] = @ \cup {report}]
  /\ UNCHANGED vars

RecordsNext ==
  \/ Next /\ UNCHANGED reports
  \/ \E d \in Tasks, a \in Agents, report \in Reports : Upsert(d, a, report)

RecordsSpec == RecordsInit /\ [][RecordsNext]_records

-----------------------------------------------------------------------------
ReportsTypeOK ==
  /\ stored \in [Tasks \X Agents -> Reports \cup {None}]
  /\ arrived \in [Tasks \X Agents -> SUBSET Reports]

(* Whatever the order of arrival, and however often, an agent is shown     *)
(* with a latest one of the reports that arrived: the order they arrive in *)
(* matters only between reports of the same time.                          *)
LatestShown ==
  \A k \in Tasks \X Agents :
    IF stored[k] = None THEN arrived[k] = {}
    ELSE /\ stored[k] \in arrived[k]
         /\ \A report \in arrived[k] : report.at <= stored[k].at
=============================================================================
