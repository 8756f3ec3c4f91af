---------------------------- MODULE EnrichmentTasks -----------------------------
(***************************************************************************)
(* The EnrichmentTask nodes of the graph and the endpoints that write and  *)
(* read them (routes.py): a report of a knowledge gap is merged by an id   *)
(* that is the same for a user's repeated report within a 15-minute window *)
(* of the clock; the list of the tasks is read in two queries, first the   *)
(* items and then their number.                                            *)
(*                                                                         *)
(* A call that is refused, by its token or by the database, changes        *)
(* nothing; a client may repeat it, and also one whose answer got lost.     *)
(***************************************************************************)
EXTENDS Naturals, FiniteSets

CONSTANTS
  Reports,     \* the calls of /enrichment/report
  Asks,        \* what they report: the user and the description
  ReportTTL,   \* _ENRICHMENT_REPORT_TTL in ticks of the clock
  ChainTask,   \* the id of a task that the reflection agent created
  ChainItem,   \* what that task is about
  MaxTime      \* the clock stops here

ASSUME TasksAssumption ==
  /\ \A a \in Asks : DOMAIN a = {"user", "description"}
  /\ ReportTTL \in Nat \ {0} /\ MaxTime \in Nat

VARIABLES
  clock,     \* time.time(), in ticks
  tasks,     \* the EnrichmentTask nodes
  ask,       \* what a call reports
  report,    \* a call: "new" (also: to be repeated), "hashed", "answered"
  task_id    \* the task_id that a call computed

taskVars == <<clock, tasks, ask, report, task_id>>

Filters == {"open", "resolved", "all"}

\* As TaskId, but every report has an id of its own second.
TaskIdOfNow(a, time) == <<a.user, a.description, time>>

\* As TaskId, but without the user.
TaskIdOfGap(a, time) == <<a.description, time \div ReportTTL>>

\* sha256(user | description | window of the clock)
TaskId(a, time) == <<a.user, a.description, time \div ReportTTL>>

\* A task of the reflection agent has no id but the one of Neo4j, which is not
\* the hash of a report.
ASSUME ChainTaskAssumption ==
  \A a \in Asks, t \in 0..MaxTime : TaskId(a, t) # ChainTask

InitTasks ==
  /\ clock = 0
  /\ tasks = {[id |-> ChainTask, about |-> ChainItem, status |-> "open"]}
  /\ ask \in [Reports -> Asks]
  /\ report = [r \in Reports |-> "new"]
  /\ task_id = [r \in Reports |-> ChainTask]

Tick ==
  /\ clock < MaxTime
  /\ clock' = clock + 1
  /\ UNCHANGED <<tasks, ask, report, task_id>>

(* A report arrives, for the first time or again: the id is computed.      *)
Hash(r) ==
  /\ report[r] = "new"
  /\ report' = [report EXCEPT ![r] = "hashed"]
  /\ task_id' = [task_id EXCEPT ![r] = TaskId(ask[r], clock)]
  /\ UNCHANGED <<clock, tasks, ask>>

\* The client knows nothing of the outcome, and may send the report again.
Forget(r) ==
  /\ report' = [report EXCEPT ![r] = "new"]
  /\ task_id' = [task_id EXCEPT ![r] = ChainTask]

\* As Merge, but the node is created again.
MergeReopens(nodes, n) == {t \in nodes : t.id # n.id} \cup {n}

\* MERGE ... ON CREATE SET: a node that is found stays as it is.
Merge(nodes, n) ==
  IF \E t \in nodes : t.id = n.id THEN nodes ELSE nodes \cup {n}

(* The node is merged; the answer reaches the client or gets lost.         *)
MergeReport(r) ==
  /\ report[r] = "hashed"
  /\ tasks' = Merge(tasks, [id |-> task_id[r], about |-> ask[r],
                            status |-> "open"])
  /\ \/ Forget(r)
     \/ report' = [report EXCEPT ![r] = "answered"] /\ UNCHANGED task_id
  /\ UNCHANGED <<clock, ask>>

(* The query raises.                                                       *)
ReportFails(r) ==
  /\ report[r] = "hashed"
  /\ Forget(r)
  /\ UNCHANGED <<clock, tasks, ask>>

Reporting ==
  \/ Tick
  \/ \E r \in Reports : Hash(r) \/ MergeReport(r) \/ ReportFails(r)

\* The tasks of a filter, as _ENRICHMENT_TASKS_CYPHER returns them; the limit
\* is not reached.
TasksOf(filter) == {t \in tasks : filter \in {"all", t.status}}

\* _ENRICHMENT_TASKS_COUNT_CYPHER
CountOf(filter) == Cardinality(TasksOf(filter))

\* The values of the variables.
TasksTypeOK ==
  /\ clock \in 0..MaxTime
  /\ \A t \in tasks : t.status \in {"open", "resolved"}
  /\ ask \in [Reports -> Asks]
  /\ report \in [Reports -> {"new", "hashed", "answered"}]
  /\ \A r \in Reports :
       task_id[r] \in {ChainTask} \cup {TaskId(a, t) : a \in Asks, t \in 0..MaxTime}

-----------------------------------------------------------------------------
(* Properties.                                                             *)

\* A report that is answered names a task that is there and tells of what this
\* user described, although others reported and the call was repeated; and
\* however often it was repeated, there is one such task for each window.
ReportIsKept ==
  \A r \in Reports : report[r] = "answered" =>
    LET same == {t \in tasks : /\ t.about.user = ask[r].user
                               /\ t.about.description = ask[r].description}
    IN /\ \E t \in same : t.id = task_id[r]
       /\ Cardinality(same \ {t \in same : t.id = ChainTask})
            <= clock \div ReportTTL + 1
=============================================================================
