---------------------------- MODULE EnrichmentPages -----------------------------
(***************************************************************************)
(* The pages of the knowledge engineers in front of EnrichmentTasks.  The  *)
(* list asks for the tasks again whenever another filter is chosen, and    *)
(* shows what arrives: no earlier call is cancelled.  The page of a task   *)
(* writes to the graph and then resolves the task, in two calls.  The two  *)
(* endpoints of these calls are external: the backend of this repository   *)
(* does not have them.                                                     *)
(***************************************************************************)
EXTENDS EnrichmentTasks, Sequences

CONSTANTS
  KnowledgeEngineers,  \* each with the page of one task open
  MaxCalls,            \* bound: calls of the list
  MaxWrites            \* bound: write-backs of an engineer

ASSUME PagesAssumption == MaxCalls \in Nat \ {0} /\ MaxWrites \in Nat

VARIABLES
  \* the list (enrichment/page.tsx)
  filter,   \* the filter that is selected
  calls,    \* the calls of fetchTasks, in the order of the clicks
  shown,    \* the call whose answer is shown, 0 for none
  loading,
  error,
  \* the pages of the tasks ([taskId]/page.tsx)
  taskId,   \* the task of an engineer's page
  panel,    \* "closed", "idle", "writing", "resolving", "resolved"
  written   \* the write-backs of an engineer that the graph has taken

listVars == <<filter, calls, shown, loading, error>>
panelVars == <<taskId, panel, written>>
vars == <<taskVars, listVars, panelVars>>

\* A call that is over and of which nothing is shown.
Settled(call) == [call EXCEPT !.step = "settled", !.items = {}, !.total = 0]

CallFor(f) == [filter |-> f, step |-> "sent", items |-> {}, total |-> 0]

Init ==
  /\ InitTasks
  /\ filter = "open"
  /\ calls = <<CallFor("open")>>
  /\ shown = 0
  /\ loading = TRUE /\ error = FALSE
  /\ taskId = [e \in KnowledgeEngineers |-> ChainTask]
  /\ panel = [e \in KnowledgeEngineers |-> "closed"]
  /\ written = [e \in KnowledgeEngineers |-> 0]

-----------------------------------------------------------------------------
(* The list.                                                               *)

(* Another filter is selected, and the effect runs.                        *)
SetFilter(f) ==
  /\ f # filter /\ Len(calls) < MaxCalls
  /\ filter' = f
  /\ calls' = Append(calls, CallFor(f))
  /\ loading' = TRUE /\ error' = FALSE
  /\ UNCHANGED <<taskVars, shown, panelVars>>

\* As Reads, but the number is read first.
ReadsTotalFirst(i) ==
  \/ /\ calls[i].step = "sent"
     /\ calls' = [calls EXCEPT ![i].step = "listed",
                               ![i].total = CountOf(calls[i].filter)]
  \/ /\ calls[i].step = "listed"
     /\ calls' = [calls EXCEPT ![i].step = "read",
                               ![i].items = TasksOf(calls[i].filter)]

(* enrichment_tasks_endpoint: two queries, one after the other.            *)
Reads(i) ==
  \/ /\ calls[i].step = "sent"
     /\ calls' = [calls EXCEPT ![i].step = "listed",
                               ![i].items = TasksOf(calls[i].filter)]
  \/ /\ calls[i].step = "listed"
     /\ calls' = [calls EXCEPT ![i].step = "read",
                               ![i].total = CountOf(calls[i].filter)]

Serve(i) == Reads(i) /\ UNCHANGED <<taskVars, filter, shown, loading, error, panelVars>>

(* The answer arrives: then, finally.                                      *)
Arrives(i) ==
  /\ calls[i].step = "read"
  /\ calls' = [j \in DOMAIN calls |->
                 IF j = i THEN [calls[i] EXCEPT !.step = "settled"]
                 ELSE IF j = shown THEN Settled(calls[j]) ELSE calls[j]]
  /\ shown' = i
  /\ loading' = FALSE
  /\ UNCHANGED <<taskVars, filter, error, panelVars>>

(* The call fails, or is refused: catch, finally.                          *)
Fails(i) ==
  /\ calls[i].step # "settled"
  /\ calls' = [calls EXCEPT ![i] = Settled(@)]
  /\ error' = TRUE
  /\ loading' = FALSE
  /\ UNCHANGED <<taskVars, filter, shown, panelVars>>

-----------------------------------------------------------------------------
(* The page of a task.                                                     *)

(* The page of a task is opened; the engineer stays on it.                 *)
OpenTask(e) ==
  /\ panel[e] = "closed"
  /\ \E t \in tasks : taskId' = [taskId EXCEPT ![e] = t.id]
  /\ panel' = [panel EXCEPT ![e] = "idle"]
  /\ UNCHANGED <<taskVars, listVars, written>>

\* As FirstCall, but the task is resolved before the graph is written.
FirstCallResolve == "resolving"

FirstCall == "writing"

(* Commit to KG: handleSubmit begins.                                      *)
Commit(e) ==
  /\ panel[e] = "idle"
  /\ panel' = [panel EXCEPT ![e] = FirstCall]
  /\ UNCHANGED <<taskVars, listVars, taskId, written>>

(* graphWrite: it may fail, and its answer may get lost.                   *)
GraphWrite(e) ==
  /\ panel[e] = "writing"
  /\ \/ /\ written[e] < MaxWrites
        /\ written' = [written EXCEPT ![e] = @ + 1]
        /\ \E next \in {"resolving", "idle"} : panel' = [panel EXCEPT ![e] = next]
     \/ /\ panel' = [panel EXCEPT ![e] = "idle"]
        /\ UNCHANGED written
  /\ UNCHANGED <<taskVars, listVars, taskId>>

\* As Resolved, but a resolved task is removed.
ResolvedRemoves(nodes, id) == {t \in nodes : t.id # id}

Resolved(nodes, id) ==
  {IF t.id = id THEN [t EXCEPT !.status = "resolved"] ELSE t : t \in nodes}

(* resolveTask: likewise.                                                  *)
ResolveTask(e) ==
  /\ panel[e] = "resolving"
  /\ \/ /\ tasks' = Resolved(tasks, taskId[e])
        /\ \E next \in {"resolved", "idle"} : panel' = [panel EXCEPT ![e] = next]
     \/ /\ panel' = [panel EXCEPT ![e] = "idle"]
        /\ UNCHANGED tasks
  /\ UNCHANGED <<clock, ask, report, task_id, listVars, taskId, written>>

-----------------------------------------------------------------------------
Next ==
  \/ Reporting /\ UNCHANGED <<listVars, panelVars>>
  \/ \E f \in Filters : SetFilter(f)
  \/ \E i \in DOMAIN calls : Serve(i) \/ Arrives(i) \/ Fails(i)
  \/ \E e \in KnowledgeEngineers :
       \/ OpenTask(e) \/ Commit(e)
       \/ GraphWrite(e) \/ ResolveTask(e)

Spec == Init /\ [][Next]_vars

-----------------------------------------------------------------------------
(* Properties.                                                             *)

\* The values of the variables.
TypeOK ==
  /\ TasksTypeOK
  /\ filter \in Filters
  /\ Len(calls) \in 1..MaxCalls
  /\ \A i \in DOMAIN calls :
       /\ calls[i].filter \in Filters
       /\ calls[i].step \in {"sent", "listed", "read", "settled"}
       /\ calls[i].total \in Nat
  /\ shown \in 0..Len(calls)
  /\ loading \in BOOLEAN /\ error \in BOOLEAN
  /\ taskId \in [KnowledgeEngineers -> {t.id : t \in tasks}]
  /\ panel \in [KnowledgeEngineers ->
                  {"closed", "idle", "writing", "resolving", "resolved"}]
  /\ written \in [KnowledgeEngineers -> 0..MaxWrites]

\* What the list shows was so, and stays so but for open tasks that are
\* resolved since: each item is a task of the store, and the total, though it
\* is read later, is never less than the items unless open ones were asked.
ShownStaysTrue ==
  shown # 0 =>
    LET call == calls[shown]
    IN /\ \A item \in call.items :
            \/ item \in tasks
            \/ item.status = "open" /\ [item EXCEPT !.status = "resolved"] \in tasks
       /\ call.filter # "open" => call.total >= Cardinality(call.items)

\* A task is resolved, and a page says so, only after a write-back went into
\* the graph; and no page says so of a task that is open (again).
ResolvedIsWritten ==
  /\ \A t \in tasks : t.status = "resolved" =>
       \E e \in KnowledgeEngineers : written[e] > 0
  /\ \A e \in KnowledgeEngineers : panel[e] = "resolved" =>
       /\ written[e] > 0
       /\ \A t \in tasks : t.id = taskId[e] => t.status = "resolved"
=============================================================================
