---------------------------- MODULE EnrichmentProofs ----------------------------
(***************************************************************************)
(* Proofs about EnrichmentPages, for any number of reports, users, windows,*)
(* calls of the list and engineers: what becomes of a report, what the     *)
(* list shows and what a resolved task tells.                              *)
(***************************************************************************)
EXTENDS EnrichmentPages, FiniteSetTheorems, TLAPS

-----------------------------------------------------------------------------
(* Sets of task nodes.                                                     *)

TaskIds == {ChainTask} \cup {TaskId(a, t) : a \in Asks, t \in 0..MaxTime}

TaskNodes == [id : TaskIds, about : {ChainItem} \cup Asks,
              status : {"open", "resolved"}]

UniqueIds(nodes) == \A t, u \in nodes : t.id = u.id => t = u

\* A node is there as it was, or it was open and is resolved.
Tells(nodes, item) ==
  \/ item \in nodes
  \/ item.status = "open" /\ [item EXCEPT !.status = "resolved"] \in nodes

\* A set of nodes with ids of another set is no larger.
LEMMA NoMoreThanIds ==
  ASSUME NEW S, NEW T, IsFiniteSet(T), UniqueIds(S),
         \A s \in S : \E t \in T : t.id = s.id
  PROVE  IsFiniteSet(S) /\ Cardinality(S) <= Cardinality(T)
<1> DEFINE f == [s \in S |-> CHOOSE t \in T : t.id = s.id]
<1>1. \A s \in S : f[s] \in T /\ f[s].id = s.id
  OBVIOUS
<1>2. f \in [S -> T]
  BY <1>1
<1> HIDE DEF f
<1>3. ASSUME NEW s \in S, NEW u \in S, f[s] = f[u] PROVE s = u
  BY <1>1, <1>3 DEF UniqueIds
<1>4. f \in Injection(S, T)
  BY <1>2, <1>3 DEF Injection, IsInjective
<1> QED
  BY <1>4, FS_Injection

\* MERGE adds at most the node, and never a second one of an id.
LEMMA MergedNodes ==
  ASSUME NEW nodes \in SUBSET TaskNodes, IsFiniteSet(nodes), UniqueIds(nodes),
         NEW n \in TaskNodes
  PROVE  /\ Merge(nodes, n) \in SUBSET TaskNodes
         /\ IsFiniteSet(Merge(nodes, n))
         /\ UniqueIds(Merge(nodes, n))
         /\ nodes \subseteq Merge(nodes, n)
         /\ \E t \in Merge(nodes, n) : t.id = n.id
         /\ \A t \in Merge(nodes, n) :
              t \in nodes \/ (t = n /\ \A u \in nodes : u.id # n.id)
<1>1. CASE \E t \in nodes : t.id = n.id
  BY <1>1 DEF Merge
<1>2. CASE ~ \E t \in nodes : t.id = n.id
  <2>1. Merge(nodes, n) = nodes \cup {n}
    BY <1>2 DEF Merge
  <2>2. IsFiniteSet(nodes \cup {n})
    BY FS_AddElement
  <2>3. UniqueIds(nodes \cup {n})
    BY <1>2 DEF UniqueIds
  <2> QED
    BY <1>2, <2>1, <2>2, <2>3
<1> QED
  BY <1>1, <1>2

\* Resolving changes the status of one node, and nothing else.
LEMMA ResolvedNodes ==
  ASSUME NEW nodes \in SUBSET TaskNodes, IsFiniteSet(nodes), UniqueIds(nodes), NEW id
  PROVE  /\ Resolved(nodes, id) \in SUBSET TaskNodes
         /\ IsFiniteSet(Resolved(nodes, id))
         /\ UniqueIds(Resolved(nodes, id))
         /\ \A t \in nodes : Tells(Resolved(nodes, id), t)
         /\ \A u \in Resolved(nodes, id) :
              /\ \E t \in nodes : t.id = u.id /\ t.about = u.about
              /\ u.id = id => u.status = "resolved"
              /\ u.status = "resolved" => u.id = id \/ u \in nodes
         /\ \A t \in nodes : \E u \in Resolved(nodes, id) : u.id = t.id
<1> DEFINE R == Resolved(nodes, id)
           mark(t) == IF t.id = id THEN [t EXCEPT !.status = "resolved"] ELSE t
<1>1. R = {mark(t) : t \in nodes}
  BY DEF Resolved
<1>2. ASSUME NEW t \in nodes
      PROVE  /\ mark(t) \in TaskNodes /\ mark(t).id = t.id /\ mark(t).about = t.about
             /\ t.id = id => mark(t).status = "resolved"
             /\ t.id # id => mark(t) = t
             /\ t.id = id => mark(t) = [t EXCEPT !.status = "resolved"]
             /\ t.status = "resolved" => mark(t) = t
  <2>1. t \in TaskNodes
    OBVIOUS
  <2>2. CASE t.id = id
    BY <2>1, <2>2 DEF TaskNodes
  <2>3. CASE t.id # id
    BY <2>1, <2>3
  <2> QED
    BY <2>2, <2>3
<1> HIDE DEF mark
<1>3. R \in SUBSET TaskNodes
  BY <1>1, <1>2
<1>4. UniqueIds(R)
  <2> SUFFICES ASSUME NEW t \in nodes, NEW u \in nodes, mark(t).id = mark(u).id
               PROVE  mark(t) = mark(u)
    BY <1>1 DEF UniqueIds
  <2> QED
    BY <1>2 DEF UniqueIds
<1>5. \A u \in R : \E t \in nodes : u = mark(t)
  BY <1>1
<1>6. \A t \in nodes : mark(t) \in R
  BY <1>1
<1> HIDE DEF R
<1>7. IsFiniteSet(R)
  BY <1>2, <1>4, <1>5, NoMoreThanIds
<1>8. ASSUME NEW t \in nodes PROVE Tells(R, t)
  <2>1. t.status \in {"open", "resolved"}
    BY DEF TaskNodes
  <2> QED
    BY <1>2, <1>6, <2>1 DEF Tells
<1>9. ASSUME NEW u \in R
      PROVE  /\ \E t \in nodes : t.id = u.id /\ t.about = u.about
             /\ u.id = id => u.status = "resolved"
             /\ u.status = "resolved" => u.id = id \/ u \in nodes
  BY <1>2, <1>5
<1>10. \A t \in nodes : \E u \in R : u.id = t.id
  BY <1>2, <1>6
<1> QED
  BY <1>3, <1>4, <1>7, <1>8, <1>9, <1>10 DEF R

-----------------------------------------------------------------------------
(* The invariant.                                                          *)

Steps == {"sent", "listed", "read", "settled"}
CallRecords == [filter : Filters, step : Steps, items : SUBSET TaskNodes, total : Nat]
Panels == {"closed", "idle", "writing", "resolving", "resolved"}

\* The values of the variables; TypeOK has the bounds, too.
Typed ==
  /\ clock \in 0..MaxTime
  /\ tasks \in SUBSET TaskNodes /\ IsFiniteSet(tasks) /\ UniqueIds(tasks)
  /\ ask \in [Reports -> Asks]
  /\ report \in [Reports -> {"new", "hashed", "answered"}]
  /\ task_id \in [Reports -> TaskIds]
  /\ calls \in Seq(CallRecords)
  /\ taskId \in [KnowledgeEngineers -> TaskIds]
  /\ panel \in [KnowledgeEngineers -> Panels]
  /\ written \in [KnowledgeEngineers -> Nat]

\* A task has the id of what it tells, at some time until now.
TasksTell ==
  \A t \in tasks : t.id # ChainTask =>
    t.about \in Asks /\ \E s \in 0..clock : t.id = TaskId(t.about, s)

\* A report knows the id of what it reports, and answered, its task is there.
ReportTells(r) ==
  /\ report[r] # "new" => \E s \in 0..clock : task_id[r] = TaskId(ask[r], s)
  /\ report[r] = "answered" => \E t \in tasks : t.id = task_id[r]

\* What a call of the list holds.
CallTrue(call) ==
  /\ IsFiniteSet(call.items) /\ UniqueIds(call.items)
  /\ \A item \in call.items : Tells(tasks, item)
  /\ call.filter = "resolved" => \A item \in call.items : item.status = "resolved"
  /\ call.step \in {"read", "settled"} /\ call.filter # "open" =>
       Cardinality(call.items) <= call.total

CallsTrue == \A i \in DOMAIN calls : CallTrue(calls[i])

\* The task of a page is there; the page has written before it resolves.
PanelTells(e) ==
  /\ \E t \in tasks : t.id = taskId[e]
  /\ panel[e] \in {"resolving", "resolved"} => written[e] > 0
  /\ panel[e] = "resolved" =>
       \A t \in tasks : t.id = taskId[e] => t.status = "resolved"

WrittenBefore ==
  \A t \in tasks : t.status = "resolved" =>
    \E e \in KnowledgeEngineers : written[e] > 0

IInv ==
  /\ Typed /\ TasksTell /\ CallsTrue /\ WrittenBefore
  /\ \A r \in Reports : ReportTells(r)
  /\ \A e \in KnowledgeEngineers : PanelTells(e)

LEMMA InitInv == Init => IInv
<1> SUFFICES ASSUME Init PROVE IInv
  OBVIOUS
<1> USE DEF Init, InitTasks
<1> DEFINE first == [id |-> ChainTask, about |-> ChainItem, status |-> "open"]
<1>1. tasks = {first} /\ first \in TaskNodes
  BY DEF TaskNodes, TaskIds
<1>2. calls = <<CallFor("open")>> /\ CallFor("open") \in CallRecords
  BY DEF CallFor, CallRecords, Steps, Filters
<1>3. Typed
  <2>1. IsFiniteSet(tasks)
    BY <1>1, FS_Singleton
  <2>2. UniqueIds(tasks)
    BY <1>1 DEF UniqueIds
  <2>3. calls \in Seq(CallRecords)
    BY <1>2
  <2>4. clock \in 0..MaxTime
    BY TasksAssumption
  <2>5. /\ ask \in [Reports -> Asks]
        /\ report \in [Reports -> {"new", "hashed", "answered"}]
        /\ task_id \in [Reports -> TaskIds]
        /\ taskId \in [KnowledgeEngineers -> TaskIds]
        /\ panel \in [KnowledgeEngineers -> Panels]
        /\ written \in [KnowledgeEngineers -> Nat]
    BY DEF TaskIds, Panels
  <2> QED
    BY <1>1, <2>1, <2>2, <2>3, <2>4, <2>5 DEF Typed
<1>4. TasksTell /\ WrittenBefore
  BY <1>1 DEF TasksTell, WrittenBefore
<1>5. CallsTrue
  <2>1. CallFor("open").items = {} /\ CallFor("open").step = "sent"
        /\ CallFor("open").filter = "open"
    BY DEF CallFor
  <2>2. CallTrue(CallFor("open"))
    BY <2>1, FS_EmptySet DEF CallTrue, UniqueIds
  <2>3. DOMAIN calls = {1} /\ calls[1] = CallFor("open")
    BY <1>2
  <2> QED
    BY <2>2, <2>3 DEF CallsTrue
<1>6. \A r \in Reports : ReportTells(r)
  BY DEF ReportTells
<1>7. \A e \in KnowledgeEngineers : PanelTells(e)
  BY <1>1 DEF PanelTells
<1> QED
  BY <1>3, <1>4, <1>5, <1>6, <1>7 DEF IInv

-----------------------------------------------------------------------------
(* The tasks change.                                                       *)

\* What was read of the tasks stays true of them.
LEMMA TellsStays ==
  ASSUME NEW old, NEW new, NEW item, Tells(old, item),
         \A t \in old : t \in TaskNodes /\ Tells(new, t), item \in TaskNodes
  PROVE  Tells(new, item)
<1>1. CASE item \in old
  BY <1>1
<1>2. CASE item.status = "open" /\ [item EXCEPT !.status = "resolved"] \in old
  <2> DEFINE done == [item EXCEPT !.status = "resolved"]
  <2>1. done.status = "resolved" /\ Tells(new, done)
    BY <1>2 DEF TaskNodes
  <2>2. done \in new
    BY <2>1 DEF Tells
  <2> QED
    BY <1>2, <2>2 DEF Tells
<1> QED
  BY <1>1, <1>2 DEF Tells

LEMMA CallsStayTrue ==
  ASSUME Typed, CallsTrue, UNCHANGED calls, \A t \in tasks : Tells(tasks', t)
  PROVE  CallsTrue'
<1> SUFFICES ASSUME NEW i \in DOMAIN calls PROVE CallTrue(calls[i])'
  BY DEF CallsTrue
<1>1. CallTrue(calls[i]) /\ calls'[i] = calls[i]
  BY DEF CallsTrue
<1>2. calls[i] \in CallRecords
  BY DEF Typed
<1>3. \A item \in calls[i].items : item \in TaskNodes
  BY <1>2 DEF CallRecords
<1>4. \A item \in calls[i].items : Tells(tasks', item)
  BY <1>1, <1>3, TellsStays DEF CallTrue, Typed
<1> QED
  BY <1>1, <1>4 DEF CallTrue, Tells

\* Every step of the reports keeps the invariant.
LEMMA ReportingStep ==
  ASSUME IInv, Reporting, UNCHANGED <<listVars, panelVars>>
  PROVE  IInv'
<1> USE DEF IInv
<1>1. UNCHANGED <<filter, calls, shown, loading, error, taskId, panel, written>>
  BY DEF listVars, panelVars
<1>2. /\ MaxTime \in Nat /\ clock \in Nat /\ clock <= MaxTime
      /\ tasks \in SUBSET TaskNodes /\ IsFiniteSet(tasks) /\ UniqueIds(tasks)
  BY TasksAssumption DEF Typed
<1>3. \A t \in tasks : Tells(tasks, t)
  BY DEF Tells
<1>4. CASE Tick
  <2>1. clock' = clock + 1 /\ clock' \in 0..MaxTime
        /\ UNCHANGED <<tasks, ask, report, task_id>>
    BY <1>2, <1>4 DEF Tick
  <2>2. Typed'
    BY <1>1, <2>1 DEF Typed
  <2>3. \A s \in 0..clock : s \in 0..clock'
    BY <1>2, <2>1
  <2>4. TasksTell'
    BY <2>1, <2>3 DEF TasksTell, TaskId
  <2>5. \A r \in Reports : ReportTells(r)'
    BY <2>1, <2>3 DEF ReportTells, TaskId
  <2>6. CallsTrue'
    BY <1>1, <1>3, <2>1, CallsStayTrue
  <2>7. WrittenBefore' /\ \A e \in KnowledgeEngineers : PanelTells(e)'
    BY <1>1, <2>1 DEF WrittenBefore, PanelTells
  <2> QED
    BY <2>2, <2>4, <2>5, <2>6, <2>7
<1>5. ASSUME NEW r \in Reports, Hash(r) \/ ReportFails(r) PROVE IInv'
  <2>1. UNCHANGED <<clock, tasks, ask>>
    BY <1>5 DEF Hash, ReportFails
  <2>2. \/ /\ report' = [report EXCEPT ![r] = "hashed"]
           /\ task_id' = [task_id EXCEPT ![r] = TaskId(ask[r], clock)]
        \/ /\ report' = [report EXCEPT ![r] = "new"]
           /\ task_id' = [task_id EXCEPT ![r] = ChainTask]
    BY <1>5 DEF Hash, ReportFails, Forget
  <2>3. Typed'
    <3>1. TaskId(ask[r], clock) \in TaskIds /\ ChainTask \in TaskIds
      BY DEF TaskIds, Typed
    <3> QED
      BY <1>1, <2>1, <2>2, <3>1 DEF Typed
  <2>4. ReportTells(r)'
    <3>1. CASE /\ report' = [report EXCEPT ![r] = "hashed"]
               /\ task_id' = [task_id EXCEPT ![r] = TaskId(ask[r], clock)]
      <4>1. report'[r] = "hashed" /\ task_id'[r] = TaskId(ask'[r], clock)
        BY <2>1, <3>1 DEF Typed
      <4>2. clock \in 0..clock'
        BY <1>2, <2>1
      <4> QED
        BY <4>1, <4>2 DEF ReportTells, TaskId
    <3>2. CASE report' = [report EXCEPT ![r] = "new"]
      <4>1. report'[r] = "new"
        BY <3>2 DEF Typed
      <4> QED
        BY <4>1 DEF ReportTells
    <3> QED
      BY <2>2, <3>1, <3>2
  <2>5. \A q \in Reports \ {r} : ReportTells(q)'
    BY <2>1, <2>2 DEF ReportTells, TaskId, Typed
  <2>6. TasksTell' /\ WrittenBefore' /\ \A e \in KnowledgeEngineers : PanelTells(e)'
    BY <1>1, <2>1 DEF TasksTell, TaskId, WrittenBefore, PanelTells
  <2>7. CallsTrue'
    BY <1>1, <1>3, <2>1, CallsStayTrue
  <2> QED
    BY <2>3, <2>4, <2>5, <2>6, <2>7
<1>6. ASSUME NEW r \in Reports, MergeReport(r) PROVE IInv'
  <2> DEFINE n == [id |-> task_id[r], about |-> ask[r], status |-> "open"]
  <2>1. /\ report[r] = "hashed" /\ UNCHANGED <<clock, ask>>
        /\ tasks' = Merge(tasks, n)
        /\ \/ /\ report' = [report EXCEPT ![r] = "new"]
              /\ task_id' = [task_id EXCEPT ![r] = ChainTask]
           \/ report' = [report EXCEPT ![r] = "answered"] /\ UNCHANGED task_id
    BY <1>6 DEF MergeReport, Forget
  <2>2. n \in TaskNodes /\ n.id = task_id[r] /\ n.about = ask[r] /\ n.status = "open"
    BY DEF TaskNodes, Typed
  <2> HIDE DEF n
  <2>3. /\ tasks' \in SUBSET TaskNodes /\ IsFiniteSet(tasks') /\ UniqueIds(tasks')
        /\ tasks \subseteq tasks'
        /\ \E t \in tasks' : t.id = n.id
        /\ \A t \in tasks' : t \in tasks \/ (t = n /\ \A u \in tasks : u.id # n.id)
    BY <1>2, <2>1, <2>2, MergedNodes
  <2>4. Typed'
    <3>1. task_id' \in [Reports -> TaskIds]
      BY <2>1 DEF Typed, TaskIds
    <3>2. report' \in [Reports -> {"new", "hashed", "answered"}]
      BY <2>1 DEF Typed
    <3> QED
      BY <1>1, <2>1, <2>3, <3>1, <3>2 DEF Typed, UniqueIds
  <2>5. PICK s \in 0..clock : task_id[r] = TaskId(ask[r], s)
    BY <2>1 DEF ReportTells
  <2>6. TasksTell'
    BY <2>1, <2>2, <2>3, <2>5 DEF TasksTell, TaskId, Typed
  <2>7. ReportTells(r)'
    <3>1. CASE report' = [report EXCEPT ![r] = "new"]
      <4>1. report'[r] = "new"
        BY <3>1 DEF Typed
      <4> QED
        BY <4>1 DEF ReportTells
    <3>2. CASE report' = [report EXCEPT ![r] = "answered"] /\ UNCHANGED task_id
      <4>1. \E w \in 0..clock' : task_id'[r] = TaskId(ask[r], w)'
        BY <2>1, <2>5, <3>2 DEF TaskId
      <4>2. \E t \in tasks' : t.id = task_id'[r]
        BY <2>2, <2>3, <3>2
      <4> QED
        BY <4>1, <4>2 DEF ReportTells
    <3> QED
      BY <2>1, <3>1, <3>2
  <2>8. \A q \in Reports \ {r} : ReportTells(q)'
    BY <2>1, <2>3, ZenonT(40) DEF ReportTells, TaskId, Typed
  <2>9. CallsTrue'
    BY <1>1, <2>3, CallsStayTrue DEF Tells
  <2>10. WrittenBefore'
    BY <1>1, <2>2, <2>3 DEF WrittenBefore
  <2>11. ASSUME NEW e \in KnowledgeEngineers PROVE PanelTells(e)'
    BY <1>1, <2>3 DEF PanelTells
  <2> QED
    BY <2>4, <2>6, <2>7, <2>8, <2>9, <2>10, <2>11
<1> QED
  BY <1>4, <1>5, <1>6 DEF Reporting

\* Every step of the page of a task keeps it.
LEMMA PanelStep ==
  ASSUME IInv, NEW e \in KnowledgeEngineers,
         OpenTask(e) \/ Commit(e) \/ GraphWrite(e) \/ ResolveTask(e)
  PROVE  IInv'
<1> USE DEF IInv
<1>1. /\ tasks \in SUBSET TaskNodes /\ IsFiniteSet(tasks) /\ UniqueIds(tasks)
      /\ written \in [KnowledgeEngineers -> Nat]
      /\ panel \in [KnowledgeEngineers -> Panels]
      /\ taskId \in [KnowledgeEngineers -> TaskIds]
  BY DEF Typed
<1>2. ASSUME UNCHANGED <<clock, ask, report, task_id, calls>>, UNCHANGED tasks,
             Typed', \A o \in KnowledgeEngineers : PanelTells(o)',
             \A o \in KnowledgeEngineers : written'[o] >= written[o]
      PROVE  IInv'
  <2>1. \A t \in tasks : Tells(tasks', t)
    BY <1>2 DEF Tells
  <2>2. CallsTrue'
    BY <1>2, <2>1, CallsStayTrue
  <2>3. TasksTell' /\ \A r \in Reports : ReportTells(r)'
    BY <1>2 DEF TasksTell, ReportTells, TaskId
  <2>4. WrittenBefore'
    <3> SUFFICES ASSUME NEW t \in tasks, t.status = "resolved"
                 PROVE  \E o \in KnowledgeEngineers : written'[o] > 0
      BY <1>2 DEF WrittenBefore
    <3>1. PICK o \in KnowledgeEngineers : written[o] > 0
      BY DEF WrittenBefore
    <3>2. written[o] \in Nat /\ written'[o] \in Nat /\ written'[o] >= written[o]
      BY <1>1, <1>2 DEF Typed
    <3> QED
      BY <3>1, <3>2
  <2> QED
    BY <1>2, <2>2, <2>3, <2>4
<1>3. CASE OpenTask(e)
  <2>1. PICK t \in tasks : taskId' = [taskId EXCEPT ![e] = t.id]
    BY <1>3 DEF OpenTask
  <2>2. /\ panel' = [panel EXCEPT ![e] = "idle"]
        /\ UNCHANGED <<clock, tasks, ask, report, task_id, calls, written>>
    BY <1>3 DEF OpenTask, taskVars, listVars
  <2>3. t.id \in TaskIds
    BY <1>1 DEF TaskNodes
  <2>4. Typed'
    <3>1. panel' \in [KnowledgeEngineers -> Panels]
          /\ taskId' \in [KnowledgeEngineers -> TaskIds]
      BY <1>1, <2>1, <2>2, <2>3 DEF Panels
    <3> QED
      BY <2>2, <3>1 DEF Typed
  <2>5. ASSUME NEW o \in KnowledgeEngineers PROVE PanelTells(o)'
    BY <1>1, <2>1, <2>2 DEF PanelTells
  <2>6. \A o \in KnowledgeEngineers : written'[o] >= written[o]
    BY <1>1, <2>2
  <2> QED
    BY <1>2, <2>2, <2>4, <2>5, <2>6
<1>4. CASE Commit(e)
  <2>1. /\ panel' = [panel EXCEPT ![e] = "writing"]
        /\ UNCHANGED <<clock, tasks, ask, report, task_id, calls, taskId, written>>
    BY <1>4 DEF Commit, FirstCall, taskVars, listVars
  <2>2. Typed'
    <3>1. panel' \in [KnowledgeEngineers -> Panels]
      BY <1>1, <2>1 DEF Panels
    <3> QED
      BY <2>1, <3>1 DEF Typed
  <2>3. ASSUME NEW o \in KnowledgeEngineers PROVE PanelTells(o)'
    BY <1>1, <2>1 DEF PanelTells
  <2>4. \A o \in KnowledgeEngineers : written'[o] >= written[o]
    BY <1>1, <2>1
  <2> QED
    BY <1>2, <2>1, <2>2, <2>3, <2>4
<1>5. CASE GraphWrite(e)
  <2>1. UNCHANGED <<clock, tasks, ask, report, task_id, calls, taskId>>
    BY <1>5 DEF GraphWrite, taskVars, listVars
  <2>2. \/ /\ written' = [written EXCEPT ![e] = @ + 1]
           /\ \E next \in {"resolving", "idle"} : panel' = [panel EXCEPT ![e] = next]
        \/ panel' = [panel EXCEPT ![e] = "idle"] /\ UNCHANGED written
    BY <1>5 DEF GraphWrite
  <2>3. /\ written' \in [KnowledgeEngineers -> Nat]
        /\ panel' \in [KnowledgeEngineers -> Panels]
        /\ \A o \in KnowledgeEngineers : written'[o] >= written[o]
    BY <1>1, <2>2 DEF Panels
  <2>4. Typed'
    BY <2>1, <2>3 DEF Typed
  <2>5. ASSUME NEW o \in KnowledgeEngineers PROVE PanelTells(o)'
    BY <1>1, <2>1, <2>2 DEF PanelTells
  <2> QED
    BY <1>2, <2>1, <2>3, <2>4, <2>5
<1>6. CASE ResolveTask(e)
  <2>1. /\ UNCHANGED <<clock, ask, report, task_id, calls, taskId, written>>
        /\ panel[e] = "resolving"
    BY <1>6 DEF ResolveTask, listVars
  <2>2. CASE UNCHANGED tasks
    <3>1. panel' = [panel EXCEPT ![e] = "idle"] \/
          /\ tasks' = Resolved(tasks, taskId[e])
          /\ \E next \in {"resolved", "idle"} : panel' = [panel EXCEPT ![e] = next]
      BY <1>6 DEF ResolveTask
    <3>2. panel' \in [KnowledgeEngineers -> Panels]
      BY <1>1, <3>1 DEF Panels
    <3>3. Typed'
      BY <2>1, <2>2, <3>2 DEF Typed
    <3>4. panel'[e] = "resolved" =>
            \A t \in tasks' : t.id = taskId[e] => t.status = "resolved"
      BY <1>1, <3>1, ResolvedNodes
    <3>5. ASSUME NEW o \in KnowledgeEngineers PROVE PanelTells(o)'
      BY <1>1, <2>1, <2>2, <3>1, <3>4 DEF PanelTells
    <3>6. \A o \in KnowledgeEngineers : written'[o] >= written[o]
      BY <1>1, <2>1
    <3> QED
      BY <1>2, <2>1, <2>2, <3>3, <3>5, <3>6
  <2>3. CASE tasks' = Resolved(tasks, taskId[e])
    <3>1. PICK next \in {"resolved", "idle"} : panel' = [panel EXCEPT ![e] = next]
      BY <1>6 DEF ResolveTask
    <3>2. /\ tasks' \in SUBSET TaskNodes /\ IsFiniteSet(tasks') /\ UniqueIds(tasks')
          /\ \A t \in tasks : Tells(tasks', t)
          /\ \A u \in tasks' :
               /\ \E t \in tasks : t.id = u.id /\ t.about = u.about
               /\ u.id = taskId[e] => u.status = "resolved"
               /\ u.status = "resolved" => u.id = taskId[e] \/ u \in tasks
          /\ \A t \in tasks : \E u \in tasks' : u.id = t.id
      BY <1>1, <2>3, ResolvedNodes
    <3>3. Typed'
      <4>1. panel' \in [KnowledgeEngineers -> Panels]
        BY <1>1, <3>1 DEF Panels
      <4> QED
        BY <2>1, <3>2, <4>1 DEF Typed, UniqueIds
    <3>4. TasksTell'
      <4> SUFFICES ASSUME NEW u \in tasks', u.id # ChainTask
                   PROVE  u.about \in Asks /\ \E s \in 0..clock : u.id = TaskId(u.about, s)
        BY <2>1 DEF TasksTell, TaskId
      <4>1. PICK t \in tasks : t.id = u.id /\ t.about = u.about
        BY <3>2
      <4> QED
        BY <4>1 DEF TasksTell
    <3>5. \A r \in Reports : ReportTells(r)'
      BY <2>1, <3>2 DEF ReportTells, TaskId
    <3>6. CallsTrue'
      BY <2>1, <3>2, CallsStayTrue
    <3>7. written[e] > 0
      BY <2>1 DEF PanelTells
    <3>8. WrittenBefore'
      BY <2>1, <3>7 DEF WrittenBefore
    <3>9. ASSUME NEW o \in KnowledgeEngineers PROVE PanelTells(o)'
      <4>1. \E t \in tasks' : t.id = taskId'[o]
        BY <2>1, <3>2 DEF PanelTells
      <4>2. panel'[o] \in {"resolving", "resolved"} => written'[o] > 0
        BY <1>1, <2>1, <3>1, <3>7 DEF PanelTells
      <4>3. ASSUME panel'[o] = "resolved", NEW u \in tasks', u.id = taskId[o]
            PROVE  u.status = "resolved"
        <5>1. CASE u.id = taskId[e]
          BY <3>2, <5>1
        <5>2. CASE u.id # taskId[e]
          <6>1. o # e /\ panel[o] = "resolved"
            BY <1>1, <3>1, <4>3, <5>2
          <6>2. PICK t \in tasks : t.id = u.id
            BY <3>2
          <6>3. t.status = "resolved"
            BY <4>3, <6>1, <6>2 DEF PanelTells
          <6>4. t \in tasks' \/ t.status = "open"
            BY <3>2 DEF Tells
          <6>5. t \in tasks'
            BY <6>3, <6>4
          <6> QED
            BY <3>2, <6>2, <6>3, <6>5 DEF UniqueIds
        <5> QED
          BY <5>1, <5>2
      <4> QED
        BY <2>1, <4>1, <4>2, <4>3 DEF PanelTells
    <3> QED
      BY <3>3, <3>4, <3>5, <3>6, <3>8, <3>9
  <2> QED
    BY <1>6, <2>2, <2>3 DEF ResolveTask
<1> QED
  BY <1>3, <1>4, <1>5, <1>6

-----------------------------------------------------------------------------
(* The list changes.                                                       *)

\* Nothing but the list changes, and every call still holds the truth.
LEMMA ListKeeps ==
  ASSUME IInv, UNCHANGED <<taskVars, panelVars>>, calls' \in Seq(CallRecords),
         \A i \in DOMAIN calls' : CallTrue(calls'[i])
  PROVE  IInv'
<1> USE DEF IInv
<1>1. UNCHANGED <<clock, tasks, ask, report, task_id, taskId, panel, written>>
  BY DEF taskVars, panelVars
<1>2. Typed'
  BY <1>1 DEF Typed
<1>3. CallsTrue'
  <2> SUFFICES ASSUME NEW i \in DOMAIN calls' PROVE CallTrue(calls[i])'
    BY DEF CallsTrue
  <2>1. CallTrue(calls'[i])
    OBVIOUS
  <2> QED
    BY <1>1, <2>1 DEF CallTrue, Tells
<1>4. TasksTell' /\ WrittenBefore'
  BY <1>1 DEF TasksTell, TaskId, WrittenBefore
<1>5. \A r \in Reports : ReportTells(r)'
  BY <1>1 DEF ReportTells, TaskId
<1>6. \A e \in KnowledgeEngineers : PanelTells(e)'
  BY <1>1 DEF PanelTells
<1> QED
  BY <1>2, <1>3, <1>4, <1>5, <1>6

\* A call that is over and shown no more.
LEMMA SettledTrue ==
  ASSUME NEW call \in CallRecords
  PROVE  Settled(call) \in CallRecords /\ CallTrue(Settled(call))
<1>1. /\ Settled(call) \in CallRecords /\ Settled(call).items = {}
      /\ Settled(call).total = 0
  BY DEF Settled, CallRecords, Steps
<1> QED
  BY <1>1, FS_EmptySet DEF CallTrue, UniqueIds

\* The two reads of the endpoint: the items are tasks, and those that were
\* resolved, or of any status, are at least as many when they are counted.
LEMMA ReadTrue ==
  ASSUME IInv, NEW i \in DOMAIN calls, Reads(i)
  PROVE  calls' \in Seq(CallRecords) /\ \A j \in DOMAIN calls' : CallTrue(calls'[j])
<1> USE DEF IInv
<1>1. /\ calls \in Seq(CallRecords) /\ calls[i] \in CallRecords
      /\ tasks \in SUBSET TaskNodes /\ IsFiniteSet(tasks) /\ UniqueIds(tasks)
  BY DEF Typed
<1> DEFINE found == TasksOf(calls[i].filter)
<1>2. found \in SUBSET tasks /\ IsFiniteSet(found) /\ Cardinality(found) \in Nat
  <2>1. found \in SUBSET tasks
    BY DEF TasksOf
  <2> QED
    BY <1>1, <2>1, FS_Subset, FS_CardinalityType
<1>3. ASSUME NEW call \in CallRecords, CallTrue(call), calls' = [calls EXCEPT ![i] = call]
      PROVE  calls' \in Seq(CallRecords) /\ \A j \in DOMAIN calls' : CallTrue(calls'[j])
  <2>1. calls' \in Seq(CallRecords) /\ DOMAIN calls' = DOMAIN calls
    BY <1>1, <1>3
  <2>2. \A j \in DOMAIN calls : calls'[j] = call \/ calls'[j] = calls[j]
    BY <1>1, <1>3
  <2> QED
    BY <1>3, <2>1, <2>2 DEF CallsTrue
<1>4. CASE /\ calls[i].step = "sent"
           /\ calls' = [calls EXCEPT ![i].step = "listed", ![i].items = found]
  <2> DEFINE call == [calls[i] EXCEPT !.step = "listed", !.items = found]
  <2>1. calls' = [calls EXCEPT ![i] = call]
    BY <1>1, <1>4
  <2>2. /\ call \in CallRecords /\ call.items = found /\ call.step = "listed"
        /\ call.filter = calls[i].filter
    BY <1>1, <1>2 DEF CallRecords, Steps
  <2>3. call.filter = "resolved" => \A t \in found : t.status = "resolved"
    BY <2>2 DEF TasksOf
  <2> HIDE DEF call
  <2>4. CallTrue(call)
    BY <1>1, <1>2, <2>2, <2>3 DEF CallTrue, UniqueIds, Tells
  <2> QED
    BY <1>3, <2>1, <2>2, <2>4
<1>5. CASE /\ calls[i].step = "listed"
           /\ calls' = [calls EXCEPT ![i].step = "read", ![i].total = Cardinality(found)]
  <2> DEFINE call == [calls[i] EXCEPT !.step = "read", !.total = Cardinality(found)]
             items == calls[i].items
  <2>1. calls' = [calls EXCEPT ![i] = call]
    BY <1>1, <1>5
  <2>2. /\ call \in CallRecords /\ call.items = items /\ call.step = "read"
        /\ call.filter = calls[i].filter /\ call.total = Cardinality(found)
    BY <1>1, <1>2 DEF CallRecords, Steps
  <2>3. CallTrue(calls[i])
    BY DEF CallsTrue
  <2>4. calls[i].filter \in Filters /\ items \in SUBSET TaskNodes
    BY <1>1 DEF CallRecords
  <2>5. CASE calls[i].filter = "resolved"
    <3>1. \A item \in items : item.status = "resolved" /\ Tells(tasks, item)
      BY <2>3, <2>5 DEF CallTrue
    <3>2. \A item \in items : item \in found
      BY <2>5, <3>1 DEF Tells, TasksOf
    <3>3. Cardinality(items) <= Cardinality(found)
      BY <1>2, <3>2, FS_Subset
    <3> QED
      BY <1>3, <2>1, <2>2, <2>3, <3>3 DEF CallTrue
  <2>6. CASE calls[i].filter = "all"
    <3>1. found = tasks
      BY <2>6 DEF TasksOf
    <3>2. \A item \in items : \E t \in tasks : t.id = item.id
      <4> SUFFICES ASSUME NEW item \in items PROVE \E t \in tasks : t.id = item.id
        OBVIOUS
      <4>1. Tells(tasks, item) /\ item \in TaskNodes
        BY <2>3, <2>4 DEF CallTrue
      <4>2. [item EXCEPT !.status = "resolved"].id = item.id
        BY <4>1 DEF TaskNodes
      <4> QED
        BY <4>1, <4>2 DEF Tells
    <3>3. Cardinality(items) <= Cardinality(found)
      BY <1>1, <2>3, <3>1, <3>2, NoMoreThanIds DEF CallTrue
    <3> QED
      BY <1>3, <2>1, <2>2, <2>3, <3>3 DEF CallTrue
  <2>7. CASE calls[i].filter = "open"
    BY <1>3, <2>1, <2>2, <2>3, <2>7 DEF CallTrue
  <2> QED
    BY <2>4, <2>5, <2>6, <2>7 DEF Filters
<1> QED
  BY <1>4, <1>5 DEF Reads, CountOf

\* Every step of the list keeps the invariant.
LEMMA ListStep ==
  ASSUME IInv, \/ \E f \in Filters : SetFilter(f)
               \/ \E i \in DOMAIN calls : Serve(i) \/ Arrives(i) \/ Fails(i)
  PROVE  IInv'
<1>1. calls \in Seq(CallRecords) /\ CallsTrue
  BY DEF IInv, Typed
<1>2. \A j \in DOMAIN calls : calls[j] \in CallRecords /\ CallTrue(calls[j])
  BY <1>1 DEF CallsTrue
<1>3. ASSUME NEW f \in Filters, SetFilter(f) PROVE IInv'
  <2>1. calls' = Append(calls, CallFor(f)) /\ UNCHANGED <<taskVars, panelVars>>
    BY <1>3 DEF SetFilter
  <2>2. CallFor(f) \in CallRecords /\ CallFor(f).items = {} /\ CallFor(f).step = "sent"
    BY DEF CallFor, CallRecords, Steps
  <2>3. CallTrue(CallFor(f))
    BY <2>2, FS_EmptySet DEF CallTrue, UniqueIds
  <2>4. calls' \in Seq(CallRecords)
    BY <1>1, <2>1, <2>2
  <2>5. \A j \in DOMAIN calls' : calls'[j] = CallFor(f) \/
                                 (j \in DOMAIN calls /\ calls'[j] = calls[j])
    BY <1>1, <2>1, <2>2
  <2> QED
    BY <1>2, <2>1, <2>3, <2>4, <2>5, ListKeeps
<1>4. ASSUME NEW i \in DOMAIN calls, Serve(i) PROVE IInv'
  BY <1>4, ReadTrue, ListKeeps DEF Serve
<1>5. ASSUME NEW i \in DOMAIN calls, Arrives(i) PROVE IInv'
  <2> DEFINE call == [calls[i] EXCEPT !.step = "settled"]
  <2>1. /\ calls[i].step = "read" /\ UNCHANGED <<taskVars, panelVars>>
        /\ calls' = [j \in DOMAIN calls |->
                       IF j = i THEN call
                       ELSE IF j = shown THEN Settled(calls[j]) ELSE calls[j]]
    BY <1>5 DEF Arrives
  <2>2. /\ call \in CallRecords /\ call.items = calls[i].items
        /\ call.filter = calls[i].filter /\ call.total = calls[i].total
    BY <1>2 DEF CallRecords, Steps
  <2> HIDE DEF call
  <2>3. CallTrue(call)
    BY <1>2, <2>1, <2>2 DEF CallTrue
  <2>4. \A j \in DOMAIN calls : calls'[j] \in CallRecords /\ CallTrue(calls'[j])
    BY <1>2, <2>1, <2>2, <2>3, SettledTrue
  <2>5. DOMAIN calls = 1..Len(calls) /\ Len(calls) \in Nat
    BY <1>1
  <2>6. calls' \in [1..Len(calls) -> CallRecords]
    BY <2>1, <2>4, <2>5
  <2>7. calls' \in Seq(CallRecords) /\ DOMAIN calls' = DOMAIN calls
    BY <2>5, <2>6
  <2> QED
    BY <2>1, <2>4, <2>7, ListKeeps
<1>6. ASSUME NEW i \in DOMAIN calls, Fails(i) PROVE IInv'
  <2>1. /\ calls' = [calls EXCEPT ![i] = Settled(calls[i])]
        /\ UNCHANGED <<taskVars, panelVars>>
    BY <1>6 DEF Fails
  <2>2. Settled(calls[i]) \in CallRecords /\ CallTrue(Settled(calls[i]))
    BY <1>2, SettledTrue
  <2>3. calls' \in Seq(CallRecords) /\ DOMAIN calls' = DOMAIN calls
    BY <1>1, <2>1, <2>2
  <2>4. \A j \in DOMAIN calls : calls'[j] = Settled(calls[i]) \/ calls'[j] = calls[j]
    BY <1>1, <2>1
  <2> QED
    BY <1>2, <2>1, <2>2, <2>3, <2>4, ListKeeps
<1> QED
  BY <1>3, <1>4, <1>5, <1>6

LEMMA StepInv == IInv /\ [Next]_vars => IInv'
<1> SUFFICES ASSUME IInv, [Next]_vars PROVE IInv'
  OBVIOUS
<1>1. CASE UNCHANGED vars
  <2>1. UNCHANGED <<taskVars, panelVars>> /\ UNCHANGED calls
    BY <1>1 DEF vars, listVars
  <2>2. calls \in Seq(CallRecords) /\ \A i \in DOMAIN calls : CallTrue(calls[i])
    BY DEF IInv, Typed, CallsTrue
  <2> QED
    BY <2>1, <2>2, ListKeeps
<1> QED
  BY <1>1, ReportingStep, PanelStep, ListStep DEF Next

\* The invariant holds in every state.
THEOREM Inductive == Spec => []IInv
<1> QED
  BY InitInv, StepInv, PTL DEF Spec

-----------------------------------------------------------------------------
(* Theorems.                                                               *)

\* A task is resolved, and a page says so, only after a write-back went into
\* the graph, and it stays resolved: handleSubmit writes before it resolves,
\* and a report that is merged again leaves its task alone.
THEOREM ResolvedWritten == Spec => []ResolvedIsWritten
<1>1. IInv => ResolvedIsWritten
  BY DEF IInv, WrittenBefore, PanelTells, ResolvedIsWritten
<1> QED
  BY <1>1, Inductive, PTL

\* A later time is in no earlier window.
LEMMA WindowsGrow ==
  ASSUME NEW s \in Nat, NEW t \in Nat, s <= t, NEW k \in Nat \ {0}
  PROVE  s \div k \in Nat /\ t \div k \in Nat /\ s \div k <= t \div k
<1>1. s \div k \in Nat /\ t \div k \in Nat
  OBVIOUS
<1>2. k * (s \div k) <= s /\ t < k * (t \div k) + k
  OBVIOUS
<1>3. ASSUME t \div k < s \div k PROVE FALSE
  <2>1. k * (t \div k) + k <= k * (s \div k)
    BY <1>1, <1>3
  <2> QED
    BY <1>1, <1>2, <2>1
<1> QED
  BY <1>1, <1>3

\* An answered report names a task that is there and tells what this user
\* described; and a user's description has one such task per window, however
\* often it is reported (enrichment_report_endpoint).
THEOREM ReportKept == Spec => []ReportIsKept
<1>1. ASSUME IInv, NEW r \in Reports, report[r] = "answered"
      PROVE  LET same == {t \in tasks : /\ t.about.user = ask[r].user
                                        /\ t.about.description = ask[r].description}
             IN /\ \E t \in same : t.id = task_id[r]
                /\ Cardinality(same \ {t \in same : t.id = ChainTask})
                     <= clock \div ReportTTL + 1
  <2> DEFINE same == {t \in tasks : /\ t.about.user = ask[r].user
                                    /\ t.about.description = ask[r].description}
             told == same \ {t \in same : t.id = ChainTask}
             last == clock \div ReportTTL
  <2>1. /\ clock \in Nat /\ clock <= MaxTime /\ MaxTime \in Nat
        /\ ask[r] \in Asks /\ UniqueIds(tasks) /\ ReportTTL \in Nat \ {0}
    BY <1>1, TasksAssumption DEF IInv, Typed
  <2>2. \A t \in tasks : t.id # ChainTask =>
          t.about \in Asks /\ \E s \in 0..clock : t.id = TaskId(t.about, s)
    BY <1>1 DEF IInv, TasksTell
  <2>3. \E t \in same : t.id = task_id[r]
    <3>1. PICK s \in 0..clock : task_id[r] = TaskId(ask[r], s)
      BY <1>1 DEF IInv, ReportTells
    <3>2. PICK t \in tasks : t.id = task_id[r]
      BY <1>1 DEF IInv, ReportTells
    <3>3. t.id # ChainTask
      BY <2>1, <3>1, <3>2, ChainTaskAssumption
    <3>4. PICK u \in 0..clock : t.id = TaskId(t.about, u)
      BY <2>2, <3>3
    <3>5. t.about.user = ask[r].user /\ t.about.description = ask[r].description
      BY <3>1, <3>2, <3>4 DEF TaskId
    <3> QED
      BY <3>2, <3>5
  <2>4. \A s \in 0..clock : s \div ReportTTL \in 0..last
    BY <2>1, WindowsGrow
  <2>5. ASSUME NEW t \in told
        PROVE  \E w \in 0..last : t.id = <<ask[r].user, ask[r].description, w>>
    <3>1. PICK s \in 0..clock : t.id = TaskId(t.about, s)
      BY <2>2
    <3>2. t.about.user = ask[r].user /\ t.about.description = ask[r].description
      OBVIOUS
    <3>3. t.id = <<ask[r].user, ask[r].description, s \div ReportTTL>>
      BY <3>1, <3>2 DEF TaskId
    <3> QED
      BY <2>4, <3>3
  <2> DEFINE window == [t \in told |->
               CHOOSE w \in 0..last : t.id = <<ask[r].user, ask[r].description, w>>]
  <2>6. \A t \in told : /\ window[t] \in 0..last
                        /\ t.id = <<ask[r].user, ask[r].description, window[t]>>
    BY <2>5
  <2>7. window \in [told -> 0..last]
    BY <2>6
  <2>8. told \subseteq tasks
    OBVIOUS
  <2> HIDE DEF window, told
  <2>9. ASSUME NEW t \in told, NEW u \in told, window[t] = window[u] PROVE t = u
    BY <2>1, <2>6, <2>8, <2>9 DEF UniqueIds
  <2>10. window \in Injection(told, 0..last)
    BY <2>7, <2>9 DEF Injection, IsInjective
  <2>11. last \in Nat /\ IsFiniteSet(0..last) /\ Cardinality(0..last) = last + 1
    <3>1. last \in Nat
      BY <2>1, WindowsGrow
    <3> QED
      BY <3>1, FS_Interval
  <2>12. Cardinality(told) <= last + 1
    BY <2>10, <2>11, FS_Injection
  <2> QED
    BY <2>3, <2>12 DEF told
<1>2. IInv => ReportIsKept
  BY <1>1 DEF ReportIsKept
<1> QED
  BY <1>2, Inductive, PTL

\* What is shown is the answer of a call that is over.
ShownSettled ==
  /\ shown \in 0..Len(calls)
  /\ shown # 0 => calls[shown].step = "settled"

LEMMA ShownStep ==
  ASSUME ShownSettled, calls \in Seq(CallRecords), [Next]_vars
  PROVE  ShownSettled'
<1> USE DEF ShownSettled
<1>1. Len(calls) \in Nat /\ DOMAIN calls = 1..Len(calls)
  OBVIOUS
<1>2. CASE UNCHANGED <<calls, shown>>
  BY <1>2
<1>3. ASSUME NEW f \in Filters, SetFilter(f) PROVE ShownSettled'
  <2>1. calls' = Append(calls, CallFor(f)) /\ UNCHANGED shown
    BY <1>3 DEF SetFilter
  <2> QED
    BY <1>1, <2>1
<1>4. ASSUME NEW i \in DOMAIN calls, Serve(i) PROVE ShownSettled'
  <2>1. calls[i].step # "settled" /\ UNCHANGED shown
    BY <1>4 DEF Serve, Reads
  <2>2. PICK call : calls' = [calls EXCEPT ![i] = call]
    <3>1. \/ calls' = [calls EXCEPT ![i] = [calls[i] EXCEPT !.step = "listed",
                                            !.items = TasksOf(calls[i].filter)]]
          \/ calls' = [calls EXCEPT ![i] = [calls[i] EXCEPT !.step = "read",
                                            !.total = CountOf(calls[i].filter)]]
      BY <1>4 DEF Serve, Reads
    <3> QED
      BY <3>1
  <2>3. Len(calls') = Len(calls)
    BY <1>1, <2>2
  <2>4. shown # 0 => calls'[shown] = calls[shown]
    BY <1>1, <2>1, <2>2
  <2> QED
    BY <2>1, <2>3, <2>4
<1>5. ASSUME NEW i \in DOMAIN calls, Arrives(i) PROVE ShownSettled'
  <2>1. /\ shown' = i /\ DOMAIN calls' = DOMAIN calls
        /\ calls'[i] = [calls[i] EXCEPT !.step = "settled"]
        /\ calls' = [j \in 1..Len(calls) |-> calls'[j]]
    BY <1>1, <1>5 DEF Arrives
  <2>2. Len(calls') = Len(calls)
    BY <1>1, <2>1
  <2>3. calls[i] \in CallRecords
    OBVIOUS
  <2>4. calls'[i].step = "settled"
    BY <2>1, <2>3 DEF CallRecords
  <2> QED
    BY <1>1, <2>1, <2>2, <2>4
<1>6. ASSUME NEW i \in DOMAIN calls, Fails(i) PROVE ShownSettled'
  <2>1. /\ calls[i].step # "settled" /\ UNCHANGED shown
        /\ calls' = [calls EXCEPT ![i] = Settled(calls[i])]
    BY <1>6 DEF Fails
  <2>2. Len(calls') = Len(calls) /\ (shown # 0 => calls'[shown] = calls[shown])
    BY <1>1, <2>1
  <2> QED
    BY <2>1, <2>2
<1>7. CASE \/ Reporting /\ UNCHANGED <<listVars, panelVars>>
           \/ \E e \in KnowledgeEngineers :
                OpenTask(e) \/ Commit(e) \/ GraphWrite(e) \/ ResolveTask(e)
           \/ UNCHANGED vars
  <2>1. UNCHANGED <<calls, shown>>
    BY <1>7 DEF listVars, vars, OpenTask, Commit, GraphWrite, ResolveTask
  <2> QED
    BY <1>2, <2>1
<1> QED
  BY <1>3, <1>4, <1>5, <1>6, <1>7 DEF Next

\* What the list shows was so, and still is but for open tasks that are
\* resolved since; the total, though it is read later, is never less than the
\* items unless open tasks were asked for (enrichment_tasks_endpoint).
THEOREM ShownTrue == Spec => []ShownStaysTrue
<1>1. Init => ShownSettled
  BY DEF Init, ShownSettled
<1>2. IInv /\ ShownSettled /\ [Next]_vars => ShownSettled'
  BY ShownStep DEF IInv, Typed
<1>3. ASSUME IInv, ShownSettled PROVE ShownStaysTrue
  <2> SUFFICES ASSUME shown # 0
               PROVE  /\ \A item \in calls[shown].items :
                           \/ item \in tasks
                           \/ /\ item.status = "open"
                              /\ [item EXCEPT !.status = "resolved"] \in tasks
                      /\ calls[shown].filter # "open" =>
                           calls[shown].total >= Cardinality(calls[shown].items)
    BY DEF ShownStaysTrue
  <2>1. shown \in DOMAIN calls /\ calls[shown] \in CallRecords
        /\ calls[shown].step = "settled"
    BY <1>3 DEF IInv, Typed, ShownSettled
  <2>2. CallTrue(calls[shown])
    BY <1>3, <2>1 DEF IInv, CallsTrue
  <2>3. calls[shown].total \in Nat /\ Cardinality(calls[shown].items) \in Nat
    BY <2>1, <2>2, FS_CardinalityType DEF CallRecords, CallTrue
  <2> QED
    BY <2>1, <2>2, <2>3 DEF CallTrue, Tells
<1> QED
  BY <1>1, <1>2, <1>3, Inductive, PTL DEF Spec

\* What the type invariant has beyond Typed.
Bounds ==
  /\ filter \in Filters /\ Len(calls) \in 1..MaxCalls
  /\ loading \in BOOLEAN /\ error \in BOOLEAN
  /\ \A e \in KnowledgeEngineers : written[e] <= MaxWrites

LEMMA BoundsInit == Init => Bounds
<1> SUFFICES ASSUME Init PROVE Bounds
  OBVIOUS
<1>1. filter \in Filters
  BY DEF Init, Filters
<1>2. loading \in BOOLEAN /\ error \in BOOLEAN
  BY Zenon DEF Init
<1>3. Len(calls) = 1 /\ \A e \in KnowledgeEngineers : written[e] = 0
  BY DEF Init
<1> QED
  BY <1>1, <1>2, <1>3, PagesAssumption DEF Bounds

\* The flags of the list are changed by its own steps only.
LEMMA FlagsStep ==
  ASSUME Bounds, [Next]_vars
  PROVE  filter' \in Filters /\ loading' \in BOOLEAN /\ error' \in BOOLEAN
<1>1. filter \in Filters /\ loading \in BOOLEAN /\ error \in BOOLEAN
  BY DEF Bounds
<1>2. CASE UNCHANGED <<filter, loading, error>>
  BY <1>1, <1>2
<1>3. CASE \E f \in Filters : SetFilter(f)
  BY <1>3, Zenon DEF SetFilter
<1>4. CASE \E i \in DOMAIN calls : Serve(i)
  <2>1. UNCHANGED <<filter, loading, error>>
    BY <1>4 DEF Serve
  <2> QED
    BY <1>2, <2>1
<1>5. CASE \E i \in DOMAIN calls : Arrives(i)
  <2>1. loading' = FALSE /\ error' = error /\ filter' = filter
    BY <1>5 DEF Arrives
  <2> QED
    BY <1>1, <2>1, Zenon
<1>6. CASE \E i \in DOMAIN calls : Fails(i)
  <2>1. loading' = FALSE /\ error' = TRUE /\ filter' = filter
    BY <1>6 DEF Fails
  <2> QED
    BY <1>1, <2>1, Zenon
<1>7. CASE \/ Reporting /\ UNCHANGED <<listVars, panelVars>>
           \/ \E e \in KnowledgeEngineers :
                OpenTask(e) \/ Commit(e) \/ GraphWrite(e) \/ ResolveTask(e)
           \/ UNCHANGED vars
  <2>1. UNCHANGED <<filter, loading, error>>
    BY <1>7 DEF listVars, vars, OpenTask, Commit, GraphWrite, ResolveTask
  <2> QED
    BY <1>2, <2>1
<1> QED
  BY <1>3, <1>4, <1>5, <1>6, <1>7 DEF Next

\* Only another filter makes another call.
LEMMA CallsBounded ==
  ASSUME Bounds, calls \in Seq(CallRecords), [Next]_vars
  PROVE  Len(calls') \in 1..MaxCalls
<1>1. /\ Len(calls) \in 1..MaxCalls /\ MaxCalls \in Nat
      /\ DOMAIN calls = 1..Len(calls) /\ Len(calls) \in Nat
  BY PagesAssumption DEF Bounds
<1>2. ASSUME NEW f \in Filters, SetFilter(f) PROVE Len(calls') \in 1..MaxCalls
  <2>1. calls' = Append(calls, CallFor(f)) /\ Len(calls) < MaxCalls
    BY <1>2 DEF SetFilter
  <2>2. Len(calls') = Len(calls) + 1
    BY <2>1
  <2> QED
    BY <1>1, <2>1, <2>2
<1>3. ASSUME NEW i \in DOMAIN calls, Serve(i) \/ Arrives(i) \/ Fails(i)
      PROVE  Len(calls') = Len(calls)
  <2>1. CASE Serve(i)
    BY <1>1, <2>1 DEF Serve, Reads
  <2>2. CASE Arrives(i)
    <3>1. calls' = [j \in 1..Len(calls) |-> calls'[j]]
      BY <1>1, <2>2 DEF Arrives
    <3> QED
      BY <1>1, <3>1
  <2>3. CASE Fails(i)
    BY <1>1, <2>3 DEF Fails
  <2> QED
    BY <1>3, <2>1, <2>2, <2>3
<1>4. CASE \/ Reporting /\ UNCHANGED <<listVars, panelVars>>
           \/ \E e \in KnowledgeEngineers :
                OpenTask(e) \/ Commit(e) \/ GraphWrite(e) \/ ResolveTask(e)
           \/ UNCHANGED vars
  <2>1. calls' = calls
    BY <1>4 DEF listVars, vars, OpenTask, Commit, GraphWrite, ResolveTask
  <2> QED
    BY <1>1, <2>1
<1> QED
  BY <1>1, <1>2, <1>3, <1>4 DEF Next

\* Only a write to the graph is counted, and only below the bound.
LEMMA WritesBounded ==
  ASSUME Bounds, Typed, [Next]_vars, NEW e \in KnowledgeEngineers
  PROVE  written'[e] <= MaxWrites
<1>1. /\ written \in [KnowledgeEngineers -> Nat] /\ MaxWrites \in Nat
      /\ written[e] <= MaxWrites
  BY PagesAssumption DEF Bounds, Typed
<1>2. ASSUME NEW d \in KnowledgeEngineers, GraphWrite(d)
      PROVE  written'[e] <= MaxWrites
  BY <1>1, <1>2 DEF GraphWrite
<1>3. CASE \/ Reporting /\ UNCHANGED <<listVars, panelVars>>
           \/ \E f \in Filters : SetFilter(f)
           \/ \E i \in DOMAIN calls : Serve(i) \/ Arrives(i) \/ Fails(i)
           \/ \E d \in KnowledgeEngineers :
                OpenTask(d) \/ Commit(d) \/ ResolveTask(d)
           \/ UNCHANGED vars
  <2>1. written' = written
    BY <1>3 DEF panelVars, vars, SetFilter, Serve, Arrives, Fails,
                OpenTask, Commit, ResolveTask
  <2> QED
    BY <1>1, <2>1
<1> QED
  BY <1>2, <1>3 DEF Next

\* The variables of the tasks, the list and the pages keep their types and
\* bounds, for any reports, calls and engineers.
THEOREM TypeCorrect == Spec => []TypeOK
<1>1. IInv /\ Bounds /\ [Next]_vars => Bounds'
  <2> SUFFICES ASSUME IInv, Bounds, [Next]_vars PROVE Bounds'
    OBVIOUS
  <2>1. Typed /\ calls \in Seq(CallRecords)
    BY DEF IInv, Typed
  <2>2. \A e \in KnowledgeEngineers : written'[e] <= MaxWrites
    BY <2>1, WritesBounded
  <2> QED
    BY <2>1, <2>2, FlagsStep, CallsBounded DEF Bounds
<1>2. IInv /\ [Next]_vars /\ ShownSettled => ShownSettled'
  BY ShownStep DEF IInv, Typed
<1>3. ASSUME IInv, Bounds, ShownSettled PROVE TypeOK
  <2> USE <1>3
  <2>1. Typed /\ \A e \in KnowledgeEngineers : PanelTells(e)
    BY DEF IInv
  <2>2. TasksTypeOK
    BY <2>1 DEF Typed, TasksTypeOK, TaskNodes, TaskIds
  <2>3. ASSUME NEW i \in DOMAIN calls
        PROVE  /\ calls[i].filter \in Filters /\ calls[i].step \in Steps
               /\ calls[i].total \in Nat
    <3>1. calls[i] \in CallRecords
      BY <2>1, <2>3 DEF Typed
    <3> QED
      BY <3>1 DEF CallRecords
  <2>4. taskId \in [KnowledgeEngineers -> {t.id : t \in tasks}]
    BY <2>1 DEF Typed, PanelTells
  <2>5. written \in [KnowledgeEngineers -> 0..MaxWrites]
    BY <2>1, PagesAssumption DEF Typed, Bounds
  <2>6. loading \in BOOLEAN /\ error \in BOOLEAN
    BY DEF Bounds
  <2>7. /\ filter \in Filters /\ Len(calls) \in 1..MaxCalls
        /\ shown \in 0..Len(calls) /\ panel \in [KnowledgeEngineers -> Panels]
    BY <2>1 DEF Bounds, ShownSettled, Typed
  <2> QED
    BY <2>2, <2>3, <2>4, <2>5, <2>6, <2>7, Zenon DEF TypeOK, Steps, Panels
<1>4. Init => ShownSettled
  BY DEF Init, ShownSettled
<1> QED
  BY <1>1, <1>2, <1>3, <1>4, BoundsInit, Inductive, PTL DEF Spec
=============================================================================
