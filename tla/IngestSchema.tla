------------------------------ MODULE IngestSchema ------------------------------
(***************************************************************************)
(* The command-line tool that copies the schema of the customer's          *)
(* warehouse into the graph (tools/ingest_schema.py).  A run reads the     *)
(* columns of the warehouse, closes the connector, and writes Table nodes, *)
(* Column nodes and HAS_COLUMN edges in batches, one auto-commit statement *)
(* each.  A run may fail or be killed between any two steps, the warehouse *)
(* changes meanwhile, and the tool is run again, also while another run is *)
(* still under way.                                                        *)
(*                                                                         *)
(* The graph (external) has no uniqueness constraint on Table and Column,  *)
(* so a MERGE is two steps: it matches, and then sets what it found and    *)
(* creates what it did not find.  The results of the statements are never  *)
(* consumed: the failure of one is raised by the next one or, after the    *)
(* last, by the closing session, which may also drop it.                   *)
(*                                                                         *)
(* The identifiers "schema.table" and "schema.table.column" are values; a  *)
(* catalog in which two rows have the same identifier stands for names     *)
(* that contain a dot.                                                     *)
(***************************************************************************)
EXTENDS Naturals, SequencesExt

CONSTANTS
  Runs,        \* executions of the tool
  Catalogs,    \* the columns of the warehouse: sequences of rows
  Excluded,    \* the tables of _EXCLUDED_SCHEMAS
  BatchSize    \* _BATCH_SIZE

Rows == UNION {ToSet(catalog) : catalog \in Catalogs}
TableIds == {row.table : row \in Rows}
ColumnIds == {row.column : row \in Rows}

\* An identifier here carries the label of its nodes, Table or Column.
ASSUME IngestAssumption ==
  /\ BatchSize \in Nat \ {0}
  /\ Catalogs \subseteq Seq(Rows)
  /\ \A row \in Rows : DOMAIN row = {"table", "column", "data_type"}
  /\ TableIds \cap ColumnIds = {}

VARIABLES
  warehouse,   \* what information_schema.columns holds
  nodes,       \* the values of the Table and Column nodes of each id
  edges,       \* the pairs of ids joined by HAS_COLUMN
  phase,       \* of a run
  raw_rows,    \* what it discovered
  batch,       \* the batch it writes next or is writing
  found,       \* how many nodes of each id its statement has matched
  alone        \* (history) no other run was under way during this one

vars == <<warehouse, nodes, edges, phase, raw_rows, batch, found, alone>>

Writing == {"tables", "columns", "edges"}
Ended == {"done", "failed", "dry"}

NotMatched == <<>>

Init ==
  /\ warehouse \in Catalogs
  /\ nodes = [id \in TableIds \cup ColumnIds |-> <<>>]
  /\ edges = {}
  /\ phase = [r \in Runs |-> "new"]
  /\ raw_rows = [r \in Runs |-> <<>>]
  /\ batch = [r \in Runs |-> 1]
  /\ found = [r \in Runs |-> NotMatched]
  /\ alone = [r \in Runs |-> TRUE]

-----------------------------------------------------------------------------
(* What a run computes from the rows.                                      *)

\* The loops over the rows: those at the positions I are appended, in their
\* order.
ElementsAt(rows, I) ==
  LET chosen[n \in 0..Len(rows)] ==
        IF n = 0 THEN <<>>
        ELSE IF n \in I THEN Append(chosen[n - 1], rows[n]) ELSE chosen[n - 1]
  IN chosen[Len(rows)]

\* As Kept, but the tables of the system are not left out.
KeptAll(rows) == rows

Kept(rows) == ElementsAt(rows, {i \in DOMAIN rows : rows[i].table \notin Excluded})

\* build_table_nodes: one node for each table, in the order of the rows.
TableNodes(rows) ==
  LET tables == [i \in DOMAIN Kept(rows) |->
                   [id |-> Kept(rows)[i].table, value |-> "table"]]
  IN ElementsAt(tables, {i \in DOMAIN tables : \A j \in 1..(i - 1) : tables[j] # tables[i]})

\* build_column_nodes: one for each row.
ColumnNodes(rows) ==
  [i \in DOMAIN Kept(rows) |->
     [id |-> Kept(rows)[i].column, value |-> Kept(rows)[i].data_type]]

\* build_edge_params
EdgeParams(rows) ==
  [i \in DOMAIN Kept(rows) |-> <<Kept(rows)[i].table, Kept(rows)[i].column>>]

Items(p, rows) ==
  CASE p = "tables" -> TableNodes(rows)
    [] p = "columns" -> ColumnNodes(rows)
    [] p = "edges" -> EdgeParams(rows)

\* As Chunks, but a last batch that is not full is forgotten.
FullChunks(items) == Len(items) \div BatchSize

\* _chunks: the number of batches, and the i-th of them.
Chunks(items) == (Len(items) + BatchSize - 1) \div BatchSize

Chunk(items, i) ==
  LET to == i * BatchSize
  IN SubSeq(items, (i - 1) * BatchSize + 1,
            IF to > Len(items) THEN Len(items) ELSE to)

\* As NextPhase, but the edges are written before the columns.
NextPhaseEdgesFirst(p) ==
  CASE p = "tables" -> "edges" [] p = "edges" -> "columns" [] OTHER -> "done"

\* The three calls of _write_batches, in their order.
NextPhase(p) ==
  CASE p = "tables" -> "columns" [] p = "columns" -> "edges" [] OTHER -> "done"

Payload(r) == Chunk(Items(phase[r], raw_rows[r]), batch[r])

-----------------------------------------------------------------------------
(* The warehouse and the runs up to the discovery.                         *)

UnderWay == {r \in Runs : phase[r] \in Writing \cup {"discovery"}}

(* The schema of the warehouse changes.                                    *)
Migrate ==
  /\ warehouse' \in Catalogs \ {warehouse}
  /\ UNCHANGED <<nodes, edges, phase, raw_rows, batch, found, alone>>

(* The tool is started.                                                    *)
Start(r) ==
  /\ phase[r] = "new"
  /\ phase' = [phase EXCEPT ![r] = "discovery"]
  /\ alone' = [s \in Runs |->
                 alone[s] /\ (s \in UnderWay \cup {r} => UnderWay = {})]
  /\ UNCHANGED <<warehouse, nodes, edges, raw_rows, batch, found>>

(* The discovery query; the connector is closed, whatever came.  Without a *)
(* row the tool exits with 1, and with --dry-run it returns.               *)
Discover(r) ==
  /\ phase[r] = "discovery"
  /\ raw_rows' = [raw_rows EXCEPT ![r] = warehouse]
  /\ \E next \in IF warehouse = <<>> THEN {"failed"} ELSE {"tables", "dry"} :
       phase' = [phase EXCEPT ![r] = next]
  /\ UNCHANGED <<warehouse, nodes, edges, batch, found, alone>>

-----------------------------------------------------------------------------
(* The batches.                                                            *)

(* A statement begins: it matches the nodes of its rows.                   *)
Match(r) ==
  /\ phase[r] \in Writing /\ found[r] = NotMatched
  /\ batch[r] <= Chunks(Items(phase[r], raw_rows[r]))
  /\ found' = [found EXCEPT ![r] = [id \in DOMAIN nodes |-> Len(nodes[id])]]
  /\ UNCHANGED <<warehouse, nodes, edges, phase, raw_rows, batch, alone>>

\* The value that the rows of one statement leave in a node: the last one's.
ValueOf(items, id) ==
  LET last == CHOOSE i \in DOMAIN items :
                /\ items[i].id = id
                /\ \A j \in DOMAIN items : items[j].id = id => j <= i
  IN items[last].value

\* As Merged, but a node that is found keeps its value.
MergedOnCreate(old, value, count) ==
  IF count = 0 THEN Append(old, value) ELSE old

\* As Merged, but every row creates a node.
MergedAlways(old, value, count) == Append(old, value)

\* MERGE (n {id}) SET n.value: the nodes matched are set, or else one is
\* created.
Merged(old, value, count) ==
  IF count = 0 THEN Append(old, value)
  ELSE [i \in DOMAIN old |-> IF i <= count THEN value ELSE old[i]]

\* What the statement does to the nodes (_MERGE_TABLES_CYPHER and
\* _MERGE_COLUMNS_CYPHER) and to the edges (_MERGE_EDGES_CYPHER).
WriteNodes(r) ==
  /\ nodes' = [id \in DOMAIN nodes |->
                 IF \E i \in DOMAIN Payload(r) : Payload(r)[i].id = id
                 THEN Merged(nodes[id], ValueOf(Payload(r), id), found[r][id])
                 ELSE nodes[id]]
  /\ UNCHANGED edges

WriteEdges(r) ==
  /\ edges' = edges \cup {e \in ToSet(Payload(r)) :
                            found[r][e[1]] > 0 /\ found[r][e[2]] > 0}
  /\ UNCHANGED nodes

(* The statement commits; the run goes on, or is killed.                   *)
Commit(r) ==
  /\ found[r] # NotMatched
  /\ IF phase[r] = "edges" THEN WriteEdges(r) ELSE WriteNodes(r)
  /\ \/ batch' = [batch EXCEPT ![r] = @ + 1] /\ UNCHANGED phase
     \/ phase' = [phase EXCEPT ![r] = "failed"] /\ UNCHANGED batch
  /\ found' = [found EXCEPT ![r] = NotMatched]
  /\ UNCHANGED <<warehouse, raw_rows, alone>>

(* The failure of the very last statement gets lost in the closing session.*)
LoseLast(r) ==
  /\ found[r] # NotMatched
  /\ phase[r] = "edges" /\ batch[r] = Chunks(EdgeParams(raw_rows[r]))
  /\ batch' = [batch EXCEPT ![r] = @ + 1]
  /\ found' = [found EXCEPT ![r] = NotMatched]
  /\ UNCHANGED <<warehouse, nodes, edges, phase, raw_rows, alone>>

(* The loop over the batches ends.                                         *)
EndBatches(r) ==
  /\ phase[r] \in Writing /\ found[r] = NotMatched
  /\ batch[r] > Chunks(Items(phase[r], raw_rows[r]))
  /\ phase' = [phase EXCEPT ![r] = NextPhase(@)]
  /\ batch' = [batch EXCEPT ![r] = 1]
  /\ UNCHANGED <<warehouse, nodes, edges, raw_rows, found, alone>>

(* A query or a statement fails, or the process is killed before a commit. *)
Fail(r) ==
  /\ r \in UnderWay
  /\ phase' = [phase EXCEPT ![r] = "failed"]
  /\ found' = [found EXCEPT ![r] = NotMatched]
  /\ UNCHANGED <<warehouse, nodes, edges, raw_rows, batch, alone>>

Next ==
  \/ Migrate
  \/ \E r \in Runs :
       \/ Start(r) \/ Discover(r)
       \/ Match(r) \/ Commit(r) \/ LoseLast(r) \/ EndBatches(r) \/ Fail(r)

Spec == Init /\ [][Next]_vars

-----------------------------------------------------------------------------
(* Properties.                                                             *)

\* The values of the variables; nothing of an excluded schema is in the graph.
TypeOK ==
  /\ warehouse \in Catalogs
  /\ DOMAIN nodes = TableIds \cup ColumnIds
  /\ \A id \in TableIds : ToSet(nodes[id]) \subseteq {"table"}
  /\ \A id \in ColumnIds : ToSet(nodes[id]) \subseteq {row.data_type : row \in Rows}
  /\ \A id \in Excluded \cap TableIds : nodes[id] = <<>>
  /\ edges \subseteq TableIds \X ColumnIds
  /\ phase \in [Runs -> Writing \cup Ended \cup {"new", "discovery"}]
  /\ raw_rows \in [Runs -> Catalogs \cup {<<>>}]
  /\ batch \in [Runs -> Nat \ {0}]
  /\ \A r \in Runs : found[r] # NotMatched =>
       /\ phase[r] \in Writing
       /\ \A id \in DOMAIN nodes : found[r][id] <= Len(nodes[id])
  /\ alone \in [Runs -> BOOLEAN]

\* The columns of a run, and whether its last batch of edges holds an edge.
ColumnsOf(r) == ToSet(ColumnNodes(raw_rows[r]))

InLastBatch(r, e) ==
  LET params == EdgeParams(raw_rows[r]) IN Contains(Chunk(params, Chunks(params)), e)

\* When a run says that it is done, every table and column that it discovered
\* is in the graph, although others were killed halfway or run beside it, and
\* every column is joined to its table but for the last batch of edges.
DoneMeansWritten ==
  \A r \in Runs : phase[r] = "done" =>
    /\ \A node \in ToSet(TableNodes(raw_rows[r])) \cup ColumnsOf(r) :
         nodes[node.id] # <<>>
    /\ \A e \in ToSet(EdgeParams(raw_rows[r])) : e \in edges \/ InLastBatch(r, e)

\* A run that nothing ran beside leaves in each column the type that it found,
\* whatever earlier runs left there.
DoneMeansCurrent ==
  [][\A r \in Runs : phase[r] # "done" /\ phase'[r] = "done" /\ alone[r] =>
       \A node \in ColumnsOf(r) :
         ToSet(nodes[node.id]) = {ValueOf(ColumnNodes(raw_rows[r]), node.id)}]_vars

\* The tool is "safe to re-run ... without duplicating anything", after an end
\* of any kind, as long as no two runs are under way at a time.
NoDuplicates ==
  (\A r \in Runs : alone[r]) => \A id \in DOMAIN nodes : Len(nodes[id]) <= 1
=============================================================================
