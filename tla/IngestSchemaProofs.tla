--------------------------- MODULE IngestSchemaProofs ---------------------------
(***************************************************************************)
(* Proofs about IngestSchema, for any number of runs, catalogs and size of *)
(* the batches.  The loops over the rows and the arithmetic of the batches *)
(* come first; then the types; then that a run, wherever it stands, has    *)
(* written what is behind it, whatever other runs do beside it; then what  *)
(* holds of a run that nothing ran beside.                                 *)
(***************************************************************************)
EXTENDS IngestSchema, WellFoundedInduction, SequenceTheorems, TLAPS

-----------------------------------------------------------------------------
(* Induction on numbers, for sets instead of predicates.                   *)

LEMMA SmallestNumber ==
  ASSUME NEW S \in SUBSET Nat, S # {}
  PROVE  \E m \in S : \A n \in S : m <= n
<1>1. PICK m \in S : \A n \in S : <<n, m>> \notin OpToRel(<, Nat)
  BY NatLessThanWellFounded, WFMin
<1>2. \A n \in S : ~ (n < m)
  BY <1>1 DEF OpToRel
<1> QED
  BY <1>2

LEMMA Induction ==
  ASSUME NEW E, 0 \in E, \A n \in Nat : n \in E => n + 1 \in E
  PROVE  Nat \subseteq E
<1> SUFFICES ASSUME Nat \ E # {} PROVE FALSE
  OBVIOUS
<1>1. PICK m \in Nat \ E : \A n \in Nat \ E : m <= n
  BY SmallestNumber
<1>2. \A n \in Nat \ E : ~ (n < m)
  BY <1>1
<1>3. m # 0 /\ m \in Nat
  OBVIOUS
<1>4. m - 1 \in Nat /\ m - 1 < m /\ (m - 1) + 1 = m
  BY <1>3
<1>5. m - 1 \in E
  BY <1>2, <1>4
<1> QED
  BY <1>4, <1>5

-----------------------------------------------------------------------------
(* The loops over the rows, and the batches.                               *)

\* g is the loop of ElementsAt over the first m rows.
IsLoop(g, rows, I, m) ==
  g = [n \in 0..m |->
         IF n = 0 THEN <<>>
         ELSE IF n \in I THEN Append(g[n - 1], rows[n]) ELSE g[n - 1]]

LEMMA LoopExists ==
  ASSUME NEW rows, NEW I, NEW m \in Nat
  PROVE  \E g : IsLoop(g, rows, I, m)
<1> DEFINE E == {k \in Nat : \E g : IsLoop(g, rows, I, k)}
<1>1. 0 \in E
  <2> DEFINE g0 == [n \in 0..0 |-> <<>>]
  <2>1. \A n \in 0..0 : n = 0
    OBVIOUS
  <2>2. IsLoop(g0, rows, I, 0)
    BY <2>1 DEF IsLoop
  <2> QED
    BY <2>2
<1>2. ASSUME NEW k \in Nat, k \in E PROVE k + 1 \in E
  <2>1. PICK g : IsLoop(g, rows, I, k)
    BY <1>2
  <2> DEFINE h == [n \in 0..(k + 1) |->
                     IF n <= k THEN g[n]
                     ELSE IF k + 1 \in I THEN Append(g[k], rows[k + 1]) ELSE g[k]]
  <2>2. ASSUME NEW n \in 0..(k + 1)
        PROVE  h[n] = IF n = 0 THEN <<>>
                      ELSE IF n \in I THEN Append(h[n - 1], rows[n]) ELSE h[n - 1]
    <3>1. CASE n = k + 1
      <4>1. n - 1 = k /\ h[n - 1] = g[k] /\ n # 0 /\ ~ (n <= k)
        BY <3>1
      <4> QED
        BY <3>1, <4>1
    <3>2. CASE n # k + 1
      <4>1. n \in 0..k /\ h[n] = g[n]
        BY <3>2
      <4>2. n # 0 => n - 1 \in 0..k /\ h[n - 1] = g[n - 1]
        BY <4>1
      <4>3. g[n] = IF n = 0 THEN <<>>
                   ELSE IF n \in I THEN Append(g[n - 1], rows[n]) ELSE g[n - 1]
        BY <2>1, <4>1 DEF IsLoop
      <4> QED
        BY <4>1, <4>2, <4>3
    <3> QED
      BY <3>1, <3>2
  <2>3. IsLoop(h, rows, I, k + 1)
    BY <2>2 DEF IsLoop
  <2> QED
    BY <2>3
<1> HIDE DEF E
<1>3. m \in E
  BY <1>1, <1>2, Induction
<1> QED
  BY <1>3 DEF E

LEMMA AppendSet ==
  ASSUME NEW X, NEW s \in Seq(X), NEW x
  PROVE  ToSet(Append(s, x)) = ToSet(s) \cup {x}
<1>1. /\ DOMAIN s = 1..Len(s) /\ Len(s) \in Nat
      /\ DOMAIN Append(s, x) = 1..(Len(s) + 1)
      /\ \A i \in 1..Len(s) : Append(s, x)[i] = s[i]
      /\ Append(s, x)[Len(s) + 1] = x
  OBVIOUS
<1>2. \A i : i \in 1..(Len(s) + 1) <=> i \in 1..Len(s) \/ i = Len(s) + 1
  BY <1>1
<1> QED
  BY <1>1, <1>2 DEF ToSet

\* The loops over the rows: the result holds the rows at the positions, and
\* nothing else.
LEMMA Elements ==
  ASSUME NEW X, NEW rows \in Seq(X), NEW I
  PROVE  LET those == {rows[i] : i \in I \cap DOMAIN rows}
         IN ElementsAt(rows, I) \in Seq(those) /\ ToSet(ElementsAt(rows, I)) = those
<1> DEFINE Those(m) == {rows[i] : i \in I \cap 1..m}
           chosen == CHOOSE g : IsLoop(g, rows, I, Len(rows))
           E == {m \in Nat : m \in 0..Len(rows) =>
                   chosen[m] \in Seq(Those(m)) /\ ToSet(chosen[m]) = Those(m)}
<1>1. Len(rows) \in Nat /\ DOMAIN rows = 1..Len(rows)
  OBVIOUS
<1>2. IsLoop(chosen, rows, I, Len(rows))
  BY <1>1, LoopExists
<1> HIDE DEF chosen
<1>3. 0 \in E
  <2>1. Those(0) = {}
    BY SMT
  <2>2. chosen[0] = <<>>
    BY <1>1, <1>2 DEF IsLoop
  <2>3. <<>> \in Seq({}) /\ ToSet(<<>>) = {}
    BY DEF ToSet
  <2> QED
    BY <2>1, <2>2, <2>3
<1>4. ASSUME NEW m \in Nat, m \in E PROVE m + 1 \in E
  <2> SUFFICES ASSUME m + 1 \in 0..Len(rows)
               PROVE  chosen[m + 1] \in Seq(Those(m + 1)) /\ ToSet(chosen[m + 1]) = Those(m + 1)
    OBVIOUS
  <2>1. m \in 0..Len(rows) /\ m + 1 # 0 /\ (m + 1) - 1 = m
    BY <1>1
  <2>2. chosen[m] \in Seq(Those(m)) /\ ToSet(chosen[m]) = Those(m)
    BY <1>4, <2>1
  <2>3. chosen[m + 1] = IF m + 1 \in I THEN Append(chosen[m], rows[m + 1]) ELSE chosen[m]
    BY <1>2, <2>1 DEF IsLoop
  <2>4. \A i : i \in 1..(m + 1) <=> i \in 1..m \/ i = m + 1
    BY SMT
  <2>5. CASE m + 1 \in I
    <3>1. Those(m + 1) = Those(m) \cup {rows[m + 1]}
      BY <2>4, <2>5
    <3> HIDE DEF Those
    <3>2. chosen[m] \in Seq(Those(m + 1))
      BY <2>2, <3>1, SeqMonotonic
    <3>3. Append(chosen[m], rows[m + 1]) \in Seq(Those(m + 1))
      BY <3>1, <3>2
    <3>4. ToSet(Append(chosen[m], rows[m + 1])) = ToSet(chosen[m]) \cup {rows[m + 1]}
      BY <2>2, AppendSet
    <3> QED
      BY <2>2, <2>3, <2>5, <3>1, <3>3, <3>4
  <2>6. CASE m + 1 \notin I
    <3>1. Those(m + 1) = Those(m)
      BY <2>4, <2>6
    <3> QED
      BY <2>2, <2>3, <2>6, <3>1
  <2> QED
    BY <2>5, <2>6
<1> HIDE DEF E
<1>5. Len(rows) \in E
  BY <1>1, <1>3, <1>4, Induction
<1>6. ElementsAt(rows, I) = chosen[Len(rows)]
  BY DEF ElementsAt, IsLoop, chosen
<1>7. Those(Len(rows)) = {rows[i] : i \in I \cap DOMAIN rows}
  BY <1>1
<1> QED
  BY <1>1, <1>5, <1>6, <1>7 DEF E

\* Every position is in one of the batches, and a batch is a part of the items.
LEMMA ChunksCover ==
  ASSUME NEW X, NEW items \in Seq(X)
  PROVE  /\ Chunks(items) \in Nat
         /\ Len(items) <= Chunks(items) * BatchSize
<1>1. BatchSize \in Nat \ {0} /\ Len(items) \in Nat
  BY IngestAssumption
<1> DEFINE n == Len(items) + BatchSize - 1
           q == n \div BatchSize
<1>2. n \in Nat
  BY <1>1
<1>3. q \in Nat /\ n < (q + 1) * BatchSize
  BY <1>1, <1>2
<1>4. (q + 1) * BatchSize = q * BatchSize + BatchSize
  BY <1>1, <1>3
<1>5. q * BatchSize \in Nat
  BY <1>1, <1>3
<1> HIDE DEF q
<1>6. Len(items) <= q * BatchSize
  BY <1>1, <1>3, <1>4, <1>5
<1> QED
  BY <1>3, <1>6 DEF Chunks, q

LEMMA ChunkHolds ==
  ASSUME NEW X, NEW items \in Seq(X), NEW b \in Nat \ {0}
  PROVE  /\ Chunk(items, b) \in Seq(X)
         /\ \A j \in DOMAIN Chunk(items, b) :
              /\ (b - 1) * BatchSize + j \in DOMAIN items
              /\ (b - 1) * BatchSize + j <= b * BatchSize
              /\ Chunk(items, b)[j] = items[(b - 1) * BatchSize + j]
         /\ \A i \in DOMAIN items :
              (b - 1) * BatchSize < i /\ i <= b * BatchSize =>
                /\ i - (b - 1) * BatchSize \in DOMAIN Chunk(items, b)
                /\ Chunk(items, b)[i - (b - 1) * BatchSize] = items[i]
<1> DEFINE first == (b - 1) * BatchSize
           to == b * BatchSize
           last == IF to > Len(items) THEN Len(items) ELSE to
<1>1. BatchSize \in Nat \ {0} /\ Len(items) \in Nat /\ DOMAIN items = 1..Len(items)
  BY IngestAssumption
<1>2. first \in Nat /\ to = first + BatchSize
  BY <1>1
<1>3. Chunk(items, b) = SubSeq(items, first + 1, last)
  BY DEF Chunk
<1> HIDE DEF first, to
<1>4. last \in Nat /\ last <= Len(items) /\ last <= to
  BY <1>1, <1>2
<1> HIDE DEF last
<1>5. CASE first + 1 <= last
  <2>1. /\ DOMAIN Chunk(items, b) = 1..(last - first) /\ Chunk(items, b) \in Seq(X)
        /\ \A j \in 1..(last - first) : Chunk(items, b)[j] = items[first + j]
    <3>1. first + 1 \in 1..Len(items) /\ last \in 1..Len(items)
      BY <1>1, <1>2, <1>4, <1>5
    <3>2. last - (first + 1) + 1 = last - first
      BY <1>2, <1>4
    <3>3. \A j \in 1..(last - first) : (first + 1) + j - 1 = first + j
      BY <1>2
    <3> QED
      BY <1>3, <1>5, <3>1, <3>2, <3>3, SubSeqProperties
  <2>2. \A j \in 1..(last - first) :
          first + j \in DOMAIN items /\ first + j <= to /\ Chunk(items, b)[j] = items[first + j]
    BY <1>1, <1>2, <1>4, <2>1
  <2>3. ASSUME NEW i \in DOMAIN items, first < i, i <= to
        PROVE  i - first \in 1..(last - first) /\ Chunk(items, b)[i - first] = items[i]
    <3>1. i \in Nat /\ i <= last
      BY <1>1, <1>2, <2>3 DEF last
    <3>2. i - first \in 1..(last - first) /\ first + (i - first) = i
      BY <1>2, <1>4, <2>3, <3>1
    <3> QED
      BY <2>1, <3>2
  <2> QED
    BY <2>1, <2>2, <2>3 DEF first, to
<1>6. CASE ~ (first + 1 <= last)
  <2>1. Chunk(items, b) = <<>>
    BY <1>1, <1>2, <1>3, <1>4, <1>6, SubSeqEmpty
  <2>2. \A i \in DOMAIN items : ~ (first < i /\ i <= to)
    BY <1>1, <1>2, <1>4, <1>6 DEF last
  <2> QED
    BY <2>1, <2>2 DEF first, to
<1> QED
  BY <1>5, <1>6

-----------------------------------------------------------------------------
(* What a run writes.                                                      *)

ColumnTypes == {row.data_type : row \in Rows}
KeptRows == {row \in Rows : row.table \notin Excluded}

TableItems == [id : TableIds \ Excluded, value : {"table"}]
ColumnItems == [id : ColumnIds, value : ColumnTypes]

\* The rows of the system are left out, and no other.
LEMMA KeptHolds ==
  ASSUME NEW rows \in Seq(Rows)
  PROVE  /\ Kept(rows) \in Seq(KeptRows)
         /\ ToSet(Kept(rows)) = {row \in ToSet(rows) : row.table \notin Excluded}
<1> DEFINE I == {i \in DOMAIN rows : rows[i].table \notin Excluded}
           those == {rows[i] : i \in I \cap DOMAIN rows}
<1>1. Kept(rows) \in Seq(those) /\ ToSet(Kept(rows)) = those
  BY Elements DEF Kept
<1>2. \A i \in DOMAIN rows : rows[i] \in Rows
  OBVIOUS
<1>3. those \subseteq KeptRows
  BY <1>2 DEF KeptRows
<1>4. those = {row \in ToSet(rows) : row.table \notin Excluded}
  BY DEF ToSet
<1> HIDE DEF those
<1> QED
  BY <1>1, <1>3, <1>4, SeqMonotonic

\* A table and its columns get nodes, and an edge joins two of these.
LEMMA ItemsTyped ==
  ASSUME NEW rows \in Catalogs \cup {<<>>}
  PROVE  /\ TableNodes(rows) \in Seq(TableItems)
         /\ ColumnNodes(rows) \in Seq(ColumnItems)
         /\ EdgeParams(rows) \in Seq(TableIds \X ColumnIds)
         /\ DOMAIN ColumnNodes(rows) = DOMAIN EdgeParams(rows)
         /\ \A i \in DOMAIN EdgeParams(rows) :
              /\ EdgeParams(rows)[i][2] = ColumnNodes(rows)[i].id
              /\ \E node \in ToSet(TableNodes(rows)) : node.id = EdgeParams(rows)[i][1]
<1> DEFINE kept == Kept(rows)
           tables == [i \in DOMAIN kept |-> [id |-> kept[i].table, value |-> "table"]]
           I == {i \in DOMAIN tables : \A j \in 1..(i - 1) : tables[j] # tables[i]}
           those == {tables[i] : i \in I \cap DOMAIN tables}
<1>1. rows \in Seq(Rows)
  <2>1. <<>> \in Seq(Rows)
    OBVIOUS
  <2> QED
    BY <2>1, IngestAssumption
<1>2. kept \in Seq(KeptRows)
  BY <1>1, KeptHolds
<1> HIDE DEF kept
<1>3. Len(kept) \in Nat /\ DOMAIN kept = 1..Len(kept) /\ \A i \in DOMAIN kept : kept[i] \in KeptRows
  BY <1>2
<1>4. \A i \in DOMAIN kept : /\ kept[i].table \in TableIds \ Excluded
                             /\ kept[i].column \in ColumnIds
                             /\ kept[i].data_type \in ColumnTypes
  BY <1>3 DEF KeptRows, TableIds, ColumnIds, ColumnTypes
<1>5. tables \in Seq(TableItems)
  <2>1. tables \in [1..Len(kept) -> TableItems]
    BY <1>3, <1>4 DEF TableItems
  <2> QED
    BY <1>3, <2>1
<1>6. TableNodes(rows) = ElementsAt(tables, I)
  BY DEF TableNodes, kept
<1>7. TableNodes(rows) \in Seq(those) /\ ToSet(TableNodes(rows)) = those
  BY <1>5, <1>6, Elements, ZenonT(40)
<1>8. TableNodes(rows) \in Seq(TableItems)
  <2>1. \A i \in DOMAIN tables : tables[i] \in TableItems
    BY <1>5
  <2> HIDE DEF tables
  <2>2. those \subseteq TableItems
    BY <2>1
  <2> HIDE DEF those
  <2> QED
    BY <1>7, <2>2, SeqMonotonic
<1>9. ColumnNodes(rows) \in [1..Len(kept) -> ColumnItems]
  BY <1>3, <1>4 DEF ColumnNodes, ColumnItems, kept
<1>10. EdgeParams(rows) \in [1..Len(kept) -> TableIds \X ColumnIds]
  BY <1>3, <1>4 DEF EdgeParams, kept
<1>11. ASSUME NEW i \in DOMAIN EdgeParams(rows)
       PROVE  /\ EdgeParams(rows)[i][2] = ColumnNodes(rows)[i].id
              /\ \E node \in ToSet(TableNodes(rows)) : node.id = EdgeParams(rows)[i][1]
  <2>1. i \in 1..Len(kept) /\ EdgeParams(rows)[i] = <<kept[i].table, kept[i].column>>
    BY <1>3, <1>10 DEF EdgeParams, kept
  <2>2. ColumnNodes(rows)[i].id = kept[i].column
    BY <1>3, <2>1 DEF ColumnNodes, kept
  <2> DEFINE J == {j \in 1..Len(kept) : tables[j] = tables[i]}
  <2>3. J \subseteq Nat /\ i \in J
    BY <1>3, <2>1
  <2>4. PICK k \in J : \A j \in J : k <= j
    BY <2>3, SmallestNumber
  <2>5. k \in I
    BY <1>3, <2>4
  <2>6. tables[k].id = kept[i].table
    BY <1>3, <2>1, <2>4
  <2>7. tables[k] \in ToSet(TableNodes(rows))
    BY <1>7, <2>5
  <2> QED
    BY <2>1, <2>2, <2>6, <2>7
<1>12. ColumnNodes(rows) \in Seq(ColumnItems) /\ EdgeParams(rows) \in Seq(TableIds \X ColumnIds)
  BY <1>3, <1>9, <1>10
<1>13. DOMAIN ColumnNodes(rows) = DOMAIN EdgeParams(rows)
  BY <1>9, <1>10
<1> QED
  BY <1>8, <1>11, <1>12, <1>13

\* What the rows of a statement leave in a node is a value of one of them: of
\* the last that has the identifier.
LEMMA LastOf ==
  ASSUME NEW X, NEW items \in Seq(X), NEW i \in DOMAIN items
  PROVE  \E k \in DOMAIN items :
           /\ items[k].id = items[i].id /\ ValueOf(items, items[i].id) = items[k].value
           /\ \A j \in DOMAIN items : items[j].id = items[i].id => j <= k
<1> DEFINE id == items[i].id
           IsLast(k) == /\ items[k].id = id
                        /\ \A j \in DOMAIN items : items[j].id = id => j <= k
           last == CHOOSE k \in DOMAIN items : IsLast(k)
           S == {Len(items) - j : j \in {k \in DOMAIN items : items[k].id = id}}
<1>1. Len(items) \in Nat /\ DOMAIN items = 1..Len(items)
  OBVIOUS
<1>2. S \subseteq Nat /\ S # {}
  BY <1>1
<1>3. PICK m \in S : \A n \in S : m <= n
  BY <1>2, SmallestNumber
<1>4. PICK k \in DOMAIN items : items[k].id = id /\ m = Len(items) - k
  BY <1>3
<1>5. ASSUME NEW j \in DOMAIN items, items[j].id = id PROVE j <= k
  <2>1. Len(items) - k <= Len(items) - j
    BY <1>3, <1>4, <1>5
  <2> QED
    BY <1>1, <2>1
<1>6. IsLast(k)
  BY <1>4, <1>5
<1> HIDE DEF IsLast
<1>7. last \in DOMAIN items /\ IsLast(last)
  BY <1>6
<1>8. ValueOf(items, id) = items[last].value
  BY DEF ValueOf, IsLast
<1> HIDE DEF last
<1> QED
  BY <1>7, <1>8 DEF IsLast

\* A node that is merged exists from then on; when all of its duplicates were
\* matched, all have the new value.
LEMMA MergedSeq ==
  ASSUME NEW S, NEW s \in Seq(S), NEW v \in S, NEW count \in Nat, count <= Len(s)
  PROVE  /\ Merged(s, v, count) \in Seq(S) /\ Len(Merged(s, v, count)) # 0
         /\ Len(Merged(s, v, count)) >= Len(s)
         /\ count # 0 => Len(Merged(s, v, count)) = Len(s)
         /\ count = 0 => Len(Merged(s, v, count)) = Len(s) + 1
         /\ count = Len(s) => ToSet(Merged(s, v, count)) = {v}
<1>1. Len(s) \in Nat /\ DOMAIN s = 1..Len(s)
  OBVIOUS
<1>2. CASE count = 0
  <2>1. Merged(s, v, count) = Append(s, v)
    BY <1>2 DEF Merged
  <2>2. Append(s, v) \in Seq(S) /\ Len(Append(s, v)) = Len(s) + 1
    OBVIOUS
  <2>3. ToSet(Append(s, v)) = ToSet(s) \cup {v}
    BY AppendSet
  <2>4. Len(s) = 0 => ToSet(s) = {}
    BY <1>1 DEF ToSet
  <2>5. count = Len(s) => ToSet(Append(s, v)) = {v}
    BY <1>2, <2>3, <2>4
  <2>6. Len(Append(s, v)) # 0 /\ Len(Append(s, v)) >= Len(s)
    BY <1>1, <2>2
  <2> QED
    BY <1>2, <2>1, <2>2, <2>5, <2>6
<1>3. CASE count # 0
  <2> DEFINE t == [i \in DOMAIN s |-> IF i <= count THEN v ELSE s[i]]
  <2>1. Merged(s, v, count) = t
    BY <1>3 DEF Merged
  <2>2. t \in [1..Len(s) -> S]
    BY <1>1
  <2>3. t \in Seq(S) /\ Len(t) = Len(s)
    BY <1>1, <2>2
  <2>4. count = Len(s) => \A i \in 1..Len(s) : t[i] = v
    BY <1>1
  <2>5. count = Len(s) => ToSet(t) = {v}
    BY <1>1, <1>3, <2>2, <2>4 DEF ToSet
  <2> HIDE DEF t
  <2>6. Len(t) # 0 /\ Len(t) >= Len(s)
    BY <1>1, <1>3, <2>3
  <2> QED
    BY <1>3, <2>1, <2>3, <2>5, <2>6
<1> QED
  BY <1>2, <1>3

-----------------------------------------------------------------------------
(* The types.                                                              *)

Phases == Writing \cup Ended \cup {"new", "discovery"}

\* What a run has found and matched keeps its type.
Types ==
  /\ warehouse \in Catalogs
  /\ DOMAIN nodes = TableIds \cup ColumnIds
  /\ \A id \in TableIds : nodes[id] \in Seq({"table"})
  /\ \A id \in ColumnIds : nodes[id] \in Seq(ColumnTypes)
  /\ \A id \in Excluded \cap TableIds : nodes[id] = <<>>
  /\ edges \subseteq TableIds \X ColumnIds
  /\ phase \in [Runs -> Phases]
  /\ raw_rows \in [Runs -> Catalogs \cup {<<>>}]
  /\ batch \in [Runs -> Nat \ {0}]
  /\ DOMAIN found = Runs
  /\ alone \in [Runs -> BOOLEAN]

\* A statement has matched nodes that are still there.
Matched ==
  \A r \in Runs : found[r] # NotMatched =>
    /\ phase[r] \in Writing
    /\ \A id \in DOMAIN nodes : found[r][id] \in Nat /\ found[r][id] <= Len(nodes[id])

TypeInv == Types /\ Matched

\* The batch of a run that writes nodes, seen from an identifier in it.
LEMMA PayloadTyped ==
  ASSUME TypeInv, NEW r \in Runs, NEW id,
         \E i \in DOMAIN Payload(r) : Payload(r)[i].id = id
  PROVE  /\ phase[r] = "tables" =>
              id \in TableIds \ Excluded /\ ValueOf(Payload(r), id) = "table"
         /\ phase[r] = "columns" =>
              id \in ColumnIds /\ ValueOf(Payload(r), id) \in ColumnTypes
<1> DEFINE rows == raw_rows[r]
<1>1. rows \in Catalogs \cup {<<>>} /\ batch[r] \in Nat \ {0}
  BY DEF TypeInv, Types
<1> HIDE DEF rows
<1>2. PICK i \in DOMAIN Payload(r) : Payload(r)[i].id = id
  OBVIOUS
<1>3. CASE phase[r] = "tables"
  <2>1. Payload(r) \in Seq(TableItems)
    BY <1>1, <1>3, ItemsTyped, ChunkHolds DEF Payload, Items, rows
  <2>2. PICK k \in DOMAIN Payload(r) : /\ Payload(r)[k].id = id
                                      /\ ValueOf(Payload(r), id) = Payload(r)[k].value
    BY <1>2, <2>1, LastOf
  <2>3. Payload(r)[k] \in TableItems
    BY <2>1
  <2> QED
    BY <1>3, <2>2, <2>3 DEF TableItems
<1>4. CASE phase[r] = "columns"
  <2>1. Payload(r) \in Seq(ColumnItems)
    BY <1>1, <1>4, ItemsTyped, ChunkHolds DEF Payload, Items, rows
  <2>2. PICK k \in DOMAIN Payload(r) : /\ Payload(r)[k].id = id
                                      /\ ValueOf(Payload(r), id) = Payload(r)[k].value
    BY <1>2, <2>1, LastOf
  <2>3. Payload(r)[k] \in ColumnItems
    BY <2>1
  <2> QED
    BY <1>4, <2>2, <2>3 DEF ColumnItems
<1> QED
  BY <1>3, <1>4

\* What a commit does to the nodes of an identifier.
LEMMA NodesMerged ==
  ASSUME TypeInv, NEW r \in Runs, found[r] # NotMatched, phase[r] # "edges", WriteNodes(r),
         NEW id \in DOMAIN nodes
  PROVE  LET count == found[r][id]
             value == ValueOf(Payload(r), id)
         IN /\ DOMAIN nodes' = DOMAIN nodes /\ count \in Nat /\ count <= Len(nodes[id])
            /\ \/ /\ ~ \E i \in DOMAIN Payload(r) : Payload(r)[i].id = id
                  /\ nodes'[id] = nodes[id]
               \/ /\ \E i \in DOMAIN Payload(r) : Payload(r)[i].id = id
                  /\ nodes'[id] = Merged(nodes[id], value, count)
                  /\ \/ phase[r] = "tables" /\ id \in TableIds \ Excluded /\ value = "table"
                     \/ phase[r] = "columns" /\ id \in ColumnIds /\ value \in ColumnTypes
<1>1. phase[r] \in Writing /\ found[r][id] \in Nat /\ found[r][id] <= Len(nodes[id])
  BY DEF TypeInv, Matched
<1>2. /\ DOMAIN nodes' = DOMAIN nodes
      /\ nodes'[id] = IF \E i \in DOMAIN Payload(r) : Payload(r)[i].id = id
                      THEN Merged(nodes[id], ValueOf(Payload(r), id), found[r][id])
                      ELSE nodes[id]
  BY DEF WriteNodes
<1>3. phase[r] = "tables" \/ phase[r] = "columns"
  BY <1>1 DEF Writing
<1> QED
  BY <1>1, <1>2, <1>3, PayloadTyped

\* The nodes of an identifier in any step.
LEMMA NodesStep ==
  ASSUME TypeInv, [Next]_vars
  PROVE  /\ DOMAIN nodes' = DOMAIN nodes
         /\ \A id \in TableIds : nodes'[id] \in Seq({"table"})
         /\ \A id \in ColumnIds : nodes'[id] \in Seq(ColumnTypes)
         /\ \A id \in Excluded \cap TableIds : nodes'[id] = <<>>
         /\ \A id \in DOMAIN nodes : Len(nodes'[id]) >= Len(nodes[id])
<1>1. /\ DOMAIN nodes = TableIds \cup ColumnIds
      /\ \A id \in TableIds : nodes[id] \in Seq({"table"})
      /\ \A id \in ColumnIds : nodes[id] \in Seq(ColumnTypes)
      /\ \A id \in Excluded \cap TableIds : nodes[id] = <<>>
      /\ \A id \in DOMAIN nodes : Len(nodes[id]) \in Nat
  BY DEF TypeInv, Types
<1>2. CASE UNCHANGED nodes
  BY <1>1, <1>2
<1>3. ASSUME NEW r \in Runs, found[r] # NotMatched, phase[r] # "edges", WriteNodes(r)
      PROVE  /\ DOMAIN nodes' = DOMAIN nodes
             /\ \A id \in TableIds : nodes'[id] \in Seq({"table"})
             /\ \A id \in ColumnIds : nodes'[id] \in Seq(ColumnTypes)
             /\ \A id \in Excluded \cap TableIds : nodes'[id] = <<>>
             /\ \A id \in DOMAIN nodes : Len(nodes'[id]) >= Len(nodes[id])
  <2>1. TableIds \cap ColumnIds = {}
    BY IngestAssumption
  <2>2. ASSUME NEW id \in TableIds
        PROVE  /\ nodes'[id] \in Seq({"table"}) /\ Len(nodes'[id]) >= Len(nodes[id])
               /\ id \in Excluded => nodes'[id] = <<>>
    <3>1. id \in DOMAIN nodes /\ nodes[id] \in Seq({"table"}) /\ id \notin ColumnIds
      BY <1>1, <2>1
    <3>2. \/ nodes'[id] = nodes[id]
          \/ id \notin Excluded /\ nodes'[id] = Merged(nodes[id], "table", found[r][id])
      BY <1>3, <3>1, NodesMerged
    <3>3. found[r][id] \in Nat /\ found[r][id] <= Len(nodes[id])
      BY <1>3, <3>1, NodesMerged
    <3> HIDE DEF TypeInv
    <3> QED
      BY <1>1, <3>1, <3>2, <3>3, MergedSeq
  <2>3. ASSUME NEW id \in ColumnIds
        PROVE  nodes'[id] \in Seq(ColumnTypes) /\ Len(nodes'[id]) >= Len(nodes[id])
    <3>1. id \in DOMAIN nodes /\ nodes[id] \in Seq(ColumnTypes) /\ id \notin TableIds
      BY <1>1, <2>1
    <3>2. \/ nodes'[id] = nodes[id]
          \/ \E v \in ColumnTypes : nodes'[id] = Merged(nodes[id], v, found[r][id])
      BY <1>3, <3>1, NodesMerged
    <3>3. found[r][id] \in Nat /\ found[r][id] <= Len(nodes[id])
      BY <1>3, <3>1, NodesMerged
    <3> QED
      BY <1>1, <3>1, <3>2, <3>3, MergedSeq
  <2>4. DOMAIN nodes' = DOMAIN nodes
    BY <1>3 DEF WriteNodes
  <2> QED
    BY <1>1, <2>2, <2>3, <2>4
<1>4. UNCHANGED nodes \/ \E r \in Runs : found[r] # NotMatched /\ phase[r] # "edges" /\ WriteNodes(r)
  BY DEF Next, vars, Migrate, Start, Discover, Match, Commit, WriteEdges, LoseLast, EndBatches, Fail
<1> QED
  BY <1>2, <1>3, <1>4

LEMMA InitTypes == Init => TypeInv
<1> SUFFICES ASSUME Init PROVE TypeInv
  OBVIOUS
<1> USE DEF Init
<1>1. Types
  <2>1. <<>> \in Seq({"table"}) /\ <<>> \in Seq(ColumnTypes)
    OBVIOUS
  <2>2. \A id \in TableIds \cup ColumnIds : nodes[id] = <<>>
    OBVIOUS
  <2>3. phase \in [Runs -> Phases]
    BY DEF Phases
  <2>4. alone \in [Runs -> BOOLEAN]
    BY Zenon
  <2>5. /\ raw_rows \in [Runs -> Catalogs \cup {<<>>}] /\ batch \in [Runs -> Nat \ {0}]
        /\ DOMAIN found = Runs
    OBVIOUS
  <2> QED
    BY <2>1, <2>2, <2>3, <2>4, <2>5 DEF Types
<1>2. Matched
  BY DEF Matched
<1> QED
  BY <1>1, <1>2 DEF TypeInv

\* A step keeps the types when it keeps those of the places of the runs, and
\* matches nodes that are there.
LEMMA TypesKept ==
  ASSUME TypeInv, [Next]_vars,
         warehouse' \in Catalogs,
         edges' \subseteq TableIds \X ColumnIds,
         phase' \in [Runs -> Phases],
         raw_rows' \in [Runs -> Catalogs \cup {<<>>}],
         batch' \in [Runs -> Nat \ {0}],
         DOMAIN found' = Runs,
         alone' \in [Runs -> BOOLEAN],
         \A r \in Runs : found'[r] # NotMatched =>
           /\ phase'[r] \in Writing
           /\ \/ found'[r] = found[r]
              \/ found'[r] = [id \in DOMAIN nodes |-> Len(nodes[id])]
  PROVE  TypeInv'
<1>1. /\ DOMAIN nodes' = DOMAIN nodes
      /\ \A id \in TableIds : nodes'[id] \in Seq({"table"})
      /\ \A id \in ColumnIds : nodes'[id] \in Seq(ColumnTypes)
      /\ \A id \in Excluded \cap TableIds : nodes'[id] = <<>>
      /\ \A id \in DOMAIN nodes : Len(nodes'[id]) >= Len(nodes[id])
  BY NodesStep
<1>2. Types'
  BY <1>1 DEF TypeInv, Types
<1>3. \A id \in DOMAIN nodes : Len(nodes[id]) \in Nat /\ Len(nodes'[id]) \in Nat
  BY <1>1 DEF TypeInv, Types
<1>4. ASSUME NEW r \in Runs, found'[r] # NotMatched, NEW id \in DOMAIN nodes
      PROVE  found'[r][id] \in Nat /\ found'[r][id] <= Len(nodes'[id])
  <2>1. CASE found'[r] = found[r]
    BY <1>1, <1>3, <1>4, <2>1 DEF TypeInv, Matched
  <2>2. CASE found'[r] = [i \in DOMAIN nodes |-> Len(nodes[i])]
    BY <1>1, <1>3, <2>2
  <2> QED
    BY <1>4, <2>1, <2>2
<1>5. Matched'
  BY <1>1, <1>4 DEF Matched
<1> QED
  BY <1>2, <1>5 DEF TypeInv

LEMMA StepTypes == TypeInv /\ [Next]_vars => TypeInv'
<1> SUFFICES ASSUME TypeInv, [Next]_vars PROVE TypeInv'
  OBVIOUS
<1>1. /\ warehouse \in Catalogs /\ edges \subseteq TableIds \X ColumnIds
      /\ phase \in [Runs -> Phases] /\ raw_rows \in [Runs -> Catalogs \cup {<<>>}]
      /\ batch \in [Runs -> Nat \ {0}] /\ DOMAIN found = Runs
      /\ alone \in [Runs -> BOOLEAN]
  BY DEF TypeInv, Types
<1>2. \A r \in Runs : found[r] # NotMatched => phase[r] \in Writing
  BY DEF TypeInv, Matched
<1>3. CASE Migrate \/ UNCHANGED vars
  <2>1. warehouse' \in Catalogs /\ UNCHANGED <<edges, phase, raw_rows, batch, found, alone>>
    BY <1>1, <1>3 DEF Migrate, vars
  <2> QED
    BY <1>1, <1>2, <2>1, TypesKept
<1>4. ASSUME NEW r \in Runs, Start(r) PROVE TypeInv'
  <2>1. /\ phase' = [phase EXCEPT ![r] = "discovery"] /\ phase[r] = "new"
        /\ UNCHANGED <<warehouse, edges, raw_rows, batch, found>>
    BY <1>4 DEF Start
  <2>2. alone' \in [Runs -> BOOLEAN]
    <3>1. alone' = [s \in Runs |-> alone[s] /\ (s \in UnderWay \cup {r} => UnderWay = {})]
      BY <1>4 DEF Start
    <3> QED
      BY <3>1, Zenon
  <2>3. phase' \in [Runs -> Phases]
    BY <1>1, <2>1 DEF Phases
  <2>4. \A s \in Runs : found'[s] # NotMatched => phase'[s] \in Writing /\ found'[s] = found[s]
    BY <1>1, <1>2, <2>1 DEF Writing
  <2> QED
    BY <1>1, <2>1, <2>2, <2>3, <2>4, TypesKept
<1>5. ASSUME NEW r \in Runs, Discover(r) PROVE TypeInv'
  <2>1. /\ raw_rows' = [raw_rows EXCEPT ![r] = warehouse] /\ phase[r] = "discovery"
        /\ UNCHANGED <<warehouse, edges, batch, found, alone>>
    BY <1>5 DEF Discover
  <2>2. PICK next \in {"failed", "tables", "dry"} : phase' = [phase EXCEPT ![r] = next]
    BY <1>5 DEF Discover
  <2>3. phase' \in [Runs -> Phases]
    BY <1>1, <2>2 DEF Phases, Writing, Ended
  <2>4. found[r] = NotMatched
    BY <1>2, <2>1 DEF Writing
  <2>5. \A s \in Runs : found'[s] # NotMatched => phase'[s] \in Writing /\ found'[s] = found[s]
    BY <1>1, <1>2, <2>1, <2>2, <2>4
  <2>6. raw_rows' \in [Runs -> Catalogs \cup {<<>>}]
    BY <1>1, <2>1
  <2> QED
    BY <1>1, <2>1, <2>3, <2>5, <2>6, TypesKept
<1>6. ASSUME NEW r \in Runs, Match(r) PROVE TypeInv'
  <2>1. /\ found' = [found EXCEPT ![r] = [id \in DOMAIN nodes |-> Len(nodes[id])]]
        /\ phase[r] \in Writing
        /\ UNCHANGED <<warehouse, edges, phase, raw_rows, batch, alone>>
    BY <1>6 DEF Match
  <2>2. \A s \in Runs : found'[s] # NotMatched =>
          /\ phase'[s] \in Writing
          /\ found'[s] = found[s] \/ found'[s] = [id \in DOMAIN nodes |-> Len(nodes[id])]
    BY <1>1, <1>2, <2>1
  <2> QED
    BY <1>1, <2>1, <2>2, TypesKept
<1>7. ASSUME NEW r \in Runs, Commit(r) \/ LoseLast(r) \/ EndBatches(r) \/ Fail(r)
      PROVE  TypeInv'
  <2>1. /\ \/ phase' = phase \/ \E p \in Phases : phase' = [phase EXCEPT ![r] = p]
        /\ \/ batch' = batch \/ batch' = [batch EXCEPT ![r] = batch[r] + 1]
           \/ batch' = [batch EXCEPT ![r] = 1]
        /\ \/ found' = [found EXCEPT ![r] = NotMatched]
           \/ found[r] = NotMatched /\ found' = found
        /\ UNCHANGED <<warehouse, raw_rows, alone>>
    <3>1. NextPhase(phase[r]) \in Phases /\ "failed" \in Phases
      BY DEF NextPhase, Phases, Writing, Ended
    <3>2. CASE Commit(r) \/ LoseLast(r)
      BY <3>1, <3>2 DEF Commit, LoseLast
    <3>3. CASE EndBatches(r)
      BY <3>1, <3>3 DEF EndBatches
    <3>4. CASE Fail(r)
      BY <3>1, <3>4 DEF Fail
    <3> QED
      BY <1>7, <3>2, <3>3, <3>4
  <2>2. phase' \in [Runs -> Phases]
    BY <1>1, <2>1
  <2>3. batch' \in [Runs -> Nat \ {0}]
    BY <1>1, <2>1
  <2>4. /\ DOMAIN found' = Runs /\ found'[r] = NotMatched
        /\ \A s \in Runs \ {r} : found'[s] = found[s] /\ phase'[s] = phase[s]
    BY <1>1, <2>1
  <2>5. edges' \subseteq TableIds \X ColumnIds
    <3>1. CASE UNCHANGED edges
      BY <1>1, <3>1
    <3>2. CASE phase[r] = "edges" /\ WriteEdges(r)
      <4>1. raw_rows[r] \in Catalogs \cup {<<>>} /\ batch[r] \in Nat \ {0}
        BY <1>1
      <4>2. Payload(r) \in Seq(TableIds \X ColumnIds)
        BY <3>2, <4>1, ItemsTyped, ChunkHolds DEF Payload, Items
      <4>3. ToSet(Payload(r)) \subseteq TableIds \X ColumnIds
        BY <4>2 DEF ToSet
      <4> QED
        BY <1>1, <3>2, <4>3 DEF WriteEdges
    <3> QED
      BY <1>7, <3>1, <3>2 DEF Commit, WriteNodes, LoseLast, EndBatches, Fail
  <2>6. \A s \in Runs : found'[s] # NotMatched => phase'[s] \in Writing /\ found'[s] = found[s]
    BY <1>2, <2>4
  <2> QED
    BY <1>1, <2>1, <2>2, <2>3, <2>4, <2>5, <2>6, TypesKept
<1> QED
  BY <1>3, <1>4, <1>5, <1>6, <1>7 DEF Next

\* Every variable keeps its type, for all catalogs and any mix of runs; a table
\* of the system never gets a node.
THEOREM TypeCorrect == Spec => []TypeOK
<1>1. TypeInv => TypeOK
  <2> SUFFICES ASSUME TypeInv PROVE TypeOK
    OBVIOUS
  <2> USE DEF TypeInv
  <2>1. \A id \in TableIds : ToSet(nodes[id]) \subseteq {"table"}
    <3>1. \A id \in TableIds : nodes[id] \in Seq({"table"})
      BY DEF Types
    <3> QED
      BY <3>1 DEF ToSet
  <2>2. \A id \in ColumnIds : ToSet(nodes[id]) \subseteq {row.data_type : row \in Rows}
    <3>1. \A id \in ColumnIds : nodes[id] \in Seq(ColumnTypes)
      BY DEF Types
    <3>2. \A id \in ColumnIds : ToSet(nodes[id]) \subseteq ColumnTypes
      BY <3>1 DEF ToSet
    <3> QED
      BY <3>2 DEF ColumnTypes
  <2>3. \A r \in Runs : found[r] # NotMatched =>
          phase[r] \in Writing /\ \A id \in DOMAIN nodes : found[r][id] <= Len(nodes[id])
    BY DEF Matched
  <2> QED
    BY <2>1, <2>2, <2>3 DEF TypeOK, Types, Phases
<1> QED
  BY <1>1, InitTypes, StepTypes, PTL DEF Spec

-----------------------------------------------------------------------------
(* What a run has written, with others beside it.                          *)

\* The phases that a run has behind it.
Past(p) ==
  CASE p = "tables" -> {}
    [] p = "columns" -> {"tables"}
    [] p = "edges" -> {"tables", "columns"}
    [] p = "done" -> Writing
    [] OTHER -> {}

IsWritten(p, rows, item) ==
  IF p = "edges"
  THEN item \in edges \/ Contains(Chunk(EdgeParams(rows), Chunks(EdgeParams(rows))), item)
  ELSE nodes[item.id] # <<>>

\* The items of the past phases and of the past batches are written.
Progress ==
  \A r \in Runs :
    /\ phase[r] \in {"new", "discovery"} => batch[r] = 1
    /\ \A p \in Writing : \A i \in DOMAIN Items(p, raw_rows[r]) :
         \/ p \in Past(phase[r])
         \/ p = phase[r] /\ i <= (batch[r] - 1) * BatchSize
         => IsWritten(p, raw_rows[r], Items(p, raw_rows[r])[i])

\* A statement that writes edges has matched both ends of each.
EndsMatched ==
  \A r \in Runs : found[r] # NotMatched /\ phase[r] = "edges" =>
    \A e \in ToSet(EdgeParams(raw_rows[r])) : found[r][e[1]] > 0 /\ found[r][e[2]] > 0


WrittenInv == TypeInv /\ Progress /\ EndsMatched

\* Where a run stands: only its own steps change it.
Stays(s) ==
  /\ phase'[s] = phase[s] /\ raw_rows'[s] = raw_rows[s]
  /\ batch'[s] = batch[s] /\ found'[s] = found[s]

Moves(s) ==
  \/ Start(s) \/ Discover(s) \/ Match(s) \/ Commit(s) \/ LoseLast(s) \/ EndBatches(s) \/ Fail(s)

LEMMA OwnSteps ==
  ASSUME TypeInv, [Next]_vars, NEW s \in Runs
  PROVE  Stays(s) \/ Moves(s)
<1>1. /\ phase \in [Runs -> Phases] /\ raw_rows \in [Runs -> Catalogs \cup {<<>>}]
      /\ batch \in [Runs -> Nat \ {0}] /\ DOMAIN found = Runs
  BY DEF TypeInv, Types
<1>2. ASSUME NEW r \in Runs, r # s, Moves(r) PROVE Stays(s)
  <2>1. CASE Start(r)
    BY <1>1, <1>2, <2>1 DEF Start, Stays
  <2>2. CASE Discover(r)
    BY <1>1, <1>2, <2>2 DEF Discover, Stays
  <2>3. CASE Match(r)
    BY <1>1, <1>2, <2>3 DEF Match, Stays
  <2>4. CASE Commit(r)
    BY <1>1, <1>2, <2>4 DEF Commit, Stays
  <2>5. CASE LoseLast(r)
    BY <1>1, <1>2, <2>5 DEF LoseLast, Stays
  <2>6. CASE EndBatches(r)
    BY <1>1, <1>2, <2>6 DEF EndBatches, Stays
  <2>7. CASE Fail(r)
    BY <1>1, <1>2, <2>7 DEF Fail, Stays
  <2> QED
    BY <1>2, <2>1, <2>2, <2>3, <2>4, <2>5, <2>6, <2>7 DEF Moves
<1>3. CASE Migrate \/ UNCHANGED vars
  BY <1>3 DEF Migrate, vars, Stays
<1> QED
  BY <1>2, <1>3 DEF Next, Moves

\* The identifiers of what a run writes are identifiers of nodes.
LEMMA ItemsInGraph ==
  ASSUME TypeInv, NEW rows \in Catalogs \cup {<<>>}, NEW p \in Writing
  PROVE  /\ \E X : Items(p, rows) \in Seq(X)
         /\ p # "edges" => \A i \in DOMAIN Items(p, rows) : Items(p, rows)[i].id \in DOMAIN nodes
<1>1. DOMAIN nodes = TableIds \cup ColumnIds
  BY DEF TypeInv, Types
<1>2. CASE p = "tables"
  <2>1. Items(p, rows) \in Seq(TableItems)
    BY <1>2, ItemsTyped DEF Items
  <2>2. \A i \in DOMAIN Items(p, rows) : Items(p, rows)[i] \in TableItems
    BY <2>1
  <2>3. \A item \in TableItems : item.id \in TableIds
    BY DEF TableItems
  <2> QED
    BY <1>1, <2>1, <2>2, <2>3
<1>3. CASE p = "columns"
  <2>1. Items(p, rows) \in Seq(ColumnItems)
    BY <1>3, ItemsTyped DEF Items
  <2>2. \A i \in DOMAIN Items(p, rows) : Items(p, rows)[i] \in ColumnItems
    BY <2>1
  <2>3. \A item \in ColumnItems : item.id \in ColumnIds
    BY DEF ColumnItems
  <2> QED
    BY <1>1, <2>1, <2>2, <2>3
<1>4. CASE p = "edges"
  BY <1>4, ItemsTyped DEF Items
<1> QED
  BY <1>2, <1>3, <1>4 DEF Writing

\* What is written stays, whoever takes the step.
LEMMA WrittenStays ==
  ASSUME TypeInv, [Next]_vars, NEW rows \in Catalogs \cup {<<>>}, NEW p \in Writing,
         NEW i \in DOMAIN Items(p, rows), IsWritten(p, rows, Items(p, rows)[i])
  PROVE  IsWritten(p, rows, Items(p, rows)[i])'
<1> DEFINE item == Items(p, rows)[i]
<1>1. edges \subseteq edges'
  BY DEF Next, vars, Migrate, Start, Discover, Match, Commit, WriteNodes, WriteEdges, LoseLast, EndBatches, Fail
<1>2. CASE p = "edges"
  BY <1>1, <1>2 DEF IsWritten
<1>3. CASE p # "edges"
  <2>1. item.id \in DOMAIN nodes
    BY <1>3, ItemsInGraph
  <2>2. Len(nodes'[item.id]) >= Len(nodes[item.id])
    BY <2>1, NodesStep
  <2>3. \E S : nodes[item.id] \in Seq(S)
    BY <2>1 DEF TypeInv, Types
  <2>4. nodes[item.id] # <<>>
    BY <1>3 DEF IsWritten
  <2>5. Len(nodes[item.id]) \in Nat /\ Len(nodes[item.id]) # 0
    BY <2>3, <2>4, EmptySeq
  <2>6. nodes'[item.id] # <<>>
    BY <2>2, <2>5
  <2> QED
    BY <1>3, <2>6 DEF IsWritten
<1> QED
  BY <1>2, <1>3

\* The i-th item is in the batch b.
LEMMA InBatch ==
  ASSUME TypeInv, NEW r \in Runs, phase[r] \in Writing,
         NEW i \in DOMAIN Items(phase[r], raw_rows[r]),
         ~ (i <= (batch[r] - 1) * BatchSize), i <= batch[r] * BatchSize
  PROVE  \E j \in DOMAIN Payload(r) : Payload(r)[j] = Items(phase[r], raw_rows[r])[i]
<1>1. raw_rows[r] \in Catalogs \cup {<<>>} /\ batch[r] \in Nat \ {0}
  BY DEF TypeInv, Types
<1>2. PICK X : Items(phase[r], raw_rows[r]) \in Seq(X)
  BY <1>1, ItemsInGraph
<1>3. i \in Nat /\ BatchSize \in Nat \ {0}
  BY <1>2, IngestAssumption
<1>4. (batch[r] - 1) * BatchSize \in Nat
  BY <1>1, <1>3
<1>5. (batch[r] - 1) * BatchSize < i
  BY <1>3, <1>4
<1> QED
  BY <1>1, <1>2, <1>5, ChunkHolds, ZenonT(40) DEF Payload

\* A commit writes the batch.
LEMMA CommitWrites ==
  ASSUME WrittenInv, NEW r \in Runs, Commit(r),
         NEW p, p = phase[r], NEW rows, rows = raw_rows[r], NEW i \in DOMAIN Items(p, rows),
         ~ (i <= (batch[r] - 1) * BatchSize), i <= batch[r] * BatchSize
  PROVE  IsWritten(p, rows, Items(p, rows)[i])'
<1> DEFINE item == Items(p, rows)[i]
<1>1. TypeInv /\ phase[r] \in Writing /\ found[r] # NotMatched
  BY DEF WrittenInv, TypeInv, Matched, Commit
<1>2. /\ rows \in Catalogs \cup {<<>>}
      /\ \A id \in DOMAIN nodes : nodes[id] \in Seq({"table"}) \/ nodes[id] \in Seq(ColumnTypes)
  BY <1>1 DEF TypeInv, Types, Commit
<1>3. PICK j \in DOMAIN Payload(r) : Payload(r)[j] = item
  BY <1>1, InBatch
<1>4. CASE p = "edges"
  <2>1. Items(p, rows) = EdgeParams(rows)
    BY <1>4 DEF Items
  <2>2. item \in ToSet(EdgeParams(rows)) /\ item \in ToSet(Payload(r))
    BY <1>3, <2>1 DEF ToSet
  <2>3. found[r][item[1]] > 0 /\ found[r][item[2]] > 0
    BY <1>1, <1>4, <2>2 DEF WrittenInv, EndsMatched
  <2>4. item \in edges'
    BY <1>4, <2>2, <2>3 DEF Commit, WriteEdges
  <2> QED
    BY <1>4, <2>4 DEF IsWritten
<1>5. CASE p # "edges"
  <2>1. item.id \in DOMAIN nodes /\ WriteNodes(r)
    BY <1>1, <1>2, <1>5, ItemsInGraph DEF Commit
  <2>2. \E k \in DOMAIN Payload(r) : Payload(r)[k].id = item.id
    BY <1>3
  <2> DEFINE count == found[r][item.id]
  <2>3. PICK S : \E v \in S : /\ nodes'[item.id] = Merged(nodes[item.id], v, count)
                              /\ nodes[item.id] \in Seq(S)
    <3>1. /\ nodes'[item.id] = Merged(nodes[item.id], ValueOf(Payload(r), item.id), count)
          /\ \/ item.id \in TableIds /\ ValueOf(Payload(r), item.id) = "table"
             \/ item.id \in ColumnIds /\ ValueOf(Payload(r), item.id) \in ColumnTypes
      BY <1>1, <1>5, <2>1, <2>2, NodesMerged
    <3>2. \/ nodes[item.id] \in Seq({"table"}) /\ ValueOf(Payload(r), item.id) \in {"table"}
          \/ nodes[item.id] \in Seq(ColumnTypes) /\ ValueOf(Payload(r), item.id) \in ColumnTypes
      BY <1>1, <3>1 DEF TypeInv, Types
    <3> QED
      BY <3>1, <3>2
  <2>4. count \in Nat /\ count <= Len(nodes[item.id])
    BY <1>1, <2>1 DEF TypeInv, Matched
  <2>5. Len(nodes'[item.id]) # 0
    BY <2>3, <2>4, MergedSeq
  <2>6. nodes'[item.id] # <<>>
    BY <2>5
  <2> QED
    BY <1>2, <1>5, <2>6 DEF IsWritten
<1> QED
  BY <1>4, <1>5

\* A run that ends its loop has no item beyond its batches.
LEMMA LoopEnds ==
  ASSUME TypeInv, NEW r \in Runs, phase[r] \in Writing,
         batch[r] > Chunks(Items(phase[r], raw_rows[r])),
         NEW i \in DOMAIN Items(phase[r], raw_rows[r])
  PROVE  i <= (batch[r] - 1) * BatchSize
<1> DEFINE items == Items(phase[r], raw_rows[r])
           n == Chunks(items)
<1>1. raw_rows[r] \in Catalogs \cup {<<>>} /\ batch[r] \in Nat \ {0}
  BY DEF TypeInv, Types
<1>2. PICK X : items \in Seq(X)
  BY <1>1, ItemsInGraph
<1> HIDE DEF items
<1>3. n \in Nat /\ Len(items) <= n * BatchSize /\ BatchSize \in Nat \ {0}
  BY <1>2, ChunksCover, IngestAssumption
<1>4. i \in Nat /\ i <= Len(items) /\ Len(items) \in Nat
  BY <1>2 DEF items
<1>5. n < batch[r]
  BY DEF items
<1> HIDE DEF n
<1>6. PICK d \in Nat : batch[r] - 1 = n + d
  <2>1. batch[r] - 1 - n \in Nat
    BY <1>1, <1>3, <1>5
  <2>2. batch[r] - 1 = n + (batch[r] - 1 - n)
    BY <1>1, <1>3
  <2> QED
    BY <2>1, <2>2
<1>7. (n + d) * BatchSize = n * BatchSize + d * BatchSize
  BY <1>3
<1>8. n * BatchSize \in Nat /\ d * BatchSize \in Nat
  BY <1>3
<1> QED
  BY <1>3, <1>4, <1>6, <1>7, <1>8

\* The next batch: what it adds to the positions that are behind a run.
LEMMA BehindGrows ==
  ASSUME NEW b \in Nat \ {0}
  PROVE  ((b + 1) - 1) * BatchSize = b * BatchSize /\ (1 - 1) * BatchSize = 0
  BY IngestAssumption

LEMMA StepProgress == WrittenInv /\ [Next]_vars => Progress'
<1> SUFFICES ASSUME WrittenInv, [Next]_vars, NEW r \in Runs, NEW rows, rows = raw_rows'[r]
             PROVE  /\ phase'[r] \in {"new", "discovery"} => batch'[r] = 1
                    /\ \A p \in Writing : \A i \in DOMAIN Items(p, rows) :
                         \/ p \in Past(phase'[r])
                         \/ p = phase'[r] /\ i <= (batch'[r] - 1) * BatchSize
                         => IsWritten(p, rows, Items(p, rows)[i])'
  BY DEF Progress, IsWritten
<1>1. TypeInv
  BY DEF WrittenInv
<1>2. /\ phase \in [Runs -> Phases] /\ raw_rows \in [Runs -> Catalogs \cup {<<>>}]
      /\ batch \in [Runs -> Nat \ {0}]
  BY <1>1 DEF TypeInv, Types
<1>3. phase[r] \in {"new", "discovery"} => batch[r] = 1
  BY DEF WrittenInv, Progress
<1>4. ASSUME NEW p \in Writing, NEW i \in DOMAIN Items(p, rows), rows = raw_rows[r],
             p \in Past(phase[r]) \/ (p = phase[r] /\ i <= (batch[r] - 1) * BatchSize)
      PROVE  IsWritten(p, rows, Items(p, rows)[i])'
  <2>1. rows \in Catalogs \cup {<<>>}
    BY <1>2, <1>4
  <2>2. IsWritten(p, rows, Items(p, rows)[i])
    BY <1>4 DEF WrittenInv, Progress
  <2> QED
    BY <1>1, <1>4, <2>1, <2>2, WrittenStays
<1>5. CASE Stays(r)
  <2>1. phase'[r] = phase[r] /\ batch'[r] = batch[r] /\ rows = raw_rows[r]
    BY <1>5 DEF Stays
  <2> QED
    BY <1>3, <1>4, <2>1
<1>6. CASE phase'[r] \notin Writing \cup {"done", "new", "discovery"}
  BY <1>6 DEF Past, Writing
<1>7. CASE Start(r)
  <2>1. phase'[r] = "discovery" /\ batch'[r] = 1
    BY <1>2, <1>3, <1>7 DEF Start
  <2> QED
    BY <2>1 DEF Past, Writing
<1>8. CASE Discover(r)
  <2>1. phase'[r] \in {"tables", "failed", "dry"} /\ batch'[r] = 1
    BY <1>2, <1>3, <1>8 DEF Discover
  <2>2. rows \in Catalogs
    BY <1>1, <1>2, <1>8 DEF Discover, TypeInv, Types
  <2>3. ASSUME NEW i \in DOMAIN Items("tables", rows) PROVE ~ (i <= (1 - 1) * BatchSize)
    <3>1. Items("tables", rows) \in Seq(TableItems)
      BY <2>2, ItemsTyped DEF Items
    <3>2. i \in Nat /\ i > 0
      BY <3>1
    <3> QED
      BY <3>2, BehindGrows
  <2> QED
    BY <2>1, <2>3 DEF Past, Writing
<1>9. CASE Match(r)
  <2>1. phase'[r] = phase[r] /\ batch'[r] = batch[r] /\ rows = raw_rows[r]
    BY <1>9 DEF Match
  <2> QED
    BY <1>3, <1>4, <2>1
<1>10. CASE Commit(r) /\ phase'[r] # "failed"
  <2>1. /\ phase'[r] = phase[r] /\ batch'[r] = batch[r] + 1 /\ rows = raw_rows[r]
        /\ phase[r] \in Writing
    BY <1>1, <1>2, <1>10 DEF Commit, TypeInv, Matched
  <2>2. ASSUME NEW p, p = phase[r], NEW i \in DOMAIN Items(p, rows),
               ~ (i <= (batch[r] - 1) * BatchSize), i <= batch[r] * BatchSize
        PROVE  IsWritten(p, rows, Items(p, rows)[i])'
    BY <1>10, <2>1, <2>2, CommitWrites
  <2>3. (batch'[r] - 1) * BatchSize = batch[r] * BatchSize
    BY <1>2, <2>1, BehindGrows
  <2> QED
    BY <1>4, <2>1, <2>2, <2>3 DEF Writing
<1>11. CASE LoseLast(r)
  <2>1. /\ phase'[r] = phase[r] /\ batch'[r] = batch[r] + 1 /\ rows = raw_rows[r]
        /\ phase[r] = "edges" /\ batch[r] = Chunks(EdgeParams(rows))
    BY <1>2, <1>11 DEF LoseLast
  <2>2. ASSUME NEW p, p = phase[r], NEW i \in DOMAIN Items(p, rows),
               ~ (i <= (batch[r] - 1) * BatchSize), i <= batch[r] * BatchSize
        PROVE  IsWritten(p, rows, Items(p, rows)[i])'
    <3> DEFINE last == Chunk(EdgeParams(rows), Chunks(EdgeParams(rows)))
    <3>1. \E j \in DOMAIN Payload(r) : Payload(r)[j] = Items(phase[r], rows)[i]
      BY <1>1, <2>1, <2>2, InBatch DEF Writing
    <3>2. Payload(r) = last
      BY <2>1 DEF Payload, Items
    <3>3. last \in Seq(TableIds \X ColumnIds)
      BY <1>2, <2>1, ItemsTyped, ChunkHolds
    <3>4. Contains(last, Items(p, rows)[i])
      BY <2>2, <3>1, <3>2, <3>3 DEF Contains
    <3> QED
      BY <2>1, <2>2, <3>4 DEF IsWritten
  <2>3. (batch'[r] - 1) * BatchSize = batch[r] * BatchSize
    BY <1>2, <2>1, BehindGrows
  <2> QED
    BY <1>4, <2>1, <2>2, <2>3 DEF Writing
<1>12. CASE EndBatches(r)
  <2>1. /\ phase[r] \in Writing /\ phase'[r] = NextPhase(phase[r])
        /\ batch'[r] = 1 /\ rows = raw_rows[r]
        /\ batch[r] > Chunks(Items(phase[r], rows))
    BY <1>2, <1>12 DEF EndBatches
  <2>2. Past(phase'[r]) = Past(phase[r]) \cup {phase[r]} /\ phase'[r] \notin {"new", "discovery"}
    BY <2>1 DEF NextPhase, Past, Writing
  <2>3. \A i \in DOMAIN Items(phase[r], rows) : i <= (batch[r] - 1) * BatchSize
    BY <1>1, <2>1, LoopEnds
  <2>4. ASSUME NEW p \in Writing, NEW i \in DOMAIN Items(p, rows)
        PROVE  ~ (i <= (1 - 1) * BatchSize)
    <3>1. \E X : Items(p, rows) \in Seq(X)
      BY <1>1, <1>2, <2>1, ItemsInGraph
    <3>2. i \in Nat /\ i > 0
      BY <3>1
    <3> QED
      BY <3>2, BehindGrows
  <2> QED
    BY <1>4, <2>1, <2>2, <2>3, <2>4
<1>13. CASE Fail(r)
  <2>1. phase'[r] = "failed"
    BY <1>2, <1>13 DEF Fail
  <2> QED
    BY <2>1 DEF Past, Writing
<1> QED
  BY <1>1, <1>5, <1>6, <1>7, <1>8, <1>9, <1>10, <1>11, <1>12, <1>13, OwnSteps DEF Moves, Writing

LEMMA StepEnds == WrittenInv /\ [Next]_vars => EndsMatched'
<1> SUFFICES ASSUME WrittenInv, [Next]_vars, NEW r \in Runs,
                    found'[r] # NotMatched, phase'[r] = "edges",
                    NEW e \in ToSet(EdgeParams(raw_rows'[r]))
             PROVE  found'[r][e[1]] > 0 /\ found'[r][e[2]] > 0
  BY DEF EndsMatched
<1>1. TypeInv
  BY DEF WrittenInv
<1>2. /\ phase \in [Runs -> Phases] /\ raw_rows \in [Runs -> Catalogs \cup {<<>>}]
      /\ DOMAIN found = Runs /\ DOMAIN nodes = TableIds \cup ColumnIds
      /\ \A s \in Runs : found[s] # NotMatched => phase[s] \in Writing
  BY <1>1 DEF TypeInv, Types, Matched
<1>3. CASE Stays(r)
  BY <1>3 DEF WrittenInv, EndsMatched, Stays
<1>4. CASE Match(r)
  <2>1. /\ phase[r] = "edges" /\ raw_rows'[r] = raw_rows[r]
        /\ found'[r] = [id \in DOMAIN nodes |-> Len(nodes[id])]
    BY <1>2, <1>4 DEF Match
  <2>2. PICK i \in DOMAIN EdgeParams(raw_rows[r]) : e = EdgeParams(raw_rows[r])[i]
    BY <2>1 DEF ToSet
  <2>3. raw_rows[r] \in Catalogs \cup {<<>>}
    BY <1>2
  <2>4. \A p \in {"tables", "columns"} : \A j \in DOMAIN Items(p, raw_rows[r]) :
          IsWritten(p, raw_rows[r], Items(p, raw_rows[r])[j])
    BY <2>1 DEF WrittenInv, Progress, Past, Writing
  <2>5. \A node \in ToSet(TableNodes(raw_rows[r])) : nodes[node.id] # <<>>
    <3>1. \A j \in DOMAIN TableNodes(raw_rows[r]) :
            IsWritten("tables", raw_rows[r], TableNodes(raw_rows[r])[j])
      BY <2>4 DEF Items
    <3> QED
      BY <3>1 DEF IsWritten, ToSet
  <2>6. \A j \in DOMAIN ColumnNodes(raw_rows[r]) : nodes[ColumnNodes(raw_rows[r])[j].id] # <<>>
    <3>1. \A j \in DOMAIN ColumnNodes(raw_rows[r]) :
            IsWritten("columns", raw_rows[r], ColumnNodes(raw_rows[r])[j])
      BY <2>4 DEF Items
    <3> QED
      BY <3>1 DEF IsWritten
  <2>7. nodes[e[1]] # <<>> /\ nodes[e[2]] # <<>>
    BY <2>2, <2>3, <2>5, <2>6, ItemsTyped
  <2>8. e \in TableIds \X ColumnIds
    BY <2>2, <2>3, ItemsTyped
  <2>9. \A id \in DOMAIN nodes : nodes[id] # <<>> => Len(nodes[id]) > 0
    <3> SUFFICES ASSUME NEW id \in DOMAIN nodes, nodes[id] # <<>> PROVE Len(nodes[id]) > 0
      OBVIOUS
    <3>1. PICK S : nodes[id] \in Seq(S)
      BY <1>1 DEF TypeInv, Types
    <3> QED
      BY <3>1, EmptySeq
  <2> QED
    BY <1>2, <2>1, <2>7, <2>8, <2>9
<1>5. CASE Start(r) \/ Discover(r) \/ Commit(r) \/ LoseLast(r) \/ EndBatches(r) \/ Fail(r)
  <2>1. found[r] # NotMatched => phase[r] \in Writing
    BY <1>2
  <2>2. found'[r] = NotMatched
    <3>1. CASE Start(r)
      BY <2>1, <3>1 DEF Start, Writing
    <3>2. CASE Discover(r)
      BY <2>1, <3>2 DEF Discover, Writing
    <3>3. CASE Commit(r) \/ LoseLast(r) \/ Fail(r)
      BY <1>2, <3>3 DEF Commit, LoseLast, Fail
    <3>4. CASE EndBatches(r)
      BY <3>4 DEF EndBatches
    <3> QED
      BY <1>5, <3>1, <3>2, <3>3, <3>4
  <2> QED
    BY <2>2
<1> QED
  BY <1>1, <1>3, <1>4, <1>5, OwnSteps DEF Moves

LEMMA WrittenHolds == Spec => []WrittenInv
<1>1. Init => WrittenInv
  <2> SUFFICES ASSUME Init PROVE WrittenInv
    OBVIOUS
  <2>1. TypeInv
    BY InitTypes
  <2>2. \A r \in Runs : phase[r] = "new" /\ batch[r] = 1 /\ found[r] = NotMatched
    BY DEF Init
  <2>3. Progress
    BY <2>2 DEF Progress, Past, Writing
  <2>4. EndsMatched
    BY <2>2 DEF EndsMatched
  <2> QED
    BY <2>1, <2>3, <2>4 DEF WrittenInv
<1>2. WrittenInv /\ [Next]_vars => WrittenInv'
  BY StepTypes, StepProgress, StepEnds DEF WrittenInv
<1> QED
  BY <1>1, <1>2, PTL DEF Spec

\* A run that says it is done has written every table and column that it
\* discovered, and every edge but perhaps those of its last batch, whatever other
\* runs did beside it or left behind.
THEOREM DoneIsWritten == Spec => []DoneMeansWritten
<1>1. WrittenInv => DoneMeansWritten
  <2> SUFFICES ASSUME WrittenInv, NEW r \in Runs, phase[r] = "done"
               PROVE  /\ \A node \in ToSet(TableNodes(raw_rows[r])) \cup ColumnsOf(r) :
                           nodes[node.id] # <<>>
                      /\ \A e \in ToSet(EdgeParams(raw_rows[r])) : e \in edges \/ InLastBatch(r, e)
    BY DEF DoneMeansWritten
  <2>1. \A p \in Writing : \A i \in DOMAIN Items(p, raw_rows[r]) :
          IsWritten(p, raw_rows[r], Items(p, raw_rows[r])[i])
    BY DEF WrittenInv, Progress, Past
  <2>2. \A i \in DOMAIN TableNodes(raw_rows[r]) : nodes[TableNodes(raw_rows[r])[i].id] # <<>>
    BY <2>1 DEF Writing, Items, IsWritten
  <2>3. \A i \in DOMAIN ColumnNodes(raw_rows[r]) : nodes[ColumnNodes(raw_rows[r])[i].id] # <<>>
    BY <2>1 DEF Writing, Items, IsWritten
  <2>4. \A i \in DOMAIN EdgeParams(raw_rows[r]) :
          EdgeParams(raw_rows[r])[i] \in edges \/ InLastBatch(r, EdgeParams(raw_rows[r])[i])
    BY <2>1 DEF Writing, Items, IsWritten, InLastBatch
  <2> QED
    BY <2>2, <2>3, <2>4 DEF ToSet, ColumnsOf
<1> QED
  BY <1>1, WrittenHolds, PTL

-----------------------------------------------------------------------------
(* What a run leaves that nothing ran beside.                              *)

\* The columns that a run has reached.
Reached(r) ==
  {i \in DOMAIN ColumnNodes(raw_rows[r]) :
     \/ phase[r] = "edges"
     \/ phase[r] = "columns" /\ i <= (batch[r] - 1) * BatchSize}

IsLastIn(cols, I, i) == \A j \in I : cols[j].id = cols[i].id => j <= i

\* A run that nothing ran beside is the only one under way, has matched what is
\* there, and has left in each column that it reached the last type of it.
Current ==
  \A r \in Runs : alone[r] =>
    /\ r \in UnderWay => UnderWay = {r}
    /\ found[r] # NotMatched => \A id \in DOMAIN nodes : found[r][id] = Len(nodes[id])
    /\ LET cols == ColumnNodes(raw_rows[r])
       IN \A i \in Reached(r) : IsLastIn(cols, Reached(r), i) =>
            ToSet(nodes[cols[i].id]) = {cols[i].value}

CurrentInv == TypeInv /\ Current

\* Who is under way: only a start adds a run.
LEMMA UnderWayStep ==
  ASSUME TypeInv, [Next]_vars, ~ \E q \in Runs : Start(q)
  PROVE  UnderWay' \subseteq UnderWay /\ alone' = alone
<1>1. /\ phase \in [Runs -> Phases]
      /\ \A r \in Runs : found[r] # NotMatched => phase[r] \in Writing
  BY DEF TypeInv, Types, Matched
<1>2. CASE Migrate \/ UNCHANGED vars
  BY <1>2 DEF Migrate, vars, UnderWay
<1>3. ASSUME NEW r \in Runs,
             Discover(r) \/ Match(r) \/ Commit(r) \/ LoseLast(r) \/ EndBatches(r) \/ Fail(r)
      PROVE  UnderWay' \subseteq UnderWay /\ alone' = alone
  <2>1. r \in UnderWay /\ alone' = alone
    BY <1>1, <1>3 DEF Discover, Match, Commit, LoseLast, EndBatches, Fail, UnderWay, Writing
  <2>2. phase' = phase \/ \E p : phase' = [phase EXCEPT ![r] = p]
    BY <1>3 DEF Discover, Match, Commit, LoseLast, EndBatches, Fail
  <2>3. \A s \in Runs \ {r} : phase'[s] = phase[s]
    BY <1>1, <2>2
  <2> QED
    BY <2>1, <2>3 DEF UnderWay
<1> QED
  BY <1>2, <1>3 DEF Next

\* The nodes change by a commit of a run that is under way.
LEMMA OnlyCommits ==
  ASSUME TypeInv, [Next]_vars, nodes' # nodes
  PROVE  \E r \in UnderWay : Commit(r) /\ WriteNodes(r) /\ phase[r] # "edges" /\ found[r] # NotMatched
<1>1. \A r \in Runs : found[r] # NotMatched => phase[r] \in Writing
  BY DEF TypeInv, Matched
<1>2. PICK r \in Runs : Commit(r)
  BY DEF Next, vars, Migrate, Start, Discover, Match, LoseLast, EndBatches, Fail
<1>3. found[r] # NotMatched /\ phase[r] # "edges" /\ WriteNodes(r)
  BY <1>2 DEF Commit, WriteEdges
<1> QED
  BY <1>1, <1>2, <1>3 DEF UnderWay

LEMMA AloneUnderWay ==
  ASSUME CurrentInv, [Next]_vars, NEW r \in Runs, alone'[r] = TRUE
  PROVE  alone[r] = TRUE /\ (r \in UnderWay' => UnderWay' = {r})
<1>1. TypeInv /\ phase \in [Runs -> Phases] /\ alone[r] \in BOOLEAN
  BY DEF CurrentInv, TypeInv, Types
<1>2. alone[r] = TRUE /\ r \in UnderWay => UnderWay = {r}
  BY DEF CurrentInv, Current
<1>3. CASE ~ \E q \in Runs : Start(q)
  <2>1. UnderWay' \subseteq UnderWay /\ alone' = alone
    BY <1>1, <1>3, UnderWayStep
  <2> QED
    BY <1>2, <2>1
<1>4. ASSUME NEW q \in Runs, Start(q)
      PROVE  alone[r] = TRUE /\ (r \in UnderWay' => UnderWay' = {r})
  <2>1. /\ alone' = [s \in Runs |-> alone[s] /\ (s \in UnderWay \cup {q} => UnderWay = {})]
        /\ phase[q] = "new" /\ phase' = [phase EXCEPT ![q] = "discovery"]
    BY <1>4 DEF Start
  <2>2. alone'[r] = (alone[r] /\ (r \in UnderWay \cup {q} => UnderWay = {}))
    BY <2>1, Zenon
  <2>3. alone[r] = TRUE /\ (r \in UnderWay \cup {q} => UnderWay = {})
    BY <1>1, <2>2, Zenon
  <2>4. UnderWay' = UnderWay \cup {q}
    BY <1>1, <2>1 DEF UnderWay
  <2> QED
    BY <2>3, <2>4
<1> QED
  BY <1>3, <1>4

\* While a run is alone and under way nobody else writes.
LEMMA OwnWrites ==
  ASSUME CurrentInv, [Next]_vars, NEW r \in UnderWay, alone[r] = TRUE, nodes' # nodes
  PROVE  Commit(r) /\ WriteNodes(r) /\ phase[r] # "edges" /\ found[r] # NotMatched
<1>1. r \in Runs /\ UnderWay = {r}
  BY DEF CurrentInv, Current, UnderWay
<1> QED
  BY <1>1, OnlyCommits DEF CurrentInv

LEMMA AloneMatched ==
  ASSUME CurrentInv, [Next]_vars, NEW r \in Runs, alone[r] = TRUE, found'[r] # NotMatched
  PROVE  \A id \in DOMAIN nodes' : found'[r][id] = Len(nodes'[id])
<1>1. TypeInv /\ DOMAIN found = Runs
  BY DEF CurrentInv, TypeInv, Types
<1>2. found[r] # NotMatched =>
        r \in UnderWay /\ \A id \in DOMAIN nodes : found[r][id] = Len(nodes[id])
  BY DEF CurrentInv, TypeInv, Matched, Current, UnderWay
<1>3. CASE Match(r)
  <2>1. found'[r] = [id \in DOMAIN nodes |-> Len(nodes[id])] /\ nodes' = nodes
    BY <1>1, <1>3 DEF Match
  <2> QED
    BY <2>1
<1>4. CASE ~ Match(r)
  <2>1. found[r] # NotMatched /\ found'[r] = found[r] /\ ~ Commit(r)
    <3>1. \/ Stays(r) \/ Start(r) \/ Discover(r) \/ Commit(r) \/ LoseLast(r) \/ EndBatches(r)
          \/ Fail(r)
      BY <1>1, <1>4, OwnSteps DEF Moves
    <3>2. ~ (Commit(r) \/ LoseLast(r) \/ Fail(r))
      BY <1>1 DEF Commit, LoseLast, Fail
    <3>3. found'[r] = found[r]
      BY <3>1, <3>2 DEF Stays, Start, Discover, EndBatches
    <3> QED
      BY <3>2, <3>3
  <2>2. nodes' = nodes
    BY <1>2, <2>1, OwnWrites
  <2> QED
    BY <1>2, <2>1, <2>2
<1> QED
  BY <1>3, <1>4

\* A commit of columns leaves the last type of each.
LEMMA CommitCurrent ==
  ASSUME CurrentInv, NEW r \in Runs, alone[r] = TRUE, Commit(r), phase[r] = "columns",
         NEW cols, cols = ColumnNodes(raw_rows[r]),
         NEW I, I = {i \in DOMAIN cols : i <= batch[r] * BatchSize},
         NEW i \in I, IsLastIn(cols, I, i)
  PROVE  ToSet(nodes'[cols[i].id]) = {cols[i].value}
<1> DEFINE id == cols[i].id
           first == (batch[r] - 1) * BatchSize
<1>1. /\ TypeInv /\ found[r] # NotMatched /\ WriteNodes(r) /\ r \in UnderWay
      /\ Payload(r) = Chunk(cols, batch[r])
  BY DEF CurrentInv, Commit, UnderWay, Writing, Payload, Items
<1>2. raw_rows[r] \in Catalogs \cup {<<>>} /\ batch[r] \in Nat \ {0}
  BY <1>1 DEF TypeInv, Types
<1>3. cols \in Seq(ColumnItems) /\ BatchSize \in Nat
  BY <1>2, ItemsTyped, IngestAssumption
<1>4. DOMAIN cols = 1..Len(cols) /\ Len(cols) \in Nat /\ cols[i] \in ColumnItems
  BY <1>3
<1>5. first \in Nat /\ i \in Nat /\ i <= batch[r] * BatchSize /\ i \in DOMAIN cols
  BY <1>2, <1>3, <1>4
<1>6. id \in DOMAIN nodes /\ nodes[id] \in Seq(ColumnTypes) /\ id \notin TableIds
  BY <1>1, <1>4, IngestAssumption DEF ColumnItems, TypeInv, Types
<1>7. LET part == Chunk(cols, batch[r])
       IN /\ part \in Seq(ColumnItems)
          /\ \A j \in DOMAIN part :
               /\ first + j \in DOMAIN cols /\ first + j <= batch[r] * BatchSize
               /\ part[j] = cols[first + j]
          /\ \A j \in DOMAIN cols : first < j /\ j <= batch[r] * BatchSize =>
               j - first \in DOMAIN part /\ part[j - first] = cols[j]
  <2>1. ASSUME NEW b \in Nat \ {0}
        PROVE  /\ Chunk(cols, b) \in Seq(ColumnItems)
               /\ \A j \in DOMAIN Chunk(cols, b) :
                    /\ (b - 1) * BatchSize + j \in DOMAIN cols
                    /\ (b - 1) * BatchSize + j <= b * BatchSize
                    /\ Chunk(cols, b)[j] = cols[(b - 1) * BatchSize + j]
               /\ \A j \in DOMAIN cols : (b - 1) * BatchSize < j /\ j <= b * BatchSize =>
                    /\ j - (b - 1) * BatchSize \in DOMAIN Chunk(cols, b)
                    /\ Chunk(cols, b)[j - (b - 1) * BatchSize] = cols[j]
    BY <1>3, ChunkHolds, ZenonT(40)
  <2> QED
    BY <1>2, <2>1, Zenon
<1> HIDE DEF first
<1>8. ASSUME NEW k \in DOMAIN Payload(r), Payload(r)[k].id = id
      PROVE  k \in Nat /\ k > 0 /\ first + k <= i /\ Payload(r)[k] = cols[first + k]
  <2>1. /\ first + k \in DOMAIN cols /\ first + k <= batch[r] * BatchSize
        /\ Payload(r)[k] = cols[first + k] /\ Payload(r) \in Seq(ColumnItems)
    BY <1>1, <1>7
  <2>2. first + k \in I /\ cols[first + k].id = id
    BY <1>8, <2>1
  <2>3. first + k <= i
    BY <2>2 DEF IsLastIn
  <2>4. k \in Nat /\ k > 0
    BY <2>1
  <2> QED
    BY <2>1, <2>3, <2>4
<1>9. CASE first < i
  <2>1. i - first \in DOMAIN Payload(r) /\ Payload(r)[i - first] = cols[i]
    BY <1>1, <1>5, <1>9, <1>7
  <2>2. Payload(r) \in Seq(ColumnItems)
    BY <1>1, <1>7
  <2>3. PICK k \in DOMAIN Payload(r) :
          /\ Payload(r)[k].id = id /\ ValueOf(Payload(r), id) = Payload(r)[k].value
          /\ \A j \in DOMAIN Payload(r) : Payload(r)[j].id = id => j <= k
    BY <2>1, <2>2, LastOf
  <2>4. i - first <= k
    BY <2>1, <2>3
  <2>5. k \in Nat /\ first + k <= i /\ Payload(r)[k] = cols[first + k]
    BY <1>8, <2>3
  <2>6. first + k = i
    BY <1>5, <2>4, <2>5
  <2>7. ValueOf(Payload(r), id) = cols[i].value
    BY <2>3, <2>5, <2>6
  <2>8. nodes'[id] = Merged(nodes[id], cols[i].value, found[r][id])
    BY <1>1, <1>6, <2>1, <2>7 DEF WriteNodes
  <2>9. found[r][id] = Len(nodes[id]) /\ Len(nodes[id]) \in Nat
    BY <1>1, <1>6 DEF CurrentInv, Current
  <2>10. cols[i].value \in ColumnTypes
    BY <1>4 DEF ColumnItems
  <2> QED
    BY <1>6, <2>8, <2>9, <2>10, MergedSeq
<1>10. CASE ~ (first < i)
  <2>1. ~ \E k \in DOMAIN Payload(r) : Payload(r)[k].id = id
    BY <1>5, <1>8, <1>10
  <2>2. nodes'[id] = nodes[id]
    BY <1>1, <1>6, <2>1 DEF WriteNodes
  <2>3. Reached(r) = {j \in DOMAIN cols : j <= first}
    BY DEF Reached, first
  <2>4. i \in Reached(r)
    BY <1>5, <1>10, <2>3
  <2>5. Reached(r) \subseteq I
    <3>1. first <= batch[r] * BatchSize
      BY <1>2, <1>3 DEF first
    <3>2. batch[r] * BatchSize \in Nat
      BY <1>2, <1>3
    <3> QED
      BY <1>4, <1>5, <2>3, <3>1, <3>2
  <2>6. IsLastIn(cols, Reached(r), i)
    BY <2>5 DEF IsLastIn
  <2> QED
    BY <2>2, <2>4, <2>6 DEF CurrentInv, Current
<1> QED
  BY <1>9, <1>10

LEMMA StepCurrent == CurrentInv /\ [Next]_vars => Current'
<1> SUFFICES ASSUME CurrentInv, [Next]_vars, NEW r \in Runs, alone'[r],
                    NEW cols, cols = ColumnNodes(raw_rows'[r])
             PROVE  /\ r \in UnderWay' => UnderWay' = {r}
                    /\ found'[r] # NotMatched =>
                         \A id \in DOMAIN nodes' : found'[r][id] = Len(nodes'[id])
                    /\ \A i \in Reached(r)' : IsLastIn(cols, Reached(r)', i) =>
                         ToSet(nodes'[cols[i].id]) = {cols[i].value}
  BY DEF Current, IsLastIn
<1>1. TypeInv /\ TypeInv'
  BY StepTypes DEF CurrentInv
<1>2. alone'[r] = TRUE
  BY <1>1, Zenon DEF TypeInv, Types
<1>3. alone[r] = TRUE /\ (r \in UnderWay' => UnderWay' = {r})
  BY <1>2, AloneUnderWay
<1>4. found'[r] # NotMatched => \A id \in DOMAIN nodes' : found'[r][id] = Len(nodes'[id])
  BY <1>3, AloneMatched
<1>5. /\ phase \in [Runs -> Phases] /\ raw_rows \in [Runs -> Catalogs \cup {<<>>}]
      /\ batch \in [Runs -> Nat \ {0}]
  BY <1>1 DEF TypeInv, Types
<1>6. Reached(r)' = {i \in DOMAIN cols :
        \/ phase'[r] = "edges"
        \/ phase'[r] = "columns" /\ i <= (batch'[r] - 1) * BatchSize}
  BY DEF Reached
<1>7. cols = ColumnNodes(raw_rows[r]) =>
        Reached(r) = {i \in DOMAIN cols :
          \/ phase[r] = "edges"
          \/ phase[r] = "columns" /\ i <= (batch[r] - 1) * BatchSize}
  BY DEF Reached
<1>8. ASSUME cols = ColumnNodes(raw_rows[r]), Reached(r)' = Reached(r), nodes' = nodes,
             NEW i \in Reached(r)', IsLastIn(cols, Reached(r)', i)
      PROVE  ToSet(nodes'[cols[i].id]) = {cols[i].value}
  BY <1>3, <1>8 DEF CurrentInv, Current
<1> DEFINE Goal == \A i \in Reached(r)' : IsLastIn(cols, Reached(r)', i) =>
                     ToSet(nodes'[cols[i].id]) = {cols[i].value}
<1>9. Goal
  <2>1. CASE phase'[r] \notin {"columns", "edges"}
    <3>1. Reached(r)' = {}
      BY <1>6, <2>1
    <3> QED
      BY <3>1
  <2>2. CASE phase'[r] \in {"columns", "edges"} /\ nodes' # nodes
    <3>1. r \in UnderWay
      <4>1. r \in UnderWay' /\ ~ \E q \in Runs : Start(q)
        BY <1>5, <2>2 DEF UnderWay, Writing, Start
      <4> QED
        BY <1>1, <4>1, UnderWayStep
    <3>2. Commit(r) /\ phase[r] # "edges"
      BY <1>3, <2>2, <3>1, OwnWrites
    <3>3. /\ phase[r] = "columns" /\ phase'[r] = "columns"
          /\ batch'[r] = batch[r] + 1 /\ raw_rows'[r] = raw_rows[r]
      BY <1>5, <2>2, <3>2 DEF Commit
    <3>4. (batch'[r] - 1) * BatchSize = batch[r] * BatchSize
      BY <1>5, <3>3, BehindGrows
    <3>5. Reached(r)' = {i \in DOMAIN cols : i <= batch[r] * BatchSize}
      BY <1>6, <3>3, <3>4
    <3> QED
      BY <1>3, <3>2, <3>3, <3>5, CommitCurrent, ZenonT(60)
  <2>3. CASE phase'[r] \in {"columns", "edges"} /\ nodes' = nodes
    <3>1. CASE Stays(r) \/ Match(r)
      <4>1. raw_rows'[r] = raw_rows[r] /\ phase'[r] = phase[r] /\ batch'[r] = batch[r]
        BY <3>1 DEF Stays, Match
      <4>2. Reached(r)' = Reached(r)
        BY <1>6, <1>7, <4>1
      <4> QED
        BY <1>8, <2>3, <4>1, <4>2
    <3>2. CASE (Commit(r) /\ phase[r] = "edges") \/ LoseLast(r)
      <4>1. raw_rows'[r] = raw_rows[r] /\ phase'[r] = phase[r] /\ phase[r] = "edges"
        BY <1>5, <2>3, <3>2 DEF Commit, LoseLast
      <4>2. Reached(r)' = Reached(r)
        BY <1>6, <1>7, <4>1
      <4> QED
        BY <1>8, <2>3, <4>1, <4>2
    <3>3. CASE Commit(r) /\ phase[r] # "edges"
      <4>1. /\ phase[r] = "columns" /\ phase'[r] = "columns"
            /\ batch'[r] = batch[r] + 1 /\ raw_rows'[r] = raw_rows[r]
        <5>1. phase[r] \in Writing /\ (phase'[r] = phase[r] \/ phase'[r] = "failed")
          BY <1>1, <1>5, <3>3 DEF Commit, TypeInv, Matched
        <5> QED
          BY <1>5, <2>3, <3>3, <5>1 DEF Commit, Writing
      <4>2. (batch'[r] - 1) * BatchSize = batch[r] * BatchSize
        BY <1>5, <4>1, BehindGrows
      <4>3. Reached(r)' = {i \in DOMAIN cols : i <= batch[r] * BatchSize}
        BY <1>6, <4>1, <4>2
      <4> QED
        BY <1>3, <3>3, <4>1, <4>3, CommitCurrent, ZenonT(60)
    <3>4. CASE EndBatches(r)
      <4>1. /\ phase[r] \in Writing /\ phase'[r] = NextPhase(phase[r]) /\ batch'[r] = 1
            /\ raw_rows'[r] = raw_rows[r]
            /\ batch[r] > Chunks(Items(phase[r], raw_rows[r]))
        BY <1>5, <3>4 DEF EndBatches
      <4>2. \/ phase[r] = "tables" /\ phase'[r] = "columns"
            \/ phase[r] = "columns" /\ phase'[r] = "edges"
        BY <2>3, <4>1 DEF NextPhase, Writing
      <4>3. CASE phase[r] = "tables"
        <5>1. cols \in Seq(ColumnItems)
          BY <1>5, <4>1, ItemsTyped
        <5>2. \A i \in DOMAIN cols : i \in Nat /\ i > 0
          BY <5>1
        <5>3. (batch'[r] - 1) * BatchSize = 0
          BY <4>1, BehindGrows
        <5>4. Reached(r)' = {}
          BY <1>6, <4>2, <4>3, <5>2, <5>3
        <5> QED
          BY <5>4
      <4>4. CASE phase[r] = "columns"
        <5>1. Items(phase[r], raw_rows[r]) = cols
          BY <4>1, <4>4 DEF Items
        <5>2. \A i \in DOMAIN cols : i <= (batch[r] - 1) * BatchSize
          BY <1>1, <4>1, <5>1, LoopEnds
        <5>3. Reached(r)' = Reached(r)
          BY <1>6, <1>7, <4>1, <4>2, <4>4, <5>2
        <5> QED
          BY <1>8, <2>3, <4>1, <5>3
      <4> QED
        BY <4>2, <4>3, <4>4
    <3>5. CASE Start(r) \/ Discover(r) \/ Fail(r)
      <4>1. phase'[r] \notin {"columns", "edges"}
        BY <1>5, <3>5 DEF Start, Discover, Fail
      <4> QED
        BY <2>3, <4>1
    <3> QED
      BY <1>1, <3>1, <3>2, <3>3, <3>4, <3>5, OwnSteps DEF Moves
  <2> QED
    BY <2>1, <2>2, <2>3
<1> QED
  BY <1>3, <1>4, <1>9

LEMMA CurrentHolds == Spec => []CurrentInv
<1>1. Init => CurrentInv
  <2> SUFFICES ASSUME Init PROVE CurrentInv
    OBVIOUS
  <2>1. \A r \in Runs : phase[r] = "new" /\ found[r] = NotMatched
    BY DEF Init
  <2>2. \A r \in Runs : r \notin UnderWay /\ Reached(r) = {}
    BY <2>1 DEF UnderWay, Writing, Reached
  <2>3. Current
    BY <2>1, <2>2 DEF Current
  <2> QED
    BY <2>3, InitTypes DEF CurrentInv
<1>2. CurrentInv /\ [Next]_vars => CurrentInv'
  BY StepTypes, StepCurrent DEF CurrentInv
<1> QED
  BY <1>1, <1>2, PTL DEF Spec

\* A run that nothing ran beside leaves in each column the type that it found
\* last, whatever earlier runs left there.
THEOREM DoneIsCurrent == Spec => DoneMeansCurrent
<1>1. CurrentInv /\ [Next]_vars =>
        [\A r \in Runs : phase[r] # "done" /\ phase'[r] = "done" /\ alone[r] =>
           \A node \in ColumnsOf(r) :
             ToSet(nodes[node.id]) = {ValueOf(ColumnNodes(raw_rows[r]), node.id)}]_vars
  <2> SUFFICES ASSUME CurrentInv, [Next]_vars, NEW r \in Runs,
                      phase[r] # "done", phase'[r] = "done", alone[r],
                      NEW node \in ColumnsOf(r)
               PROVE  ToSet(nodes[node.id]) = {ValueOf(ColumnNodes(raw_rows[r]), node.id)}
    OBVIOUS
  <2> DEFINE cols == ColumnNodes(raw_rows[r])
  <2>1. TypeInv /\ phase \in [Runs -> Phases] /\ raw_rows[r] \in Catalogs \cup {<<>>}
    BY DEF CurrentInv, TypeInv, Types
  <2>2. EndBatches(r)
    <3>1. ~ (Stays(r) \/ Start(r) \/ Discover(r) \/ Match(r) \/ LoseLast(r) \/ Fail(r))
      BY <2>1 DEF Stays, Start, Discover, Match, LoseLast, Fail
    <3>2. ~ Commit(r)
      BY <2>1 DEF Commit
    <3> QED
      BY <2>1, <3>1, <3>2, OwnSteps DEF Moves
  <2>3. phase[r] = "edges"
    BY <2>1, <2>2 DEF EndBatches, NextPhase, Writing
  <2>4. cols \in Seq(ColumnItems)
    BY <2>1, ItemsTyped
  <2>5. Reached(r) = DOMAIN cols
    BY <2>3 DEF Reached
  <2>6. PICK i \in DOMAIN cols : cols[i] = node
    BY DEF ColumnsOf, ToSet
  <2> HIDE DEF cols
  <2>7. PICK k \in DOMAIN cols :
          /\ cols[k].id = node.id /\ ValueOf(cols, node.id) = cols[k].value
          /\ \A j \in DOMAIN cols : cols[j].id = node.id => j <= k
    BY <2>4, <2>6, LastOf
  <2>8. IsLastIn(cols, Reached(r), k)
    BY <2>5, <2>7 DEF IsLastIn
  <2>9. ToSet(nodes[cols[k].id]) = {cols[k].value}
    BY <2>5, <2>7, <2>8 DEF CurrentInv, Current, cols
  <2> QED
    BY <2>7, <2>9 DEF cols
<1> QED
  BY <1>1, CurrentHolds, PTL DEF Spec, DoneMeansCurrent

\* Runs that are all alone leave no second node.
Single == (\A r \in Runs : alone[r] = TRUE) => \A id \in DOMAIN nodes : Len(nodes[id]) <= 1

\* "Safe to re-run ... without duplicating anything", says the docstring of
\* ingest_schema.py: so it is, whatever ended the earlier runs and whatever the
\* warehouse became, while no two runs overlap.
THEOREM Rerunnable == Spec => []NoDuplicates
<1>1. Init => Single
  <2> SUFFICES ASSUME Init, NEW id \in DOMAIN nodes PROVE Len(nodes[id]) <= 1
    BY DEF Single
  <2>1. nodes[id] = <<>>
    BY DEF Init
  <2> QED
    BY <2>1
<1>2. CurrentInv /\ CurrentInv' /\ Single /\ [Next]_vars => Single'
  <2> SUFFICES ASSUME CurrentInv, CurrentInv', Single, [Next]_vars,
                      \A r \in Runs : alone'[r] = TRUE, NEW id \in DOMAIN nodes'
               PROVE  Len(nodes'[id]) <= 1
    BY DEF Single
  <2>1. \A r \in Runs : alone[r] = TRUE
    BY AloneUnderWay
  <2>2. TypeInv /\ id \in DOMAIN nodes
    BY NodesStep DEF CurrentInv
  <2>3. Len(nodes[id]) <= 1
    BY <2>1, <2>2 DEF Single
  <2>4. CASE nodes' = nodes
    BY <2>3, <2>4
  <2>5. CASE nodes' # nodes
    <3>1. PICK r \in UnderWay : WriteNodes(r) /\ phase[r] # "edges" /\ found[r] # NotMatched
      BY <2>2, <2>5, OnlyCommits
    <3>2. r \in Runs
      BY DEF UnderWay
    <3>3. found[r][id] = Len(nodes[id])
      BY <2>1, <2>2, <3>1, <3>2 DEF CurrentInv, Current
    <3>4. nodes'[id] = nodes[id] \/ \E v : nodes'[id] = Merged(nodes[id], v, Len(nodes[id]))
      BY <2>2, <3>1, <3>2, <3>3, NodesMerged
    <3>5. PICK S : nodes[id] \in Seq(S)
      BY <2>2 DEF TypeInv, Types
    <3>6. CASE nodes'[id] = nodes[id]
      BY <2>3, <3>6
    <3>7. ASSUME NEW v, nodes'[id] = Merged(nodes[id], v, Len(nodes[id]))
          PROVE  Len(nodes'[id]) <= 1
      <4> DEFINE T == S \cup {v}
      <4>1. nodes[id] \in Seq(T) /\ v \in T /\ Len(nodes[id]) \in Nat
        BY <3>5, SeqMonotonic
      <4> HIDE DEF T
      <4>2. /\ Len(nodes[id]) # 0 => Len(nodes'[id]) = Len(nodes[id])
            /\ Len(nodes[id]) = 0 => Len(nodes'[id]) = Len(nodes[id]) + 1
        BY <3>7, <4>1, MergedSeq
      <4> QED
        BY <2>3, <4>1, <4>2
    <3> QED
      BY <3>4, <3>6, <3>7
  <2> QED
    BY <2>4, <2>5
<1>3. CurrentInv /\ Single => NoDuplicates
  <2> SUFFICES ASSUME CurrentInv, Single, \A r \in Runs : alone[r], NEW id \in DOMAIN nodes
               PROVE  Len(nodes[id]) <= 1
    BY DEF NoDuplicates
  <2>1. \A r \in Runs : alone[r] \in BOOLEAN
    BY DEF CurrentInv, TypeInv, Types
  <2>2. \A r \in Runs : alone[r] = TRUE
    BY <2>1, Zenon
  <2> QED
    BY <2>2 DEF Single
<1> QED
  BY <1>1, <1>2, <1>3, CurrentHolds, PTL DEF Spec
=============================================================================
