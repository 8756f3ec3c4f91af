---------------------------- MODULE ExecutionProofs ----------------------------
(***************************************************************************)
(* Proofs about the two modules of the package execution.  KgContext, for  *)
(* every number of calls, terms, roles and nodes and any changes of the    *)
(* graph: what a caller gets was true while it was read, for its terms and *)
(* roles or for some that the key of the cache cannot tell from them.      *)
(* SolverProcess, for every set of codes and every behaviour of them: what *)
(* the answer of a solver call says of the child process.                  *)
(***************************************************************************)
EXTENDS KgContext, SolverProcess, FiniteSetTheorems, WellFoundedInduction, TLAPS

LEMMA ReadsFacts ==
  /\ DOMAIN Reads = 1..3 /\ SetEx = 4 /\ Done = 5 /\ Raised = 6 /\ Lookup = 0
  /\ Labels = {Reads[1], Reads[2], Reads[3]}
  /\ Reads[1] # Reads[2] /\ Reads[1] # Reads[3] /\ Reads[2] # Reads[3]
<1>1. Len(Reads) = 3 /\ DOMAIN Reads = 1..3
  BY DEF Reads
<1>2. Labels = {Reads[1], Reads[2], Reads[3]}
  BY <1>1 DEF Labels
<1> QED
  BY <1>1, <1>2 DEF Reads, SetEx, Done, Raised, Lookup

-----------------------------------------------------------------------------
(* Keys.                                                                   *)

\* Every finite set of words can be listed in order: the i-th word is the one
\* with i words up to it.
LEMMA SortedExists ==
  ASSUME NEW S \in SUBSET Nat, IsFiniteSet(S)
  PROVE  \E list \in [1..Cardinality(S) -> S] :
           \A i, j \in DOMAIN list : i < j => list[i] < list[j]
<1> DEFINE n == Cardinality(S)
           UpTo(x) == {y \in S : y <= x}
           rank == [x \in S |-> Cardinality(UpTo(x))]
<1>1. n \in Nat
  BY FS_CardinalityType
<1>2. ASSUME NEW x \in S
      PROVE  /\ IsFiniteSet(UpTo(x))
             /\ rank[x] = Cardinality(UpTo(x))
             /\ rank[x] \in 1..n
  <2>1. UpTo(x) \subseteq S /\ x \in UpTo(x)
    OBVIOUS
  <2>2. IsFiniteSet(UpTo(x)) /\ Cardinality(UpTo(x)) <= n
    BY <2>1, FS_Subset
  <2>3. Cardinality(UpTo(x)) \in Nat /\ Cardinality(UpTo(x)) # 0
    BY <2>1, <2>2, FS_CardinalityType, FS_EmptySet
  <2>4. rank[x] = Cardinality(UpTo(x))
    OBVIOUS
  <2> HIDE DEF n, UpTo, rank
  <2> QED
    BY <1>1, <2>2, <2>3, <2>4
<1>3. ASSUME NEW x \in S, NEW y \in S, x < y PROVE rank[x] < rank[y]
  <2>1. UpTo(x) \subseteq UpTo(y) /\ y \in UpTo(y) /\ y \notin UpTo(x)
    <3>1. x \in Nat /\ y \in Nat /\ \A z \in S : z \in Nat
      OBVIOUS
    <3>2. \A z \in S : z <= x => z <= y
      BY <1>3, <3>1
    <3>3. ~(y <= x) /\ y <= y
      BY <1>3, <3>1
    <3> QED
      BY <3>2, <3>3
  <2>2. /\ Cardinality(UpTo(x)) <= Cardinality(UpTo(y))
        /\ Cardinality(UpTo(x)) = Cardinality(UpTo(y)) => UpTo(x) = UpTo(y)
    BY <1>2, <2>1, FS_Subset
  <2>3. rank[x] <= rank[y] /\ rank[x] # rank[y]
    BY <1>2, <2>1, <2>2
  <2> HIDE DEF n, UpTo, rank
  <2> QED
    BY <1>1, <1>2, <2>3
<1>4. rank \in [S -> 1..n]
  BY <1>2
<1>5. \A x, y \in S : rank[x] = rank[y] => x = y
  <2>1. SUFFICES ASSUME NEW x \in S, NEW y \in S, rank[x] = rank[y] PROVE x = y
    OBVIOUS
  <2>2. rank[x] \in Nat
    BY <1>1, <1>2
  <2>3. ~(x < y) /\ ~(y < x)
    <3> HIDE DEF n, UpTo, rank
    <3> QED
      BY <1>3, <2>1, <2>2
  <2> QED
    BY <2>3
<1> HIDE DEF n, UpTo, rank
<1>6. rank \in Injection(S, 1..n)
  BY <1>4, <1>5 DEF Injection, IsInjective
<1>7. IsFiniteSet(1..n) /\ Cardinality(1..n) = n
  BY <1>1, FS_Interval
<1>8. rank \in Surjection(S, 1..n)
  BY <1>6, <1>7, FS_Injection DEF n
<1>9. \A i \in 1..n : \E x \in S : rank[x] = i
  BY <1>8 DEF Surjection
<1> DEFINE list == [i \in 1..n |-> CHOOSE x \in S : rank[x] = i]
<1>10. \A i \in 1..n : list[i] \in S /\ rank[list[i]] = i
  BY <1>9
<1>11. list \in [1..n -> S]
  BY <1>10
<1> HIDE DEF list
<1>12. ASSUME NEW i \in 1..n, NEW j \in 1..n, i < j PROVE list[i] < list[j]
  <2>1. /\ list[i] \in S /\ rank[list[i]] = i
        /\ list[j] \in S /\ rank[list[j]] = j
    BY <1>10
  <2>2. list[i] \in Nat /\ list[j] \in Nat /\ i \in Nat /\ j \in Nat
    <3>1. list[i] \in Nat /\ list[j] \in Nat
      BY <2>1
    <3>2. i \in Nat /\ j \in Nat
      BY <1>1
    <3> QED
      BY <3>1, <3>2
  <2>3. CASE list[j] < list[i]
    BY <1>3, <1>12, <2>1, <2>2, <2>3
  <2>4. CASE list[j] = list[i]
    BY <1>12, <2>1, <2>2, <2>4
  <2> QED
    BY <2>2, <2>3, <2>4
<1> QED
  BY <1>11, <1>12 DEF n

\* The sorted list of a set has the words of the set, each of them.
LEMMA SortedLists ==
  ASSUME NEW S \in SUBSET Nat, IsFiniteSet(S)
  PROVE  /\ Sorted(S) \in Seq(S)
         /\ \A x \in S : \E i \in 1..Len(Sorted(S)) : Sorted(S)[i] = x
<1> DEFINE n == Cardinality(S)
           list == Sorted(S)
<1>1. n \in Nat
  BY FS_CardinalityType
<1>2. list \in [1..n -> S] /\ \A i, j \in DOMAIN list : i < j => list[i] < list[j]
  BY SortedExists DEF Sorted
<1> HIDE DEF n, list
<1>3. \A i, j \in 1..n : list[i] = list[j] => i = j
  <2>1. SUFFICES ASSUME NEW i \in 1..n, NEW j \in 1..n, list[i] = list[j]
                 PROVE  i = j
    OBVIOUS
  <2>2. list[i] \in Nat /\ list[j] \in Nat /\ i \in Nat /\ j \in Nat
    <3>1. list[i] \in S /\ list[j] \in S
      BY <1>2
    <3>2. i \in Nat /\ j \in Nat
      BY <1>1
    <3> QED
      BY <3>1, <3>2
  <2>3. ~(i < j) /\ ~(j < i)
    BY <1>2, <2>1, <2>2
  <2> QED
    BY <2>2, <2>3
<1>4. list \in Injection(1..n, S)
  BY <1>2, <1>3 DEF Injection, IsInjective
<1>5. Cardinality(1..n) = n
  BY <1>1, FS_Interval
<1>6. list \in Surjection(1..n, S)
  BY <1>4, <1>5, FS_Injection DEF n
<1>7. list \in Seq(S) /\ Len(list) = n
  BY <1>1, <1>2
<1>8. \A x \in S : \E i \in 1..n : list[i] = x
  BY <1>6 DEF Surjection
<1> QED
  BY <1>7, <1>8 DEF list

\* Induction on numbers, for sets instead of predicates.
LEMMA Induction ==
  ASSUME NEW E, 0 \in E, \A n \in Nat : n \in E => n + 1 \in E
  PROVE  Nat \subseteq E
<1> SUFFICES ASSUME Nat \ E # {} PROVE FALSE
  OBVIOUS
<1>1. PICK m \in Nat \ E : \A n \in Nat \ E : <<n, m>> \notin OpToRel(<, Nat)
  BY NatLessThanWellFounded, WFMin
<1>2. \A n \in Nat \ E : ~ (n < m)
  BY <1>1 DEF OpToRel
<1>3. m # 0 /\ m \in Nat
  OBVIOUS
<1>4. m - 1 \in Nat /\ m - 1 < m /\ (m - 1) + 1 = m
  BY <1>3
<1> QED
  BY <1>2, <1>4

\* Joined words that are plain are the words of the sorted list.
LEMMA JoinedPlain ==
  ASSUME NEW S \in SUBSET Words, IsFiniteSet(S), \A w \in S : Plain(w)
  PROVE  Joined(S) = IF S = {} THEN <<Blank>> ELSE Sorted(S)
<1> SUFFICES ASSUME S # {} PROVE Joined(S) = Sorted(S)
  BY DEF Joined
<1>1. PICK list : list = Sorted(S)
  OBVIOUS
<1>2. S \in SUBSET Nat
  BY WordsAssumption
<1>3. list \in Seq(S) /\ \A x \in S : \E i \in 1..Len(list) : list[i] = x
  BY <1>1, <1>2, SortedLists
<1> DEFINE n == Len(list)
           pieces == [i \in DOMAIN list |-> Pieces[list[i]]]
           Grows(f) == f = [i \in 1..n |-> IF i = 1 THEN pieces[i]
                                                   ELSE f[i - 1] \o pieces[i]]
           flatten == CHOOSE f : Grows(f)
           first == [i \in 1..n |-> [j \in 1..i |-> list[j]]]
<1>4. n \in Nat \ {0} /\ DOMAIN list = 1..n
  BY <1>3
<1>5. Len(pieces) = n /\ \A i \in 1..n : pieces[i] = <<list[i]>>
  <2>1. \A i \in 1..n : list[i] \in S
    BY <1>3
  <2>2. \A i \in 1..n : Pieces[list[i]] = <<list[i]>>
    BY <2>1 DEF Plain
  <2>3. \A i \in 1..n : pieces[i] = Pieces[list[i]]
    BY <1>4
  <2>4. pieces = [i \in 1..n |-> Pieces[list[i]]]
    BY <1>4
  <2> HIDE DEF pieces
  <2>5. Len(pieces) = n
    <3> HIDE DEF n
    <3> QED
      BY <1>4, <2>4
  <2> QED
    BY <2>2, <2>3, <2>5
<1>6. FlattenSeq(pieces) = flatten[n]
  BY <1>4, <1>5 DEF FlattenSeq
<1> HIDE DEF n, pieces
<1>7. ASSUME NEW i \in 1..n, i # 1
      PROVE  [j \in 1..(i - 1) |-> list[j]] \o <<list[i]>> = [j \in 1..i |-> list[j]]
  <2>1. PICK k \in Nat : k = i - 1 /\ i = k + 1
    BY <1>4, <1>7
  <2>2. \A j \in 1..k : list[j] \in S
    BY <1>3, <1>4, <2>1 DEF n
  <2>3. [j \in 1..k |-> list[j]] \in Seq(S) /\ Len([j \in 1..k |-> list[j]]) = k
    BY <2>1, <2>2
  <2>4. list[i] \in S
    BY <1>3, <1>4 DEF n
  <2> QED
    BY <2>1, <2>3, <2>4
<1>8. Grows(first)
  <2>1. ASSUME NEW i \in 1..n
        PROVE  first[i] = IF i = 1 THEN pieces[i] ELSE first[i - 1] \o pieces[i]
    <3>1. CASE i = 1
      <4>1. [j \in 1..1 |-> list[j]] = <<list[1]>>
        OBVIOUS
      <4> QED
        BY <1>5, <3>1, <4>1
    <3>2. CASE i # 1
      <4>1. i - 1 \in 1..n
        BY <1>4, <3>2
      <4>2. first[i - 1] = [j \in 1..(i - 1) |-> list[j]]
        BY <4>1
      <4> QED
        BY <1>5, <1>7, <3>2, <4>2
    <3> QED
      BY <3>1, <3>2
  <2> QED
    BY <2>1
<1> HIDE DEF first
<1>9. Grows(flatten)
  BY <1>8
<1> HIDE DEF flatten
<1>10. \A i \in 1..n : flatten[i] = first[i]
  <2> DEFINE Equal == {k \in Nat : k + 1 \in 1..n => flatten[k + 1] = first[k + 1]}
  <2>1. 0 \in Equal
    BY <1>4, <1>8, <1>9
  <2>2. ASSUME NEW k \in Nat, k \in Equal PROVE k + 1 \in Equal
    <3>1. SUFFICES ASSUME (k + 1) + 1 \in 1..n
                   PROVE  flatten[(k + 1) + 1] = first[(k + 1) + 1]
      OBVIOUS
    <3>2. PICK i \in 1..n : i = (k + 1) + 1
      BY <3>1
    <3>3. i # 1 /\ i - 1 = k + 1 /\ k + 1 \in 1..n
      BY <1>4, <3>2
    <3>4. flatten[k + 1] = first[k + 1]
      BY <2>2, <3>3
    <3>5. flatten[i] = flatten[i - 1] \o pieces[i]
      BY <1>9, <3>3
    <3>6. first[i] = first[i - 1] \o pieces[i]
      BY <1>8, <3>3
    <3>7. flatten[i] = first[i]
      BY <3>3, <3>4, <3>5, <3>6
    <3> QED
      BY <3>2, <3>7
  <2>3. Nat \subseteq Equal
    <3> HIDE DEF Equal
    <3> QED
      BY <2>1, <2>2, Induction
  <2>4. \A i \in 1..n : i - 1 \in Nat /\ (i - 1) + 1 = i
    BY <1>4
  <2> QED
    BY <2>3, <2>4
<1>11. first[n] = list
  BY <1>3, <1>4 DEF first, n
<1>12. FlattenSeq(pieces) = list
  BY <1>4, <1>6, <1>10, <1>11
<1> QED
  BY <1>1, <1>12 DEF Joined, pieces

\* The text of plain words has these words, and no others.
LEMMA JoinedTells ==
  ASSUME NEW S \in SUBSET Words, IsFiniteSet(S), \A w \in S : Plain(w)
  PROVE  /\ Joined(S) \in Seq(Nat)
         /\ \A i \in 1..Len(Joined(S)) : Joined(S)[i] \in S \cup {Blank}
         /\ \A x \in S : \E i \in 1..Len(Joined(S)) : Joined(S)[i] = x
<1>1. S \in SUBSET Nat /\ Blank \in Nat
  BY WordsAssumption
<1>2. CASE S = {}
  <2>1. PICK s : s = Joined(S) /\ s = <<Blank>>
    BY <1>2, JoinedPlain
  <2>2. s \in Seq(Nat) /\ \A i \in 1..Len(s) : s[i] = Blank
    BY <1>1, <2>1
  <2> QED
    BY <1>2, <2>1, <2>2
<1>3. CASE S # {}
  <2>1. PICK s : s = Joined(S) /\ s = Sorted(S)
    BY <1>3, JoinedPlain
  <2>2. s \in Seq(S) /\ \A x \in S : \E i \in 1..Len(s) : s[i] = x
    BY <1>1, <2>1, SortedLists
  <2>3. Len(s) \in Nat /\ \A i \in 1..Len(s) : s[i] \in S
    BY <2>2
  <2>4. s = [i \in 1..Len(s) |-> s[i]]
    BY <2>2
  <2>5. s \in Seq(Nat)
    BY <1>1, <2>3, <2>4
  <2> QED
    BY <2>1, <2>2, <2>3, <2>5
<1> QED
  BY <1>2, <1>3

\* kg_cache_key: two calls with one key ask for the same terms and the same
\* roles, unless a word is on both sides or is empty or has a separator.
THEOREM KeyTells ==
  \A a, b \in Asks : Key(a) = Key(b) => a = b \/ Confusable(a, b)
<1>1. SUFFICES ASSUME NEW a \in Asks, NEW b \in Asks, Key(a) = Key(b),
                      ~Confusable(a, b)
               PROVE  a.terms = b.terms /\ a.roles = b.roles
  BY WordsAssumption
<1> DEFINE WordsIn(key) == {key[i] : i \in 1..Len(key)} \ {Blank}
<1>2. ASSUME NEW q \in {a, b} PROVE WordsIn(Key(q)) = q.terms \cup q.roles
  <2>1. /\ q.terms \in SUBSET Words /\ q.roles \in SUBSET Words
        /\ IsFiniteSet(q.terms) /\ IsFiniteSet(q.roles)
        /\ \A w \in q.terms \cup q.roles : Plain(w)
    BY <1>1, WordsAssumption DEF Confusable
  <2>2. PICK s, t : s = Joined(q.terms) /\ t = Joined(q.roles)
    OBVIOUS
  <2>3. /\ s \in Seq(Nat) /\ t \in Seq(Nat)
        /\ \A i \in 1..Len(s) : s[i] \in q.terms \cup {Blank}
        /\ \A x \in q.terms : \E i \in 1..Len(s) : s[i] = x
        /\ \A i \in 1..Len(t) : t[i] \in q.roles \cup {Blank}
        /\ \A x \in q.roles : \E i \in 1..Len(t) : t[i] = x
    BY <2>1, <2>2, JoinedTells
  <2>4. Key(q) = s \o t
    BY <2>2 DEF Key
  <2>5. /\ Len(s \o t) = Len(s) + Len(t) /\ Len(s) \in Nat /\ Len(t) \in Nat
        /\ \A i \in 1..Len(s) : (s \o t)[i] = s[i]
        /\ \A i \in 1..Len(t) : (s \o t)[Len(s) + i] = t[i]
    BY <2>3
  <2>6. ASSUME NEW x \in WordsIn(s \o t) PROVE x \in q.terms \cup q.roles
    <3>1. PICK i \in 1..(Len(s) + Len(t)) : x = (s \o t)[i] /\ x # Blank
      BY <2>5
    <3>2. CASE i <= Len(s)
      BY <2>3, <2>5, <3>1, <3>2
    <3>3. CASE i > Len(s)
      <4>1. PICK j \in 1..Len(t) : i = Len(s) + j
        <5>1. i - Len(s) \in 1..Len(t) /\ i = Len(s) + (i - Len(s))
          BY <2>5, <3>3
        <5> QED
          BY <5>1
      <4> QED
        BY <2>3, <2>5, <3>1, <4>1
    <3> QED
      BY <2>5, <3>2, <3>3
  <2>7. ASSUME NEW x \in q.terms PROVE x \in WordsIn(s \o t)
    <3>1. PICK i \in 1..Len(s) : s[i] = x
      BY <2>3
    <3>2. i \in 1..Len(s \o t) /\ (s \o t)[i] = x
      BY <2>5, <3>1
    <3> QED
      BY <2>1, <3>2 DEF Plain
  <2>8. ASSUME NEW x \in q.roles PROVE x \in WordsIn(s \o t)
    <3>1. PICK i \in 1..Len(t) : t[i] = x
      BY <2>3
    <3>2. Len(s) + i \in 1..Len(s \o t) /\ (s \o t)[Len(s) + i] = x
      BY <2>5, <3>1
    <3> QED
      BY <2>1, <3>2 DEF Plain
  <2> HIDE DEF WordsIn
  <2> QED
    BY <2>4, <2>6, <2>7, <2>8
<1> HIDE DEF WordsIn
<1>3. a.terms \cup a.roles = b.terms \cup b.roles
  BY <1>1, <1>2
<1>4. a.terms \cap b.roles = {} /\ b.terms \cap a.roles = {}
  BY <1>1 DEF Confusable
<1> QED
  BY <1>3, <1>4

-----------------------------------------------------------------------------
(* The invariant.                                                          *)

\* What the proofs need of the types; TypeOK also has the bounds.
Typed ==
  /\ past \in Seq(Graphs) /\ past # <<>>
  /\ pc \in [Requests -> 0..6]
  /\ ask \in [Requests -> Asks]
  /\ began \in [Requests -> Nat]
  /\ context \in [Requests -> [Labels -> SUBSET Nodes]]
  /\ source \in [Requests -> Requests]
  /\ ended \in [Requests -> Nat]
  /\ DOMAIN redis = Keys

\* The first n lists that a call has read are of graphs between its lookup and
\* the graph number last, and the later list is not of an earlier graph.
Seen(r, n, last) ==
  \E seen \in [Labels -> began[r]..last] :
    /\ \A i \in 1..n :
         context[r][Reads[i]] \in Pages(past[seen[Reads[i]]], Reads[i], ask[r])
    /\ \A i, j \in 1..n : i < j => seen[Reads[i]] <= seen[Reads[j]]

\* A call on its way holds its own reads.
OwnReads(r) ==
  pc[r] \in 0..4 =>
    /\ source[r] = r
    /\ pc[r] # 0 => /\ began[r] \in 1..Len(past)
                    /\ Seen(r, pc[r] - 1, Len(past))

ReadsOwn == \A r \in Requests : OwnReads(r)

\* A call that read all the lists itself, and is over.
Filled(o) ==
  /\ pc[o] \in {5, 6}
  /\ began[o] \in 1..Len(past)
  /\ ended[o] \in 1..Len(past)
  /\ Seen(o, 3, ended[o])

\* An entry is the context of the call that stored it.
EntryFilled(k) ==
  redis[k] # NoEntry =>
    \E o \in Requests :
      /\ Filled(o)
      /\ Key(ask[o]) = k
      /\ redis[k] = [context |-> context[o], by |-> o]

EntriesFilled == \A k \in Keys : EntryFilled(k)

\* What a caller got is its own or that of a call that asked the same, as far
\* as the key tells.
Served(r) ==
  pc[r] = 5 =>
    \E o \in Requests :
      /\ Filled(o)
      /\ source[r] = o /\ context[o] = context[r]
      /\ ask[o] = ask[r] \/ Confusable(ask[o], ask[r])

ServedFilled == \A r \in Requests : Served(r)

IInv == Typed /\ ReadsOwn /\ EntriesFilled /\ ServedFilled

LEMMA InitInv == Init => IInv
<1> SUFFICES ASSUME Init PROVE IInv
  OBVIOUS
<1> USE ReadsFacts DEF Init
<1>1. Typed
  <2>1. PICK g \in FirstGraphs : past = <<g>>
    OBVIOUS
  <2>2. g \in Graphs
    BY GraphAssumption DEF Graphs
  <2>3. past \in Seq(Graphs) /\ past # <<>>
    BY <2>1, <2>2
  <2>4. NoContext \in [Labels -> SUBSET Nodes]
    BY DEF NoContext
  <2>5. context \in [Requests -> [Labels -> SUBSET Nodes]]
    BY <2>4
  <2>6. ended \in [Requests -> Nat]
    OBVIOUS
  <2>7. /\ pc \in [Requests -> 0..6]
        /\ ask \in [Requests -> Asks] /\ began \in [Requests -> Nat]
        /\ source \in [Requests -> Requests] /\ DOMAIN redis = Keys
    OBVIOUS
  <2> QED
    BY <2>3, <2>5, <2>6, <2>7 DEF Typed
<1>2. ReadsOwn
  BY DEF ReadsOwn, OwnReads
<1>3. EntriesFilled
  BY DEF EntriesFilled, EntryFilled
<1>4. ServedFilled
  BY DEF ServedFilled, Served
<1> QED
  BY <1>1, <1>2, <1>3, <1>4 DEF IInv

\* Graphs are only ever added, so what a call saw it has still seen.
LEMMA SeenStays ==
  ASSUME Typed, NEW r \in Requests, NEW n \in 0..3, NEW last \in 0..Len(past),
         Seen(r, n, last), began[r] \in 1..Len(past),
         UNCHANGED <<began[r], context[r], ask[r]>>,
         \A i \in 1..Len(past) : past'[i] = past[i]
  PROVE  Seen(r, n, last)'
<1>1. PICK seen \in [Labels -> began[r]..last] :
        /\ \A i \in 1..n : context[r][Reads[i]] \in
                             Pages(past[seen[Reads[i]]], Reads[i], ask[r])
        /\ \A i, j \in 1..n : i < j => seen[Reads[i]] <= seen[Reads[j]]
  BY DEF Seen
<1>2. \A i \in 1..n : Reads[i] \in Labels /\ past'[seen[Reads[i]]] = past[seen[Reads[i]]]
  <2> SUFFICES ASSUME NEW i \in 1..n
               PROVE  Reads[i] \in Labels /\ past'[seen[Reads[i]]] = past[seen[Reads[i]]]
    OBVIOUS
  <2>1. i \in 1..3
    OBVIOUS
  <2>2. Reads[i] \in Labels
    BY <2>1, ReadsFacts
  <2>3. seen[Reads[i]] \in began[r]..last /\ Len(past) \in Nat
    BY <2>2 DEF Typed
  <2> QED
    BY <2>2, <2>3
<1>3. \A i \in 1..n : context'[r][Reads[i]] \in
                        Pages(past'[seen[Reads[i]]], Reads[i], ask'[r])
  BY <1>1, <1>2
<1>4. seen \in [Labels -> began'[r]..last]
  BY <1>1
<1> QED
  BY <1>1, <1>3, <1>4 DEF Seen

\* As SeenStays, with more graphs to have seen.
LEMMA SeenWidens ==
  ASSUME Typed, NEW r \in Requests, NEW n \in 0..3, NEW last \in Nat,
         NEW next \in Nat, last <= next, Seen(r, n, last)
  PROVE  Seen(r, n, next)
<1>1. PICK seen \in [Labels -> began[r]..last] :
        /\ \A i \in 1..n : context[r][Reads[i]] \in
                             Pages(past[seen[Reads[i]]], Reads[i], ask[r])
        /\ \A i, j \in 1..n : i < j => seen[Reads[i]] <= seen[Reads[j]]
  BY DEF Seen
<1>2. began[r] \in Nat
  BY DEF Typed
<1>3. seen \in [Labels -> began[r]..next]
  BY <1>1, <1>2
<1> QED
  BY <1>1, <1>3 DEF Seen

\* A call that is over stays as it is, whatever else happens.
Kept(o) ==
  UNCHANGED <<pc[o], ask[o], began[o], context[o], source[o], ended[o]>>

LEMMA FilledStays ==
  ASSUME Typed, NEW o \in Requests, Filled(o), Kept(o),
         Len(past') \in Nat, Len(past) <= Len(past'),
         \A i \in 1..Len(past) : past'[i] = past[i]
  PROVE  Filled(o)'
<1>1. Len(past) \in Nat
  BY DEF Typed
<1>2. Seen(o, 3, ended[o])'
  <2>1. ended[o] \in 0..Len(past)
    BY <1>1 DEF Filled
  <2>2. PICK last \in 0..Len(past) : last = ended[o]
    BY <2>1
  <2>3. Seen(o, 3, last)'
    BY <2>2, SeenStays DEF Filled, Kept
  <2>4. ended'[o] = last
    BY <2>2 DEF Kept
  <2> QED
    BY <2>3, <2>4 DEF Seen
<1> QED
  BY <1>1, <1>2 DEF Filled, Kept

-----------------------------------------------------------------------------
(* Every step keeps it.                                                    *)

\* What a step of one call leaves alone: the graph and, of every other
\* call, everything.
Others(r) ==
  /\ UNCHANGED <<past, ask>>
  /\ \A o \in Requests \ {r} : Kept(o)

LEMMA CallKeepsOthers ==
  ASSUME Typed, NEW r \in Requests, Call(r)
  PROVE  Others(r) /\ pc[r] \in 0..4
<1>1. CASE Fetch(r)
  BY <1>1, ReadsFacts DEF Fetch, Others, Kept, Typed, Ends, Goto
<1>2. CASE Read(r)
  <2>1. pc[r] \in 1..3
    BY <1>2, ReadsFacts DEF Read
  <2>2. PICK page : context' = [context EXCEPT ![r][Reads[pc[r]]] = page]
    BY <1>2 DEF Read
  <2> QED
    BY <1>2, <2>1, <2>2 DEF Read, Others, Kept, Typed, Goto
<1>3. CASE Return(r)
  BY <1>3, ReadsFacts DEF Return, Others, Kept, Typed, Ends, Goto
<1>4. CASE Raise(r)
  BY <1>4, ReadsFacts DEF Raise, Others, Kept, Typed, Ends, Goto
<1> QED
  BY <1>1, <1>2, <1>3, <1>4 DEF Call

\* The types after a step of a call.
LEMMA CallTyped ==
  ASSUME Typed, EntriesFilled, NEW r \in Requests, Call(r)
  PROVE  Typed'
<1> USE DEF Typed
<1>1. UNCHANGED <<past, ask>>
  BY CallKeepsOthers DEF Others
<1>2. DOMAIN redis' = Keys
  BY DEF Call, Fetch, Read, Return, Raise, Store
<1>3. Len(past) \in Nat
  OBVIOUS
<1>4. pc' \in [Requests -> 0..6]
  <2>1. PICK n \in 0..6 : pc' = [pc EXCEPT ![r] = n]
    BY ReadsFacts DEF Call, Fetch, Read, Return, Raise, Ends, Goto, AfterError
  <2> QED
    BY <2>1
<1>5. ended' \in [Requests -> Nat]
  <2>1. \/ ended' = ended
        \/ ended' = [ended EXCEPT ![r] = Len(past)]
    BY DEF Call, Fetch, Read, Return, Raise, Ends
  <2> QED
    BY <1>3, <2>1
<1>6. began' \in [Requests -> Nat]
  <2>1. began' = began \/ began' = [began EXCEPT ![r] = Len(past)]
    BY DEF Call, Fetch, Read, Return, Raise
  <2> QED
    BY <1>3, <2>1
<1>7. context' \in [Requests -> [Labels -> SUBSET Nodes]]
      /\ source' \in [Requests -> Requests]
  <2>1. CASE Fetch(r)
    <3>1. CASE UNCHANGED <<context, source>>
      BY <3>1
    <3>2. CASE ~ UNCHANGED <<context, source>>
      <4> DEFINE entry == redis[Key(ask[r])]
      <4>1. /\ entry # NoEntry
            /\ context' = [context EXCEPT ![r] = entry.context]
            /\ source' = [source EXCEPT ![r] = entry.by]
        BY <2>1, <3>2 DEF Fetch
      <4>2. Key(ask[r]) \in Keys
        BY DEF Keys
      <4>3. entry.by \in Requests /\ entry.context = context[entry.by]
        BY <4>1, <4>2 DEF EntriesFilled, EntryFilled
      <4> QED
        BY <4>1, <4>3
    <3> QED
      BY <3>1, <3>2
  <2>2. CASE Read(r)
    <3>1. pc[r] \in 1..3 /\ Reads[pc[r]] \in Labels
      BY <2>2, ReadsFacts DEF Read
    <3>2. PICK page \in Pages(Present, Reads[pc[r]], ask[r]) :
             context' = [context EXCEPT ![r][Reads[pc[r]]] = page]
      BY <2>2 DEF Read
    <3>3. page \in SUBSET Nodes
      BY <3>2 DEF Pages, kSubset, Matching
    <3>4. source' = source
      BY <2>2 DEF Read
    <3> QED
      BY <3>1, <3>2, <3>3, <3>4
  <2>3. CASE Return(r) \/ Raise(r)
    BY <2>3 DEF Return, Raise
  <2> QED
    BY <2>1, <2>2, <2>3 DEF Call
<1> QED
  BY <1>1, <1>2, <1>4, <1>5, <1>6, <1>7

\* The lists of a call that a step leaves alone, but perhaps adds a graph.
LEMMA OwnReadsStay ==
  ASSUME Typed, Typed', NEW o \in Requests, OwnReads(o), Kept(o),
         Len(past) <= Len(past'), \A i \in 1..Len(past) : past'[i] = past[i]
  PROVE  OwnReads(o)'
<1> USE ReadsFacts
<1>1. Len(past) \in Nat \ {0} /\ Len(past') \in Nat
  BY DEF Typed
<1> SUFFICES ASSUME pc'[o] \in 0..4
             PROVE  /\ source'[o] = o
                    /\ pc'[o] # 0 => /\ began'[o] \in 1..Len(past')
                                     /\ Seen(o, pc[o] - 1, Len(past))'
  BY DEF OwnReads
<1>2. source'[o] = o
  BY DEF Kept, OwnReads
<1>3. ASSUME pc'[o] # 0
      PROVE  began'[o] \in 1..Len(past') /\ Seen(o, pc[o] - 1, Len(past))'
  <2>1. pc[o] \in 1..4 /\ pc'[o] = pc[o]
    BY <1>3 DEF Kept
  <2>2. began[o] \in 1..Len(past) /\ Seen(o, pc[o] - 1, Len(past))
    BY <2>1 DEF OwnReads
  <2>3. PICK n \in 0..3 : n = pc[o] - 1
    BY <2>1
  <2>4. PICK last \in Nat : last = Len(past)
    BY <1>1
  <2>5. Seen(o, n, last)'
    BY <1>1, <2>2, <2>3, <2>4, SeenStays DEF Kept
  <2>6. PICK next \in Nat : next = Len(past')
    BY <1>1
  <2>7. Typed' /\ last <= next /\ Seen(o, n, last)'
    BY <2>4, <2>5, <2>6
  <2>8. Seen(o, n, next)'
    <3>1. PICK seen \in [Labels -> began'[o]..last] :
            /\ \A i \in 1..n : context'[o][Reads[i]] \in
                                Pages(past'[seen[Reads[i]]], Reads[i], ask'[o])
            /\ \A i, j \in 1..n : i < j => seen[Reads[i]] <= seen[Reads[j]]
      BY <2>5 DEF Seen
    <3>2. began'[o] \in Nat
      BY DEF Typed
    <3>3. seen \in [Labels -> began'[o]..next]
      BY <2>7, <3>1, <3>2
    <3> QED
      BY <3>1, <3>3 DEF Seen
  <2>9. Seen(o, pc[o] - 1, Len(past))' 
    BY <2>1, <2>3, <2>6, <2>8 DEF Seen
  <2> QED
    BY <1>1, <2>2, <2>9 DEF Kept
<1> QED
  BY <1>2, <1>3

\* One more read.
LEMMA OneMoreSeen ==
  ASSUME Typed, NEW r \in Requests, NEW n \in 1..3, began[r] \in 1..Len(past),
         Seen(r, n - 1, Len(past)),
         NEW page \in Pages(Present, Reads[n], ask[r]),
         context' = [context EXCEPT ![r][Reads[n]] = page],
         UNCHANGED <<past, ask, began>>
  PROVE  Seen(r, n, Len(past))'
<1> USE ReadsFacts
<1>1. PICK seen \in [Labels -> began[r]..Len(past)] :
        /\ \A i \in 1..n - 1 : context[r][Reads[i]] \in
                               Pages(past[seen[Reads[i]]], Reads[i], ask[r])
        /\ \A i, j \in 1..n - 1 : i < j => seen[Reads[i]] <= seen[Reads[j]]
  BY DEF Seen
<1> DEFINE more == [seen EXCEPT ![Reads[n]] = Len(past)]
<1>2. Len(past) \in Nat /\ began[r] \in Nat
  BY DEF Typed
<1>3. more \in [Labels -> began[r]..Len(past)]
  BY <1>1, <1>2
<1>4. \A i \in 1..n - 1 : Reads[i] \in Labels /\ Reads[i] # Reads[n]
  OBVIOUS
<1>5. more[Reads[n]] = Len(past) /\ \A i \in 1..n - 1 : more[Reads[i]] = seen[Reads[i]]
  BY <1>1, <1>4
<1>6. context'[r][Reads[n]] = page
      /\ \A i \in 1..n - 1 : context'[r][Reads[i]] = context[r][Reads[i]]
  BY <1>4 DEF Typed
<1>7. \A i \in 1..n : i = n \/ i \in 1..n - 1
  OBVIOUS
<1> HIDE DEF more
<1>8. \A i \in 1..n : context'[r][Reads[i]] \in
                       Pages(past[more[Reads[i]]], Reads[i], ask[r])
  BY <1>1, <1>5, <1>6, <1>7 DEF Present
<1>9. \A i, j \in 1..n : i < j => more[Reads[i]] <= more[Reads[j]]
  <2> SUFFICES ASSUME NEW i \in 1..n, NEW j \in 1..n, i < j
               PROVE  more[Reads[i]] <= more[Reads[j]]
    OBVIOUS
  <2>1. i \in 1..n - 1
    OBVIOUS
  <2>2. seen[Reads[i]] <= Len(past)
    BY <1>1, <1>2, <1>4, <2>1
  <2>3. CASE j = n
    BY <1>5, <2>1, <2>2, <2>3
  <2>4. CASE j \in 1..n - 1
    BY <1>1, <1>5, <2>1, <2>4
  <2> QED
    BY <1>7, <2>3, <2>4
<1> QED
  BY <1>3, <1>8, <1>9 DEF Seen

\* What the other calls and the entries have, after a step of one call.
LEMMA CallStep ==
  ASSUME IInv, NEW r \in Requests, Call(r)
  PROVE  IInv'
<1> USE ReadsFacts DEF IInv
<1>1. Typed'
  BY CallTyped
<1>2. /\ UNCHANGED <<past, ask>> /\ pc[r] \in 0..4 /\ Len(past) \in Nat \ {0}
      /\ \A o \in Requests \ {r} : Kept(o)
  <2>1. Len(past) \in Nat \ {0}
    BY DEF Typed
  <2>2. Others(r) /\ pc[r] \in 0..4
    BY CallKeepsOthers
  <2> QED
    BY <2>1, <2>2 DEF Others
<1>3. ASSUME NEW o \in Requests, Filled(o)
      PROVE  o # r /\ Kept(o) /\ Filled(o)'
  <2>1. o # r
    BY <1>2, <1>3 DEF Filled
  <2> QED
    BY <1>2, <1>3, <2>1, FilledStays
<1>4. \A o \in Requests \ {r} : OwnReads(o)'
  BY <1>1, <1>2, OwnReadsStay DEF ReadsOwn
<1>5. \A k \in Keys : redis'[k] = redis[k] => EntryFilled(k)'
  <2> SUFFICES ASSUME NEW k \in Keys, redis'[k] = redis[k], redis[k] # NoEntry
               PROVE  \E o \in Requests :
                        /\ Filled(o)'
                        /\ Key(ask'[o]) = k
                        /\ redis'[k] = [context |-> context'[o], by |-> o]
    BY DEF EntryFilled
  <2>1. PICK o \in Requests :
          /\ Filled(o)
          /\ Key(ask[o]) = k
          /\ redis[k] = [context |-> context[o], by |-> o]
    BY DEF EntriesFilled, EntryFilled
  <2>2. Kept(o) /\ Filled(o)'
    BY <1>3, <2>1
  <2> QED
    BY <1>2, <2>1, <2>2 DEF Kept
<1>6. ASSUME NEW q \in Requests \ {r} PROVE Served(q)'
  <2> SUFFICES ASSUME pc'[q] = 5
               PROVE  \E o \in Requests :
                        /\ Filled(o)'
                        /\ source'[q] = o /\ context'[o] = context'[q]
                        /\ ask'[o] = ask'[q] \/ Confusable(ask'[o], ask'[q])
    BY DEF Served
  <2>1. Kept(q)
    BY <1>2
  <2>2. PICK o \in Requests :
          /\ Filled(o)
          /\ source[q] = o /\ context[o] = context[q]
          /\ ask[o] = ask[q] \/ Confusable(ask[o], ask[q])
    BY <2>1 DEF ServedFilled, Served, Kept
  <2>3. Kept(o) /\ Filled(o)'
    BY <1>3, <2>2
  <2> QED
    BY <2>1, <2>2, <2>3 DEF Kept
<1>7. ASSUME UNCHANGED redis PROVE EntriesFilled'
  BY <1>5, <1>7 DEF EntriesFilled
\* A full call that ends now.
<1>8. ASSUME pc[r] = 4, pc'[r] \in {5, 6}, UNCHANGED <<began, context, source>>,
             ended' = [ended EXCEPT ![r] = Len(past)]
      PROVE  Filled(r)' /\ source'[r] = r
  <2>1. source[r] = r /\ began[r] \in 1..Len(past) /\ Seen(r, 3, Len(past))
    <3>1. pc[r] - 1 = 3
      BY <1>8
    <3> QED
      BY <1>8, <3>1 DEF ReadsOwn, OwnReads
  <2>2. ended'[r] = Len(past)
    BY <1>8 DEF Typed
  <2>3. PICK last \in Nat : last = Len(past)
    BY <1>2
  <2>4. Seen(r, 3, last)'
    BY <1>2, <1>8, <2>1, <2>3 DEF Seen
  <2>5. Seen(r, 3, ended[r])'
    BY <2>2, <2>3, <2>4 DEF Seen
  <2>6. began'[r] \in 1..Len(past') /\ ended'[r] \in 1..Len(past')
    BY <1>2, <1>8, <2>1, <2>2
  <2>7. Filled(r)'
    BY <1>8, <2>5, <2>6 DEF Filled
  <2> QED
    BY <1>8, <2>1, <2>7
\* What it stores.
<1>9. ASSUME pc[r] = 4, Store(r), Filled(r)', UNCHANGED context
      PROVE  EntriesFilled'
  <2>1. Key(ask[r]) \in Keys
    BY DEF Typed, Keys
  <2>2. redis'[Key(ask[r])] = [context |-> context[r], by |-> r]
    BY <1>9, <2>1 DEF Store, Typed
  <2>3. \A k \in Keys \ {Key(ask[r])} : redis'[k] = redis[k]
    BY <1>9 DEF Store, Typed
  <2>5. EntryFilled(Key(ask[r]))'
    <3>1. PICK k : k = Key(ask[r])
      OBVIOUS
    <3>2. /\ Key(ask'[r]) = k
          /\ redis'[k] = [context |-> context'[r], by |-> r]
      BY <1>2, <1>9, <2>2, <3>1
    <3>3. EntryFilled(k)'
      BY <1>9, <3>2 DEF EntryFilled
    <3> QED
      BY <1>2, <3>1, <3>3 DEF EntryFilled
  <2>6. \A k \in Keys : EntryFilled(k)'
    <3>1. PICK kk : kk = Key(ask[r])
      OBVIOUS
    <3>2. EntryFilled(kk)'
      BY <1>2, <2>5, <3>1 DEF EntryFilled
    <3> QED
      BY <1>5, <2>3, <3>1, <3>2
  <2> QED
    BY <2>6 DEF EntriesFilled
<1>10. ASSUME OwnReads(r)', Served(r)', EntriesFilled' PROVE IInv'
  BY <1>1, <1>4, <1>6, <1>10 DEF ReadsOwn, ServedFilled
<1>11. CASE Fetch(r)
  <2>1. pc[r] = 0 /\ source[r] = r /\ UNCHANGED redis
        /\ began' = [began EXCEPT ![r] = Len(past)]
    BY <1>11 DEF Fetch, ReadsOwn, OwnReads
  <2>2. EntriesFilled'
    BY <1>7, <2>1
  <2>3. Key(ask[r]) \in Keys
    BY DEF Typed, Keys
  <2>4. CASE redis[Key(ask[r])] # NoEntry
    <3>1. PICK o \in Requests :
            /\ Filled(o)
            /\ Key(ask[o]) = Key(ask[r])
            /\ redis[Key(ask[r])] =
                 [context |-> context[o], by |-> o]
      BY <2>3, <2>4 DEF EntriesFilled, EntryFilled
    <3>2. o # r /\ Kept(o) /\ Filled(o)'
      BY <1>3, <3>1
    <3>3. ask[o] = ask[r] \/ Confusable(ask[o], ask[r])
      BY <3>1, KeyTells DEF Typed
    <3>4. /\ context' = [context EXCEPT ![r] = context[o]]
          /\ source' = [source EXCEPT ![r] = o]
          /\ Ends(r, Done)
      BY <1>11, <2>4, <3>1 DEF Fetch
    <3>5. /\ context'[r] = context[o] /\ source'[r] = o /\ pc'[r] = 5
      BY <3>4 DEF Ends, Goto, Typed
    <3>6. Served(r)'
      <4>1. /\ context'[o] = context'[r]
            /\ ask'[o] = ask'[r] \/ Confusable(ask'[o], ask'[r])
        BY <1>2, <3>1, <3>2, <3>3, <3>5 DEF Kept
      <4> QED
        BY <3>2, <3>5, <4>1 DEF Served
    <3>7. OwnReads(r)'
      BY <3>5 DEF OwnReads
    <3> QED
      BY <1>10, <2>2, <3>6, <3>7
  <2>5. CASE redis[Key(ask[r])] = NoEntry
    <3>1. pc' = [pc EXCEPT ![r] = 1] /\ UNCHANGED <<context, source>>
      BY <1>11, <2>5 DEF Fetch, Goto
    <3>2. pc'[r] = 1 /\ source'[r] = r /\ began'[r] = Len(past')
      BY <1>2, <2>1, <3>1 DEF Typed
    <3>3. Seen(r, 0, Len(past))'
      <4>1. Len(past') \in Nat
        BY <1>2
      <4>2. PICK last \in Nat : last = Len(past')
        BY <4>1
      <4> DEFINE seen == [l \in Labels |-> last]
      <4>3. seen \in [Labels -> began'[r]..last]
        BY <3>2, <4>2
      <4> HIDE DEF seen
      <4>4. \A i \in 1..0 : FALSE
        OBVIOUS
      <4>5. Seen(r, 0, last)'
        BY <4>3, <4>4 DEF Seen
      <4> QED
        BY <4>2, <4>5 DEF Seen
    <3>4. OwnReads(r)'
      <4>1. Seen(r, pc[r] - 1, Len(past))'
        <5>1. pc'[r] - 1 = 0
          BY <3>2
        <5> QED
          BY <3>3, <5>1 DEF Seen
      <4>2. began'[r] \in 1..Len(past')
        BY <1>2, <3>2
      <4> QED
        BY <3>2, <4>1, <4>2 DEF OwnReads
    <3>5. Served(r)'
      BY <3>2 DEF Served
    <3> QED
      BY <1>10, <2>2, <3>4, <3>5
  <2> QED
    BY <2>4, <2>5
<1>12. CASE Read(r)
  <2>1. PICK n \in 1..3 : n = pc[r]
    BY <1>12 DEF Read
  <2>2. PICK page \in Pages(Present, Reads[n], ask[r]) :
          context' = [context EXCEPT ![r][Reads[n]] = page]
    BY <1>12, <2>1 DEF Read
  <2>3. pc' = [pc EXCEPT ![r] = n + 1] /\ UNCHANGED <<began, source, redis>>
    BY <1>12, <2>1 DEF Read, Goto
  <2>4. pc'[r] = n + 1 /\ pc'[r] - 1 = n
    BY <2>1, <2>3 DEF Typed
  <2>5. source[r] = r /\ began[r] \in 1..Len(past) /\ Seen(r, n - 1, Len(past))
    BY <2>1 DEF ReadsOwn, OwnReads
  <2>6. Seen(r, n, Len(past))'
    BY <1>2, <2>2, <2>3, <2>5, OneMoreSeen
  <2>7. Seen(r, pc[r] - 1, Len(past))'
    BY <2>4, <2>6 DEF Seen
  <2>8. OwnReads(r)'
    BY <1>2, <2>3, <2>5, <2>7 DEF OwnReads
  <2>9. Served(r)'
    BY <2>4 DEF Served
  <2> QED
    BY <1>7, <1>10, <2>3, <2>8, <2>9
<1>13. CASE Return(r)
  <2>1. /\ pc[r] = 4 /\ Store(r) /\ pc' = [pc EXCEPT ![r] = 5]
        /\ ended' = [ended EXCEPT ![r] = Len(past)]
        /\ UNCHANGED <<began, context, source>>
    BY <1>13 DEF Return, Ends, Goto
  <2>2. pc'[r] = 5
    BY <2>1 DEF Typed
  <2>3. Filled(r)' /\ source'[r] = r
    BY <1>8, <2>1, <2>2
  <2>4. EntriesFilled'
    BY <1>9, <2>1, <2>3
  <2>5. Served(r)'
    BY <2>3 DEF Served
  <2>6. OwnReads(r)'
    BY <2>2 DEF OwnReads
  <2> QED
    BY <1>10, <2>4, <2>5, <2>6
<1>14. CASE Raise(r)
  <2>1. /\ pc' = [pc EXCEPT ![r] = 6]
        /\ ended' = [ended EXCEPT ![r] = Len(past)]
        /\ UNCHANGED <<began, context, source>>
        /\ UNCHANGED redis \/ (pc[r] = 4 /\ Store(r))
    BY <1>14 DEF Raise, Ends, Goto, AfterError
  <2>2. pc'[r] = 6
    BY <2>1 DEF Typed
  <2>3. EntriesFilled'
    BY <1>7, <1>8, <1>9, <2>1, <2>2
  <2>4. Served(r)' /\ OwnReads(r)'
    BY <2>2 DEF Served, OwnReads
  <2> QED
    BY <1>10, <2>3, <2>4
<1> QED
  BY <1>11, <1>12, <1>13, <1>14 DEF Call

\* A step that leaves the calls alone; an entry stays or is dropped.
LEMMA QuietStep ==
  ASSUME IInv, Typed', \A o \in Requests : Kept(o),
         Len(past) <= Len(past'), \A i \in 1..Len(past) : past'[i] = past[i],
         \A k \in Keys : redis'[k] \in {redis[k], NoEntry}
  PROVE  IInv'
<1> USE DEF IInv
<1>1. Len(past') \in Nat
  BY DEF Typed
<1>2. \A o \in Requests : OwnReads(o)'
  BY OwnReadsStay DEF ReadsOwn
<1>3. \A o \in Requests : Filled(o) => Filled(o)'
  BY <1>1, FilledStays
<1>4. ASSUME NEW k \in Keys PROVE EntryFilled(k)'
  <2> SUFFICES ASSUME redis'[k] # NoEntry
               PROVE  \E o \in Requests :
                        /\ Filled(o)'
                        /\ Key(ask'[o]) = k
                        /\ redis'[k] = [context |-> context'[o], by |-> o]
    BY DEF EntryFilled
  <2>1. redis'[k] = redis[k]
    OBVIOUS
  <2>2. PICK o \in Requests :
          /\ Filled(o)
          /\ Key(ask[o]) = k
          /\ redis[k] = [context |-> context[o], by |-> o]
    BY <2>1 DEF EntriesFilled, EntryFilled
  <2>3. Filled(o)' /\ Kept(o)
    BY <1>3, <2>2
  <2> QED
    BY <2>1, <2>2, <2>3 DEF Kept
<1>5. ASSUME NEW q \in Requests PROVE Served(q)'
  <2> SUFFICES ASSUME pc'[q] = 5
               PROVE  \E o \in Requests :
                        /\ Filled(o)'
                        /\ source'[q] = o /\ context'[o] = context'[q]
                        /\ ask'[o] = ask'[q] \/ Confusable(ask'[o], ask'[q])
    BY DEF Served
  <2>1. PICK o \in Requests :
          /\ Filled(o)
          /\ source[q] = o /\ context[o] = context[q]
          /\ ask[o] = ask[q] \/ Confusable(ask[o], ask[q])
    BY DEF ServedFilled, Served, Kept
  <2>2. Filled(o)' /\ Kept(o) /\ Kept(q)
    BY <1>3, <2>1
  <2> QED
    BY <2>1, <2>2 DEF Kept
<1> QED
  BY <1>2, <1>4, <1>5 DEF ReadsOwn, EntriesFilled, ServedFilled

LEMMA StepInv == IInv /\ [Next]_vars => IInv'
<1> SUFFICES ASSUME IInv, [Next]_vars PROVE IInv'
  OBVIOUS
<1>1. Typed /\ Len(past) \in Nat \ {0}
  BY DEF IInv, Typed
<1>3. CASE \E r \in Requests : Call(r)
  BY <1>3, CallStep
<1>4. ASSUME NEW n \in Nodes, Write(n) PROVE IInv'
  <2>1. /\ UNCHANGED <<pc, ask, began, context, source, ended, redis>>
    BY <1>4 DEF Write
  <2>2. PICK v \in {Absent} \cup Visibilities :
           past' = Append(past, [Present EXCEPT ![n] = v])
    BY <1>4 DEF Write
  <2>3. Present \in Graphs
    BY <1>1 DEF Typed, Present
  <2>4. PICK g \in Graphs : past' = Append(past, g)
    <3>1. [Present EXCEPT ![n] = v] \in Graphs
      BY <2>3 DEF Graphs
    <3> QED
      BY <2>2, <3>1
  <2>5. past' \in Seq(Graphs) /\ past' # <<>> /\ Len(past') = Len(past) + 1
        /\ \A i \in 1..Len(past) : past'[i] = past[i]
    <3>1. past \in Seq(Graphs)
      BY <1>1 DEF Typed
    <3> QED
      BY <2>4, <3>1
  <2>6. Typed'
    BY <1>1, <2>1, <2>5 DEF Typed
  <2>7. \A o \in Requests : Kept(o)
    BY <2>1 DEF Kept
  <2> QED
    BY <1>1, <2>1, <2>5, <2>6, <2>7, QuietStep
<1>5. ASSUME NEW k \in Keys, Expire(k) PROVE IInv'
  <2>1. /\ UNCHANGED <<past, pc, ask, began, context, source, ended>>
        /\ redis' = [redis EXCEPT ![k] = NoEntry]
    BY <1>5 DEF Expire
  <2>2. Typed'
    BY <1>1, <2>1 DEF Typed
  <2>3. \A m \in Keys : redis'[m] \in {redis[m], NoEntry}
    BY <1>1, <2>1 DEF Typed
  <2>4. \A o \in Requests : Kept(o)
    BY <2>1 DEF Kept
  <2>5. Len(past) <= Len(past') /\ \A i \in 1..Len(past) : past'[i] = past[i]
    BY <1>1, <2>1
  <2> QED
    BY <2>2, <2>3, <2>4, <2>5, QuietStep
<1>6. CASE UNCHANGED vars
  <2>1. UNCHANGED <<past, pc, ask, began, context, source, ended, redis>>
    BY <1>6 DEF vars
  <2>2. Typed'
    BY <1>1, <2>1 DEF Typed
  <2>3. \A o \in Requests : Kept(o)
    BY <2>1 DEF Kept
  <2>4. Len(past) <= Len(past') /\ \A i \in 1..Len(past) : past'[i] = past[i]
    BY <1>1, <2>1
  <2>5. \A k \in Keys : redis'[k] \in {redis[k], NoEntry}
    BY <2>1
  <2> QED
    BY <2>2, <2>3, <2>4, <2>5, QuietStep
<1> QED
  BY <1>3, <1>4, <1>5, <1>6 DEF Next

\* The invariant holds in every state.
THEOREM Inductive == Spec => []IInv
<1> QED
  BY InitInv, StepInv, PTL DEF Spec

-----------------------------------------------------------------------------
(* Theorems.                                                               *)

\* What a call returned was in the graph while the reads were made.
LEMMA TrueOfInv == IInv => ContextWasTrue
<1> SUFFICES ASSUME IInv, NEW r \in Requests, pc[r] = Done
             PROVE  /\ ask[source[r]] = ask[r] \/ Confusable(ask[source[r]], ask[r])
                    /\ \E seen \in [Labels -> SeenBy(source[r])] :
                         /\ \A l \in Labels :
                              context[r][l] \in Pages(past[seen[l]], l, ask[source[r]])
                         /\ \A i, j \in DOMAIN Reads :
                              i < j => seen[Reads[i]] <= seen[Reads[j]]
  BY DEF ContextWasTrue
<1> USE ReadsFacts
<1>1. PICK o \in Requests : /\ Filled(o) /\ source[r] = o /\ context[o] = context[r]
                            /\ ask[o] = ask[r] \/ Confusable(ask[o], ask[r])
  BY DEF IInv, ServedFilled, Served
<1>2. PICK seen \in [Labels -> began[o]..ended[o]] :
        /\ \A i \in 1..3 : context[o][Reads[i]] \in
                            Pages(past[seen[Reads[i]]], Reads[i], ask[o])
        /\ \A i, j \in 1..3 : i < j => seen[Reads[i]] <= seen[Reads[j]]
  BY <1>1 DEF Filled, Seen
<1>3. \A l \in Labels : \E i \in 1..3 : l = Reads[i]
  OBVIOUS
<1>4. \A l \in Labels : context[r][l] \in Pages(past[seen[l]], l, ask[o])
  BY <1>1, <1>2, <1>3
<1>5. seen \in [Labels -> SeenBy(o)]
  BY <1>2 DEF SeenBy
<1> QED
  BY <1>1, <1>2, <1>4, <1>5

\* What fetch_kg_context returns was in the graph while the three reads were
\* made, in their order, whether the caller made them or the call whose entry
\* it found; and this call asked the same, or something that kg_cache_key joins
\* to the same text.
THEOREM ContextTrue == Spec => []ContextWasTrue
<1> QED
  BY Inductive, TrueOfInv, PTL

\* No caller of fetch_kg_context sees a node that was hidden from its roles all
\* the time the reads took (_visibility_clause), unless another ask has its key.
THEOREM RolesKept == Spec => []RolesRespected
<1>1. ASSUME ContextWasTrue PROVE RolesRespected
  <2> SUFFICES ASSUME NEW r \in Requests, pc[r] = Done,
                      ~Confusable(ask[source[r]], ask[r]),
                      NEW l \in Labels, NEW n \in context[r][l]
               PROVE  \E i \in SeenBy(source[r]) :
                        \/ past[i][n] = Everyone
                        \/ past[i][n] # Absent /\ past[i][n] \cap ask[r].roles # {}
    BY DEF RolesRespected, ShowsVisible
  <2>1. PICK seen \in [Labels -> SeenBy(source[r])] :
          context[r][l] \in Pages(past[seen[l]], l, ask[r])
    BY <1>1 DEF ContextWasTrue
  <2>2. n \in Matching(past[seen[l]], l, ask[r])
    BY <2>1 DEF Pages, kSubset
  <2>3. Visible(past[seen[l]][n], ask[r].roles)
    BY <2>2 DEF Matching
  <2>4. seen[l] \in SeenBy(source[r])
    BY <2>1
  <2> QED
    BY <2>3, <2>4 DEF Visible
<1> QED
  BY <1>1, ContextTrue, PTL

\* What the type invariant has beyond Typed and EntriesFilled.
Bounds ==
  /\ Len(past) <= MaxWrites + 1
  /\ redis = [k \in Keys |-> redis[k]]
  /\ \A r \in Requests :
       /\ began[r] <= Len(past)
       /\ ended[r] <= Len(past)
       /\ \A l \in Labels : Cardinality(context[r][l]) <= Limit[l]

\* A result of a query has no more nodes than its LIMIT.
LEMMA PagesBounded ==
  ASSUME NEW g, NEW l \in Labels, NEW a, NEW page \in Pages(g, l, a)
  PROVE  Cardinality(page) <= Limit[l]
<1>1. Limit[l] \in Nat
  BY GraphAssumption
<1>2. IsFiniteSet(Matching(g, l, a))
  BY GraphAssumption, FS_Subset DEF Matching
<1>3. Cardinality(Matching(g, l, a)) \in Nat
  BY <1>2, FS_CardinalityType
<1>4. Cardinality(page) = IF Cardinality(Matching(g, l, a)) < Limit[l]
                          THEN Cardinality(Matching(g, l, a)) ELSE Limit[l]
  BY DEF Pages, kSubset
<1> QED
  BY <1>1, <1>3, <1>4

LEMMA BoundsInit == Init => Bounds
<1> SUFFICES ASSUME Init PROVE Bounds
  OBVIOUS
<1>1. Len(past) = 1
  BY DEF Init
<1>2. ASSUME NEW r \in Requests
      PROVE  /\ began[r] = 0 /\ ended[r] = 0
             /\ \A l \in Labels : context[r][l] = {}
  BY DEF Init, NoContext
<1>3. Cardinality({}) = 0
  BY FS_EmptySet
<1>4. \A l \in Labels : 0 <= Limit[l]
  BY GraphAssumption
<1>5. redis = [k \in Keys |-> redis[k]]
  BY DEF Init
<1>6. Len(past) <= MaxWrites + 1
  BY <1>1, BoundsAssumption
<1>7. ASSUME NEW r \in Requests
      PROVE  /\ began[r] <= Len(past)
             /\ ended[r] <= Len(past)
             /\ \A l \in Labels : Cardinality(context[r][l]) <= Limit[l]
  <2>1. \A l \in Labels : Cardinality(context[r][l]) = 0
    BY <1>2, <1>3, <1>7
  <2>2. began[r] = 0 /\ ended[r] = 0
    BY <1>2, <1>7
  <2>3. \A l \in Labels : Cardinality(context[r][l]) <= Limit[l]
    BY <1>4, <2>1
  <2> QED
    BY <1>1, <2>2, <2>3
<1> QED
  BY <1>5, <1>6, <1>7 DEF Bounds

\* A step of a call keeps within the bounds.
LEMMA CallBounds ==
  ASSUME IInv, Bounds, NEW r \in Requests, Call(r)
  PROVE  Bounds'
<1>1. Typed /\ EntriesFilled /\ Len(past) \in Nat
  BY DEF IInv, Typed
<1>2. UNCHANGED <<past, ask>>
  BY <1>1, CallKeepsOthers DEF Others
<1>3. \A q \in Requests : began'[q] <= Len(past)
  <2>1. began' = began \/ began' = [began EXCEPT ![r] = Len(past)]
    BY DEF Call, Fetch, Read, Return, Raise
  <2>2. \A q \in Requests : began'[q] = began[q] \/ began'[q] = Len(past)
    BY <1>1, <2>1 DEF Typed
  <2> QED
    BY <1>1, <2>2 DEF Bounds
<1>4. \A q \in Requests : ended'[q] <= Len(past)
  <2>1. \/ ended' = ended
        \/ ended' = [ended EXCEPT ![r] = Len(past)]
    BY DEF Call, Fetch, Read, Return, Raise, Ends
  <2>3. CASE ended' = ended
    BY <2>3 DEF Bounds
  <2>4. CASE ended' = [ended EXCEPT ![r] = Len(past)]
    <3>1. ended'[r] = Len(past)
      BY <1>1, <2>4 DEF Typed
    <3>2. \A q \in Requests : q # r => ended'[q] = ended[q]
      BY <1>1, <2>4 DEF Typed
    <3> QED
      BY <1>1, <3>1, <3>2 DEF Bounds
  <2> QED
    BY <2>1, <2>3, <2>4
<1>5. \A q \in Requests, l \in Labels : Cardinality(context'[q][l]) <= Limit[l]
  <2>1. CASE UNCHANGED context
    BY <2>1 DEF Bounds
  <2>2. CASE Fetch(r) /\ ~ UNCHANGED context
    <3> DEFINE entry == redis[Key(ask[r])]
    <3>1. entry # NoEntry /\ context' = [context EXCEPT ![r] = entry.context]
      BY <2>2 DEF Fetch
    <3>2. Key(ask[r]) \in Keys
      BY <1>1 DEF Keys, Typed
    <3>3. entry.by \in Requests /\ entry.context = context[entry.by]
      <4>1. EntryFilled(Key(ask[r]))
        BY <1>1, <3>2 DEF EntriesFilled
      <4>2. PICK o \in Requests :
              entry = [context |-> context[o], by |-> o]
        BY <3>1, <4>1, Zenon DEF EntryFilled
      <4> QED
        BY <4>2
    <3>4. \A q \in Requests :
            context'[q] = context[q] \/ context'[q] = context[entry.by]
      BY <1>1, <3>1, <3>3 DEF Typed
    <3> QED
      BY <3>3, <3>4 DEF Bounds
  <2>3. CASE Read(r)
    <3>1. pc[r] \in 1..3 /\ Reads[pc[r]] \in Labels
      BY <2>3, ReadsFacts DEF Read
    <3>2. PICK page \in Pages(Present, Reads[pc[r]], ask[r]) :
             context' = [context EXCEPT ![r][Reads[pc[r]]] = page]
      BY <2>3 DEF Read
    <3>3. Cardinality(page) <= Limit[Reads[pc[r]]]
      BY <3>1, <3>2, PagesBounded
    <3>4. \A q \in Requests, l \in Labels :
            \/ context'[q][l] = context[q][l]
            \/ context'[q][l] = page /\ l = Reads[pc[r]]
      BY <1>1, <3>1, <3>2 DEF Typed
    <3> QED
      BY <3>3, <3>4 DEF Bounds
  <2>4. CASE Return(r) \/ Raise(r)
    BY <2>1, <2>4 DEF Return, Raise
  <2> QED
    BY <2>1, <2>2, <2>3, <2>4 DEF Call
<1>6. redis' = [k \in Keys |-> redis'[k]]
  <2>1. redis = [k \in Keys |-> redis[k]]
    BY DEF Bounds
  <2>2. redis' = redis \/ \E entry : redis' = [redis EXCEPT ![Key(ask[r])] = entry]
    BY DEF Call, Fetch, Read, Return, Raise, Store
  <2> QED
    BY <2>1, <2>2
<1> QED
  BY <1>2, <1>3, <1>4, <1>5, <1>6 DEF Bounds

LEMMA BoundsStep == IInv /\ Bounds /\ [Next]_vars => Bounds'
<1> SUFFICES ASSUME IInv, Bounds, [Next]_vars PROVE Bounds'
  OBVIOUS
<1>1. /\ Typed /\ Len(past) \in Nat
      /\ MaxWrites \in Nat
  BY BoundsAssumption DEF IInv, Typed
<1>2. \A r \in Requests : began[r] \in Nat /\ ended[r] \in Nat
  BY <1>1 DEF Typed
<1>3. CASE \E r \in Requests : Call(r)
  BY <1>3, CallBounds
<1>4. ASSUME NEW n \in Nodes, Write(n) PROVE Bounds'
  <2>1. Len(past) <= MaxWrites /\ UNCHANGED <<began, context, ended, redis>>
    BY <1>4 DEF Write
  <2>2. Len(past') = Len(past) + 1
    <3>1. past \in Seq(Graphs) /\ \E g : past' = Append(past, g)
      BY <1>1, <1>4 DEF Typed, Write
    <3> QED
      BY <3>1
  <2> QED
    BY <1>1, <1>2, <2>1, <2>2 DEF Bounds
<1>5. ASSUME NEW k \in Keys, Expire(k) PROVE Bounds'
  <2>1. UNCHANGED <<past, began, context, ended>>
        /\ redis' = [redis EXCEPT ![k] = NoEntry]
    BY <1>5 DEF Expire
  <2>2. redis' = [m \in Keys |-> redis'[m]]
    BY <1>1, <2>1 DEF Bounds
  <2> QED
    BY <2>1, <2>2 DEF Bounds
<1>6. CASE UNCHANGED vars
  BY <1>6 DEF vars, Bounds
<1> QED
  BY <1>3, <1>4, <1>5, <1>6 DEF Next

\* The variables of fetch_kg_context keep their types, and no list that a call
\* has or that is cached is longer than the LIMIT of its query.
THEOREM TypeCorrect == Spec => []TypeOK
<1>1. ASSUME IInv, Bounds PROVE TypeOK
  <2>1. Typed /\ EntriesFilled /\ Len(past) \in Nat \ {0}
    BY <1>1 DEF IInv, Typed
  <2>2. Len(past) \in 1..(MaxWrites + 1)
    BY <1>1, <2>1, BoundsAssumption DEF Bounds, Typed
  <2>3. began \in [Requests -> 0..Len(past)]
    BY <1>1, <2>1 DEF Bounds, Typed
  <2>5. ended \in [Requests -> 0..Len(past)]
    BY <1>1, <2>1 DEF Bounds, Typed
  <2>6. ASSUME NEW k \in Keys, redis[k] # NoEntry
        PROVE  redis[k] \in [context : Contexts, by : Requests]
    <3>1. PICK o \in Requests :
            redis[k] = [context |-> context[o], by |-> o]
      BY <2>1, <2>6 DEF EntriesFilled, EntryFilled
    <3>2. context[o] \in Contexts
      BY <2>1 DEF Typed, Contexts
    <3> QED
      BY <3>1, <3>2
  <2>7. DOMAIN redis = Keys
    BY <2>1 DEF Typed
  <2>8. redis = [k \in Keys |-> redis[k]]
    BY <1>1 DEF Bounds
  <2>9. redis \in [Keys -> {NoEntry} \cup
                     [context : Contexts, by : Requests]]
    BY <2>6, <2>8
  <2>10. \A r \in Requests, l \in Labels : Cardinality(context[r][l]) <= Limit[l]
    BY <1>1 DEF Bounds
  <2> QED
    BY <2>1, <2>2, <2>3, <2>5, <2>9, <2>10, ReadsFacts DEF TypeOK, Typed, Contexts
<1> QED
  BY <1>1, BoundsInit, BoundsStep, Inductive, PTL DEF Spec

-----------------------------------------------------------------------------
(* The solver and its child process.                                       *)

\* Before the child is started there is none, and while the parent has work to
\* do with a child there is one.
Started ==
  /\ parent \in {"check", "spawn"} => child = "none"
  /\ parent \in {"communicate", "kill", "reap", "parse"} => child # "none"

\* The parent knows that the child has ended once it parses or reaps.
KnownEnd ==
  /\ parent = "parse" => child = "exited"
  /\ parent = "reap" => child \in Ended

\* What the child leaves tells how its code behaves.
ChildTells ==
  /\ child \in {"none", "reading", "running"} => stdout = "" /\ exit_code = 0
  /\ child = "writing" =>
       Behaviour[code] = "result" /\ stdout # "json" /\ exit_code = 0
  /\ child = "exited" =>
       /\ Behaviour[code] # "loops"
       /\ exit_code = ExitCode
       /\ stdout = IF Behaviour[code] = "result" THEN "json" ELSE ""

\* How the call ended tells how the child did.
OutcomeTells ==
  /\ outcome = "none" <=> parent # "ended"
  /\ outcome \in {"ValueError", "TypeError", "OSError"} => child = "none"
  /\ outcome \in {"result", "RuntimeError", "JSONDecodeError",
                  "ProcessLookupError"} => child = "exited"
  /\ outcome = "TimeoutError" => child \in Ended
  /\ outcome = "result" => Behaviour[code] = "result"
  /\ outcome = "RuntimeError" =>
       Behaviour[code] \in {"raises", "unserialisable"}
  /\ outcome = "JSONDecodeError" => Behaviour[code] = "exits"

SolverInv == SolverTypeOK /\ Started /\ KnownEnd /\ ChildTells /\ OutcomeTells

LEMMA InitSolverInv == InitSolver => SolverInv
BY DEF InitSolver, SolverInv, SolverTypeOK, Started, KnownEnd, ChildTells, OutcomeTells,
       Outcomes, Alive, Ended

\* How a parsed output is classified, by the behaviour of the code.
LEMMA ParsedByBehaviour ==
  ASSUME SolverTypeOK, ChildTells, child = "exited"
  PROVE  /\ ParsedOutcome \in {"result", "RuntimeError", "JSONDecodeError"}
         /\ ParsedOutcome = "result" => Behaviour[code] = "result"
         /\ ParsedOutcome = "RuntimeError" =>
              Behaviour[code] \in {"raises", "unserialisable"}
         /\ ParsedOutcome = "JSONDecodeError" => Behaviour[code] = "exits"
<1>1. Behaviour[code] \in Behaviours
  BY CodeAssumption DEF SolverTypeOK
<1>2. exit_code = ExitCode /\ Behaviour[code] # "loops"
      /\ stdout = IF Behaviour[code] = "result" THEN "json" ELSE ""
  BY DEF ChildTells
<1>3. CASE Behaviour[code] \in {"raises", "unserialisable"}
  <2>1. exit_code # 0
    <3>1. ExitCode = 1
      BY <1>3 DEF ExitCode
    <3>2. exit_code = 1
      BY <1>2, <3>1
    <3>3. 1 # 0
      OBVIOUS
    <3> QED
      BY <3>2, <3>3, Zenon
  <2> QED
    BY <1>3, <2>1 DEF ParsedOutcome
<1>4. CASE Behaviour[code] = "result"
  BY <1>2, <1>4 DEF ParsedOutcome, ExitCode
<1>5. CASE Behaviour[code] = "exits"
  BY <1>2, <1>5 DEF ParsedOutcome, ExitCode
<1> QED
  BY <1>1, <1>2, <1>3, <1>4, <1>5 DEF Behaviours

LEMMA StepSolverInv == SolverInv /\ [SolverNext]_solverVars => SolverInv'
<1> SUFFICES ASSUME SolverInv, [SolverNext]_solverVars
             PROVE  SolverInv'
  OBVIOUS
<1> USE DEF SolverInv, SolverTypeOK, Started, KnownEnd, OutcomeTells, Outcomes, Alive,
            Ended
<1>1. CASE Check
  BY <1>1 DEF Check, EndsAs, Goes, ChildTells, ExitCode
<1>2. CASE Spawn
  BY <1>2 DEF Spawn, EndsAs, Goes, ChildTells, ExitCode
<1>3. CASE Feed
  BY <1>3 DEF Feed, ChildTells, ExitCode
<1>4. CASE Returns
  BY <1>4 DEF Returns, ChildIsDone, Goes, ChildTells, ExitCode
<1>5. CASE TimesOut
  BY <1>5 DEF TimesOut, TimeLimit, Goes, ChildTells, ExitCode
<1>6. CASE Kill
  BY <1>6 DEF Kill, AfterKill, EndsAs, Goes, ChildTells, ExitCode
<1>7. CASE Reap
  BY <1>7 DEF Reap, Reaped, EndsAs, ChildTells, ExitCode
<1>8. CASE Parse
  <2>1. child = "exited"
    BY <1>8 DEF Parse
  <2>2. outcome' = ParsedOutcome /\ parent' = "ended"
    BY <1>8 DEF Parse, EndsAs
  <2>3. UNCHANGED <<code, rows_json, fed, child, exit_code, stdout>>
    BY <1>8 DEF Parse
  <2>4. ChildTells'
    BY <2>3 DEF ChildTells, ExitCode
  <2> QED
    BY <2>1, <2>2, <2>3, <2>4, ParsedByBehaviour
<1>9. CASE Cancel
  BY <1>9 DEF Cancel, EndsAs, ChildTells, ExitCode
<1>10. CASE ChildReads
  BY <1>10 DEF ChildReads, ChildTells, ExitCode
<1>11. CASE ChildRuns
  <2>1. Behaviour[code] \in Behaviours
    BY CodeAssumption
  <2> QED
    BY <1>11, <2>1 DEF ChildRuns, ChildTells, ExitCode, Behaviours
<1>12. CASE ChildWrites
  <2>1. CASE child' = child
    BY <1>12, <2>1 DEF ChildWrites, ChildTells
  <2>2. CASE child' # child
    <3>1. stdout' = "json" /\ child' = "exited" /\ child = "writing"
      BY <1>12, <2>2 DEF ChildWrites
    <3>2. UNCHANGED <<code, rows_json, parent, outcome, fed, exit_code>>
      BY <1>12 DEF ChildWrites
    <3>3. Behaviour[code] = "result" /\ exit_code = 0
      BY <3>1 DEF ChildTells
    <3>4. ChildTells'
      BY <3>1, <3>2, <3>3 DEF ChildTells, ExitCode
    <3> QED
      BY <3>1, <3>2, <3>4
  <2> QED
    BY <2>1, <2>2
<1>13. CASE UNCHANGED solverVars
  <2>1. UNCHANGED <<code, rows_json, parent, outcome, fed>>
    BY <1>13 DEF solverVars
  <2>2. UNCHANGED <<child, exit_code, stdout>>
    BY <1>13 DEF solverVars
  <2>3. ChildTells'
    BY <2>1, <2>2 DEF ChildTells, ExitCode
  <2>4. SolverTypeOK' /\ Started' /\ KnownEnd'
    BY <2>1, <2>2, ZenonT(40)
  <2>5. OutcomeTells'
    BY <2>1, <2>2
  <2> QED
    BY <2>3, <2>4, <2>5
<1> QED
  BY <1>1, <1>2, <1>3, <1>4, <1>5, <1>6, <1>7, <1>8, <1>9, <1>10, <1>11,
     <1>12, <1>13 DEF SolverNext, Parent, Child

(* The inductive invariant, from which the theorems below follow.          *)
THEOREM SolverInductive == SolverSpec => []SolverInv
<1> QED
  BY InitSolverInv, StepSolverInv, PTL DEF SolverSpec

(* Every variable of a solver call keeps its type, whatever the codes do.  *)
THEOREM SolverTypeCorrect == SolverSpec => []SolverTypeOK
<1>1. SolverInv => SolverTypeOK
  BY DEF SolverInv
<1> QED
  BY <1>1, SolverInductive, PTL

(* A call that was not cancelled leaves no child behind.                   *)
THEOREM NoOrphans == SolverSpec => []NoChildLeft
<1>1. SolverInv => NoChildLeft
  BY DEF SolverInv, SolverTypeOK, OutcomeTells, NoChildLeft, Outcomes, Alive, Ended
<1> QED
  BY <1>1, SolverInductive, PTL

(* A result that execute_solver returns is the complete output of a code   *)
(* that ended by itself and without an error, and an exception tells what  *)
(* became of the code.                                                     *)
THEOREM OutcomesTold == SolverSpec => []OutcomeIsTrue
<1>1. SolverInv => ResultIsComplete
  BY DEF SolverInv, OutcomeTells, ChildTells, ResultIsComplete
<1>2. SolverInv => FailureIsOwn
  BY DEF SolverInv, OutcomeTells, FailureIsOwn
<1> QED
  BY <1>1, <1>2, SolverInductive, PTL DEF OutcomeIsTrue
-----------------------------------------------------------------------------
(* Progress of a solver call: a natural number gets smaller with every     *)
(* step of the call, of its child and of the clock.                        *)

ParentSteps ==
  CASE parent = "check" -> 6 [] parent = "spawn" -> 5
    [] parent = "communicate" -> 4 [] parent = "kill" -> 3
    [] parent = "reap" -> 2 [] parent = "parse" -> 1 [] OTHER -> 0

ChildSteps ==
  CASE child = "none" -> 4 [] child = "reading" -> 3 [] child = "running" -> 2
    [] child = "writing" -> 1 [] OTHER -> 0

Payload == IF fed THEN 0 ELSE 1
FirstHalf == IF stdout = "" THEN 1 ELSE 0

\* The work ahead of a call and its child: the steps of both, the payload and
\* the first half of a long output.
SolverWork == ParentSteps + ChildSteps + Payload + FirstHalf

\* A sum gets smaller when a part of it does and no other part grows.
LEMMA SumFalls ==
  \A a, b, c, d, a1, b1, c1, d1 \in Nat :
    /\ a1 < a \/ a1 = a
    /\ b1 < b \/ b1 = b
    /\ c1 < c \/ c1 = c
    /\ d1 < d \/ d1 = d
    /\ a1 < a \/ b1 < b \/ c1 < c \/ d1 < d
    => a1 + b1 + c1 + d1 < a + b + c + d
OBVIOUS

LEMMA SumIsNat == \A a, b, c, d \in Nat : a + b + c + d \in Nat
OBVIOUS

\* The parts are natural numbers, before a step and after it.
LEMMA PartsAreNat ==
  /\ ParentSteps \in Nat /\ ChildSteps \in Nat
  /\ Payload \in Nat /\ FirstHalf \in Nat
  /\ ParentSteps' \in Nat /\ ChildSteps' \in Nat
  /\ Payload' \in Nat /\ FirstHalf' \in Nat
<1>1. ParentSteps \in Nat /\ ParentSteps' \in Nat
  BY DEF ParentSteps
<1>2. ChildSteps \in Nat /\ ChildSteps' \in Nat
  BY DEF ChildSteps
<1>3. Payload \in Nat /\ Payload' \in Nat
  BY DEF Payload
<1>4. FirstHalf \in {0, 1} /\ FirstHalf' \in {0, 1}
  BY Zenon DEF FirstHalf
<1>5. \A n \in {0, 1} : n \in Nat
  OBVIOUS
<1>6. FirstHalf \in Nat /\ FirstHalf' \in Nat
  BY <1>4, <1>5, Zenon
<1> QED
  BY <1>1, <1>2, <1>3, <1>6, Zenon

\* No step adds to a part, and every step takes from one.
LEMMA PartsFall ==
  ASSUME SolverInv, SolverNext
  PROVE /\ ParentSteps' < ParentSteps \/ ParentSteps' = ParentSteps
        /\ ChildSteps' < ChildSteps \/ ChildSteps' = ChildSteps
        /\ Payload' < Payload \/ Payload' = Payload
        /\ FirstHalf' < FirstHalf \/ FirstHalf' = FirstHalf
        /\ \/ ParentSteps' < ParentSteps \/ ChildSteps' < ChildSteps
           \/ Payload' < Payload \/ FirstHalf' < FirstHalf
<1>1. UNCHANGED parent => ParentSteps' = ParentSteps
  BY Zenon DEF ParentSteps
<1>2. UNCHANGED child => ChildSteps' = ChildSteps
  BY Zenon DEF ChildSteps
<1>3. UNCHANGED fed => Payload' = Payload
  BY DEF Payload
<1>4. UNCHANGED stdout => FirstHalf' = FirstHalf
  BY Zenon DEF FirstHalf
<1>5. CASE Check
  <2>1. ParentSteps' < ParentSteps
    BY <1>5 DEF Check, EndsAs, Goes, ParentSteps
  <2>2. UNCHANGED <<child, fed, stdout>>
    BY <1>5 DEF Check
  <2> QED
    BY <1>2, <1>3, <1>4, <2>1, <2>2, Zenon
<1>6. CASE Spawn
  <2>1. ParentSteps' < ParentSteps
    BY <1>6 DEF Spawn, EndsAs, Goes, ParentSteps
  <2>2. child = "none"
    BY <1>6 DEF SolverInv, Started, Spawn
  <2>3. child' = "reading" \/ UNCHANGED child
    BY <1>6 DEF Spawn
  <2>4. child' = "reading" => ChildSteps' < ChildSteps
    BY <2>2 DEF ChildSteps
  <2>5. UNCHANGED <<fed, stdout>>
    BY <1>6 DEF Spawn
  <2> QED
    BY <1>2, <1>3, <1>4, <2>1, <2>3, <2>4, <2>5, Zenon
<1>7. CASE Feed
  <2>1. Payload' < Payload
    BY <1>7 DEF Feed, Payload
  <2>2. UNCHANGED <<parent, child, stdout>>
    BY <1>7 DEF Feed
  <2> QED
    BY <1>1, <1>2, <1>4, <2>1, <2>2, Zenon
<1>8. CASE Returns \/ TimesOut \/ Reap \/ Parse \/ Cancel
  <2>1. ParentSteps' < ParentSteps
    BY <1>8 DEF Returns, TimesOut, TimeLimit, Reap, Parse, Cancel, EndsAs,
       Goes, ParentSteps
  <2>2. UNCHANGED <<child, fed, stdout>>
    BY <1>8 DEF Returns, TimesOut, Reap, Parse, Cancel
  <2> QED
    BY <1>2, <1>3, <1>4, <2>1, <2>2, Zenon
<1>9. CASE Kill
  <2>1. ParentSteps' < ParentSteps
    BY <1>9 DEF Kill, EndsAs, Goes, ParentSteps
  <2>2. UNCHANGED child \/ (child \in Alive /\ child' = "killed")
    BY <1>9 DEF Kill, AfterKill
  <2>3. child \in Alive /\ child' = "killed" => ChildSteps' < ChildSteps
    BY DEF Alive, ChildSteps
  <2>4. UNCHANGED <<fed, stdout>>
    BY <1>9 DEF Kill
  <2> QED
    BY <1>2, <1>3, <1>4, <2>1, <2>2, <2>3, <2>4, Zenon
<1>10. CASE ChildReads \/ ChildRuns
  <2>1. ChildSteps' < ChildSteps
    BY <1>10 DEF ChildReads, ChildRuns, ChildSteps
  <2>2. UNCHANGED <<parent, fed, stdout>>
    BY <1>10 DEF ChildReads, ChildRuns
  <2> QED
    BY <1>1, <1>3, <1>4, <2>1, <2>2, Zenon
<1>11. CASE ChildWrites
  <2>1. UNCHANGED <<parent, fed>>
    BY <1>11 DEF ChildWrites
  <2>2. \/ stdout = "" /\ stdout' = "half" /\ UNCHANGED child
        \/ child = "writing" /\ child' = "exited" /\ stdout' = "json"
    BY <1>11 DEF ChildWrites
  <2>3. stdout' \in {"half", "json"} => FirstHalf' = 0
    BY Zenon DEF FirstHalf
  <2>4. \A n \in {0, 1} : 0 < n \/ 0 = n
    OBVIOUS
  <2>5. FirstHalf \in {0, 1}
    BY Zenon DEF FirstHalf
  <2>6. FirstHalf' < FirstHalf \/ FirstHalf' = FirstHalf
    BY <2>2, <2>3, <2>4, <2>5, Zenon
  <2>7. CASE stdout = "" /\ stdout' = "half" /\ UNCHANGED child
    <3>1. FirstHalf = 1 /\ FirstHalf' = 0
      BY <2>7, Zenon DEF FirstHalf
    <3>2. 0 < 1
      OBVIOUS
    <3> QED
      BY <1>1, <1>2, <1>3, <2>1, <2>7, <3>1, <3>2, Zenon
  <2>8. CASE child = "writing" /\ child' = "exited" /\ stdout' = "json"
    <3>1. ChildSteps' < ChildSteps
      BY <2>8 DEF ChildSteps
    <3> QED
      BY <1>1, <1>3, <2>1, <2>6, <3>1, Zenon
  <2> QED
    BY <2>2, <2>7, <2>8
<1> QED
  BY <1>5, <1>6, <1>7, <1>8, <1>9, <1>10, <1>11, Zenon
     DEF SolverNext, Parent, Child

\* execute_solver and its child do finitely many things, in whatever order they,
\* the time limit and a cancellation come; and the parent waits without a limit
\* only for a child that has ended.  So a call ends if the event loop runs.
THEOREM SolverEndsNearer ==
  SolverSpec => /\ [][SolverWork' < SolverWork /\ SolverWork' \in Nat]_solverVars
                /\ [](parent = "reap" => Reaped)
<1>1. SolverWork' \in Nat
  BY SumIsNat, PartsAreNat, Zenon DEF SolverWork
<1>2. ASSUME SolverInv, SolverNext PROVE SolverWork' < SolverWork
  <2> QED
    BY <1>2, PartsFall, SumFalls, PartsAreNat, ZenonT(40) DEF SolverWork
<1>3. SolverInv /\ [SolverNext]_solverVars =>
        [SolverWork' < SolverWork /\ SolverWork' \in Nat]_solverVars
  BY <1>1, <1>2
<1>4. SolverInv => (parent = "reap" => Reaped)
  BY DEF SolverInv, KnownEnd, Reaped
<1> QED
  BY <1>3, <1>4, SolverInductive, PTL DEF SolverSpec
=============================================================================
