------------------------------- MODULE KgContext -------------------------------
(***************************************************************************)
(* fetch_kg_context of execution/cypher.py, called by several requests at  *)
(* once: a lookup in the cache of contexts in Redis, and on a miss three   *)
(* reads of the knowledge graph, one after the other, and a setex.         *)
(*                                                                         *)
(* Experts and seed scripts change the graph meanwhile.  Each read sees    *)
(* the graph of its own moment, and no write removes an entry: no code     *)
(* calls should_invalidate_kg_cache.  Redis drops an entry when its five   *)
(* minutes are over; without a clock, that may be at any time.             *)
(***************************************************************************)
EXTENDS Naturals, Sequences, FiniteSetsExt, SequencesExt

CONSTANTS
  Requests,   \* the calls of fetch_kg_context
  Words,      \* domain terms and roles are words; a number stands for the
              \*   place of a word in alphabetical order
  Pieces,     \* what a word is cut into at its separators
  Asks,       \* what calls may ask: records with sets of terms and roles
  Nodes,      \* the nodes that the graph may have
  Label,      \* their labels
  Mentions,   \* the terms that the text of a node contains
  Limit,      \* the LIMIT of the query for a label
  Visibilities,  \* the values of visibility that nodes have
  FirstGraphs,   \* the graphs at the beginning
  Everyone,   \* the visibility of a node without the property
  Absent,     \* what is not in the graph
  MaxWrites   \* how often the graph is changed

\* The three queries, in the order in which they run.
Reads == <<"BusinessRule", "KnownAnomaly", "Concept">>
Labels == {Reads[i] : i \in DOMAIN Reads}

\* The empty word.
Blank == 0

\* The language model may extract any words as domain terms, a role among
\* them, and any word may contain the separator.
ASSUME WordsAssumption ==
  /\ Blank \in Words /\ Words \subseteq Nat
  /\ Pieces \in [Words -> Seq(Words) \ {<<>>}]
  /\ Asks \subseteq [terms : SUBSET Words, roles : SUBSET Words]
  /\ \A a \in Asks : IsFiniteSet(a.terms) /\ IsFiniteSet(a.roles)

ASSUME GraphAssumption ==
  /\ IsFiniteSet(Nodes)
  /\ Label \in [Nodes -> Labels]
  /\ Mentions \in [Nodes -> SUBSET Words]
  /\ Limit \in [Labels -> Nat]
  /\ Visibilities \subseteq {Everyone} \cup SUBSET Words
  /\ Absent # Everyone
  /\ \A v \in SUBSET Words : v \notin {Absent, Everyone}
  /\ FirstGraphs \subseteq [Nodes -> {Absent} \cup Visibilities]

ASSUME BoundsAssumption == MaxWrites \in Nat

VARIABLES
  past,      \* the graphs so far; the last one is the present graph
  pc,        \* of a call: 0 lookup, 1 to 3 reads, 4 setex, then its end
  ask,       \* what it asks
  began,     \* which graph was the present one at its lookup
  context,   \* the nodes it has found for each label
  source,    \* the call whose reads these are
  ended,     \* which graph was the present one at its end
  redis      \* the context under a key

vars == <<past, pc, ask, began, context, source, ended, redis>>

Lookup == 0
SetEx == Len(Reads) + 1
Done == Len(Reads) + 2
Raised == Len(Reads) + 3

\* A graph gives the visibility of the nodes it has.
Graphs == [Nodes -> {Absent} \cup Visibilities]
Contexts == [Labels -> SUBSET Nodes]
NoContext == [l \in Labels |-> {}]
NoEntry == [context |-> NoContext, by |-> "nobody"]

\* sorted of Python; SortSeq of TLC, which would do, has no definition that a
\* proof could expand.
Sorted(words) ==
  CHOOSE list \in [1..Cardinality(words) -> words] :
    \A i, j \in DOMAIN list : i < j => list[i] < list[j]

\* "|".join(sorted(words)), as the pieces between its separators: of no words
\* at all the text is empty.
Joined(words) ==
  LET list == Sorted(words)
  IN IF words = {} THEN <<Blank>>
                   ELSE FlattenSeq([i \in DOMAIN list |-> Pieces[list[i]]])

\* As Key, but of the terms only.
KeyOfTerms(a) == Joined(a.terms)

\* kg_cache_key: f"{terms_part}|{roles_part}".  Where the terms end is lost.
Key(a) == Joined(a.terms) \o Joined(a.roles)

Keys == {Key(a) : a \in Asks}

-----------------------------------------------------------------------------
\* _visibility_clause
Visible(v, roles) == v # Absent /\ (v = Everyone \/ v \cap roles # {})

\* The nodes that a query matches.
Matching(g, l, a) ==
  {n \in Nodes : /\ Label[n] = l
                 /\ Mentions[n] \cap a.terms # {}
                 /\ Visible(g[n], a.roles)}

\* As Pages, but without a LIMIT.
PagesUnlimited(g, l, a) == {Matching(g, l, a)}

\* The possible results: Neo4j returns any nodes up to the LIMIT.
Pages(g, l, a) ==
  LET found == Matching(g, l, a)
      size  == Cardinality(found)
  IN kSubset(IF size < Limit[l] THEN size ELSE Limit[l], found)

Present == past[Len(past)]

-----------------------------------------------------------------------------
Init ==
  /\ past \in {<<g>> : g \in FirstGraphs}
  /\ pc = [r \in Requests |-> Lookup]
  /\ ask \in [Requests -> Asks]
  /\ began = [r \in Requests |-> 0]
  /\ context = [r \in Requests |-> NoContext]
  /\ source = [r \in Requests |-> r]
  /\ ended = [r \in Requests |-> 0]
  /\ redis = [k \in Keys |-> NoEntry]

(* Somebody adds, removes or hides a node.                                 *)
Write(n) ==
  /\ Len(past) <= MaxWrites
  /\ \E v \in {Absent} \cup Visibilities :
       /\ v # Present[n]
       /\ past' = Append(past, [Present EXCEPT ![n] = v])
  /\ UNCHANGED <<pc, ask, began, context, source, ended, redis>>

(* The time of an entry is over.                                           *)
Expire(k) ==
  /\ redis[k] # NoEntry
  /\ redis' = [redis EXCEPT ![k] = NoEntry]
  /\ UNCHANGED <<past, pc, ask, began, context, source, ended>>

Goto(r, step) == pc' = [pc EXCEPT ![r] = step]

Ends(r, step) ==
  /\ Goto(r, step)
  /\ ended' = [ended EXCEPT ![r] = Len(past)]

(* redis_client.get                                                        *)
Fetch(r) ==
  /\ pc[r] = Lookup
  /\ began' = [began EXCEPT ![r] = Len(past)]
  /\ LET entry == redis[Key(ask[r])]
     IN IF entry # NoEntry
        THEN /\ context' = [context EXCEPT ![r] = entry.context]
             /\ source' = [source EXCEPT ![r] = entry.by]
             /\ Ends(r, Done)
        ELSE Goto(r, 1) /\ UNCHANGED <<context, source, ended>>
  /\ UNCHANGED <<past, ask, redis>>

(* session.run of the query for the next label, a transaction of its own.  *)
Read(r) ==
  /\ pc[r] \in DOMAIN Reads
  /\ LET l == Reads[pc[r]]
     IN \E page \in Pages(Present, l, ask[r]) :
          context' = [context EXCEPT ![r][l] = page]
  /\ Goto(r, pc[r] + 1)
  /\ UNCHANGED <<past, ask, began, source, ended, redis>>

Store(r) == redis' = [redis EXCEPT ![Key(ask[r])] =
                        [context |-> context[r], by |-> r]]

(* setex, and the context is returned.                                     *)
Return(r) ==
  /\ pc[r] = SetEx
  /\ Store(r)
  /\ Ends(r, Done)
  /\ UNCHANGED <<past, ask, began, context, source>>

\* As AfterError, but the error of a query is logged and the next one runs.
AfterErrorGoOn(r) == IF pc[r] = Lookup THEN Raised ELSE pc[r] + 1

\* Nothing is caught.
AfterError(r) == Raised

(* An exception of Redis or of Neo4j; a failing setex may have stored.     *)
Raise(r) ==
  /\ pc[r] \in Lookup..SetEx
  /\ \/ UNCHANGED redis
     \/ pc[r] = SetEx /\ Store(r)
  /\ Ends(r, AfterError(r))
  /\ UNCHANGED <<past, ask, began, context, source>>

Call(r) == Fetch(r) \/ Read(r) \/ Return(r) \/ Raise(r)

Next ==
  \/ \E r \in Requests : Call(r)
  \/ \E n \in Nodes : Write(n)
  \/ \E k \in Keys : Expire(k)

Spec == Init /\ [][Next]_vars

-----------------------------------------------------------------------------
(* Properties.                                                             *)

\* The values of the variables; no list is longer than its LIMIT.
TypeOK ==
  /\ past \in Seq(Graphs) /\ Len(past) \in 1..(MaxWrites + 1)
  /\ pc \in [Requests -> Lookup..Raised]
  /\ ask \in [Requests -> Asks]
  /\ began \in [Requests -> 0..Len(past)]
  /\ context \in [Requests -> Contexts]
  /\ \A r \in Requests, l \in Labels : Cardinality(context[r][l]) <= Limit[l]
  /\ source \in [Requests -> Requests]
  /\ ended \in [Requests -> 0..Len(past)]
  /\ redis \in [Keys -> {NoEntry} \cup [context : Contexts, by : Requests]]

\* A word that a joined text shows as what it is.
Plain(w) == w # Blank /\ Pieces[w] = <<w>>

\* The text of a key may be that of another ask: a word is a term of the one
\* and a role of the other, or a word is empty or contains the separator.
Confusable(a, b) ==
  \/ a.terms \cap b.roles # {} \/ b.terms \cap a.roles # {}
  \/ \E w \in a.terms \cup a.roles \cup b.terms \cup b.roles : ~Plain(w)

\* The graphs that the reads of a call may have seen.
SeenBy(o) == began[o]..ended[o]

\* A caller gets what the graph had to say while the reads were made, be they
\* its own or those of the call that stored the entry: every list is one of a
\* graph of that time, and a later read never saw an earlier graph.  It may be
\* no single graph that says all of it.  The reads were for its own terms and
\* roles, or for some that kg_cache_key cannot tell from them.
ContextWasTrue ==
  \A r \in Requests : pc[r] = Done =>
    LET o == source[r]
    IN /\ ask[o] = ask[r] \/ Confusable(ask[o], ask[r])
       /\ \E seen \in [Labels -> SeenBy(o)] :
            /\ \A l \in Labels : context[r][l] \in Pages(past[seen[l]], l, ask[o])
            /\ \A i, j \in DOMAIN Reads : i < j => seen[Reads[i]] <= seen[Reads[j]]

\* Every node in the context of a call was, at some time while the reads took
\* place, visible to the roles of this call, whoever made the reads.
ShowsVisible(r) ==
  \A l \in Labels : \A n \in context[r][l] :
    \E i \in SeenBy(source[r]) :
      \/ past[i][n] = Everyone
      \/ past[i][n] # Absent /\ past[i][n] \cap ask[r].roles # {}

\* No caller sees a node that was hidden from its roles all the time the reads
\* took, unless kg_cache_key gave it the entry of another ask.
RolesRespected ==
  \A r \in Requests : pc[r] = Done =>
    ShowsVisible(r) \/ Confusable(ask[source[r]], ask[r])
===============================================================================
