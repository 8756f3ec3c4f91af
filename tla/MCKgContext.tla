------------------------------ MODULE MCKgContext ------------------------------
(***************************************************************************)
(* A small instance of KgContext: two rules of which a query returns one   *)
(* only, and an anomaly; callers whose words make the same key.            *)
(***************************************************************************)
EXTENDS KgContext, TLC

CONSTANTS rule, rule2, anomaly

\* "", ebitda, "ebitda|executive", executive and finance in alphabetical order.
MCWords == 0..4
MCPieces == [w \in MCWords |-> IF w = 2 THEN <<1, 3>> ELSE <<w>>]

\* The first three have one key; the last one has no terms.
MCAsks == { [terms |-> {1}, roles |-> {3, 4}],
            [terms |-> {1, 3}, roles |-> {4}],
            [terms |-> {2}, roles |-> {4}],
            [terms |-> {1}, roles |-> {4}],
            [terms |-> {}, roles |-> {4}] }

MCLabel == [n \in Nodes |-> IF n = anomaly THEN "KnownAnomaly"
                                            ELSE "BusinessRule"]
MCMentions == [n \in Nodes |-> IF n = rule2 THEN {1, 3} ELSE {1}]
MCLimit == [l \in Labels |-> 1]

MCVisibilities == {Everyone, {3}}
MCFirstGraphs == { [n \in Nodes |-> IF n = rule2 THEN {3} ELSE Everyone] }

RequestSymmetry == Permutations(Requests)

\* cypher.py:79-81, "Nodes with a visibility list require at least one role
\* match. user_roles is included in the cache key so different roles get
\* distinct cache entries": no call shows a node that its roles may not see, be
\* its terms the plainest of words.
NoHiddenNodes ==
  \A r \in Requests : pc[r] = Done /\ (\A w \in ask[r].terms : Plain(w)) =>
    ShowsVisible(r)
===============================================================================
