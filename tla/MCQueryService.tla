---------------------------- MODULE MCQueryService ----------------------------
(***************************************************************************)
(* Small instances of QueryService, and what the documentation says of the *)
(* history and the code does not do.                                       *)
(***************************************************************************)
EXTENDS QueryService, SequencesExt, TLC

CONSTANTS alice, bob

\* "", cfo, q and treasury in alphabetical order.
MCWords == 0..3

\* "Q" and "q" differ in case only, and "q|cfo" ends like a role.
MCNormalized(question) == IF question = "q|cfo" THEN <<2, 1>> ELSE <<2>>

MCRolesPart(roles) ==
  IF roles = {} THEN <<0>> ELSE SetToSortSeq(roles, LAMBDA a, b : a < b)

cfo == 1
treasury == 3

\* A user, the user after a change of roles, the question typed differently,
\* a question with a separator, and another user.
MCAsks ==
  { [user |-> alice, question |-> "q", roles |-> {cfo}],
    [user |-> alice, question |-> "q", roles |-> {cfo, treasury}],
    [user |-> alice, question |-> "Q", roles |-> {cfo}],
    [user |-> alice, question |-> "q|cfo", roles |-> {treasury}],
    [user |-> bob,   question |-> "q", roles |-> {cfo}] }

MCConfidences == {0, 10}

RequestSymmetry == Permutations(Requests)

\* Two requests are one question of one user for the cache.
SameKey(r, s) == CacheKey(ask[r]) = CacheKey(ask[s])

\* CHANGELOG.md:36, "query history is persisted automatically after every
\* non-cached request"; only its retries, for which the cache has the same
\* key, may share the record.
EveryAnswerIsRecorded ==
  \A r \in Requests :
    pc[r] = "END" /\ ~cached[r] /\ r \notin lost =>
      \E h \in history : SameKey(h.by, r)
=============================================================================
