----------------------------- MODULE QueryService -----------------------------
(***************************************************************************)
(* Several requests at once: what run_query does to the stores that they   *)
(* share.  The query cache in Redis and the history in Neo4j are modelled  *)
(* key by key, with the time that their 300 s windows depend on.           *)
(*                                                                         *)
(* Between the cache lookup and the first write a request touches nothing  *)
(* that another one can see but its EnrichmentTask, so the whole chain is  *)
(* one step here, Decide: AgentChain implements AnswerContract, which is   *)
(* this sequence of steps for a single request.                            *)
(*                                                                         *)
(* A request that is not submitted yet is one that has not looked into the *)
(* cache yet: run_query changes nothing before.                            *)
(***************************************************************************)
EXTENDS Answers, Integers, Sequences

CONSTANTS
  Requests,      \* identities of the calls of run_query
  NoRequest,     \* no such call
  Asks,          \* what they may ask: records with user, question and roles
  Words,         \* texts without a separator
  Normalized(_), \* build_cache_key: a question, blanks and case normalised, and
                 \*   roles_part, the sorted roles joined: both as the pieces
  RolesPart(_),  \*   that the text has between its separators
  Confidences,   \* the confidences that are tried, among 0, 8 and 10
  CacheTTL,      \* _QUERY_CACHE_TTL in ticks of the clock
  MaxTime        \* the clock stops here

ASSUME ServiceAssumption ==
  /\ NoRequest \notin Requests
  /\ \A a \in Asks :
       /\ DOMAIN a = {"user", "question", "roles"}
       /\ Normalized(a.question) \in Seq(Words) \ {<<>>}
       /\ RolesPart(a.roles) \in Seq(Words) \ {<<>>}
  /\ Confidences \subseteq {0, 8, 10}
  /\ CacheTTL \in Nat \ {0}
  /\ MaxTime \in Nat

VARIABLES
  clock,     \* time.time(), in ticks
  pc,        \* the node a request is at
  ask,       \* what it asks
  cached,    \* AgentState.cached
  answer,    \* AgentState.answer
  redis,     \* query cache: the answer under a key and when it was stored
  tasks,     \* the requests that created an EnrichmentTask node
  history,   \* the Question nodes
  lost       \* the requests whose write of a Question node failed

vars == << clock, pc, ask, cached, answer, redis, tasks, history, lost >>

Steps == {"check_cache", "chain", "write_cache", "write_question", "END",
          "ERROR"}

\* As CacheKey, but the roles are left out.
CacheKeyWithoutRoles(a) == <<a.user, Normalized(a.question)>>

\* user:{user_id}:sha256(f"{normalized}|{roles_part}").  Where the question
\* ends is lost.
CacheKey(a) == <<a.user, Normalized(a.question) \o RolesPart(a.roles)>>

CacheKeys == {CacheKey(a) : a \in Asks}

\* As QuestionId, but of the question only.
QuestionIdOfText(a, time) == <<a.question, time \div CacheTTL>>

\* sha256(user | question as typed | window of the clock)
QuestionId(a, time) == <<a.user, a.question, time \div CacheTTL>>

\* What a request decided: "by" stands for the content of the answer.
Reply == [by : Requests \cup {NoRequest}, confidence : Scores, task : BOOLEAN]
NoReply == [by |-> NoRequest, confidence |-> 0, task |-> FALSE]
NoEntry == [answer |-> NoReply, stored |-> 0]

-----------------------------------------------------------------------------
Init ==
  /\ clock = 0
  /\ pc = [r \in Requests |-> "check_cache"]
  /\ ask \in [Requests -> Asks]
  /\ cached = [r \in Requests |-> FALSE]
  /\ answer = [r \in Requests |-> NoReply]
  /\ redis = [k \in CacheKeys |-> NoEntry]
  /\ tasks = {}
  /\ history = {}
  /\ lost = {}

Goto(r, step) == pc' = [pc EXCEPT ![r] = step]

\* setex: the entry lives for a window of the clock.
Expired(key, time) == redis[key].stored + CacheTTL <= time

(* Time passes, and Redis drops the entries whose window is over.          *)
Tick ==
  /\ clock < MaxTime
  /\ clock' = clock + 1
  /\ redis' = [k \in CacheKeys |->
                  IF Expired(k, clock + 1) THEN NoEntry ELSE redis[k]]
  /\ UNCHANGED <<pc, ask, cached, answer, tasks, history, lost>>

Hit(key) == redis[key] # NoEntry

CheckCache(r) ==
  /\ pc[r] = "check_cache"
  /\ IF Hit(CacheKey(ask[r]))
     THEN /\ cached' = [cached EXCEPT ![r] = TRUE]
          /\ answer' = [answer EXCEPT ![r] = redis[CacheKey(ask[r])].answer]
          /\ Goto(r, "END")
     ELSE /\ Goto(r, "chain")
          /\ UNCHANGED <<cached, answer>>
  /\ UNCHANGED <<clock, ask, redis, tasks, history, lost>>

\* As TaskOf, but the id is returned although the write failed.
TaskOfAny(write) == write # "not_needed"

\* _write_enrichment_task returns an id: "lost" is a task whose id is not
\* returned, "failed" is no task.
TaskOf(write) == write = "written"

(* The chain up to the reflection takes its time and decides.              *)
Decide(r) ==
  /\ pc[r] = "chain"
  /\ \E c \in Confidences :
     \E write \in IF LowConfidence(c) THEN {"written", "lost", "failed"}
                                      ELSE {"not_needed"} :
       /\ answer' = [answer EXCEPT ![r] =
                       [by |-> r, confidence |-> c, task |-> TaskOf(write)]]
       /\ tasks' = tasks \cup {t \in {r} : write \in {"written", "lost"}}
  /\ Goto(r, "write_cache")
  /\ UNCHANGED <<clock, ask, cached, redis, history, lost>>

EntryOf(r) == [answer |-> answer[r], stored |-> clock]

\* setex: the value replaces what is there, and its window starts.
Store(r) == redis' = [redis EXCEPT ![CacheKey(ask[r])] = EntryOf(r)]

WriteCache(r) ==
  /\ pc[r] = "write_cache"
  /\ Store(r)
  /\ Goto(r, "write_question")
  /\ UNCHANGED <<clock, ask, cached, answer, tasks, history, lost>>

\* The Question node of request r, as created now.
QuestionNode(r) ==
  [id |-> QuestionId(ask[r], clock), by |-> r, at |-> clock,
   user |-> ask[r].user, question |-> ask[r].question,
   confidence |-> answer[r].confidence,
   low |-> LowConfidence(answer[r].confidence), task |-> answer[r].task]

\* As Merge, but CREATE.
MergeCreates(nodes, n) == nodes \cup {n}

\* As Merge, but a node that is found is overwritten.
MergeOverwrites(nodes, n) == {h \in nodes : h.id # n.id} \cup {n}

\* MERGE ... ON CREATE SET: a node that is found stays as it is.
Merge(nodes, n) ==
  IF \E h \in nodes : h.id = n.id THEN nodes ELSE nodes \cup {n}

WriteQuestion(r) ==
  /\ pc[r] = "write_question"
  /\ \/ history' = Merge(history, QuestionNode(r)) /\ UNCHANGED lost
     \/ lost' = lost \cup {r} /\ UNCHANGED history
  /\ Goto(r, "END")
  /\ UNCHANGED <<clock, ask, cached, answer, redis, tasks>>

(* A node raises.  The call of setex may have stored the answer before.    *)
Raise(r) ==
  /\ \/ pc[r] \in {"check_cache", "chain", "write_cache"}
        /\ UNCHANGED redis
     \/ pc[r] = "write_cache" /\ Store(r)
  /\ Goto(r, "ERROR")
  /\ UNCHANGED <<clock, ask, cached, answer, tasks, history, lost>>

Request(r) ==
  \/ CheckCache(r) \/ Decide(r) \/ WriteCache(r)
  \/ WriteQuestion(r) \/ Raise(r)

Next == Tick \/ \E r \in Requests : Request(r)

Spec == Init /\ [][Next]_vars

-----------------------------------------------------------------------------
(* Properties.                                                             *)

\* The values of the variables.
TypeOK ==
  /\ clock \in 0..MaxTime
  /\ pc \in [Requests -> Steps]
  /\ ask \in [Requests -> Asks]
  /\ cached \in [Requests -> BOOLEAN]
  /\ answer \in [Requests -> Reply]
  /\ redis \in [CacheKeys -> [answer : Reply, stored : 0..MaxTime]]
  /\ tasks \subseteq Requests
  /\ history \subseteq
       [id : {QuestionId(a, t) : a \in Asks, t \in 0..MaxTime}, by : Requests,
        user : {a.user : a \in Asks}, question : {a.question : a \in Asks},
        at : 0..MaxTime, confidence : Scores, low : BOOLEAN, task : BOOLEAN]
  /\ lost \subseteq Requests

\* A replayed answer is, unchanged, what one request decided itself for the
\* same user with the same roles and the same question up to blanks and case,
\* although requests overwrite one another's entries.  Only a question with
\* more separators in it may be answered with that of other roles: what stands
\* after a separator may be a role for build_cache_key.
ReplayIsOwn ==
  \A r \in Requests : cached[r] =>
    LET o == answer[r].by
        theirs == Normalized(ask[o].question)
        mine   == Normalized(ask[r].question)
    IN /\ o \in Requests \ {r}
       /\ ~cached[o] /\ answer[o] = answer[r]
       /\ ask[o].user = ask[r].user
       /\ \/ theirs = mine /\ RolesPart(ask[o].roles) = RolesPart(ask[r].roles)
          \/ Len(theirs) # Len(mine)

\* A task id is never an empty promise: wherever it is shown, in an answer, in
\* the cache or in the history, the task of that request exists.
TaskIdsExist ==
  /\ \A r \in Requests : answer[r].task => answer[r].by \in tasks
  /\ \A k \in CacheKeys :
       redis[k].answer.task => redis[k].answer.by \in tasks
  /\ \A h \in history : h.task => h.by \in tasks

\* The history holds one node for a user's question and window, and the node
\* tells the truth of the request that created it: a request of this user
\* that decided an answer itself, and this answer.
HistoryIsTrue ==
  \A h \in history :
    /\ \A g \in history : g.id = h.id => g = h
    /\ ~cached[h.by] /\ pc[h.by] = "END"
    /\ h.user = ask[h.by].user /\ h.question = ask[h.by].question
    /\ h.confidence = answer[h.by].confidence
    /\ h.task = answer[h.by].task

\* What the history shows never changes: concurrent requests and retries that
\* reach the node of an earlier one leave it as it was.
HistoryIsWriteOnce == [][history \subseteq history']_vars

\* A request that decided an answer and ended is in the history, as its own
\* node or merged into another node of the same user's question, unless the
\* write failed.
FinishedIsRecorded ==
  \A r \in Requests :
    pc[r] = "END" /\ ~cached[r] /\ r \notin lost =>
      \E h \in history : h.user = ask[r].user /\ h.question = ask[r].question
=============================================================================
