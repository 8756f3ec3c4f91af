--------------------------- MODULE QueryServiceProofs ---------------------------
(***************************************************************************)
(* Proofs about QueryService, for any number of requests, users, questions *)
(* and roles, any way to normalise a question, and any length of the       *)
(* window: what is replayed, what the history holds, and the tasks that    *)
(* both refer to.  The inductive invariant IInv follows an answer from the *)
(* request that decided it into the cache, to the requests it is replayed  *)
(* to, and into the history.                                               *)
(***************************************************************************)
EXTENDS QueryService, TLAPS

\* The nodes after which a request's own answer is in the cache, or may be.
Published == {"write_question", "END", "ERROR"}

\* A request has no answer before it decides or is served one.
OwnOrNone ==
  \A r \in Requests :
    /\ pc[r] \in {"check_cache", "chain"} => ~cached[r] /\ answer[r] = NoReply
    /\ pc[r] \in {"write_cache", "write_question"} =>
         ~cached[r] /\ answer[r].by = r
    /\ pc[r] = "END" /\ ~cached[r] => answer[r].by = r
    /\ cached[r] => pc[r] = "END"

\* Request o decided reply itself, for the key.
DecidedBy(o, reply, key) ==
  /\ o \in Requests /\ ~cached[o] /\ pc[o] \in Published
  /\ answer[o] = reply /\ CacheKey(ask[o]) = key

\* An entry of the cache is the answer of the request it names.
EntriesAreOwn ==
  \A k \in CacheKeys : redis[k] # NoEntry =>
    DecidedBy(redis[k].answer.by, redis[k].answer, k)

\* So is an answer that was replayed.
ReplaysAreOwn ==
  \A r \in Requests : cached[r] =>
    DecidedBy(answer[r].by, answer[r], CacheKey(ask[r]))

\* The id of a Question node is that of its fields.
IdsAreOfFields ==
  \A h \in history : h.id = <<h.user, h.question, h.at \div CacheTTL>>

\* An answer names a task only if the task exists.
AnsweredTasksExist == \A r \in Requests : answer[r].task => answer[r].by \in tasks

IInv ==
  /\ TypeOK
  /\ OwnOrNone /\ EntriesAreOwn /\ ReplaysAreOwn /\ IdsAreOfFields
  /\ AnsweredTasksExist /\ HistoryIsTrue /\ FinishedIsRecorded

-----------------------------------------------------------------------------
(* Lemmas on values.                                                       *)

\* The reply of a decision and the absent ones are of their types.
LEMMA Replies ==
  /\ NoReply \in Reply
  /\ NoReply.task = FALSE /\ NoReply.by = NoRequest
  /\ \A r \in Requests, c \in Confidences, t \in BOOLEAN :
       [by |-> r, confidence |-> c, task |-> t] \in Reply
  /\ NoEntry \in [answer : Reply, stored : 0..MaxTime]
<1>1. NoReply \in Reply /\ NoReply.task = FALSE /\ NoReply.by = NoRequest
  BY SMT DEF NoReply, Reply, Scores
<1>2. \A c \in Confidences : c \in Scores
  BY ServiceAssumption, SMT DEF Scores
<1>3. \A r \in Requests, c \in Confidences, t \in BOOLEAN :
        [by |-> r, confidence |-> c, task |-> t] \in Reply
  BY <1>2, SMT DEF Reply
<1>4. NoEntry \in [answer : Reply, stored : 0..MaxTime]
  BY <1>1, ServiceAssumption, SMT DEF NoEntry
<1> QED
  BY <1>1, <1>3, <1>4

\* The keys of what may be asked are keys of the cache.
LEMMA KeyIsKey == ASSUME NEW a \in Asks PROVE CacheKey(a) \in CacheKeys
BY DEF CacheKeys

\* Two texts that are put together to the same one are the same, each of them,
\* if the first ones are of the same length.
LEMMA SameParts ==
  ASSUME NEW s \in Seq(Words), NEW t \in Seq(Words), NEW u \in Seq(Words),
         NEW v \in Seq(Words), s \o t = u \o v, Len(s) = Len(u)
  PROVE  s = u /\ t = v
<1>1. /\ Len(s) \in Nat /\ Len(t) \in Nat /\ Len(v) \in Nat
      /\ Len(s \o t) = Len(s) + Len(t) /\ Len(u \o v) = Len(u) + Len(v)
  OBVIOUS
<1>2. Len(t) = Len(v)
  BY <1>1
<1>3. ASSUME NEW i \in 1..Len(s) PROVE s[i] = u[i]
  <2>1. (s \o t)[i] = s[i] /\ (u \o v)[i] = u[i]
    BY <1>1
  <2> QED
    BY <2>1
<1>4. ASSUME NEW i \in 1..Len(t) PROVE t[i] = v[i]
  <2>1. (s \o t)[Len(s) + i] = t[i]
    <3>1. \A j \in 1..Len(t) : (s \o t)[Len(s) + j] = t[j]
      OBVIOUS
    <3> QED
      BY <3>1
  <2>2. (u \o v)[Len(u) + i] = v[i]
    BY <1>1, <1>2
  <2> QED
    BY <2>1, <2>2
<1>5. /\ s = [i \in 1..Len(s) |-> s[i]] /\ u = [i \in 1..Len(s) |-> u[i]]
      /\ t = [i \in 1..Len(t) |-> t[i]] /\ v = [i \in 1..Len(t) |-> v[i]]
  BY <1>2
<1> QED
  BY <1>3, <1>4, <1>5

\* Two asks with one key are of one user; and of the same roles and the same
\* question, if their questions have equally many separators.
LEMMA SameKey ==
  ASSUME NEW a \in Asks, NEW b \in Asks, CacheKey(a) = CacheKey(b)
  PROVE  /\ a.user = b.user
         /\ \/ /\ Normalized(a.question) = Normalized(b.question)
               /\ RolesPart(a.roles) = RolesPart(b.roles)
            \/ Len(Normalized(a.question)) # Len(Normalized(b.question))
<1>1. /\ a.user = b.user
      /\ Normalized(a.question) \o RolesPart(a.roles)
           = Normalized(b.question) \o RolesPart(b.roles)
  BY DEF CacheKey
<1>2. \A c \in Asks : /\ Normalized(c.question) \in Seq(Words)
                     /\ RolesPart(c.roles) \in Seq(Words)
  BY ServiceAssumption
<1> QED
  BY <1>1, <1>2, SameParts

-----------------------------------------------------------------------------
(* Type correctness.                                                       *)

NodeSet ==
  [id : {QuestionId(a, t) : a \in Asks, t \in 0..MaxTime}, by : Requests,
   user : {a.user : a \in Asks}, question : {a.question : a \in Asks},
   at : 0..MaxTime, confidence : Scores, low : BOOLEAN, task : BOOLEAN]

LEMMA TypeInit == Init => TypeOK
BY Replies, ServiceAssumption DEF Init, TypeOK, Steps

\* A node that is created is one.
LEMMA NodeTyped ==
  ASSUME TypeOK, NEW r \in Requests
  PROVE  QuestionNode(r) \in NodeSet
<1>1. ask[r] \in Asks /\ clock \in 0..MaxTime
  BY DEF TypeOK
<1>2. answer[r].confidence \in Scores /\ answer[r].task \in BOOLEAN
  BY DEF TypeOK, Reply
<1>3. QuestionId(ask[r], clock) \in {QuestionId(a, t) : a \in Asks, t \in 0..MaxTime}
  BY <1>1
<1>4. LowConfidence(answer[r].confidence) \in BOOLEAN
  BY <1>2, SMT DEF LowConfidence, ConfidenceThreshold, Scores
<1> QED
  BY <1>1, <1>2, <1>3, <1>4 DEF QuestionNode, NodeSet

LEMMA TypeStep == TypeOK /\ [Next]_vars => TypeOK'
<1> SUFFICES ASSUME TypeOK, [Next]_vars PROVE TypeOK'
  OBVIOUS
<1>1. CASE Tick
  <2>1. clock' \in 0..MaxTime
    BY <1>1, ServiceAssumption, SMT DEF Tick, TypeOK
  <2>2. redis' \in [CacheKeys -> [answer : Reply, stored : 0..MaxTime]]
    BY <1>1, Replies DEF Tick, TypeOK
  <2> QED
    BY <1>1, <2>1, <2>2 DEF Tick, TypeOK
<1>2. ASSUME NEW r \in Requests, CheckCache(r) PROVE TypeOK'
  <2>1. CacheKey(ask[r]) \in CacheKeys
    BY KeyIsKey DEF TypeOK
  <2>2. redis[CacheKey(ask[r])].answer \in Reply
    BY <2>1 DEF TypeOK
  <2>3. pc' \in [Requests -> Steps]
    BY <1>2 DEF CheckCache, TypeOK, Goto, Steps
  <2>4. answer' \in [Requests -> Reply]
    BY <1>2, <2>2 DEF CheckCache, TypeOK
  <2>5. cached' \in [Requests -> BOOLEAN]
    <3>1. cached \in [Requests -> BOOLEAN] /\ TRUE \in BOOLEAN
      BY DEF TypeOK
    <3>2. cached' = [cached EXCEPT ![r] = TRUE] \/ cached' = cached
      BY <1>2 DEF CheckCache
    <3> QED
      BY <3>1, <3>2, Zenon
  <2>6. UNCHANGED <<clock, ask, redis, tasks, history, lost>>
    BY <1>2 DEF CheckCache
  <2> QED
    BY <2>3, <2>4, <2>5, <2>6 DEF TypeOK
<1>3. ASSUME NEW r \in Requests, Decide(r) PROVE TypeOK'
  <2>1. PICK c \in Confidences,
              write \in {"written", "lost", "failed", "not_needed"} :
          /\ answer' = [answer EXCEPT ![r] =
                          [by |-> r, confidence |-> c, task |-> TaskOf(write)]]
          /\ tasks' = tasks \cup {t \in {r} : write \in {"written", "lost"}}
    BY <1>3 DEF Decide
  <2>2. [by |-> r, confidence |-> c, task |-> TaskOf(write)] \in Reply
    <3>1. TaskOf(write) \in BOOLEAN
      BY DEF TaskOf
    <3> QED
      BY <3>1, Replies
  <2>3. answer' \in [Requests -> Reply]
    BY <2>1, <2>2 DEF TypeOK
  <2>4. tasks' \subseteq Requests
    BY <2>1 DEF TypeOK
  <2>5. pc' \in [Requests -> Steps]
    BY <1>3 DEF Decide, TypeOK, Goto, Steps
  <2>6. UNCHANGED <<clock, ask, cached, redis, history, lost>>
    BY <1>3 DEF Decide
  <2> QED
    BY <2>3, <2>4, <2>5, <2>6 DEF TypeOK
<1>4. ASSUME NEW r \in Requests, Store(r), TypeOK
      PROVE redis' \in [CacheKeys -> [answer : Reply, stored : 0..MaxTime]]
  <2>1. EntryOf(r) \in [answer : Reply, stored : 0..MaxTime]
    BY DEF EntryOf, TypeOK
  <2>2. redis \in [CacheKeys -> [answer : Reply, stored : 0..MaxTime]]
    BY DEF TypeOK
  <2>3. redis' = [redis EXCEPT ![CacheKey(ask[r])] = EntryOf(r)]
    BY <1>4 DEF Store
  <2> QED
    BY <2>1, <2>2, <2>3
<1>5. ASSUME NEW r \in Requests, WriteCache(r) PROVE TypeOK'
  BY <1>5, <1>4 DEF WriteCache, TypeOK, Goto, Steps
<1>6. ASSUME NEW r \in Requests, WriteQuestion(r) PROVE TypeOK'
  <2>1. history' \subseteq NodeSet
    BY <1>6, NodeTyped DEF WriteQuestion, Merge, TypeOK, NodeSet
  <2>2. lost' \subseteq Requests
    BY <1>6 DEF WriteQuestion, TypeOK
  <2> QED
    BY <1>6, <2>1, <2>2 DEF WriteQuestion, TypeOK, Goto, Steps, NodeSet
<1>7. ASSUME NEW r \in Requests, Raise(r) PROVE TypeOK'
  BY <1>7, <1>4 DEF Raise, TypeOK, Goto, Steps
<1>8. CASE UNCHANGED vars
  BY <1>8 DEF vars, TypeOK
<1> QED
  BY <1>1, <1>2, <1>3, <1>5, <1>6, <1>7, <1>8 DEF Next, Request

\* For any requests, asks and windows every variable keeps its type.
THEOREM TypeCorrect == Spec => []TypeOK
BY TypeInit, TypeStep, PTL DEF Spec

-----------------------------------------------------------------------------
(* The inductive invariant.                                                *)

LEMMA InvInit == Init => IInv
<1> SUFFICES ASSUME Init PROVE IInv
  OBVIOUS
<1>1. TypeOK
  BY TypeInit
<1>2. \A r \in Requests : /\ pc[r] = "check_cache" /\ ~cached[r]
                          /\ answer[r] = NoReply
  BY DEF Init
<1>3. \A k \in CacheKeys : redis[k] = NoEntry
  BY DEF Init
<1>4. history = {}
  BY DEF Init
<1>5. OwnOrNone /\ EntriesAreOwn /\ ReplaysAreOwn
  BY <1>2, <1>3 DEF OwnOrNone, EntriesAreOwn, ReplaysAreOwn
<1>6. AnsweredTasksExist
  BY <1>2, Replies DEF AnsweredTasksExist
<1>7. IdsAreOfFields /\ HistoryIsTrue /\ FinishedIsRecorded
  BY <1>2, <1>4 DEF IdsAreOfFields, HistoryIsTrue, FinishedIsRecorded
<1> QED
  BY <1>1, <1>5, <1>6, <1>7 DEF IInv

\* What was decided stays decided while requests only go on from there.
LEMMA DecidedStays ==
  ASSUME NEW o, NEW reply, NEW key, DecidedBy(o, reply, key),
         ask' = ask, cached'[o] = cached[o], answer'[o] = answer[o],
         pc'[o] \in Published
  PROVE  DecidedBy(o, reply, key)'
BY DEF DecidedBy

\* The history stays true while the ended requests stay as they are.
LEMMA HistoryStays ==
  ASSUME TypeOK, HistoryIsTrue, history' = history, ask' = ask,
         \A s \in Requests : pc[s] = "END" =>
           pc'[s] = "END" /\ cached'[s] = cached[s] /\ answer'[s] = answer[s]
  PROVE  HistoryIsTrue'
<1>1. \A h \in history : h.by \in Requests
  BY DEF TypeOK
<1> QED
  BY <1>1 DEF HistoryIsTrue

\* Time passes: entries are dropped.
LEMMA TickStep == IInv /\ Tick => IInv'
<1> SUFFICES ASSUME IInv, Tick PROVE IInv'
  OBVIOUS
<1>1. TypeOK'
  BY TypeStep DEF IInv, Next
<1>2. UNCHANGED <<pc, ask, cached, answer, tasks, history, lost>>
  BY DEF Tick
<1>3. \A k \in CacheKeys : redis'[k] = NoEntry \/ redis'[k] = redis[k]
  BY DEF Tick
<1>4. EntriesAreOwn'
  BY <1>2, <1>3 DEF IInv, EntriesAreOwn, DecidedBy
<1>5. OwnOrNone' /\ ReplaysAreOwn' /\ IdsAreOfFields'
  BY <1>2 DEF IInv, OwnOrNone, ReplaysAreOwn, IdsAreOfFields, DecidedBy
<1>6. AnsweredTasksExist' /\ HistoryIsTrue' /\ FinishedIsRecorded'
  BY <1>2 DEF IInv, AnsweredTasksExist, HistoryIsTrue, FinishedIsRecorded
<1> QED
  BY <1>1, <1>4, <1>5, <1>6 DEF IInv

\* A request looks into the cache.
LEMMA CheckCacheStep ==
  ASSUME NEW r \in Requests, IInv, CheckCache(r)
  PROVE  IInv'
<1>1. TypeOK' /\ TypeOK
  BY TypeStep DEF IInv, Next, Request
<1>2. UNCHANGED <<clock, ask, redis, tasks, history, lost>> /\ pc[r] = "check_cache"
  BY DEF CheckCache
<1>3. ~cached[r] /\ answer[r] = NoReply
  BY <1>2 DEF IInv, OwnOrNone
<1>4. \A s \in Requests \ {r} :
        cached'[s] = cached[s] /\ answer'[s] = answer[s] /\ pc'[s] = pc[s]
  BY DEF CheckCache, Goto, IInv, TypeOK
<1>5. \A o, reply, key : DecidedBy(o, reply, key) => o # r
  BY <1>2 DEF DecidedBy, Published
<1>6. \A o, reply, key : DecidedBy(o, reply, key) => DecidedBy(o, reply, key)'
  BY <1>2, <1>4, <1>5 DEF DecidedBy
<1>7. EntriesAreOwn'
  BY <1>2, <1>6 DEF IInv, EntriesAreOwn
<1>8. CASE Hit(CacheKey(ask[r]))
  <2>1. /\ cached'[r] /\ pc'[r] = "END"
        /\ answer'[r] = redis[CacheKey(ask[r])].answer
    BY <1>8 DEF CheckCache, Goto, IInv, TypeOK
  <2>2. CacheKey(ask[r]) \in CacheKeys
    BY <1>1, KeyIsKey DEF TypeOK
  <2>3. DecidedBy(answer'[r].by, answer'[r], CacheKey(ask[r]))
    BY <1>8, <2>1, <2>2 DEF Hit, IInv, EntriesAreOwn
  <2>4. OwnOrNone'
    BY <1>4, <2>1 DEF IInv, OwnOrNone
  <2>5. ReplaysAreOwn'
    BY <1>2, <1>4, <1>6, <2>3 DEF IInv, ReplaysAreOwn
  <2>6. AnsweredTasksExist'
    BY <1>2, <1>4, <2>3 DEF IInv, AnsweredTasksExist, DecidedBy
  <2>7. HistoryIsTrue'
    BY <1>1, <1>2, <1>4, HistoryStays DEF IInv
  <2>8. FinishedIsRecorded'
    BY <1>2, <1>4, <2>1 DEF IInv, FinishedIsRecorded
  <2> QED
    BY <1>1, <1>2, <1>7, <2>4, <2>5, <2>6, <2>7, <2>8 DEF IInv, IdsAreOfFields
<1>9. CASE ~Hit(CacheKey(ask[r]))
  <2>1. UNCHANGED <<cached, answer>> /\ pc'[r] = "chain"
    BY <1>9 DEF CheckCache, Goto, IInv, TypeOK
  <2>2. OwnOrNone'
    BY <1>3, <1>4, <2>1 DEF IInv, OwnOrNone
  <2>3. ReplaysAreOwn'
    BY <1>2, <1>6, <2>1 DEF IInv, ReplaysAreOwn
  <2>4. AnsweredTasksExist'
    BY <1>2, <2>1 DEF IInv, AnsweredTasksExist
  <2>5. HistoryIsTrue'
    BY <1>1, <1>2, <1>4, HistoryStays DEF IInv
  <2>6. FinishedIsRecorded'
    BY <1>2, <1>4, <2>1 DEF IInv, FinishedIsRecorded
  <2> QED
    BY <1>1, <1>2, <1>7, <2>2, <2>3, <2>4, <2>5, <2>6 DEF IInv, IdsAreOfFields
<1> QED
  BY <1>8, <1>9

\* The chain decides.
LEMMA DecideStep ==
  ASSUME NEW r \in Requests, IInv, Decide(r)
  PROVE  IInv'
<1>1. TypeOK' /\ TypeOK
  BY TypeStep DEF IInv, Next, Request
<1>2. UNCHANGED <<clock, ask, cached, redis, history, lost>> /\ pc[r] = "chain"
  BY DEF Decide
<1>3. PICK c \in Confidences,
              write \in {"written", "lost", "failed", "not_needed"} :
        /\ answer' = [answer EXCEPT ![r] =
                        [by |-> r, confidence |-> c, task |-> TaskOf(write)]]
        /\ tasks' = tasks \cup {t \in {r} : write \in {"written", "lost"}}
  BY DEF Decide
<1>4. \A s \in Requests \ {r} : answer'[s] = answer[s] /\ pc'[s] = pc[s]
  BY <1>3 DEF Decide, Goto, IInv, TypeOK
<1>5. /\ pc'[r] = "write_cache" /\ ~cached[r] /\ answer'[r].by = r
      /\ answer'[r].task => r \in tasks'
  <2>1. answer'[r] = [by |-> r, confidence |-> c, task |-> TaskOf(write)]
    BY <1>3 DEF IInv, TypeOK
  <2>2. TaskOf(write) => r \in tasks'
    BY <1>3 DEF TaskOf
  <2>3. pc'[r] = "write_cache"
    BY DEF Decide, Goto, IInv, TypeOK
  <2>4. ~cached[r]
    BY <1>2 DEF IInv, OwnOrNone
  <2> QED
    BY <2>1, <2>2, <2>3, <2>4
<1>6. \A o, reply, key : DecidedBy(o, reply, key) => DecidedBy(o, reply, key)'
  BY <1>2, <1>4 DEF DecidedBy, Published
<1>7. EntriesAreOwn' /\ IdsAreOfFields'
  BY <1>2, <1>6 DEF IInv, EntriesAreOwn, IdsAreOfFields
<1>8. OwnOrNone'
  BY <1>2, <1>4, <1>5 DEF IInv, OwnOrNone
<1>9. ReplaysAreOwn'
  BY <1>2, <1>4, <1>5, <1>6 DEF IInv, ReplaysAreOwn
<1>10. AnsweredTasksExist'
  <2>1. tasks \subseteq tasks'
    BY <1>3
  <2> QED
    BY <1>4, <1>5, <2>1 DEF IInv, AnsweredTasksExist
<1>11. HistoryIsTrue'
  BY <1>1, <1>2, <1>4, HistoryStays DEF IInv
<1>12. FinishedIsRecorded'
  BY <1>2, <1>4, <1>5 DEF IInv, FinishedIsRecorded
<1> QED
  BY <1>1, <1>7, <1>8, <1>9, <1>10, <1>11, <1>12 DEF IInv

\* The answer is stored, or setex raises after it was: the entry is the
\* request's own, which has decided.
LEMMA StoreStep ==
  ASSUME NEW r \in Requests, IInv, pc[r] = "write_cache", Store(r) \/ UNCHANGED redis,
         UNCHANGED <<clock, ask, cached, answer, tasks, history, lost>>,
         NEW step \in {"write_question", "ERROR"}, Goto(r, step), TypeOK'
  PROVE  IInv'
<1>1. \A s \in Requests \ {r} : pc'[s] = pc[s]
  BY DEF Goto, IInv, TypeOK
<1>2. pc'[r] = step
  BY DEF Goto, IInv, TypeOK
<1>3. ~cached[r] /\ answer[r].by = r
  BY DEF IInv, OwnOrNone
<1>4. \A o, reply, key : DecidedBy(o, reply, key) => DecidedBy(o, reply, key)'
  BY <1>1 DEF DecidedBy, Published
<1>5. EntriesAreOwn'
  <2>1. DecidedBy(r, answer[r], CacheKey(ask[r]))'
    BY <1>2, <1>3 DEF DecidedBy, Published
  <2>2. \A k \in CacheKeys : redis'[k] # redis[k] =>
          k = CacheKey(ask[r]) /\ redis'[k] = EntryOf(r)
    BY DEF Store, IInv, TypeOK
  <2>3. EntryOf(r).answer = answer[r]
    BY DEF EntryOf
  <2> SUFFICES ASSUME NEW k \in CacheKeys, redis'[k] # NoEntry
               PROVE  DecidedBy(redis[k].answer.by, redis[k].answer, k)'
    BY DEF EntriesAreOwn
  <2>4. CASE redis'[k] = redis[k]
    BY <1>4, <2>4 DEF IInv, EntriesAreOwn
  <2>5. CASE redis'[k] # redis[k]
    BY <1>3, <2>1, <2>2, <2>3, <2>5
  <2> QED
    BY <2>4, <2>5
<1>6. OwnOrNone' /\ IdsAreOfFields' /\ AnsweredTasksExist'
  BY <1>1, <1>2, <1>3 DEF IInv, OwnOrNone, IdsAreOfFields, AnsweredTasksExist
<1>7. ReplaysAreOwn'
  BY <1>4 DEF IInv, ReplaysAreOwn
<1>8. HistoryIsTrue'
  BY <1>1, HistoryStays DEF IInv
<1>9. FinishedIsRecorded'
  BY <1>1, <1>2 DEF IInv, FinishedIsRecorded
<1> QED
  BY <1>5, <1>6, <1>7, <1>8, <1>9 DEF IInv

\* MERGE finds the node of the id, or creates this one; nothing is removed.
LEMMA MergeKeeps ==
  ASSUME NEW old, NEW n
  PROVE  /\ old \subseteq Merge(old, n)
         /\ Merge(old, n) \subseteq old \cup {n}
         /\ n \in Merge(old, n) \/ \E h \in old : h.id = n.id
         /\ n \in Merge(old, n) => n \in old \/ \A h \in old : h.id # n.id
BY DEF Merge

\* The Question node is written, or the write fails.
LEMMA WriteQuestionStep ==
  ASSUME NEW r \in Requests, IInv, WriteQuestion(r)
  PROVE  IInv'
<1>1. TypeOK' /\ TypeOK
  BY TypeStep DEF IInv, Next, Request
<1>2. /\ UNCHANGED <<clock, ask, cached, answer, redis, tasks>>
      /\ pc[r] = "write_question"
  BY DEF WriteQuestion
<1>3. \A s \in Requests \ {r} : pc'[s] = pc[s]
  BY DEF WriteQuestion, Goto, IInv, TypeOK
<1>4. pc'[r] = "END" /\ ~cached[r] /\ answer[r].by = r
  BY <1>2 DEF WriteQuestion, Goto, IInv, TypeOK, OwnOrNone
<1>5. EntriesAreOwn' /\ ReplaysAreOwn'
  <2>1. \A o, reply, key : DecidedBy(o, reply, key) => DecidedBy(o, reply, key)'
    BY <1>2, <1>3, <1>4 DEF DecidedBy, Published
  <2> QED
    BY <1>2, <2>1 DEF IInv, EntriesAreOwn, ReplaysAreOwn
<1>6. OwnOrNone' /\ AnsweredTasksExist'
  BY <1>2, <1>3, <1>4 DEF IInv, OwnOrNone, AnsweredTasksExist
<1>7. PICK n : n = QuestionNode(r)
  OBVIOUS
<1>8. /\ n.id = <<ask[r].user, ask[r].question, clock \div CacheTTL>>
      /\ n.by = r /\ n.user = ask[r].user /\ n.question = ask[r].question
      /\ n.at = clock /\ n.confidence = answer[r].confidence
      /\ n.task = answer[r].task
  BY <1>7 DEF QuestionNode, QuestionId
<1>9. CASE history' = Merge(history, n) /\ lost' = lost
  <2>1. /\ history \subseteq history' /\ history' \subseteq history \cup {n}
        /\ n \in history' \/ \E h \in history : h.id = n.id
        /\ n \in history' => n \in history \/ \A h \in history : h.id # n.id
    BY <1>9, MergeKeeps
  <2>2. IdsAreOfFields'
    BY <1>8, <2>1 DEF IInv, IdsAreOfFields
  <2>3. HistoryIsTrue'
    <3>1. \A h \in history : h.by \in Requests
      BY <1>1 DEF TypeOK
    <3>2. \A g, h \in history' : g.id = h.id => g = h
      BY <2>1 DEF IInv, HistoryIsTrue
    <3>3. \A h \in history : /\ ~cached'[h.by] /\ pc'[h.by] = "END"
                             /\ h.user = ask'[h.by].user
                             /\ h.question = ask'[h.by].question
                             /\ h.confidence = answer'[h.by].confidence
                             /\ h.task = answer'[h.by].task
      BY <1>2, <1>3, <1>4, <3>1 DEF IInv, HistoryIsTrue
    <3>4. /\ ~cached'[n.by] /\ pc'[n.by] = "END"
          /\ n.user = ask'[n.by].user /\ n.question = ask'[n.by].question
          /\ n.confidence = answer'[n.by].confidence
          /\ n.task = answer'[n.by].task
      BY <1>2, <1>4, <1>8
    <3> QED
      BY <2>1, <3>2, <3>3, <3>4 DEF HistoryIsTrue
  <2>4. \E h \in history' : h.user = ask[r].user /\ h.question = ask[r].question
    <3>1. CASE n \in history'
      BY <1>8, <3>1
    <3>2. ASSUME NEW h \in history, h.id = n.id
          PROVE  h.user = ask[r].user /\ h.question = ask[r].question
      BY <1>8, <3>2 DEF IInv, IdsAreOfFields
    <3> QED
      BY <2>1, <3>1, <3>2
  <2>5. FinishedIsRecorded'
    BY <1>2, <1>3, <1>9, <2>1, <2>4 DEF IInv, FinishedIsRecorded
  <2> QED
    BY <1>1, <1>5, <1>6, <2>2, <2>3, <2>5 DEF IInv
<1>10. CASE lost' = lost \cup {r} /\ history' = history
  <2>1. IdsAreOfFields'
    BY <1>10 DEF IInv, IdsAreOfFields
  <2>2. HistoryIsTrue'
    BY <1>1, <1>2, <1>3, <1>4, <1>10, HistoryStays DEF IInv
  <2>3. FinishedIsRecorded'
    BY <1>2, <1>3, <1>10 DEF IInv, FinishedIsRecorded
  <2> QED
    BY <1>1, <1>5, <1>6, <2>1, <2>2, <2>3 DEF IInv
<1> QED
  BY <1>7, <1>9, <1>10 DEF WriteQuestion

\* A node raises before it has stored anything.
LEMMA RaiseStep ==
  ASSUME NEW r \in Requests, IInv, Raise(r)
  PROVE  IInv'
<1>1. TypeOK' /\ TypeOK
  BY TypeStep DEF IInv, Next, Request
<1>2. /\ UNCHANGED <<clock, ask, cached, answer, tasks, history, lost>>
      /\ Goto(r, "ERROR")
  BY DEF Raise
<1>3. CASE pc[r] = "write_cache" /\ (Store(r) \/ UNCHANGED redis)
  BY <1>1, <1>2, <1>3, StoreStep
<1>4. CASE pc[r] \in {"check_cache", "chain"} /\ UNCHANGED redis
  <2>1. \A s \in Requests \ {r} : pc'[s] = pc[s]
    BY <1>2 DEF Goto, IInv, TypeOK
  <2>2. pc'[r] = "ERROR" /\ ~cached[r]
    BY <1>2, <1>4 DEF Goto, IInv, TypeOK, OwnOrNone
  <2>3. \A o, reply, key : DecidedBy(o, reply, key) => DecidedBy(o, reply, key)'
    BY <1>2, <2>1, <2>2 DEF DecidedBy, Published
  <2>4. EntriesAreOwn' /\ ReplaysAreOwn'
    BY <1>2, <1>4, <2>3 DEF IInv, EntriesAreOwn, ReplaysAreOwn
  <2>5. OwnOrNone' /\ IdsAreOfFields' /\ AnsweredTasksExist'
    BY <1>2, <2>1, <2>2 DEF IInv, OwnOrNone, IdsAreOfFields, AnsweredTasksExist
  <2>6. HistoryIsTrue'
    BY <1>1, <1>2, <1>4, <2>1, HistoryStays DEF IInv
  <2>7. FinishedIsRecorded'
    BY <1>2, <2>1, <2>2 DEF IInv, FinishedIsRecorded
  <2> QED
    BY <1>1, <2>4, <2>5, <2>6, <2>7 DEF IInv
<1> QED
  BY <1>3, <1>4 DEF Raise

\* Every step keeps the invariant.
LEMMA InvStep == IInv /\ [Next]_vars => IInv'
<1> SUFFICES ASSUME IInv, [Next]_vars PROVE IInv'
  OBVIOUS
<1>1. TypeOK'
  BY TypeStep DEF IInv
<1>2. ASSUME NEW r \in Requests, WriteCache(r) PROVE IInv'
  BY <1>1, <1>2, StoreStep DEF WriteCache
<1>3. CASE UNCHANGED vars
  <2>1. UNCHANGED <<clock, pc, ask, cached>> /\ UNCHANGED <<answer, redis>>
        /\ UNCHANGED <<tasks, history, lost>>
    BY <1>3 DEF vars
  <2>2. OwnOrNone' /\ EntriesAreOwn' /\ ReplaysAreOwn' /\ IdsAreOfFields'
    BY <2>1 DEF IInv, OwnOrNone, EntriesAreOwn, ReplaysAreOwn, IdsAreOfFields,
      DecidedBy
  <2>3. AnsweredTasksExist' /\ HistoryIsTrue' /\ FinishedIsRecorded'
    BY <2>1 DEF IInv, AnsweredTasksExist, HistoryIsTrue, FinishedIsRecorded
  <2> QED
    BY <1>1, <2>2, <2>3 DEF IInv
<1> QED
  BY <1>2, <1>3, TickStep, CheckCacheStep, DecideStep, WriteQuestionStep,
     RaiseStep DEF Next, Request

THEOREM Inductive == Spec => []IInv
BY InvInit, InvStep, PTL DEF Spec

-----------------------------------------------------------------------------
(* What follows from it.                                                   *)

\* Whatever requests overwrite one another's entries, a replayed answer is
\* what one request of this user decided, for these roles and this question
\* unless the two questions differ in the number of separators.
THEOREM ReplaysOwn == Spec => []ReplayIsOwn
<1>1. IInv => ReplayIsOwn
  <2> SUFFICES ASSUME IInv, NEW r \in Requests, cached[r]
               PROVE  /\ answer[r].by \in Requests \ {r}
                      /\ ~cached[answer[r].by] /\ answer[answer[r].by] = answer[r]
                      /\ ask[answer[r].by].user = ask[r].user
                      /\ \/ /\ Normalized(ask[answer[r].by].question)
                                 = Normalized(ask[r].question)
                            /\ RolesPart(ask[answer[r].by].roles)
                                 = RolesPart(ask[r].roles)
                         \/ Len(Normalized(ask[answer[r].by].question))
                              # Len(Normalized(ask[r].question))
    BY DEF ReplayIsOwn
  <2>1. DecidedBy(answer[r].by, answer[r], CacheKey(ask[r]))
    BY DEF IInv, ReplaysAreOwn
  <2>2. answer[r].by \in Requests \ {r} /\ ~cached[answer[r].by]
        /\ answer[answer[r].by] = answer[r]
        /\ CacheKey(ask[answer[r].by]) = CacheKey(ask[r])
    BY <2>1 DEF DecidedBy
  <2>3. ask[answer[r].by] \in Asks /\ ask[r] \in Asks
    BY <2>2 DEF IInv, TypeOK
  <2> QED
    BY <2>2, <2>3, SameKey
<1> QED
  BY <1>1, Inductive, PTL

\* Wherever a task id is shown the task exists.
THEOREM TasksExist == Spec => []TaskIdsExist
<1>1. IInv => TaskIdsExist
  <2> SUFFICES ASSUME IInv PROVE TaskIdsExist
    OBVIOUS
  <2>1. \A r \in Requests : answer[r].task => answer[r].by \in tasks
    BY DEF IInv, AnsweredTasksExist
  <2>2. ASSUME NEW k \in CacheKeys, redis[k].answer.task
        PROVE  redis[k].answer.by \in tasks
    <3>1. redis[k] # NoEntry
      BY <2>2, Replies DEF NoEntry
    <3> QED
      BY <2>1, <2>2, <3>1 DEF IInv, EntriesAreOwn, DecidedBy
  <2>3. ASSUME NEW h \in history, h.task PROVE h.by \in tasks
    <3>1. h.by \in Requests
      BY DEF IInv, TypeOK
    <3>2. answer[h.by].task /\ ~cached[h.by] /\ pc[h.by] = "END"
      BY <2>3 DEF IInv, HistoryIsTrue
    <3> QED
      BY <2>1, <3>1, <3>2 DEF IInv, OwnOrNone
  <2> QED
    BY <2>1, <2>2, <2>3 DEF TaskIdsExist
<1> QED
  BY <1>1, Inductive, PTL

\* A node of the history tells the truth of the request that created it, and
\* no other node has its id.
THEOREM HistoryTrue == Spec => []HistoryIsTrue
<1>1. IInv => HistoryIsTrue
  BY DEF IInv
<1> QED
  BY <1>1, Inductive, PTL

\* A request that decided and ended is in the history unless the write failed.
THEOREM FinishedRecorded == Spec => []FinishedIsRecorded
<1>1. IInv => FinishedIsRecorded
  BY DEF IInv
<1> QED
  BY <1>1, Inductive, PTL

\* Nothing that the history shows is changed or removed.
THEOREM HistoryGrows == Spec => HistoryIsWriteOnce
<1>1. [Next]_vars => [history \subseteq history']_vars
  <2>1. \A r \in Requests : WriteQuestion(r) => history \subseteq history'
    BY MergeKeeps DEF WriteQuestion
  <2>2. \A r \in Requests : Request(r) => history \subseteq history'
    BY <2>1 DEF Request, CheckCache, Decide, WriteCache, Raise
  <2>3. Tick => history \subseteq history'
    BY DEF Tick
  <2> QED
    BY <2>2, <2>3 DEF Next
<1> QED
  BY <1>1, PTL DEF Spec, HistoryIsWriteOnce
===============================================================================
