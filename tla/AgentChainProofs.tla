--------------------------- MODULE AgentChainProofs ---------------------------
(***************************************************************************)
(* Theorems of AgentChain, for every SolverRetries and PlainRetries.  The  *)
(* invariants the runs check are not inductive: they say nothing of the    *)
(* nodes between two decisions.  IInv adds what is known at each node.     *)
(***************************************************************************)
EXTENDS AgentChain, TLAPS

\* The nodes of the retry loop, in the order of one attempt.
Loop == {"refiner", "text_to_cypher", "text_to_sql", "python_executor",
         "validator"}

Budget == IF SolverRetries >= PlainRetries THEN SolverRetries ELSE PlainRetries

\* Outputs that the current attempt has already produced.
FreshSoFar ==
  /\ node \in Loop \ {"refiner"} =>
       /\ refiner_output.by = Attempt
       /\ refiner_output.max_retries = RetryBudget(refiner_output.requires_solver)
  /\ node \in {"text_to_sql", "python_executor", "validator"} =>
       cypher_context.by = Attempt
  /\ node \in {"python_executor", "validator"} => sql_result.by = Attempt
  /\ node = "python_executor" => refiner_output.requires_solver
  /\ node = "validator" /\ refiner_output.requires_solver =>
       python_result.by = Attempt

\* When the reflection is reached, the validator passed on both components,
\* or the budget of the last attempt is spent; what it leaves is stamped.
Judged ==
  /\ node \in {"reflection", "write_cache", "write_question"} =>
       /\ retry_count >= 1
       /\ validator_output.passed =>
            validator_output.graph_coverage = 1 /\ validator_output.sql_pass = 1
  /\ node = "reflection" => validator_output.passed \/ Exhausted
  /\ node \in {"write_cache", "write_question"} =>
       reflection_output.by = retry_count

\* Attempts are counted against the budgets.
Counted ==
  /\ retry_count <= Budget + 1
  /\ node \in Loop \cup {"check_cache"} => retry_count <= Budget
  /\ node \in (Loop \ {"validator"}) \cup {"check_cache"} =>
       python_result.by <= SolverRetries
  /\ node = "validator" /\ ~refiner_output.requires_solver =>
       python_result.by <= SolverRetries

\* Nothing is decided, or written anywhere, before the reflection; nothing is
\* replayed after it.
NotYet ==
  /\ node = "check_cache" => retry_count = 0
  /\ node \in Loop \cup {"check_cache", "reflection"} =>
       ~answer.set /\ tasks = 0
  /\ node \in Loop \cup {"reflection"} => ~redis.set
  /\ node # "END" => ~question.set /\ ~cached
  /\ node \in {"write_cache", "write_question"} => answer.set
  /\ node = "write_question" => redis = answer
  /\ cached => tasks = 0

\* The decided answer is one of those that the cache may hold.
Closed ==
  /\ redis \in {NoAnswer} \cup CacheableAnswers
  /\ answer \in {NoAnswer} \cup CacheableAnswers

\* Every attempt before the current one has left a note.
Noted ==
  node \in Loop =>
    \A k \in 1..retry_count : \E i \in IssueKinds : <<k, i>> \in context_notes

IInv ==
  /\ TypeOK
  /\ FreshSoFar /\ Judged /\ Counted /\ NotYet /\ Closed /\ Noted
  /\ VerdictMatchesConfidence /\ VerdictIsCurrent /\ RetriesAreInformed
  /\ OneTaskPerRequest /\ HistoryMatchesAnswer

-----------------------------------------------------------------------------
(* Lemmas on the answers.                                                  *)

\* A score is a sum of the weights, so it lies within 0 and 10.
LEMMA ScoreInRange ==
  ASSUME NEW g \in 0..1, NEW s \in 0..1, NEW a \in 0..1
  PROVE  /\ Confidence(g, s, a) \in Scores
         /\ Confidence(g, s, a) >= 4 * g + 4 * s
BY SMT DEF Confidence, Scores

\* What may be cached is an answer, and the absent answer is one.
LEMMA CacheableIsAnswer ==
  /\ NoAnswer \in Answer
  /\ \A a \in CacheableAnswers : a \in Answer /\ a.set
BY SMT DEF NoAnswer, Answer, CacheableAnswers, Scores

\* Recording an answer yields a Question node.
LEMMA RecordIsQuestion ==
  ASSUME NEW a \in Answer
  PROVE  QuestionOf(a) \in Question /\ QuestionOf(a).set
BY SMT DEF QuestionOf, Question, Answer, LowConfidence, ConfidenceThreshold, Scores

\* The budget of either kind of attempt is a natural number.
LEMMA BudgetIsNat ==
  ASSUME NEW solver \in BOOLEAN
  PROVE  /\ RetryBudget(solver) \in Nat
         /\ RetryBudget(solver) <= Budget
         /\ Budget \in Nat
BY RetriesAssumption, SMT DEF RetryBudget, Budget

\* The validator never fails an attempt without naming an issue.
LEMMA FailureHasIssue ==
  ~Passes(GraphCoverage, SqlPass) => \E i : i \in Issues
<1> SUFFICES ASSUME ~Passes(GraphCoverage, SqlPass) PROVE \E i : i \in Issues
  OBVIOUS
<1>1. GraphCoverage \in {0, 1} /\ SqlPass \in {0, 1}
  BY DEF GraphCoverage, SqlPass
<1>2. GraphCoverage = 0 \/ SqlPass = 0 \/ SolverMissing
  BY <1>1, SMT DEF Passes
<1>3. QED
  BY <1>2 DEF Issues

-----------------------------------------------------------------------------
(* Type correctness.                                                       *)

\* Initially every variable has its type.
LEMMA TypeInit == Init => TypeOK
<1> SUFFICES ASSUME Init PROVE TypeOK
  OBVIOUS
<1>1. redis \in Answer /\ answer \in Answer
  BY CacheableIsAnswer DEF Init
<1>2. question \in Question
  BY SMT DEF Init, Question, NoQuestion, Scores
<1>3. reflection_output \in [by : Nat, agrees : BOOLEAN, confidence : Scores]
  BY SMT DEF Init, Scores
<1>4. context_notes \in SUBSET (Nat \X IssueKinds)
  BY DEF Init
<1>5. /\ refiner_output \in
           [by : Nat, requires_solver : BOOLEAN, max_retries : Nat]
      /\ cypher_context \in [by : Nat, covered : BOOLEAN]
      /\ sql_result \in [by : Nat, rows : BOOLEAN]
      /\ python_result \in [by : Nat]
      /\ validator_output \in [by : Nat, passed : BOOLEAN,
                               graph_coverage : 0..1, sql_pass : 0..1]
  BY SMT DEF Init
<1>6. node \in Nodes \cup Terminal /\ retry_count \in Nat /\ tasks \in Nat
  BY SMT DEF Init, Nodes, Terminal
<1>7. cached \in BOOLEAN
  BY Zenon DEF Init
<1>8. QED
  BY <1>1, <1>2, <1>3, <1>4, <1>5, <1>6, <1>7 DEF TypeOK

\* Every node function keeps the types: the score it computes is one, its
\* notes are about attempts, and the stores receive answers and records.
LEMMA TypeStep == TypeOK /\ [Next]_vars => TypeOK'
<1> SUFFICES ASSUME TypeOK, [Next]_vars PROVE TypeOK'
  OBVIOUS
<1> USE DEF TypeOK, Nodes, Terminal, outputs, stores
<1>1. CASE CheckCache
  BY <1>1, SMT DEF CheckCache, RouteAfterCache, Answer
<1>2. CASE Refiner
  BY <1>2, BudgetIsNat, SMT DEF Refiner, Attempt
<1>3. CASE TextToCypher
  BY <1>3, SMT DEF TextToCypher, Attempt
<1>4. CASE TextToSql
  BY <1>4, SMT DEF TextToSql, RouteAfterSql, Attempt
<1>5. CASE PythonExecutor
  BY <1>5, SMT DEF PythonExecutor, Attempt
<1>6. CASE Validator
  <2> USE DEF Validator
  <2>1. GraphCoverage \in 0..1 /\ SqlPass \in 0..1
    BY SMT DEF GraphCoverage, SqlPass
  <2>2. Passes(GraphCoverage, SqlPass) \in BOOLEAN
    BY DEF Passes
  <2>3. Issues \subseteq IssueKinds
    BY DEF Issues, IssueKinds
  <2>4. context_notes' \in SUBSET (Nat \X IssueKinds)
    <3>1. {Attempt} \X Issues \subseteq Nat \X IssueKinds
      BY <2>3, SMT DEF Attempt
    <3>2. QED BY <1>6, <3>1, Zenon
  <2>5. retry_count' \in Nat
    BY <1>6, SMT DEF RetryCountAfter
  <2>6. validator_output' \in [by : Nat, passed : BOOLEAN,
                               graph_coverage : 0..1, sql_pass : 0..1]
    BY <1>6, <2>1, <2>2, SMT DEF Attempt
  <2>7. node' \in Nodes
    BY <1>6, SMT DEF RouteAfterValidator
  <2>8. QED BY <1>6, <2>4, <2>5, <2>6, <2>7, SMT
<1>7. CASE GiveUp
  BY <1>7, SMT DEF GiveUp, Conclude, Answer, Scores, TaskWrites
<1>8. CASE Reflect
  <2>1. PICK agrees \in BOOLEAN :
          Conclude(Confidence(validator_output.graph_coverage,
                              validator_output.sql_pass,
                              IF agrees THEN 1 ELSE 0), agrees)
    BY <1>8 DEF Reflect
  <2>2. Confidence(validator_output.graph_coverage, validator_output.sql_pass,
                   IF agrees THEN 1 ELSE 0) \in Scores
    BY ScoreInRange, SMT
  <2>3. /\ answer' \in Answer
        /\ reflection_output' \in
             [by : Nat, agrees : BOOLEAN, confidence : Scores]
        /\ tasks' \in Nat
    BY <2>1, <2>2, SMT DEF Conclude, Answer, TaskWrites
  <2>4. QED BY <1>8, <2>3, SMT DEF Reflect
<1>9. CASE WriteCache
  BY <1>9, SMT DEF WriteCache
<1>10. CASE WriteCacheFails
  BY <1>10, SMT DEF WriteCacheFails
<1>11. CASE WriteQuestion
  <2>1. question' \in Question
    BY <1>11, RecordIsQuestion DEF WriteQuestion, Recorded
  <2>2. QED BY <1>11, <2>1, SMT DEF WriteQuestion
<1>12. CASE Raise
  BY <1>12, SMT DEF Raise
<1>13. CASE Ended \/ UNCHANGED vars
  BY <1>13, SMT DEF Ended, vars
<1>14. QED
  BY <1>1, <1>2, <1>3, <1>4, <1>5, <1>6, <1>7, <1>8, <1>9, <1>10, <1>11,
     <1>12, <1>13 DEF Next

\* Every variable has its type in every reachable state.
THEOREM TypeCorrect == Spec => []TypeOK
BY TypeInit, TypeStep, PTL DEF Spec

-----------------------------------------------------------------------------
(* The inductive invariant.                                                *)

\* It holds before the first node runs.
LEMMA InvInit == Init => IInv
<1> SUFFICES ASSUME Init PROVE IInv
  OBVIOUS
<1>1. TypeOK
  BY TypeInit
<1>2. FreshSoFar /\ Judged /\ Counted
  BY RetriesAssumption, SMT DEF Init, FreshSoFar, Judged, Counted, Loop, Budget
<1>3. NotYet /\ Noted /\ RetriesAreInformed
  BY SMT DEF Init, NotYet, Noted, RetriesAreInformed, Loop, NoAnswer, NoQuestion
<1>4. Closed
  BY DEF Init, Closed
<1>5. /\ VerdictMatchesConfidence /\ VerdictIsCurrent
      /\ OneTaskPerRequest /\ HistoryMatchesAnswer
  BY SMT DEF Init, VerdictMatchesConfidence, VerdictIsCurrent,
             OneTaskPerRequest, HistoryMatchesAnswer, NoAnswer, NoQuestion
<1>6. QED
  BY <1>1, <1>2, <1>3, <1>4, <1>5 DEF IInv

\* Every node function preserves it.
LEMMA InvStep == IInv /\ [Next]_vars => IInv'
<1> SUFFICES ASSUME IInv, [Next]_vars PROVE IInv'
  OBVIOUS
<1>0. TypeOK /\ TypeOK'
  BY TypeStep DEF IInv
<1>1. CASE CheckCache
  <2>1. NotYet' /\ OneTaskPerRequest'
    BY <1>0, <1>1, SMT
    DEF IInv, CheckCache, NotYet, OneTaskPerRequest, TypeOK, RouteAfterCache,
        NoAnswer, CacheableAnswers, Answer, stores, Loop
  <2>2. Closed'
    BY <1>0, <1>1, SMT
    DEF IInv, CheckCache, Closed, TypeOK, stores, NoAnswer
  <2>3. Counted'
    BY <1>0, <1>1, SMT
    DEF IInv, CheckCache, Counted, TypeOK, NotYet, RouteAfterCache, Loop,
        outputs
  <2>4. Noted' /\ RetriesAreInformed'
    BY <1>0, <1>1, SMT
    DEF IInv, CheckCache, Noted, RetriesAreInformed, TypeOK, NotYet,
        RouteAfterCache, Loop, outputs
  <2>5. FreshSoFar' /\ Judged' /\ VerdictMatchesConfidence'
      /\ VerdictIsCurrent' /\ HistoryMatchesAnswer'
    BY <1>0, <1>1, SMT
    DEF IInv, CheckCache, FreshSoFar, Judged, VerdictMatchesConfidence,
        VerdictIsCurrent, HistoryMatchesAnswer, TypeOK, NotYet,
        RouteAfterCache, Loop, stores, outputs
  <2> QED
    BY <1>0, <2>1, <2>2, <2>3, <2>4, <2>5 DEF IInv
<1>2. CASE Refiner
  <2>1. FreshSoFar' /\ Counted'
    BY <1>0, <1>2, BudgetIsNat, SMT
    DEF IInv, Refiner, FreshSoFar, Counted, TypeOK, RetryBudget, Attempt, Loop
  <2>2. Noted' /\ RetriesAreInformed'
    BY <1>0, <1>2, SMT
    DEF IInv, Refiner, Noted, RetriesAreInformed, Loop
  <2>3. Judged' /\ NotYet' /\ Closed' /\ VerdictMatchesConfidence'
      /\ VerdictIsCurrent' /\ OneTaskPerRequest' /\ HistoryMatchesAnswer'
    BY <1>0, <1>2, SMT
    DEF IInv, Refiner, Judged, NotYet, Closed, VerdictMatchesConfidence,
        VerdictIsCurrent, OneTaskPerRequest, HistoryMatchesAnswer, TypeOK,
        Loop, stores
  <2> QED
    BY <1>0, <2>1, <2>2, <2>3 DEF IInv
<1>3. CASE TextToCypher
  <2>1. FreshSoFar' /\ Counted'
    BY <1>0, <1>3, SMT
    DEF IInv, TextToCypher, FreshSoFar, Counted, TypeOK, Attempt, Loop
  <2>2. Noted' /\ RetriesAreInformed'
    BY <1>0, <1>3, SMT
    DEF IInv, TextToCypher, Noted, RetriesAreInformed, Loop
  <2>3. Judged' /\ NotYet' /\ Closed' /\ VerdictMatchesConfidence'
      /\ VerdictIsCurrent' /\ OneTaskPerRequest' /\ HistoryMatchesAnswer'
    BY <1>0, <1>3, SMT
    DEF IInv, TextToCypher, Judged, NotYet, Closed, VerdictMatchesConfidence,
        VerdictIsCurrent, OneTaskPerRequest, HistoryMatchesAnswer, TypeOK,
        Loop, stores
  <2> QED
    BY <1>0, <2>1, <2>2, <2>3 DEF IInv
<1>4. CASE TextToSql
  <2>1. FreshSoFar' /\ Counted'
    BY <1>0, <1>4, SMT
    DEF IInv, TextToSql, FreshSoFar, Counted, TypeOK, RouteAfterSql, Attempt,
        Loop
  <2>2. Noted'
    <3>1. node \in Loop /\ UNCHANGED <<retry_count, context_notes>>
      BY <1>4 DEF TextToSql, Loop
    <3>2. QED BY <3>1 DEF IInv, Noted
  <2>3. RetriesAreInformed'
    BY <1>0, <1>4, SMT
    DEF IInv, TextToSql, RetriesAreInformed, RouteAfterSql
  <2>4. Judged' /\ NotYet' /\ Closed' /\ VerdictMatchesConfidence'
      /\ VerdictIsCurrent' /\ OneTaskPerRequest' /\ HistoryMatchesAnswer'
    BY <1>0, <1>4, SMT
    DEF IInv, TextToSql, Judged, NotYet, Closed, VerdictMatchesConfidence,
        VerdictIsCurrent, OneTaskPerRequest, HistoryMatchesAnswer, TypeOK,
        RouteAfterSql, Loop, stores
  <2> QED
    BY <1>0, <2>1, <2>2, <2>3, <2>4 DEF IInv
<1>5. CASE PythonExecutor
  <2>1. FreshSoFar' /\ Counted'
    BY <1>0, <1>5, SMT
    DEF IInv, PythonExecutor, FreshSoFar, Counted, TypeOK, Attempt, Loop
  <2>2. Noted' /\ RetriesAreInformed'
    <3>1. node \in Loop /\ UNCHANGED <<retry_count, context_notes>>
      BY <1>5 DEF PythonExecutor, Loop
    <3>2. Noted'
      BY <3>1 DEF IInv, Noted
    <3>3. RetriesAreInformed'
      BY <1>0, <1>5, SMT DEF IInv, PythonExecutor, RetriesAreInformed
    <3> QED BY <3>2, <3>3
  <2>3. Judged' /\ NotYet' /\ Closed' /\ VerdictMatchesConfidence'
      /\ VerdictIsCurrent' /\ OneTaskPerRequest' /\ HistoryMatchesAnswer'
    BY <1>0, <1>5, SMT
    DEF IInv, PythonExecutor, Judged, NotYet, Closed,
        VerdictMatchesConfidence, VerdictIsCurrent, OneTaskPerRequest,
        HistoryMatchesAnswer, TypeOK, Loop, stores
  <2> QED
    BY <1>0, <2>1, <2>2, <2>3 DEF IInv
<1>6. CASE Validator
  <2>1. Judged'
    <3>1. validator_output'.passed =>
            validator_output'.graph_coverage = 1 /\ validator_output'.sql_pass = 1
      BY <1>6, SMT DEF Validator, Passes, GraphCoverage, SqlPass
    <3>2. node' = "reflection" => validator_output'.passed \/ Exhausted'
      <4>1. MaxRetries' = MaxRetries
        BY <1>6 DEF Validator, outputs, MaxRetries
      <4>2. validator_output'.by # 0 /\ validator_output'.passed \in BOOLEAN
        BY <1>0, <1>6, SMT DEF TypeOK, Validator, Attempt
      <4>3. node' = "reflection" /\ ~validator_output'.passed =>
              ~(retry_count' <= MaxRetries)
        BY <1>6, SMT DEF Validator, RouteAfterValidator
      <4>4. MaxRetries \in Nat /\ retry_count' \in Nat
        BY <1>0, RetriesAssumption, SMT DEF TypeOK, MaxRetries
      <4>5. QED
        BY <4>1, <4>2, <4>3, <4>4, SMT DEF Exhausted
    <3>3. node' \in {"refiner", "reflection"} /\ retry_count' >= 1
      BY <1>0, <1>6, SMT DEF TypeOK, Validator, RouteAfterValidator, RetryCountAfter
    <3>4. QED
      BY <3>1, <3>2, <3>3 DEF Judged
  <2>2. Counted'
    BY <1>0, <1>6, BudgetIsNat, SMT
    DEF IInv, Validator, Counted, TypeOK, FreshSoFar, RouteAfterValidator,
        RetryCountAfter, Attempt, MaxRetries, RetryBudget, Loop, outputs
  <2>3. VerdictIsCurrent'
    BY <1>0, <1>6, SMT
    DEF IInv, Validator, VerdictIsCurrent, TypeOK, FreshSoFar,
        RouteAfterValidator, RetryCountAfter, Attempt, outputs, Loop
  <2>4. Noted'
    <3>1. SUFFICES ASSUME node' = "refiner", NEW k \in 1..retry_count'
                   PROVE  \E i \in IssueKinds : <<k, i>> \in context_notes'
      BY <1>0, <1>6, SMT DEF TypeOK, Validator, RouteAfterValidator, Noted, Loop
    <3>2. CASE k = Attempt
      <4>1. PICK i \in Issues : TRUE
        BY <3>1, <1>6, <1>0, FailureHasIssue DEF Validator, RouteAfterValidator, TypeOK
      <4>2. <<k, i>> \in context_notes'
        BY <3>1, <3>2, <4>1, <1>6, Zenon DEF Validator, RouteAfterValidator
      <4>3. i \in IssueKinds
        BY <4>1 DEF Issues, IssueKinds
      <4>4. QED BY <4>2, <4>3
    <3>3. CASE k # Attempt
      <4>1. k \in 1..retry_count
        BY <3>3, <1>6, <1>0, SMT DEF Validator, RetryCountAfter, Attempt, TypeOK
      <4>2. PICK i \in IssueKinds : <<k, i>> \in context_notes
        BY <4>1, <1>6 DEF IInv, Noted, Validator, Loop
      <4>3. context_notes \subseteq context_notes'
        BY <1>6, SMT DEF Validator
      <4>4. QED BY <4>2, <4>3
    <3>4. QED BY <3>2, <3>3
  <2>5. RetriesAreInformed'
    <3>1. SUFFICES ASSUME node' = "refiner"
                   PROVE  /\ cypher_context.covered
                               \/ <<Attempt, "no_coverage">> \in context_notes'
                          /\ sql_result.rows
                               \/ <<Attempt, "no_rows">> \in context_notes'
      <4>1. retry_count' = Attempt /\ UNCHANGED outputs
        BY <1>6 DEF Validator, RetryCountAfter, Attempt
      <4>2. QED
        BY <4>1, <2>4, Zenon DEF RetriesAreInformed, Noted, Loop, outputs
    <3>2. context_notes' = context_notes \cup ({Attempt} \X Issues)
      BY <3>1, <1>6, SMT DEF Validator, RouteAfterValidator
    <3>3. /\ cypher_context.covered \/ "no_coverage" \in Issues
          /\ sql_result.rows \/ "no_rows" \in Issues
      BY SMT DEF Issues, GraphCoverage, SqlPass
    <3>4. QED BY <3>2, <3>3
  <2>6. FreshSoFar' /\ NotYet' /\ Closed' /\ VerdictMatchesConfidence'
      /\ OneTaskPerRequest' /\ HistoryMatchesAnswer'
    BY <1>0, <1>6, SMT
    DEF IInv, Validator, FreshSoFar, NotYet, Closed, VerdictMatchesConfidence,
        OneTaskPerRequest, HistoryMatchesAnswer, TypeOK, RouteAfterValidator,
        Loop, stores, outputs
  <2> QED
    BY <1>0, <2>1, <2>2, <2>3, <2>4, <2>5, <2>6 DEF IInv
<1>7. CASE GiveUp
  <2>1. VerdictMatchesConfidence' /\ OneTaskPerRequest'
    BY <1>0, <1>7, SMT
    DEF IInv, GiveUp, VerdictMatchesConfidence, OneTaskPerRequest, TypeOK,
        NotYet, Conclude, TaskWrites, Exhausted, Loop
  <2>2. Closed'
    BY <1>0, <1>7, SMT
    DEF IInv, GiveUp, Closed, NotYet, Conclude, CacheableAnswers, Answer,
        Scores, TypeOK
  <2>3. Judged'
    BY <1>0, <1>7, SMT
    DEF IInv, GiveUp, Judged, TypeOK, Conclude, outputs
  <2>4. FreshSoFar' /\ Counted' /\ NotYet' /\ Noted'
      /\ VerdictIsCurrent' /\ RetriesAreInformed' /\ HistoryMatchesAnswer'
    BY <1>0, <1>7, SMT
    DEF IInv, GiveUp, FreshSoFar, Counted, NotYet, Noted, VerdictIsCurrent,
        RetriesAreInformed, HistoryMatchesAnswer, TypeOK, Conclude, outputs,
        Loop
  <2> QED
    BY <1>0, <2>1, <2>2, <2>3, <2>4 DEF IInv
<1>8. CASE Reflect
  <2>1. VerdictMatchesConfidence' /\ OneTaskPerRequest'
    BY <1>0, <1>8, SMT
    DEF IInv, Reflect, VerdictMatchesConfidence, OneTaskPerRequest, TypeOK,
        NotYet, Judged, Conclude, LowConfidence, ConfidenceThreshold,
        Confidence
  <2>2. Closed'
    BY <1>0, <1>8, SMT
    DEF IInv, Reflect, Closed, TypeOK, NotYet, Judged, Conclude,
        LowConfidence, ConfidenceThreshold, Confidence, CacheableAnswers,
        Answer, Scores
  <2>3. Judged'
    BY <1>0, <1>8, SMT
    DEF IInv, Reflect, Judged, TypeOK, Conclude, outputs
  <2>4. FreshSoFar' /\ Counted' /\ NotYet' /\ Noted'
      /\ VerdictIsCurrent' /\ RetriesAreInformed' /\ HistoryMatchesAnswer'
    BY <1>0, <1>8, SMT
    DEF IInv, Reflect, FreshSoFar, Counted, NotYet, Noted, VerdictIsCurrent,
        RetriesAreInformed, HistoryMatchesAnswer, TypeOK, Conclude, outputs,
        Loop
  <2> QED
    BY <1>0, <2>1, <2>2, <2>3, <2>4 DEF IInv
<1>9. CASE WriteCache
  <2>1. NotYet' /\ Closed'
    BY <1>0, <1>9, SMT
    DEF IInv, WriteCache, NotYet, Closed, TypeOK, NothingToCache, Loop
  <2>2. FreshSoFar' /\ Judged' /\ Counted' /\ Noted'
      /\ VerdictMatchesConfidence' /\ VerdictIsCurrent'
      /\ RetriesAreInformed' /\ OneTaskPerRequest' /\ HistoryMatchesAnswer'
    BY <1>0, <1>9, SMT
    DEF IInv, WriteCache, FreshSoFar, Judged, Counted, Noted,
        VerdictMatchesConfidence, VerdictIsCurrent, RetriesAreInformed,
        OneTaskPerRequest, HistoryMatchesAnswer, TypeOK, NotYet, outputs, Loop
  <2> QED
    BY <1>0, <2>1, <2>2 DEF IInv
<1>10. CASE WriteCacheFails
  <2>1. NotYet' /\ Closed'
    BY <1>0, <1>10, SMT
    DEF IInv, WriteCacheFails, NotYet, Closed, TypeOK, NothingToCache, Loop
  <2>2. FreshSoFar' /\ Judged' /\ Counted' /\ Noted'
      /\ VerdictMatchesConfidence' /\ VerdictIsCurrent'
      /\ RetriesAreInformed' /\ OneTaskPerRequest' /\ HistoryMatchesAnswer'
    BY <1>0, <1>10, SMT
    DEF IInv, WriteCacheFails, FreshSoFar, Judged, Counted, Noted,
        VerdictMatchesConfidence, VerdictIsCurrent, RetriesAreInformed,
        OneTaskPerRequest, HistoryMatchesAnswer, TypeOK, NotYet, outputs, Loop
  <2> QED
    BY <1>0, <2>1, <2>2 DEF IInv
<1>11. CASE WriteQuestion
  <2>1. HistoryMatchesAnswer'
    BY <1>0, <1>11, SMT
    DEF IInv, WriteQuestion, HistoryMatchesAnswer, TypeOK, NotYet, Recorded
  <2>2. NotYet'
    BY <1>0, <1>11, SMT
    DEF IInv, WriteQuestion, NotYet, TypeOK, Loop
  <2>3. FreshSoFar' /\ Judged' /\ Counted' /\ Closed' /\ Noted'
      /\ VerdictMatchesConfidence' /\ VerdictIsCurrent'
      /\ RetriesAreInformed' /\ OneTaskPerRequest'
    BY <1>0, <1>11, SMT
    DEF IInv, WriteQuestion, FreshSoFar, Judged, Counted, Closed, Noted,
        VerdictMatchesConfidence, VerdictIsCurrent, RetriesAreInformed,
        OneTaskPerRequest, TypeOK, outputs, Loop
  <2> QED
    BY <1>0, <2>1, <2>2, <2>3 DEF IInv
<1>12. CASE Raise
  <2>1. FreshSoFar' /\ Judged' /\ Counted' /\ NotYet' /\ Closed'
      /\ Noted' /\ VerdictMatchesConfidence' /\ VerdictIsCurrent'
      /\ RetriesAreInformed' /\ OneTaskPerRequest' /\ HistoryMatchesAnswer'
    BY <1>0, <1>12, SMT
    DEF IInv, Raise, FreshSoFar, Judged, Counted, NotYet, Closed, Noted,
        VerdictMatchesConfidence, VerdictIsCurrent, RetriesAreInformed,
        OneTaskPerRequest, HistoryMatchesAnswer, TypeOK, outputs, stores, Loop
  <2> QED
    BY <1>0, <2>1 DEF IInv
<1>13. CASE Ended \/ UNCHANGED vars
  <2>1. UNCHANGED vars
    BY <1>13 DEF Ended
  <2>2. /\ FreshSoFar' /\ Judged' /\ Counted' /\ VerdictMatchesConfidence'
        /\ VerdictIsCurrent'
    BY <2>1, SMT
    DEF IInv, FreshSoFar, Judged, Counted, VerdictMatchesConfidence,
        VerdictIsCurrent, Attempt, Exhausted, MaxRetries, vars
  <2>3. NotYet' /\ Closed' /\ OneTaskPerRequest' /\ HistoryMatchesAnswer'
    BY <2>1, SMT
    DEF IInv, NotYet, Closed, OneTaskPerRequest, HistoryMatchesAnswer, vars
  <2>4. Noted' /\ RetriesAreInformed'
    BY <2>1 DEF IInv, Noted, RetriesAreInformed, vars
  <2>5. QED BY <1>0, <2>2, <2>3, <2>4 DEF IInv
<1>14. QED
  BY <1>1, <1>2, <1>3, <1>4, <1>5, <1>6, <1>7, <1>8, <1>9, <1>10, <1>11,
     <1>12, <1>13 DEF Next

\* The inductive invariant holds in every reachable state.
THEOREM Inductive == Spec => []IInv
BY InvInit, InvStep, PTL DEF Spec

-----------------------------------------------------------------------------
(* What follows for the requests.                                          *)

\* The retry budgets hold whatever mix of attempts the LLM asks for.
THEOREM BudgetsKept == Spec => []BudgetsRespected
<1>1. IInv => BudgetsRespected
  BY SMT DEF IInv, TypeOK, Counted, BudgetsRespected, RetriesBounded,
    SolverBudget, Budget, Loop
<1>2. QED
  BY <1>1, Inductive, PTL

\* A decided answer is validated with a high confidence, or it is the zero of
\* exhausted retries.
THEOREM VerdictSound == Spec => []VerdictMatchesConfidence
<1>1. IInv => VerdictMatchesConfidence
  BY DEF IInv
<1>2. QED
  BY <1>1, Inductive, PTL

\* The outputs that the verdict and the score of an answer rest on, among them
\* the solver's result if one was required, are those of the last attempt.
THEOREM VerdictFresh == Spec => []VerdictIsCurrent
<1>1. IInv => VerdictIsCurrent
  BY DEF IInv
<1>2. QED
  BY <1>1, Inductive, PTL

\* Every retried attempt is told what was wrong with the earlier ones.
THEOREM RetriesInformed == Spec => []RetriesAreInformed
<1>1. IInv => RetriesAreInformed
  BY DEF IInv
<1>2. QED
  BY <1>1, Inductive, PTL

\* The stores agree with the answer: one task at most and only for a zero,
\* a history record equal to what the cache replays, a readable cache entry.
THEOREM StoresSound == Spec => []StoresAgree
<1>1. IInv => StoresAgree
  BY DEF IInv, StoresAgree, Closed, CacheClosed
<1>2. QED
  BY <1>1, Inductive, PTL

\* A request that was served from the cache never writes.
THEOREM ReplayReadsOnly == Spec => CacheHitWritesNothing
<1>1. IInv /\ [Next]_vars => [cached => UNCHANGED stores]_vars
  <2> SUFFICES ASSUME IInv, [Next]_vars, cached PROVE UNCHANGED stores
    OBVIOUS
  <2>1. node = "END"
    BY DEF IInv, NotYet
  <2>2. Next => Ended
    BY <2>1, SMT DEF Next, CheckCache, Refiner, TextToCypher, TextToSql,
       PythonExecutor, Validator, GiveUp, Reflect, WriteCache,
       WriteCacheFails, WriteQuestion, Raise
  <2>3. QED
    BY <2>2 DEF Ended, stores, vars
<1>2. QED
  BY <1>1, Inductive, PTL DEF Spec, CacheHitWritesNothing

-----------------------------------------------------------------------------
(* Progress: a natural number gets smaller with every step.                *)

\* The measure is a natural number while the attempts are within budget.
LEMMA WorkLeftIsNat == IInv => WorkLeft \in Nat
BY BudgetIsNat, SMT
   DEF IInv, TypeOK, Counted, WorkLeft, Stage, Budget, Nodes, Terminal

\* No execution loops for ever: every step that changes the state lowers the
\* measure, and the retry edge lowers it too.
THEOREM AlwaysProgress == Spec => Progress
<1>1. ASSUME IInv, IInv', Next, vars' # vars PROVE WorkLeft' < WorkLeft
  <2>0. retry_count \in Nat /\ Budget \in Nat
    BY <1>1, BudgetIsNat DEF IInv, TypeOK
  <2> USE <2>0 DEF WorkLeft, Stage, Budget
  <2>1. CASE CheckCache
    BY <2>1, SMT DEF CheckCache, RouteAfterCache
  <2>2. CASE Refiner \/ TextToCypher
    BY <2>2, SMT DEF Refiner, TextToCypher
  <2>3. CASE TextToSql
    BY <2>3, SMT DEF TextToSql, RouteAfterSql
  <2>4. CASE PythonExecutor
    BY <2>4, SMT DEF PythonExecutor
  <2>5. CASE Validator
    BY <2>5, SMT DEF Validator, RouteAfterValidator, RetryCountAfter
  <2>6. CASE GiveUp \/ Reflect
    <3>1. node = "reflection" /\ node' = "write_cache" /\ UNCHANGED retry_count
      BY <2>6 DEF GiveUp, Reflect
    <3>2. QED
      BY <3>1, SMT
  <2>7. CASE WriteCache \/ WriteCacheFails \/ WriteQuestion
    BY <2>7, SMT DEF WriteCache, WriteCacheFails, WriteQuestion
  <2>8. CASE Raise
    BY <2>8, SMT DEF Raise
  <2>9. CASE Ended
    BY <2>9, <1>1 DEF Ended
  <2>10. QED
    BY <1>1, <2>1, <2>2, <2>3, <2>4, <2>5, <2>6, <2>7, <2>8, <2>9 DEF Next
<1>2. IInv /\ IInv' /\ [Next]_vars =>
        [WorkLeft >= 0 /\ WorkLeft' >= 0 /\ WorkLeft' < WorkLeft]_vars
  <2>1. IInv => WorkLeft >= 0
    BY WorkLeftIsNat, SMT
  <2>2. IInv' => WorkLeft' >= 0
    BY BudgetIsNat, SMT
       DEF IInv, TypeOK, Counted, WorkLeft, Stage, Budget, Nodes, Terminal
  <2>3. QED
    BY <1>1, <2>1, <2>2
<1>3. QED
  BY <1>2, Inductive, PTL DEF Spec, Progress

-----------------------------------------------------------------------------
(* The graph as a caller sees it.                                          *)

Graph == INSTANCE ChainStages

\* What QueryStream lets the graph do: a node completes and the graph takes one
\* of its edges, the retry edge at most Budget times, and the two writes are
\* those of the last two nodes; or a node raises, and a raising write may have
\* been made.
WalksGraph ==
  \/ /\ node' \in Graph!Successors(node)
     /\ node = "validator" /\ node' = "refiner" => retry_count < Budget
     /\ cached' = (cached \/ (node = "check_cache" /\ node' = "END"))
     /\ redis' = IF node = "write_cache" THEN answer ELSE redis
     /\ question' = question \/ node = "write_question"
  \/ /\ node' = "ERROR"
     /\ cached' = cached /\ question' = question
     /\ redis' = redis \/ (node = "write_cache" /\ redis' = answer)

\* No node, router or retry of the supervisor leaves the edges of _build_graph,
\* and what is written follows from the nodes that have completed: the stream
\* need not know more of the chain than its nodes.
THEOREM StagesFollowed == Spec => [][(node \in Graph!Stages) /\ WalksGraph]_vars
<1>1. ASSUME IInv, Next, vars' # vars PROVE node \in Graph!Stages /\ WalksGraph
  <2> USE <1>1
  <2>1. node \in Nodes \cup Terminal /\ ~(node \in Terminal)
    <3>1. node \in Nodes \cup Terminal
      BY DEF IInv, TypeOK
    <3>2. CASE node \in Terminal
      <4>1. node = "END" \/ node = "ERROR"
        BY <3>2 DEF Terminal
      <4>2. ~(CheckCache \/ Refiner \/ TextToCypher \/ TextToSql \/ PythonExecutor)
        BY <4>1 DEF CheckCache, Refiner, TextToCypher, TextToSql, PythonExecutor
      <4>3. ~(Validator \/ GiveUp \/ Reflect \/ WriteCache \/ WriteCacheFails)
        BY <4>1 DEF Validator, GiveUp, Reflect, WriteCache, WriteCacheFails
      <4>4. ~(WriteQuestion \/ Raise)
        BY <4>1 DEF WriteQuestion, Raise
      <4>5. Ended
        BY <4>2, <4>3, <4>4 DEF Next
      <4> QED
        BY <4>5 DEF Ended
    <3> QED
      BY <3>1, <3>2
  <2>2. node \in Graph!Stages
    BY <2>1 DEF Nodes, Graph!Stages
  <2> SUFFICES WalksGraph
    BY <2>2
  <2>3. /\ node # "END" => ~cached
        /\ node = "write_cache" => answer.set
    BY DEF IInv, NotYet
  <2>4. cached \in BOOLEAN
    BY DEF IInv, TypeOK
  <2> USE DEF Graph!Successors, stores
  <2>5. CASE CheckCache
    <3>1. redis.set \in BOOLEAN
      BY DEF IInv, TypeOK, Answer
    <3>2. /\ node = "check_cache" /\ cached' = redis.set
          /\ node' = (IF redis.set THEN "END" ELSE "refiner")
          /\ UNCHANGED <<redis, question>>
      BY <2>5 DEF CheckCache, RouteAfterCache
    <3>3. ~cached
      BY <2>3, <3>2
    <3>4. cached' = (cached \/ (node = "check_cache" /\ node' = "END"))
      <4>1. CASE redis.set
        BY <3>1, <3>2, <3>3, <4>1
      <4>2. CASE ~redis.set
        BY <3>1, <3>2, <3>3, <4>2
      <4> QED
        BY <4>1, <4>2
    <3> QED
      BY <2>2, <3>2, <3>4 DEF WalksGraph
  <2>6. ASSUME node \in {"refiner", "text_to_cypher", "text_to_sql",
                         "python_executor", "reflection"},
               node' \in Graph!Successors(node), UNCHANGED <<cached, redis, question>>
        PROVE  WalksGraph
    BY <2>4, <2>6 DEF WalksGraph
  <2>7. CASE Refiner \/ TextToCypher \/ TextToSql \/ PythonExecutor
    BY <2>6, <2>7 DEF Refiner, TextToCypher, TextToSql, RouteAfterSql,
       PythonExecutor
  <2>8. CASE Validator
    <3>1. /\ node = "validator" /\ UNCHANGED <<cached, redis, question>>
          /\ node' \in {"refiner", "reflection"}
      BY <2>8 DEF Validator, RouteAfterValidator
    <3>2. node' = "refiner" => retry_count < Budget
      <4>1. node' = "refiner" => retry_count + 1 <= MaxRetries
        BY <2>8 DEF Validator, RouteAfterValidator, RetryCountAfter
      <4>2. MaxRetries <= Budget /\ MaxRetries \in Nat /\ Budget \in Nat
        <5>1. /\ refiner_output.by # 0
              /\ refiner_output.max_retries = RetryBudget(refiner_output.requires_solver)
          BY <3>1 DEF IInv, TypeOK, FreshSoFar, Loop, Attempt
        <5> QED
          BY <5>1, RetriesAssumption DEF MaxRetries, RetryBudget, Budget
      <4>3. retry_count \in Nat
        BY DEF IInv, TypeOK
      <4> QED
        BY <4>1, <4>2, <4>3
    <3> QED
      BY <2>4, <3>1, <3>2 DEF WalksGraph
  <2>9. CASE GiveUp \/ Reflect
    BY <2>6, <2>9 DEF GiveUp, Reflect
  <2>10. CASE WriteCache
    <3>1. node = "write_cache" /\ ~NothingToCache
      BY <2>3, <2>10 DEF WriteCache, NothingToCache
    <3> QED
      BY <2>4, <2>10, <3>1 DEF WriteCache, WalksGraph
  <2>11. CASE WriteQuestion
    BY <2>4, <2>11 DEF WriteQuestion, WalksGraph
  <2>12. CASE WriteCacheFails
    BY <2>12 DEF WriteCacheFails, WalksGraph
  <2>13. CASE Raise
    BY <2>13 DEF Raise, WalksGraph
  <2>14. CASE Ended
    BY <2>1, <2>14 DEF Ended
  <2> QED
    BY <2>2, <2>5, <2>7, <2>8, <2>9, <2>10, <2>11, <2>12, <2>13, <2>14 DEF Next
<1>2. IInv /\ [Next]_vars => [(node \in Graph!Stages) /\ WalksGraph]_vars
  BY <1>1
<1>3. QED
  BY <1>2, Inductive, PTL DEF Spec

-----------------------------------------------------------------------------
(* Refinement.                                                             *)

\* The contract's own Answers module defines the same answers and records.
LEMMA SameAnswers ==
  /\ Contract!NoAnswer = NoAnswer
  /\ Contract!CacheableAnswers = CacheableAnswers
  /\ Contract!NoQuestion = NoQuestion
  /\ \A a : Contract!QuestionOf(a) = QuestionOf(a)
BY DEF NoAnswer, CacheableAnswers, NoQuestion, QuestionOf, Answer, Scores,
       LowConfidence, ConfidenceThreshold,
       Contract!NoAnswer, Contract!CacheableAnswers, Contract!NoQuestion,
       Contract!QuestionOf, Contract!Answer, Contract!Scores,
       Contract!LowConfidence, Contract!ConfidenceThreshold

\* The chain's initial states are initial states of the contract.
LEMMA ContractInit == Init => Contract!Init
<1>1. node = "check_cache" => Phase = "open"
  BY DEF Phase
<1>2. QED
  BY <1>1, SameAnswers DEF Init, Contract!Init

\* Every node function is one step of the contract, or none that it sees.
LEMMA ContractStep == IInv /\ IInv' /\ [Next]_vars => [Contract!Next]_Contract!vars
<1> SUFFICES ASSUME IInv, IInv', [Next]_vars
             PROVE  Contract!Next \/ UNCHANGED Contract!vars
  OBVIOUS
<1> USE DEF Phase, Contract!Next, Contract!vars, stores
<1>0. TypeOK /\ NotYet /\ Judged /\ Closed'
  BY DEF IInv
<1>1. CASE CheckCache
  BY <1>0, <1>1, SMT DEF CheckCache, RouteAfterCache, Contract!Replay, NotYet
<1>2. CASE Refiner \/ TextToCypher \/ PythonExecutor
  BY <1>2, SMT DEF Refiner, TextToCypher, PythonExecutor
<1>3. CASE TextToSql
  BY <1>3, SMT DEF TextToSql, RouteAfterSql
<1>4. CASE Validator
  BY <1>4, SMT DEF Validator, RouteAfterValidator
<1>5. CASE GiveUp
  <2>1. /\ tasks' \in {0, 1}
        /\ answer'.set /\ answer'.confidence = 0
        /\ answer'.task => tasks' = 1
    <3>1. PICK write \in TaskWrites \cup {"not_needed"} :
            /\ tasks' = tasks + (IF write \in {"written", "lost"} THEN 1 ELSE 0)
            /\ answer' = [set |-> TRUE, confidence |-> 0,
                          task |-> write = "written"]
      BY <1>5, Zenon DEF GiveUp, Conclude
    <3>2. tasks = 0
      BY <1>0, <1>5 DEF GiveUp, NotYet
    <3>3. CASE write = "written"
      BY <3>1, <3>2, <3>3, SMT
    <3>4. CASE write # "written"
      <4>1. answer'.set /\ answer'.confidence = 0 /\ ~answer'.task
        BY <3>1, <3>4
      <4>2. tasks' \in {0, 1}
        BY <3>1, <3>2, SMT
      <4>3. QED BY <4>1, <4>2
    <3>5. QED
      BY <3>3, <3>4
  <2>2. answer' \in CacheableAnswers
    BY <1>0, <2>1, SMT DEF Closed, NoAnswer
  <2>3. /\ Phase = "open" /\ Phase' = "decided" /\ ~redis.set
        /\ UNCHANGED <<redis, question>>
    BY <1>0, <1>5 DEF GiveUp, NotYet
  <2>4. QED
    BY <2>1, <2>2, <2>3, SameAnswers, Zenon DEF Contract!DecideGaveUp
<1>6. CASE Reflect
  <2>1. /\ answer'.set /\ answer'.confidence \in {8, 10}
        /\ tasks' = tasks
    BY <1>0, <1>6, SMT DEF Reflect, Conclude, Judged, Confidence,
       LowConfidence, ConfidenceThreshold, TypeOK
  <2>2. answer' \in CacheableAnswers
    BY <1>0, <2>1, SMT DEF Closed, NoAnswer
  <2>3. /\ Phase = "open" /\ Phase' = "decided" /\ ~redis.set
        /\ UNCHANGED <<redis, question>>
    BY <1>0, <1>6 DEF Reflect, NotYet
  <2>4. QED
    BY <2>1, <2>2, <2>3, SameAnswers, Zenon DEF Contract!DecideValidated
<1>7. CASE WriteCache
  BY <1>0, <1>7, SMT DEF WriteCache, NothingToCache, Contract!Publish, NotYet
<1>8. CASE WriteCacheFails
  BY <1>8, SMT DEF WriteCacheFails, Contract!Fail
<1>9. CASE WriteQuestion
  <2>1. question' \in {question, QuestionOf(answer)}
    BY <1>9, Zenon DEF WriteQuestion, Recorded
  <2>2. QED
    BY <1>9, <2>1, SameAnswers DEF WriteQuestion, Contract!Record
<1>10. CASE Raise
  BY <1>10, SMT DEF Raise, Contract!Fail
<1>11. CASE Ended \/ UNCHANGED vars
  BY <1>11, SMT DEF Ended, vars
<1>12. QED
  BY <1>1, <1>2, <1>3, <1>4, <1>5, <1>6, <1>7, <1>8, <1>9, <1>10, <1>11
     DEF Next

\* The chain implements the safety part of the contract.
THEOREM ContractRefined == Spec => Contract!Spec
<1>1. Init => Contract!Init
  BY ContractInit
<1>2. IInv /\ IInv' /\ [Next]_vars => [Contract!Next]_Contract!vars
  BY ContractStep
<1>3. QED
  BY <1>1, <1>2, Inductive, PTL DEF Spec, Contract!Spec
=============================================================================
