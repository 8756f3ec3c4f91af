------------------------------ MODULE AgentChain ------------------------------
(***************************************************************************)
(* One request through the agent graph of agents/supervisor.py: the cache  *)
(* lookup, the retry loop refiner -> text_to_cypher -> text_to_sql ->      *)
(* [python_executor] -> validator, the reflection that decides the answer, *)
(* and the two writes that publish it.  One action is one node function    *)
(* together with the routing function that picks the next node.            *)
(*                                                                         *)
(* A node's output is a record.  Its field "by" is the attempt (1, 2, ...) *)
(* that produced it; 0 is a key that AgentState does not have yet.  Nodes  *)
(* overwrite their output in AgentState and never remove it, so the fields *)
(* "by" of two outputs may differ.                                         *)
(***************************************************************************)
EXTENDS Answers, Integers

CONSTANTS
  SolverRetries,   \* max_retries of an attempt that needs the solver
  PlainRetries     \* max_retries of the other attempts, and the default

ASSUME RetriesAssumption == SolverRetries \in Nat /\ PlainRetries \in Nat

VARIABLES
  node,              \* the node that runs next, "END", or "ERROR": it raised
  refiner_output, cypher_context, sql_result, python_result,
  validator_output, reflection_output,
  retry_count, context_notes, answer, cached,   \* the rest of AgentState
  redis,             \* the entry of this request's key; NoAnswer on a miss
  tasks,             \* how many EnrichmentTask nodes the request created
  question           \* the Question node with this request's id

outputs == << refiner_output, cypher_context, sql_result, python_result >>
stores  == << redis, tasks, question >>
vars == << node, refiner_output, cypher_context, sql_result, python_result,
           validator_output, reflection_output, retry_count, context_notes,
           answer, cached, redis, tasks, question >>

Terminal == {"END", "ERROR"}
Nodes == {"check_cache", "refiner", "text_to_cypher", "text_to_sql",
          "python_executor", "validator", "reflection", "write_cache",
          "write_question"}

IssueKinds == {"no_coverage", "no_rows", "no_solver_result"}

\* The attempt that runs now, or that starts if the refiner is next.
Attempt == retry_count + 1

-----------------------------------------------------------------------------
(* Routing and the retry budget.                                           *)

RouteAfterCache(hit) == IF hit THEN "END" ELSE "refiner"

\* As RouteAfterSql, but the solver runs on the first attempt only.
RouteAfterSqlOnce ==
  IF refiner_output.requires_solver /\ retry_count = 0
  THEN "python_executor" ELSE "validator"

RouteAfterSql ==
  IF refiner_output.by # 0 /\ refiner_output.requires_solver
  THEN "python_executor" ELSE "validator"

\* As RetryBudget, but solver attempts get the budget of plain ones.
RetryBudgetFlat(requires_solver) == PlainRetries

RetryBudget(requires_solver) ==
  IF requires_solver THEN SolverRetries ELSE PlainRetries

MaxRetries ==
  IF refiner_output.by # 0 THEN refiner_output.max_retries ELSE PlainRetries

\* As RouteAfterValidator, but reflection is asked on a budget that is one
\* smaller than the one reflection_node compares with.
RouteAfterValidatorStrict(passed, count) ==
  IF ~passed /\ count < MaxRetries THEN "refiner" ELSE "reflection"

RouteAfterValidator(passed, count) ==
  IF ~passed /\ count <= MaxRetries THEN "refiner" ELSE "reflection"

-----------------------------------------------------------------------------
Init ==
  /\ node = "check_cache"
  /\ refiner_output = [by |-> 0, requires_solver |-> FALSE, max_retries |-> 0]
  /\ cypher_context = [by |-> 0, covered |-> FALSE]
  /\ sql_result = [by |-> 0, rows |-> FALSE]
  /\ python_result = [by |-> 0]
  /\ validator_output = [by |-> 0, passed |-> FALSE,
                         graph_coverage |-> 0, sql_pass |-> 0]
  /\ reflection_output = [by |-> 0, agrees |-> FALSE, confidence |-> 0]
  /\ retry_count = 0
  /\ context_notes = {}
  /\ answer = NoAnswer
  /\ cached = FALSE
  /\ redis \in {NoAnswer} \cup CacheableAnswers
  /\ tasks = 0
  /\ question = NoQuestion

(* Redis answers: a hit becomes the answer and ends the request.           *)
CheckCache ==
  /\ node = "check_cache"
  /\ cached' = redis.set
  /\ answer' = IF redis.set THEN redis ELSE answer
  /\ node' = RouteAfterCache(redis.set)
  /\ UNCHANGED << outputs, validator_output, reflection_output, retry_count,
                  context_notes, stores >>

(* The LLM decides whether this attempt needs the solver.                  *)
Refiner ==
  /\ node = "refiner"
  /\ \E solver \in BOOLEAN :
       refiner_output' = [by |-> Attempt, requires_solver |-> solver,
                          max_retries |-> RetryBudget(solver)]
  /\ node' = "text_to_cypher"
  /\ UNCHANGED << cypher_context, sql_result, python_result, validator_output,
                  reflection_output, retry_count, context_notes, answer,
                  cached, stores >>

(* covered: the context holds a BusinessRule or a KnownAnomaly.            *)
TextToCypher ==
  /\ node = "text_to_cypher"
  /\ \E covered \in BOOLEAN :
       cypher_context' = [by |-> Attempt, covered |-> covered]
  /\ node' = "text_to_sql"
  /\ UNCHANGED << refiner_output, sql_result, python_result, validator_output,
                  reflection_output, retry_count, context_notes, answer,
                  cached, stores >>

(* rows: the generated query returned at least one row.                    *)
TextToSql ==
  /\ node = "text_to_sql"
  /\ \E rows \in BOOLEAN : sql_result' = [by |-> Attempt, rows |-> rows]
  /\ node' = RouteAfterSql
  /\ UNCHANGED << refiner_output, cypher_context, python_result,
                  validator_output, reflection_output, retry_count,
                  context_notes, answer, cached, stores >>

PythonExecutor ==
  /\ node = "python_executor"
  /\ python_result' = [by |-> Attempt]
  /\ node' = "validator"
  /\ UNCHANGED << refiner_output, cypher_context, sql_result,
                  validator_output, reflection_output, retry_count,
                  context_notes, answer, cached, stores >>

-----------------------------------------------------------------------------
(* The validator: what it knows, what it demands.                          *)

SolverMissing == refiner_output.requires_solver /\ python_result.by = 0

GraphCoverage == IF cypher_context.covered THEN 1 ELSE 0

SqlPass == IF sql_result.by # 0 /\ sql_result.rows THEN 1 ELSE 0

\* 0.4 graph_coverage + 0.4 sql_pass >= 0.5, and the solver ran if required.
Passes(graph_coverage, sql_pass) ==
  /\ 4 * graph_coverage + 4 * sql_pass >= 5
  /\ ~SolverMissing

\* As Issues, but an empty result set is not reported to the refiner.
IssuesWithoutRows ==
  {i \in {"no_coverage"} : GraphCoverage = 0}
    \cup {i \in {"no_solver_result"} : SolverMissing}

Issues ==
  {i \in {"no_coverage"} : GraphCoverage = 0}
    \cup {i \in {"no_rows"} : SqlPass = 0}
    \cup {i \in {"no_solver_result"} : SolverMissing}

RetryCountAfter(passed) == retry_count + 1

Validator ==
  /\ node = "validator"
  /\ LET passed == Passes(GraphCoverage, SqlPass)
         count == RetryCountAfter(passed)
     IN /\ validator_output' = [by |-> Attempt, passed |-> passed,
                                graph_coverage |-> GraphCoverage,
                                sql_pass |-> SqlPass]
        /\ retry_count' = count
        /\ context_notes' =
             IF passed THEN context_notes
                       ELSE context_notes \cup ({Attempt} \X Issues)
        /\ node' = RouteAfterValidator(passed, count)
  /\ UNCHANGED << outputs, reflection_output, answer, cached, stores >>

-----------------------------------------------------------------------------
(* The reflection: a score, an answer, and a task if the score is low.     *)

Exhausted ==
  /\ validator_output.by # 0
  /\ ~validator_output.passed
  /\ retry_count > MaxRetries

\* What comes of _write_enrichment_task: the node and its id; the node, but
\* the answer that carries its id is lost; nothing.  The last two return None.
TaskWrites == {"written", "lost", "failed"}

\* As Conclude, but a task is written for every answer that is not perfect.
ConcludeEager(score, agrees) ==
  \E write \in IF score < 10 THEN TaskWrites ELSE {"not_needed"} :
    /\ tasks' = tasks + (IF write \in {"written", "lost"} THEN 1 ELSE 0)
    /\ answer' = [set |-> TRUE, confidence |-> score,
                  task |-> write = "written"]
    /\ reflection_output' = [by |-> retry_count, agrees |-> agrees,
                             confidence |-> score]

Conclude(score, agrees) ==
  \E write \in IF LowConfidence(score) THEN TaskWrites ELSE {"not_needed"} :
    /\ tasks' = tasks + (IF write \in {"written", "lost"} THEN 1 ELSE 0)
    /\ answer' = [set |-> TRUE, confidence |-> score,
                  task |-> write = "written"]
    /\ reflection_output' = [by |-> retry_count, agrees |-> agrees,
                             confidence |-> score]

(* The retries are exhausted: no LLM call, score 0.                        *)
GiveUp ==
  /\ node = "reflection"
  /\ Exhausted
  /\ Conclude(0, FALSE)
  /\ node' = "write_cache"
  /\ UNCHANGED << outputs, validator_output, retry_count, context_notes,
                  cached, redis, question >>

(* The LLM judges whether the evidence addresses the question.             *)
Reflect ==
  /\ node = "reflection"
  /\ ~Exhausted
  /\ \E agrees \in BOOLEAN :
       Conclude(Confidence(validator_output.graph_coverage,
                           validator_output.sql_pass,
                           IF agrees THEN 1 ELSE 0), agrees)
  /\ node' = "write_cache"
  /\ UNCHANGED << outputs, validator_output, retry_count, context_notes,
                  cached, redis, question >>

-----------------------------------------------------------------------------
(* The two writes, and the exceptions.                                     *)

\* As NothingToCache, but answers of low confidence are not published.
NothingToCacheIfLow == cached \/ ~answer.set \/ LowConfidence(answer.confidence)

NothingToCache == cached \/ ~answer.set

WriteCache ==
  /\ node = "write_cache"
  /\ redis' = IF NothingToCache THEN redis ELSE answer
  /\ node' = "write_question"
  /\ UNCHANGED << outputs, validator_output, reflection_output, retry_count,
                  context_notes, answer, cached, tasks, question >>

(* setex raises: Redis may have stored the entry or not.                   *)
WriteCacheFails ==
  /\ node = "write_cache"
  /\ ~NothingToCache
  /\ redis' \in {redis, answer}
  /\ node' = "ERROR"
  /\ UNCHANGED << outputs, validator_output, reflection_output, retry_count,
                  context_notes, answer, cached, tasks, question >>

\* As Recorded, but the score is taken from the validator alone.
RecordedValidatorScore ==
  QuestionOf([answer EXCEPT !.confidence =
    Confidence(validator_output.graph_coverage, validator_output.sql_pass, 0)])

Recorded == QuestionOf(answer)

(* MERGE creates the node or finds it; a failed write is swallowed.        *)
WriteQuestion ==
  /\ node = "write_question"
  /\ \/ question' = IF cached \/ reflection_output.by = 0 \/ question.set
                    THEN question ELSE Recorded
     \/ question' = question
  /\ node' = "END"
  /\ UNCHANGED << outputs, validator_output, reflection_output, retry_count,
                  context_notes, answer, cached, redis, tasks >>

(* A call of a node raises and nothing catches it: Redis, Neo4j, the LLM,  *)
(* the data lake, the solver.  The validator and the exhausted reflection  *)
(* have no such call.                                                      *)
Raise ==
  /\ \/ node \in {"check_cache", "refiner", "text_to_cypher", "text_to_sql",
                  "python_executor"}
     \/ node = "reflection" /\ ~Exhausted
  /\ node' = "ERROR"
  /\ UNCHANGED << outputs, validator_output, reflection_output, retry_count,
                  context_notes, answer, cached, stores >>

(* The request has ended.                                                  *)
Ended ==
  /\ node \in Terminal
  /\ UNCHANGED vars

Next ==
  \/ CheckCache \/ Refiner \/ TextToCypher \/ TextToSql \/ PythonExecutor
  \/ Validator \/ GiveUp \/ Reflect
  \/ WriteCache \/ WriteCacheFails \/ WriteQuestion
  \/ Raise \/ Ended

Spec == Init /\ [][Next]_vars

\* Every awaited call returns or raises, so the graph keeps stepping.
FairSpec == Spec /\ WF_vars(Next)

-----------------------------------------------------------------------------
(* Properties.                                                             *)

\* The values the variables take: the node outputs, the rest of AgentState
\* and the three stores; scores stay within 0.0 and 1.0.
TypeOK ==
  /\ node \in Nodes \cup Terminal
  /\ refiner_output \in
       [by : Nat, requires_solver : BOOLEAN, max_retries : Nat]
  /\ cypher_context \in [by : Nat, covered : BOOLEAN]
  /\ sql_result \in [by : Nat, rows : BOOLEAN]
  /\ python_result \in [by : Nat]
  /\ validator_output \in [by : Nat, passed : BOOLEAN,
                           graph_coverage : 0..1, sql_pass : 0..1]
  /\ reflection_output \in [by : Nat, agrees : BOOLEAN, confidence : Scores]
  /\ retry_count \in Nat
  /\ context_notes \in SUBSET (Nat \X IssueKinds)
  /\ answer \in Answer
  /\ cached \in BOOLEAN
  /\ redis \in Answer
  /\ tasks \in Nat
  /\ question \in Question

\* Whatever mix of solver and plain attempts the LLM asks for, a request
\* runs at most one attempt more than the larger budget: max_retries is that
\* of the latest attempt, so the budget itself changes between attempts.
RetriesBounded ==
  LET budget == IF SolverRetries >= PlainRetries THEN SolverRetries
                                                 ELSE PlainRetries
  IN /\ retry_count <= budget + 1
     /\ node = "refiner" => retry_count <= budget

\* The solver (up to 30 s each) runs at most SolverRetries + 1 times in a
\* request: when it is about to run again, its previous run belongs to one of
\* the first SolverRetries attempts, also if plain attempts lie in between.
SolverBudget ==
  node = "python_executor" => python_result.by <= SolverRetries

\* The budgets of attempts and of solver runs are respected.
BudgetsRespected == RetriesBounded /\ SolverBudget

\* An answer the chain decides is either validated, with a confidence the
\* caller is not warned about, or the zero of exhausted retries: the routing
\* after the validator and the test in reflection_node agree on which.
VerdictMatchesConfidence ==
  answer.set /\ ~cached =>
    IF validator_output.passed THEN ~LowConfidence(answer.confidence)
                               ELSE answer.confidence = 0

\* The verdict and the score of an answer rest on the outputs of the last
\* attempt and not on what an earlier one left in AgentState: the context, the
\* rows, and the solver's result if this attempt required the solver.  It says
\* nothing of a solver's result that the last attempt did not require: the
\* validator ignores it, but reflection_node shows it to the verifier.
VerdictIsCurrent ==
  node \in {"reflection", "write_cache", "write_question"} =>
    /\ refiner_output.by = retry_count
    /\ cypher_context.by = retry_count
    /\ sql_result.by = retry_count
    /\ validator_output.by = retry_count
    /\ refiner_output.requires_solver => python_result.by = retry_count

\* A retried refiner reads a note for each thing that was wrong with the
\* attempt before it, and at least one note of every earlier attempt.
RetriesAreInformed ==
  node = "refiner" =>
    /\ \A k \in 1..retry_count :
         \E i \in IssueKinds : <<k, i>> \in context_notes
    /\ retry_count > 0 =>
         /\ ~cypher_context.covered =>
              <<retry_count, "no_coverage">> \in context_notes
         /\ ~sql_result.rows => <<retry_count, "no_rows">> \in context_notes

\* A request creates at most one EnrichmentTask, only for an answer of
\* confidence 0, and a task id it returns is the id of a task it created.
OneTaskPerRequest ==
  /\ tasks <= 1
  /\ tasks = 1 => answer.set /\ answer.confidence = 0
  /\ answer.task /\ ~cached => tasks = 1

\* A Question node that a request leaves in the history is a faithful record
\* of the answer which the cache replays to the next caller.
HistoryMatchesAnswer ==
  question.set =>
    /\ node = "END"
    /\ redis = answer
    /\ question = QuestionOf(redis)

\* What a request leaves in Redis can be read back as an answer by the next
\* one: a low confidence there is the zero of exhausted retries, and only
\* such an answer carries a task.
CacheClosed == redis \in {NoAnswer} \cup CacheableAnswers

\* The three stores agree with one another and with the answer.
StoresAgree == OneTaskPerRequest /\ HistoryMatchesAnswer /\ CacheClosed

\* A request served from the cache writes to no store, at any later step.
CacheHitWritesNothing == [][cached => UNCHANGED stores]_vars

\* Stages still ahead within an attempt.
Stage ==
  CASE node = "check_cache"     -> 9
    [] node = "refiner"         -> 8
    [] node = "text_to_cypher"  -> 7
    [] node = "text_to_sql"     -> 6
    [] node = "python_executor" -> 5
    [] node = "validator"       -> 4
    [] node = "reflection"      -> 3
    [] node = "write_cache"     -> 2
    [] node = "write_question"  -> 1
    [] OTHER                    -> 0

\* A measure of the work ahead: 10 for each attempt the larger budget has
\* left, and the stages of the current one.
WorkLeft ==
  10 * ((IF SolverRetries >= PlainRetries THEN SolverRetries ELSE PlainRetries)
          + 1 - retry_count) + Stage

\* No step, a retry included, leaves as much work ahead as there was before,
\* and the measure never gets below zero: the graph cannot loop for ever.
Progress == [][WorkLeft >= 0 /\ WorkLeft' >= 0 /\ WorkLeft' < WorkLeft]_vars

-----------------------------------------------------------------------------
(* The contract the chain keeps with its caller: AnswerContract knows one  *)
(* decision, its publication and its record, and nothing of the nodes, the *)
(* attempts and the evidence.                                              *)

Phase == CASE node = "write_cache"    -> "decided"
           [] node = "write_question" -> "published"
           [] node = "END"            -> "ended"
           [] node = "ERROR"          -> "failed"
           [] OTHER                   -> "open"

Contract == INSTANCE AnswerContract
              WITH phase <- Phase, cache <- redis, history <- question

\* The chain implements the contract, liveness included: however the attempts
\* go, a request takes one decision and publishes that decision before it
\* records it, or replays a cached one, or fails, and it does one of these.
ContractKept == Contract!FairSpec
=============================================================================
