# A verification project for financial-KDAF

financial-KDAF answers the questions of a CFO office. A request runs through a
graph of LLM agents that consult a knowledge graph (Neo4j) and a data lake
(Snowflake, PostgreSQL or Redshift), scores its own answer, caches it in Redis
and records it in Neo4j. An answer of low confidence becomes a task for a human
expert, who enriches the knowledge graph. This directory holds TLA+ modules
that model the parts of the system where order, failure and concurrency matter,
TLC configurations that check them, and theorems that TLAPS checks.

All paths below are relative to the repository; `fa/` stands for
`finance_analytics/`.

## 1. Inventory

| Component | State it keeps | Operations | Where it is hard | What makes it correct |
|---|---|---|---|---|
| Agent graph, `fa/agents/supervisor.py` | `AgentState`, one per request | `check_cache`, `write_cache`, `write_question`, four routing functions, `run_query`, `run_query_stream` | a cycle whose budget is recomputed by each attempt; outputs of earlier attempts stay in the state; exceptions between two writes | bounded attempts, judgement by the last attempt, one answer published then recorded |
| Agents, `fa/agents/*.py` | keys of `AgentState` | refiner, text_to_cypher, text_to_sql, python_executor, validator, reflection | the test of exhaustion in the reflection must be the complement of the retry route | confidence and verdict agree; retries are told what was wrong; one task at most |
| Query API, `fa/api/routes.py` | none | `POST /query`, `POST /query/stream`, `GET /history` | fields that a cache hit does not have; listing and total are two reads | the response is the answer that was decided |
| Query cache, `fa/tools/cache_key.py`, `fa/connectors/redis.py` | Redis: key -> answer, 300 s | get, setex | requests that miss together; roles that change; a key that joins question and roles; expiry | never an answer of another user, role set or question |
| Question history, `supervisor.py:73-127` | `Question` nodes in Neo4j | MERGE with a window id, list | retries and races across the window; swallowed failures | one truthful node per id, never rewritten |
| Enrichment tasks, `routes.py:158-264`, `reflection.py:43-81` | `EnrichmentTask` nodes | create (reflection), report (MERGE), list with a total | a report repeated, across a window or after the task was resolved; two reads that see two stores | a report is one task; nothing of a task is lost |
| KG context, `fa/execution/cypher.py`, `fa/tools/kg_cache.py` | Redis: kg key -> context, 300 s | fetch (cache first, three reads) | three reads of a changing graph cached as one; invalidation; a key that joins terms and roles | roles are respected; a context is what the graph said |
| Solver process, `fa/execution/python_executor.py`, `_sandbox_harness.py` | a child process | spawn, communicate, time out, kill | time-out against exit; cancellation | no child outlives its request; a result is that of the code |
| Snowflake pool, `fa/connectors/snowflake.py:94-175` | a bounded queue of connections, shared by threads | create, acquire, release, execute, close | close while threads hold or await connections; partial creation | no connection shared by two; none leaked or used after close |
| Other connectors, `fa/connectors/{postgres,redshift,factory,base}.py` | a pool of asyncpg | initialize, execute, close | the library's | the factory picks one of the three |
| Lifespan, `fa/main.py`, `fa/connectors/__init__.py` | three module globals | startup, shutdown, getters | failure between two steps | what was opened is closed |
| Schema ingestion, `fa/tools/ingest_schema.py` | the graph's schema nodes | MERGE in batches: tables, columns, edges | stopped in between, run again, two runs at once on a MERGE without constraints | what a run says is done is there; rerunning doubles nothing and leaves current values |
| Authentication, `fa/api/auth.py`, `auth_token.py` | none; a JWT carries roles and an expiry | login, refresh, validate | roles in a token outlive a change | no role beyond those at login; expiry |
| Chat relay, `frontend/src/app/api/chat/route.ts` | a buffer of bytes | read a chunk, split, forward | events cut anywhere; a connection that ends, breaks or is left | the browser is told what the backend said, and is not left waiting |
| Enrichment pages, `frontend/src/app/enrichment/**` | lists and forms in the browser | load with a filter, submit in two calls | answers that overtake each other; failure between the calls | what is shown is true; a task is resolved only after its write-back |
| Login pages, `AuthGuard.tsx`, `login/page.tsx` | a token in the browser | login, redirect | the browser knows only that there is a token | nobody is shown tasks long after losing the role |
| SQL guard, `fa/execution/sql.py` | none | one regular expression | none | - |
| Chat UI, LLM factory, configuration, seed data | none | - | none | - |

### How the components interact

`POST /query` authenticates the caller (`auth.py` takes user and roles from the
token) and awaits `run_query`, which builds an `AgentState` and runs the graph:

    check_cache --hit--> END
        | miss
        v
    refiner -> text_to_cypher -> text_to_sql -+------------------> validator
        ^                                     +-> python_executor -> |
        |                                                            |
        +------------- failed, retries left -------------------------+
                                                                     | passed or exhausted
                                         END <- write_question <- write_cache <- reflection

The agents call the LLM, the KG context (Redis, then Neo4j), the data lake and
the solver process. The graph of one request is sequential. Requests run
concurrently on one event loop, and several server processes may run; they
share Redis (both caches) and Neo4j (history, tasks, graph), and the Snowflake
pool is shared by the threads of the executor.

The relay of the web application reads `POST /query/stream`, whose events
`run_query_stream` yields after each node of the same graph, and writes message
parts for the browser. The pages of the knowledge engineers call the task
endpoints with the token that the login page got from `/auth/token`. A
command-line tool, `ingest_schema`, fills the schema part of the graph, from
outside the server and at any time.

## 2. Modules

| Module | Models | Built on |
|---|---|---|
| `Answers` | the answer dict, the weights and threshold of the confidence score, the Question record | |
| `AnswerContract` | abstract: what a request promises (replay, or decide - publish - record, or fail) | `Answers` |
| `AgentChain` | the agent graph and all its nodes for one request, with exceptions | `Answers`, instance of `AnswerContract` |
| `QueryService` | concurrent requests on the shared cache and history, with time | `Answers` |
| `MCQueryService` | its instance, and one refuted statement about the history | `QueryService` |
| `ChainStages` | the nodes of the agent graph and its edges | |
| `StreamContract` | abstract: stages in the order of the graph, then one outcome | `ChainStages` |
| `QueryStream` | a streamed question: backend, connection, relay | `ChainStages`, instance of `StreamContract` |
| `KgContext` | concurrent `fetch_kg_context` calls, their cache and a changing graph | |
| `MCKgContext` | its instance, and one refuted statement about the roles | `KgContext` |
| `SolverProcess` | `execute_solver` and the child process it runs | |
| `MCSolverProcess` | its instance | `SolverProcess` |
| `ConnectionLeases` | abstract: a pool leases a connection to one thread at a time | |
| `SnowflakePool` | the pool of `snowflake.py` and the threads that use and close it | instance of `ConnectionLeases` |
| `Lifespan` | start-up and shutdown of a backend process, call by call | |
| `Session` | the user store of the processes, the tokens they issue, the browser that keeps one | `Lifespan` |
| `MCSession` | its instance | `Session` |
| `EnrichmentTasks` | the task nodes, reports of gaps and the list endpoint | |
| `EnrichmentPages` | the pages of the knowledge engineers in front of them | `EnrichmentTasks` |
| `MCEnrichment` | its instance, and one refuted statement about the filters | `EnrichmentPages` |
| `IngestSchema` | runs of the schema ingestion on a changing warehouse | |
| `MCIngestSchema` | its instance | `IngestSchema` |
| `AgentChainProofs`, `QueryServiceProofs`, `QueryStreamProofs`, `SnowflakePoolProofs`, `SessionProofs`, `EnrichmentProofs`, `IngestSchemaProofs` | theorems | the module they are named for (`EnrichmentProofs`: `EnrichmentPages`; `AgentChainProofs` has an instance of `ChainStages`, too) |
| `ExecutionProofs` | theorems about the package `execution` | `KgContext`, `SolverProcess` |

### AgentChain and the code

One action is one node function together with the routing function that picks
the next node, because LangGraph applies a node's update and evaluates the
conditional edge in the same super-step. `node` is the node that runs next.
The other variables are the keys of `AgentState` (`refiner_output`,
`cypher_context`, `sql_result`, `python_result`, `validator_output`,
`reflection_output`, `retry_count`, `context_notes`, `answer`, `cached`) and
three stores as far as this request sees them: `redis` (the entry under its
key), `tasks` (nodes it created), `question` (the node with its id).

* The LLM and the databases are free choices: whether the solver is required,
  whether a rule or an anomaly came back, whether the query had rows, whether
  the verifier agrees. Prompts and texts are left out.
* An output carries `by`, the attempt that produced it. The code has no such
  field; it makes it visible that AgentState keeps old outputs. `by = 0` stands
  for a key that AgentState does not have yet.
* `context_notes` is a set of pairs of attempt and kind of issue. The code
  keeps a list; order and wording decide nothing.
* Scores are in tenths, so the comparison with 0.5 and 0.7 is exact.
* `max_retries` is 1 with the solver and 2 without (`refiner.py:79`); the model
  has them as constants `SolverRetries` and `PlainRetries`.
* `Raise` is an exception in a call that no node catches; `WriteCacheFails` is
  the failing `setex`, which may have stored the entry; a failing write of the
  task or of the Question node is swallowed, as in the code.
* Initially Redis may hold any answer that a request can leave there, a claim
  that `StoresAgree` closes: what a request leaves there is readable, too.
* The entry does not expire within one request here; `QueryService` has expiry.

`reflection.py:162-167` writes a task when a validated answer is of low
confidence. `Conclude` models it, and `VerdictMatchesConfidence` shows that the
branch is never taken: a validated answer has 0.8 or 1.0.

### QueryService and the code

Requests are processes; `Decide` is the chain from the refiner to the
reflection in one step. It is justified by `ContractKept`: `AgentChain`
implements `AnswerContract`, whose steps are those of a request here, and
between the lookup and the first write a request touches only its own task.
`Confidences` are those that the contract allows. Time is a clock in ticks; a
window of `CacheTTL` ticks is the 300 s of `_QUERY_CACHE_TTL`, after which Redis
drops an entry, and `QuestionId` contains `clock \div CacheTTL`, as in
`supervisor.py:109`. The text that `build_cache_key` hashes is modelled as its
words: `Normalized` cuts the question at each `|`, `RolesPart` is what the joined
roles are cut into, and `CacheKey` puts one behind the other, as the code does, so
that where the question ends is lost. The user is a part of the Redis key of its
own. `ReplayIsOwn` says that a replayed answer is that of the same user and of the
same question and roles, or of a question with another number of separators; the
instance has such a question, and the latter happens. The ids of Question
nodes and of tasks are tuples of what is hashed (`supervisor.py:109-112`,
`routes.py:204`): that supposes that no user name has a `|` in it. MERGE is atomic
because `scripts/neo4j_seed.cypher` puts uniqueness constraints on the ids.

### SnowflakePool and the code

The blocking methods run in threads (`asyncio.to_thread`), and `close` runs in
one, too. A request that is cancelled does not stop its thread, so `close` may
meet threads at work although the server has no request left. `pc[t]` is the
point a thread has reached in `_execute_sync` (`_schema_sync` is the same as far
as the pool goes): the test in `_acquire`, the second read of `self._pool` there,
the wait in `get`, the query, the test in `_release`, the second read. `idle` is
the queue object, which lives on after `self._pool = None` for a thread that is
already waiting in it. `open` is what the server sees. A failed query goes
through `finally` and so to `release`, like a successful one. `CloseBegins` to
`Clear` is `_close_sync`; an exception of `conn.close()` leaves the loop
(`aborted`). The application closes the pool once.

`PutNeverWaits` holds because the queue has as many places as there are
connections and each is in one place; the property says that the `put` without
a timeout in `_release` cannot hang. The refinement to `ConnectionLeases` maps a
connection to the thread that holds it; one that is neither queued nor held is
retired, closed or not: a connection that comes back after the queue was
drained is dropped unclosed, and the code promises nothing else.

### SolverProcess and the code

`parent` is the point that `execute_solver` has reached, `child` the process.
Codes are kinds of behaviour: what the constants say of a code is what running
it comes to. The time limit may pass at any moment while the parent waits, also
just before or after the child's exit. `Kill` has the two outcomes of
`proc.kill()`; `Cancel` is a `CancelledError` at an `await`, as when the client
of a stream goes away. A long output needs a reader: the child blocks on its
pipe when nobody reads any more.

### KgContext and the code

`pc[r]` counts through the lookup, the three reads and the `setex`; each read is
a transaction of its own and sees `Present`, the last of the graphs in `past`.
A node is what it is for its whole life; a rewritten node is another one. Its
visibility may change. A query returns any of the matching nodes, up to its
LIMIT.

Words are numbers in alphabetical order, so that `Joined` sorts and joins a list
as `kg_cache_key` does; a text is the sequence of the pieces between its
separators, `Pieces` cuts a word that contains some, and no words at all make one
empty piece. `Key` is the two joined texts with one more separator in between, so
that where the terms end is lost. Terms come from a language model: any word may
be a term, the name of a role among them. What two asks with one key have in
common is a theorem (`KeyTells`): they are the same, or a word is a term of one
and a role of the other, or some word is empty or has a separator
(`Confusable`). `ContextWasTrue` and `RolesRespected` promise nothing about
confusable asks, for the code keeps nothing: `claim_no_hidden_nodes` shows a node
that is served to a role which may not see it. A list with a word twice has a key
of its own in the code, which only costs hits.

There is no clock: Redis may drop an entry at any time (`Expire`), the five
minutes being Redis's business. Writes of the graph leave the cache alone, as
nothing calls `should_invalidate_kg_cache`.

`ContextWasTrue` is as strong as the code allows: each list is one of a graph
that was there during the reads, in order. A single graph that says all three
need not exist, and a call that stores late brings back older reads than the
entry it replaces.

### QueryStream and the code

The backend half is `run_query_stream`: the graph moves along `Successors`,
whose nodes `AgentChain` models in detail; what is kept of them is the retry
count and the two writes that outlive the request, of the answer
(`write_cache`) and of the Question node (`write_question`). `NodeRaises` is an
exception of a node or of the loop body: `state.update(update)` would raise for
an update that LangGraph hands out as `None`, which is one of them. An update of
a node that returns `{}` is taken not to stop the stream. `Stops` is a generator
that ends at an `await`, because the server cancels it (`Cancelled`, once the
connection is gone) or the process dies (`Crash`).

The connection is a sequence of tokens, `data: `, a JSON text, and two newlines
for each event, and a read returns any beginning of what is there: a frame is
cut anywhere that matters. A cut inside a token is not different from one
before it, as the relay only looks for blank lines. `Window` is how many tokens
fit in between; a generator whose event does not fit waits, as under the
server's flow control.

The relay half is the `POST` handler. `Cut` is what one more token does to its
buffer: a blank line completes a chunk, and a chunk that is `data: ` and a JSON
text is an event. `Split` repeats it over `TextRead`, what was left in the buffer
and what has just been read. An error event becomes a message part, and
as it is no result the end of the stream adds a second one; the browser sees
the same error twice, which is the "one error of the relay's own" in
`RelayIsFaithful`: apart from it the parts are the beginning of what is due, each
event once and in order. `StagesIn`, the tool calls among the parts, is what
`StreamContract` sees. `Over` is the step of an ended stream.

That the graph takes the edges of `ChainStages`, retries within the larger budget
and writes in its last two nodes is no assumption of this model: it is the theorem
`StagesFollowed` about `AgentChain`.

### Lifespan, Session and the code

`Startup` and `Shutdown` list the calls that `lifespan` and `close_connectors`
make, in order. The connector of the data lake counts as open only with its
pool; `build_data_lake_connector` alone opens nothing. A process has no
`finally`: what it opened before a failing call stays open for the operating
system to close.

`Session` adds the environment variable that is read at start-up, the user store
made from it, and the token. The token outlives the process that issued it (its
signature needs only the secret) and the roles it was issued with; the browser
keeps it until somebody removes it, for neither a 401 nor its expiry does. The
password check is the choice whether a `Login` happens. `held` is history: when
a user was last a knowledge engineer of some process, before which no time is
less than a lifetime away.

### EnrichmentTasks, EnrichmentPages and the code

A report computes its id (`Hash`), then runs its query (`MergeReport`), and time
may pass in between. A client whose call failed or whose answer got lost may
call again, and is `"new"` once more. MERGE is atomic because the seed script
puts a uniqueness constraint on the ids. A report answers with the hashed id, the
list with Neo4j's own, which is the only id of a task that the reflection
created; the model has one kind of id. The question that a report may name
is not kept in the model: only the first report of a window writes it.

A call of the list is two reads of the store, the items and then their number;
the page shows the answer that arrives last, whichever filter is selected, and
its loading and error flags belong to all calls together. On the page of a task
the two calls of `handleSubmit` go to endpoints which the backend of this
repository does not have yet (`PATCH` of a task, a write to the graph); they are
external and modelled as what the page expects of them: each is made or not, and
its answer arrives or gets lost. An engineer opens one task and stays on it. The
preview toggle and the chat on that page are left out.

### IngestSchema and the code

A run is discovery, then three loops over batches, each batch one auto-commit
statement. Table and Column nodes have no uniqueness constraint, so a MERGE is
`Match` and then `Commit`, which creates what was not matched. The result of a
statement is never consumed, so its failure is raised by the next statement or,
for the last one, by closing the session, or by nobody: `LoseLast`. A statement
that a killed process left in flight is taken to be aborted before the next run
matches. Identifiers are values: names with dots may give two columns the same
identifier, and one catalog has such a pair. A node has its label besides its
identifier, so no Table is a Column (`IngestAssumption`). `ElementsAt` is the two
loops over the rows: those not excluded, and the first one of each table. Nothing
deletes nodes: a dropped
column stays. `alone` is history: no other run was under way during this one.

## 3. Runs

| Run | Checks | Shows |
|---|---|---|
| `agent_chain` | 5 invariants, `ContractKept` | the retry loop keeps its budgets whatever the LLM asks for; coverage, rows and verdict of an answer are those of its last attempt, and so is the solver result if that attempt required one (a plain attempt may be judged with an old one, see below); a retry is told what was wrong; what is published, recorded and tasked agrees; the graph implements `AnswerContract`, and each request ends |
| `query_service` | 4 invariants, `HistoryIsWriteOnce` | races, retries, expiry and changed roles: a replayed answer is the same user's, and that of the same question and roles unless a separator in the question hides where it ends; task ids exist, the history is truthful and write-once |
| `query_stream` | 3 invariants, `StreamKept`, `StreamEnds` | whatever is cut, lost or left, the browser is told what the backend said, in order; an answer that it shows is in the stores; it is not left waiting |
| `kg_context` | 3 invariants | a context is what the graph said while it was read, to these terms and roles unless the key is that of a confusable ask, with three racing calls, failures, expiry and a changing graph |
| `solver_process` | 2 invariants, `BothEnd` | a result is complete and the code's own and an exception tells what happened; no child outlives a call that was not cancelled; call and child end |
| `snowflake_pool` | 3 invariants, `AllEnd`, `LeasesKept` | no connection is shared, lost or closed in use, no thread hangs, closing ends, in every interleaving of three threads with `close` |
| `session` | 3 invariants, `RevocationIsBounded` | a role that was taken away works for less than a token's lifetime, across restarts; users are those of the configuration; a connector stays open only by a failure |
| `enrichment` | 4 invariants | a report is kept and not doubled within a window; what the list shows is true; a task is resolved only after its write-back, with overtaking answers and calls that fail halfway |
| `ingest_schema` | 3 invariants, `DoneMeansCurrent` | after kills at any point, a warehouse that migrates and overlapping runs, what a run calls done is there; re-running alone doubles nothing and leaves current types |
| `claim_*` | one statement of the documentation each | the statement is refuted, see below |

**Bounds.** `agent_chain` has the code's own budgets (1 and 2), so nothing is
cut: all attempts, all mixes of solver and plain attempts and all failures are
explored (about 3,000 states). `query_service` has three requests (two that
race and a third that finds what they left), five ways to ask (a user, the same
user with other roles, the question typed in another case, a question that ends
like a role, another user), a window of two ticks and a clock that reaches the
second window (7.5 million states up to the symmetry of the requests). The properties relate at most two
requests and one entry or node. `query_stream` has the code's larger retry
budget and a window of ten tokens, so that two whole frames and the half of a
third are in flight, and reads return every beginning of them (81,417 states).
`kg_context` has three calls (two that fill, one that finds an entry), five
ways to ask (three with one key: a role among the roles, among the terms, and
inside a term; other roles; no terms), two rules of which a query returns one,
an anomaly and one change of the graph at any moment (4.3 million states up to
symmetry). One change is enough to put reads in the
wrong order or to mix graphs. `solver_process` has one code of each behaviour,
one with a long output and one without mention of the data (all states of one
call). `snowflake_pool` has two connections and three threads, so that one
thread waits while the others hold connections, and the closing thread meets all
of these (5,284 states). `session` has two users, five configurations (a role
given, taken and given again; a malformed entry; a user named twice; nobody), a
lifetime of two ticks and a clock of five, so that a token is issued, its role
is taken in a restart and it expires, twice over (692,109 states). `enrichment`
has two reports of one gap, by one user or two, in one window or two, a task of
the reflection agent, two calls of the list and an engineer who may write once
(3.8 million states up to symmetry). `ingest_schema` has two runs, one after the
other or at once, batches of two rows so that a last batch is not full, and
three catalogs: before and after a migration, and empty (about 88,000 states).
What holds for all sizes is proved (section 4).

**Deadlock.** `AgentChain` and `QueryStream` have an explicit step for what has
ended, and in `Session` and `IngestSchema` the surroundings go on, so TLC's
deadlock check covers them. In `QueryService`, `KgContext` and `EnrichmentPages`
all calls end and the clock is bounded, so the check is off; it is off for
`SnowflakePool` (a closed pool) and `SolverProcess` (an ended call), too, where
`AllEnd` and `BothEnd` say what may not stop.

**Fairness.** `AgentChain!FairSpec` assumes `WF_vars(Next)`: an awaited call
returns or raises. That is an assumption about the environment. The solver has a
limit of 30 s, the Neo4j driver one for connecting (`neo4j.py:30`) and the wait for
a Snowflake connection one of 10 s; the code gives none to the Redis client, to
`acquire` of asyncpg's pool or to a running query, and those calls end only as the
library, the server or the network lets them. The event loop runs what is ready.
No choice of the LLM is assumed fair: that requests end (the fairness of
`AnswerContract`, part of `ContractKept`) follows from the budgets.
`QueryStream!FairSpec` assumes the event loops of both sides, `WF_vars(Backend)`
and `WF_vars(Relay)`, and nothing of `Crash`, `Break` and `Leave`. `SnowflakePool`
assumes that each thread that began a call is scheduled, and that connects,
queries and closes return or raise (the driver's own time-outs); not that a
waiting thread ever gets a connection, which needs strong fairness and is not
promised. `AllEnd` therefore rests on the 10 s of `get`. `SolverProcess` assumes
that the event loop runs what is ready, timers included, and that the operating
system runs the child; a looping code has no step to be fair to. Cancellation is
never assumed.

### What the documentation says and the code does not do

| Run | Statement | What happens |
|---|---|---|
| `claim_every_answer_recorded` | CHANGELOG: each non-cached request is recorded | not after a change of roles: the id of a Question has no roles, the cache key has |
| `claim_shown_is_selected` | `enrichment.spec.ts:69-72`: after a switch of the filter the list shows its tasks | the answer to the earlier filter may arrive last and stays: in the trace every call has been answered |
| `claim_no_hidden_nodes` | `cypher.py:79-81`: a restricted node needs a matching role; other roles have other entries | terms [ebitda, executive] of role finance have the key of term [ebitda] of roles executive and finance, whose context has nodes for executives only |

Seen on the way, without a run of its own:

* ADR-003: a cache hit returns the cached answer. The cached value has the score
  and the task id only, and the response is built from outputs that the state
  does not have then: it says "No answer produced." (`routes.py:70`).
* `cache_key.py:9-10`: with the roles in the hash, answers that differ by roles are
  kept apart. Question `q|cfo` with role treasury has the key of question `q` with
  roles cfo and treasury, of one user; `ReplayIsOwn` says what can be confused.
* `reflection.py:32-33`: the verifier is given the data used to answer.
  `python_result` is never reset, so a plain attempt after a solver attempt that
  failed is judged with the result of the latter, too (`reflection.py:88`,
  `119-123`); `VerdictIsCurrent` asks for a current solver result only where the
  last attempt required one.
* `kg_cache.py:6`, `cypher.py:14`: writes of certain labels invalidate the cached
  contexts. No code does it: a context is served after its nodes were written,
  until Redis drops it.
* `_sandbox_harness.py:20-21`: the parent's time limit bounds the child. Not after
  a cancellation, since the `except` clause is for `TimeoutError`.
* `validator.py:10-12` says that one of coverage and rows is enough to pass; one
  component scores 0.4 < 0.5, so both are needed.
* CHANGELOG: retries within the window make one record; not across the boundary
  of a window (`supervisor.py:109`). The same holds of reports
  (`routes.py:204`), whose 15 minutes are aligned to the clock.
* `base.py:43`, close releases connection resources: a Snowflake connection that
  is returned after the queue was drained is dropped unclosed.
* `python_executor.py:49-52` lists three errors; rows with dates or decimals
  raise TypeError, and `exit()` in a code raises JSONDecodeError.
* `redshift.py:8-9`, connections "fail fast under saturation": the time-out is
  that of connecting; `acquire` has none.
* `routes.py:95-96` does not list `write_question` among the streamed nodes,
  which `_STREAM_NODES` does.
* The validator accepts a solver result whatever the code read
  (`_sandbox_harness.py:67`): its text must mention one of two variables.
* A failed write of an EnrichmentTask is swallowed, so `low_confidence`
  (`query_response.py:18`, "EnrichmentTask has been written") may be true
  without a task. Of two racing answers the cache keeps the last and MERGE the
  first, so a hit may replay an answer that the history does not have
  (`supervisor.py:89`).
* An expired token: the login page redirects to `/enrichment` because a token is
  there, the task page shows an error because it is refused, and nothing removes
  it (`AuthGuard.tsx`, `login/page.tsx`).
* A repeated report answers `open` for a task that is resolved, and its
  `affected_question` is dropped (`routes.py:210-225`).
* A failing close leaves the connectors after it open (`connectors/__init__.py:50`).
* The ingestion may say done although its last batch of edges failed, two runs
  at once may leave two nodes of one table, and a dropped column stays.

## 4. Proofs

`AgentChainProofs` proves for all `SolverRetries, PlainRetries \in Nat` (the
only assumption, `RetriesAssumption`):

| Theorem | Statement |
|---|---|
| `TypeCorrect` | `Spec => []TypeOK` |
| `Inductive` | `Spec => []IInv`, from which the others follow |
| `BudgetsKept` | attempts and solver runs stay within their budgets (`BudgetsRespected`) |
| `VerdictSound` | the verdict and the confidence agree (`VerdictMatchesConfidence`) |
| `VerdictFresh` | coverage, rows and verdict of an answer are those of the last attempt, and so is the solver result if that attempt required one (`VerdictIsCurrent`) |
| `RetriesInformed` | a retry is told what was wrong with every attempt before |
| `StoresSound` | one task at most; history, cache and answer agree; the cache stays readable (`StoresAgree`) |
| `ReplayReadsOnly` | a request served from the cache writes nothing |
| `AlwaysProgress` | `WorkLeft` is a natural number and falls with every step |
| `StagesFollowed` | each step takes an edge of `ChainStages`, the retry edge within the larger budget, and writes what the completed nodes write, or raises: what `QueryStream` lets the graph do |
| `ContractRefined` | `Spec => Contract!Spec` |

**Argument.** The checked invariants speak of decision points; they are not
inductive because they say nothing of the nodes in between. `IInv` adds: at
each node of an attempt the outputs of the nodes before it are stamped with
this attempt (`FreshSoFar`); the reflection is only reached by a pass on both
components or with the budget spent (`Judged`); counts against budgets at each
node (`Counted`); nothing is written before the decision (`NotYet`); the
decided answer is one that may be cached (`Closed`); every earlier attempt left
a note (`Noted`). The central case is the validator, where the budget changes
with the attempt: a plain attempt that follows a solver attempt raises
`max_retries` from 1 to 2, and one that goes the other way lowers it, and both
`RetriesBounded` and the complementarity of route and reflection survive since
both read the latest attempt's value.

`QueryServiceProofs` proves for any requests, questions, users, roles, words, way
to normalise and length of the window (`ServiceAssumption`): `TypeCorrect`,
`ReplaysOwn` (`ReplayIsOwn`), `TasksExist` (`TaskIdsExist`), `HistoryTrue`
(`HistoryIsTrue`), `FinishedRecorded` (`FinishedIsRecorded`) and `HistoryGrows`
(`HistoryIsWriteOnce`). **Argument.** `IInv` follows an answer from the request
that decided it: an entry is the answer of a request with its key that decided
it itself and has published it (`EntriesAreOwn`), hence so is what is replayed
from it (`ReplaysAreOwn`), and a Question node has the id of its own fields
(`IdsAreOfFields`). A step may only disturb this for the request it belongs to,
and that request has no published answer yet (`OwnOrNone`). Two requests with one
key have the same words in a row; if their questions have as many words they have
the same ones, and so have their roles (`SameParts`, `SameKey`).

`SnowflakePoolProofs` proves for all `Threads`, finite `Conns` and `NoConn`
(`PoolAssumption`): `TypeCorrect`, `Exclusive` (`UsableInOnePlace`),
`NothingLost` (`NoneLost`), `NoWaitingPut` (`PutNeverWaits`) and `LeasesRefined`
(`LeasesKept`). **Argument.** `IInv` adds to the checked invariants that
`self._pool` is set exactly in the phases between creation and `Clear`, that the
connections opened so far are in the queue while it is created, and that a
thread past `get` has a connection. `PutNeverWaits` is a counting argument: the
queue is injective, its elements are connections other than the one in the
thread's hand, hence by the pigeonhole principle shorter than the number of
connections. The refinement needs that a connection is in one place: the holder
that `LeaseOf` chooses is the only one. `CallsAndCloseEndNearer` is the safety core
of `AllEnd`: a call has finitely many steps ahead, which its own steps reduce and
nobody else's add to; and each connection that `_close_sync` takes is one less
open, since what is in the queue is open and nothing is opened after creation, so
that threads which put connections back cannot keep it busy for ever.

`SessionProofs` proves for any users, configurations and lifetimes
(`SessionAssumption`): `TypeCorrect`, `RevocationBounded`
(`RevocationIsBounded`), `StoreConfigured` (`StoreIsConfigured`) and
`LeftOpenByFailure` (`LeftOpenOnlyByFailure`). **Argument.** A token with the
role expires within a lifetime of the last moment at which its user held it
(`token.exp <= held + Lifetime`): `held` is the present while a process knows
the user as an engineer, and never falls. The store is that of the configuration
exactly between `init_user_store` and the end of the process; that a user's last
complete entry exists is a fact about bounded sets of numbers, proved from the
well-foundedness of `<`. A connector that is closed in the shutdown is closed
because the steps before this one closed theirs.

`ExecutionProofs` proves about the graph context, for any calls, nodes, words,
pieces, limits, visibilities and bound (`WordsAssumption`, `GraphAssumption`,
`BoundsAssumption`): `TypeCorrect`, `KeyTells`, `ContextTrue` (`ContextWasTrue`)
and `RolesKept` (`RolesRespected`).
**Argument.** A finite set of words has a sorted list, the word with i words up to
it at the place i, by the pigeonhole principle; the list holds each of its words.
If no word is empty or has a separator, the joined text is the sorted list itself
(`JoinedPlain`), and of no words the one empty piece, so it tells the set
(`JoinedTells`); and if no term of one ask is a role of the other, a word of the
common key is a term of both or a role of both. `IInv` keeps witnesses: the lists
that a call has read are those of graphs that were present since its lookup, in
order (`Seen`); an entry is the context of a call that ended with all three of them
(`Filled`); and what a call was served is such a context of a call with the same
key, which by `KeyTells` asked the same or is confusable. Later graphs are appended
to `past`, so that witnesses never move. That no list exceeds its LIMIT needs a
finite graph.

For the solver process it proves for all `Codes`, `Mentions`, `Behaviour` and
`LongOutput` (`CodeAssumption`): `SolverTypeCorrect`, `OutcomesTold`
(`OutcomeIsTrue`) and `NoOrphans` (`NoChildLeft`). **Argument.** The invariants
speak of ended calls; `IInv` adds what the parent knows on the way there
(`KnownEnd`: it parses only after the child's own end, and reaps only a child
that is dead), and that an exited child tells how its code behaves by its exit
code and its output (`ChildTells`), the two things `Parse` looks at.
`SolverEndsNearer` is the safety core of `BothEnd`: `SolverWork`, which counts the
steps ahead of the parent and of the child, the payload and the first half of a
long output, falls with every step, and the parent reaps only a child that has
ended.

`EnrichmentProofs` proves for any reports, users, windows, engineers and calls
(`TasksAssumption`, `ChainTaskAssumption`, `PagesAssumption`): `TypeCorrect`,
`ResolvedWritten` (`ResolvedIsWritten`), `ReportKept` (`ReportIsKept`) and
`ShownTrue` (`ShownStaysTrue`). **Argument.** Ids are unique, a reported task tells what its
id was made of, and a task once there is there for good, its status aside; so
the items of every call stay true, and a call whose number is read after its
items counts at least these, by an injection of the items into what is counted.
The tasks of one gap inject into the windows that have passed, which bounds
their number.

`IngestSchemaProofs` proves for any runs, catalogs and sizes of the batches
(`IngestAssumption`): `TypeCorrect` (`TypeOK`), `DoneIsWritten`
(`DoneMeansWritten`), `DoneIsCurrent` (`DoneMeansCurrent`) and `Rerunnable`
(`NoDuplicates`). **Argument.** The loops over the rows keep exactly the rows they
should, and the batches are a partition of the items: each item is in one of
them, and the batches before the present one are the items before it. `WrittenInv`
says of a run wherever it stands that what is behind it is in the graph; nodes
and edges are never removed, so nothing that other runs do disturbs it, and the
matches of a statement that writes edges find both ends, written in the loops
before. `CurrentInv` says of a run that nothing ran beside that each column behind
it has, in all its nodes, the value of its last row so far: rows of one
identifier may be in one batch or in several, and the last one wins either way.
Only its own steps write while it is under way. For `Rerunnable`: while all runs
are alone one is under way at a time, and then what a statement has matched is
still all there is when it commits; so a node is created only where there was
none, whatever the earlier runs left undone.

`QueryStreamProofs` proves for any retry budget and any room on the connection
(`StreamAssumption`): `TypeCorrect` (`TypeOK`), `Faithful` (`RelayIsFaithful`),
`Stored` (`ShownIsStored`) and `ContractRefined` (`StreamKept`). **Argument.** A
text is the frames of some events if it has four tokens for each of them
(`IsFrames`). A beginning of such a text, cut anywhere, splits into the events
whose frames are complete and leaves the rest of a frame, of fewer than four
tokens, in the buffer (`SplitFrames`). The invariant of the relay is then that
while it reads an open connection, the buffer followed by the wire is the frames of
exactly the events it has not told yet (`Flow`): a yield appends a frame to both
sides, a read takes as many events from both. When a connection ends, what was
told stays a beginning of what was said (`Telling`). On the other side, where the
backend stands decides what it has yielded, along the edges of the graph (`Path`,
`Standing`), and what it has written at its end (`Written`), which gives
`ShownIsStored`. The parts begin with stages and end with an outcome, so the stages
shown are the parts up to the last of them (`ShownLeads`), and each step of the
stream is one of `StreamContract`; a read that completes several frames shows
several stages in one step of the contract. `StreamEndsNearer` is the safety core
of `StreamEnds`: `StreamLeft` falls with every step, for a node completed takes the
graph nearer to its end or uses up a retry, which weighs more than the four tokens
of its event on the wire.

Induction over numbers is done throughout by the smallest counterexample: the
library's induction theorems take a predicate, which the provers cannot
instantiate, but its theorem that a non-empty set of naturals has a smallest
element takes a set. The loops are recursive functions for that reason; that they
exist is a lemma each (`LoopExists`, `SplitExists`, `StagesExist`).

**Only model-checked:** liveness, which needs ENABLED: the fairness part of
`ContractKept`, `StreamEnds`, `AllEnd` and `BothEnd`; and the refuted statements.
Every invariant and every action property of the passing runs is a theorem. Of
liveness, the half that is a safety property is proved for every value of the
constants: `AlwaysProgress`, `StreamEndsNearer`, `CallsAndCloseEndNearer` and
`SolverEndsNearer` say that a question, a call, a child or the closing of the pool
has finitely many steps ahead. That these are taken, and that none waits for what
never comes, is what TLC adds.

## 5. Plan

Done: the agent graph and its contract, the query service, the connection pool
and its leases, the solver process, the graph context, the stream and the relay,
the lifespan and the session, the enrichment tasks and pages, the ingestion; and
the theorems of section 4.

What would come next, the most useful first:

1. A theorem that `AgentChain` takes a request from its lookup to its end as one
   `Decide` of `QueryService` does, in place of the argument by `AnswerContract`.
2. The composition of `QueryService` with `EnrichmentPages`, as soon as the
   backend has the endpoint that resolves a task: what an enrichment does to the
   answers that the cache and the context cache still hold.

## 6. What is not modelled, and why

* LLM prompts and answers, formatting and logging: data that no property
  depends on.
* How `POST /query` puts its response together from the final state: a copy of
  fields, with the exception named in section 3.
* `GET /history` changes nothing; its two reads are like those of the task list,
  and its nodes are those of `QueryService`, which are never changed.
* `sql.py`: one regular expression before a call; no state.
* PostgreSQL and Redshift connectors beyond their opening and closing
  (`Lifespan`): `execute` passes a query through to asyncpg's pool.
* The preview toggle and the chat of a task page, the chat UI components,
  the choice of the LLM, configuration, seed data: no logic of their own.
* LangGraph, Redis, Neo4j, asyncio and the LLM are external. They are modelled
  from their use here: super-steps in sequence, `setex` and `get` atomic, MERGE
  atomic where a uniqueness constraint backs it. A node that returns `{}` is
  taken to leave the state unchanged.
