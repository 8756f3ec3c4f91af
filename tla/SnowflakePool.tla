----------------------------- MODULE SnowflakePool -----------------------------
(***************************************************************************)
(* The connection pool of connectors/snowflake.py.  Its queue.Queue is     *)
(* used by worker threads (asyncio.to_thread), among them the one that     *)
(* closes the pool.  A cancelled request does not stop its thread, so the  *)
(* pool may be closed while threads wait for connections or hold them.     *)
(*                                                                         *)
(* The methods read the attribute self._pool once to test it and once to   *)
(* use it; another thread may run in between, so each read is a step.      *)
(***************************************************************************)
EXTENDS Naturals, Sequences, FiniteSets

CONSTANTS
  Threads,   \* the workers of the executor
  Conns,     \* the connections that _create_pool opens, pool_size of them
  NoConn     \* no connection

ASSUME PoolAssumption ==
  /\ IsFiniteSet(Conns)
  /\ NoConn \notin Conns
  /\ Threads \cap {"free", "retired"} = {}

VARIABLES
  phase,   \* of the pool, from its creation to the end of _close_sync
  pool,    \* self._pool is not None
  idle,    \* the content of the queue, which outlives self._pool
  open,    \* the connections that are open at the server
  pc,      \* what each thread does next
  conn     \* the local variable conn of each thread

vars == <<phase, pool, idle, open, pc, conn>>

Phases == {"connecting", "open", "draining", "clearing", "closed",
           "failed",     \* _create_pool raised
           "aborted"}    \* _close_sync raised
ThreadSteps == {"idle", "acquire", "get", "waiting", "query", "release", "put"}

\* As QueueSize, but the queue is one place too small.
QueueSizeShort == Cardinality(Conns) - 1

\* queue.Queue(maxsize=pool_size)
QueueSize == Cardinality(Conns)

\* The connections in the queue.
Queued == {idle[i] : i \in DOMAIN idle}

\* The thread is between get and put, so it can use its conn.
Holds(t, c) == pc[t] \in {"query", "release", "put"} /\ conn[t] = c

-----------------------------------------------------------------------------
Init ==
  /\ phase = "connecting"
  /\ pool = FALSE
  /\ idle = <<>>
  /\ open = {}
  /\ pc = [t \in Threads |-> "idle"]
  /\ conn = [t \in Threads |-> NoConn]

(* _create_pool opens the connections one by one ...                       *)
Connect(c) ==
  /\ phase = "connecting"
  /\ c \notin open
  /\ Len(idle) < QueueSize
  /\ open' = open \cup {c}
  /\ idle' = Append(idle, c)
  /\ UNCHANGED <<phase, pool, pc, conn>>

(* ... and if one cannot be opened the queue is lost with those before it. *)
ConnectFails ==
  /\ phase = "connecting"
  /\ open # Conns
  /\ phase' = "failed"
  /\ UNCHANGED <<pool, idle, open, pc, conn>>

Created ==
  /\ phase = "connecting"
  /\ open = Conns
  /\ phase' = "open"
  /\ pool' = TRUE
  /\ UNCHANGED <<idle, open, pc, conn>>

-----------------------------------------------------------------------------
(* A thread in _execute_sync or _schema_sync.                              *)

\* Exceptions and results both end the call; its local variables are gone.
Ends(t) == /\ pc' = [pc EXCEPT ![t] = "idle"]
           /\ conn' = [conn EXCEPT ![t] = NoConn]

Goto(t, step) == pc' = [pc EXCEPT ![t] = step]

(* execute, schema_description: the test on the event loop, which raises   *)
(* if the pool is gone.                                                    *)
Execute(t) ==
  /\ pc[t] = "idle"
  /\ pool
  /\ Goto(t, "acquire")
  /\ UNCHANGED <<phase, pool, idle, open, conn>>

(* _acquire tests self._pool ...                                           *)
Acquire(t) ==
  /\ pc[t] = "acquire"
  /\ IF pool THEN Goto(t, "get") /\ UNCHANGED conn ELSE Ends(t)
  /\ UNCHANGED <<phase, pool, idle, open>>

(* ... and reads it again to call get, an AttributeError if it is None.    *)
Get(t) ==
  /\ pc[t] = "get"
  /\ IF pool THEN Goto(t, "waiting") /\ UNCHANGED conn ELSE Ends(t)
  /\ UNCHANGED <<phase, pool, idle, open>>

\* As Rest, but the connection stays in the queue.
RestPeeked == idle

\* What get leaves in the queue.
Rest == Tail(idle)

(* get returns a connection; the queue need not be self._pool any more.    *)
Got(t) ==
  /\ pc[t] = "waiting"
  /\ idle # <<>>
  /\ conn' = [conn EXCEPT ![t] = Head(idle)]
  /\ idle' = Rest
  /\ Goto(t, "query")
  /\ UNCHANGED <<phase, pool, open>>

\* As WaitIsOver, but get has no timeout.
WaitIsOverNever == FALSE

\* get(timeout=10) gives up when the queue is empty.
WaitIsOver == idle = <<>>

TimesOut(t) ==
  /\ pc[t] = "waiting"
  /\ WaitIsOver
  /\ Ends(t)
  /\ UNCHANGED <<phase, pool, idle, open>>

\* As AfterQuery, but without try ... finally.
AfterQueryUnprotected(ok) == IF ok THEN "release" ELSE "idle"

\* The finally clause releases the connection if the query fails, too.
AfterQuery(ok) == "release"

Query(t) ==
  /\ pc[t] = "query"
  /\ \E ok \in BOOLEAN : Goto(t, AfterQuery(ok))
  /\ UNCHANGED <<phase, pool, idle, open, conn>>

(* _release tests self._pool: if it is None the connection is dropped.     *)
Release(t) ==
  /\ pc[t] = "release"
  /\ IF pool THEN Goto(t, "put") /\ UNCHANGED conn ELSE Ends(t)
  /\ UNCHANGED <<phase, pool, idle, open>>

Returned(t) == conn[t]

(* It reads self._pool again to call put, which waits if the queue is full.*)
Put(t) ==
  /\ pc[t] = "put"
  /\ IF pool THEN /\ Len(idle) < QueueSize
                  /\ idle' = Append(idle, Returned(t))
             ELSE UNCHANGED idle
  /\ Ends(t)
  /\ UNCHANGED <<phase, pool, open>>

-----------------------------------------------------------------------------
(* _close_sync: takes connections until the queue is empty, then sets      *)
(* self._pool to None.                                                     *)

CloseBegins ==
  /\ phase = "open"
  /\ phase' = "draining"
  /\ UNCHANGED <<pool, idle, open, pc, conn>>

\* What get_nowait leaves in the queue.
Drained == Tail(idle)

\* As ClosedBy, but every connection that was opened is closed.
ClosedByForce(c) == open

\* conn.close()
ClosedBy(c) == {c}

Drain ==
  /\ phase = "draining"
  /\ idle # <<>>
  /\ open' = open \ ClosedBy(Head(idle))
  /\ idle' = Drained
  /\ UNCHANGED <<phase, pool, pc, conn>>

(* conn.close() raises and leaves the loop; the connection may be closed.  *)
DrainFails ==
  /\ phase = "draining"
  /\ idle # <<>>
  /\ open' \in {open, open \ ClosedBy(Head(idle))}
  /\ idle' = Drained
  /\ phase' = "aborted"
  /\ UNCHANGED <<pool, pc, conn>>

\* As NoneLeft, but the loop calls get, which waits.
NoneLeftWaited == FALSE

\* get_nowait raises queue.Empty.
NoneLeft == idle = <<>>

(* queue.Empty ends the loop.                                              *)
Drains ==
  /\ phase = "draining"
  /\ NoneLeft
  /\ phase' = "clearing"
  /\ UNCHANGED <<pool, idle, open, pc, conn>>

Clear ==
  /\ phase = "clearing"
  /\ phase' = "closed"
  /\ pool' = FALSE
  /\ UNCHANGED <<idle, open, pc, conn>>

-----------------------------------------------------------------------------
Create == ConnectFails \/ Created \/ \E c \in Conns : Connect(c)

\* What a thread does once it has begun a call.
Call(t) == \/ Acquire(t) \/ Get(t) \/ Got(t) \/ TimesOut(t)
           \/ Query(t) \/ Release(t) \/ Put(t)

Closing == Drain \/ DrainFails \/ Drains \/ Clear

Next ==
  \/ Create
  \/ \E t \in Threads : Execute(t) \/ Call(t)
  \/ CloseBegins
  \/ Closing

Spec == Init /\ [][Next]_vars

\* Threads are scheduled, queries and connects return or raise.  Nothing makes
\* a client call the pool, or the application close it.
FairSpec ==
  /\ Spec
  /\ WF_vars(Create)
  /\ WF_vars(Closing)
  /\ \A t \in Threads : WF_vars(Call(t))

-----------------------------------------------------------------------------
(* Properties.                                                             *)

\* The values of the variables.
TypeOK ==
  /\ phase \in Phases
  /\ pool \in BOOLEAN
  /\ idle \in Seq(Conns)
  /\ open \subseteq Conns
  /\ pc \in [Threads -> ThreadSteps]
  /\ conn \in [Threads -> Conns \cup {NoConn}]

\* A connection is in one place only: not twice in the queue, not with two
\* threads, not with a thread while it is in the queue.
OnePlace ==
  /\ \A i, j \in DOMAIN idle : idle[i] = idle[j] => i = j
  /\ \A t \in Threads, c \in Conns : Holds(t, c) =>
       /\ c \notin Queued
       /\ \A u \in Threads : Holds(u, c) => u = t

\* A connection that a thread uses or may still get is open, also while the
\* pool is being closed.
UsableIsOpen ==
  \A c \in Conns :
    c \in Queued \/ (\E t \in Threads : Holds(t, c)) => c \in open

\* What a thread uses or may get is in one place, and open.
UsableInOnePlace == OnePlace /\ UsableIsOpen

\* As long as the pool is there no connection gets lost, whatever queries and
\* waits fail: it is idle, in use, or was closed by _close_sync.
NoneLost ==
  phase \in {"open", "draining", "clearing"} =>
    \A c \in open : c \in Queued \/ \E t \in Threads : Holds(t, c)

\* A thread that gives its connection back never waits for a place in the
\* queue, nor does _create_pool: put cannot block the thread for ever.
PutNeverWaits ==
  /\ \A t \in Threads : pc[t] = "put" => Len(idle) < QueueSize
  /\ phase = "connecting" /\ open # Conns => Len(idle) < QueueSize

\* A call of the pool ends, though all connections be taken, and though the
\* pool be closed while it waits.
CallsEnd == \A t \in Threads : pc[t] # "idle" ~> pc[t] = "idle"

\* _close_sync ends, although threads put connections back behind it.
CloseEnds == phase = "draining" ~> phase \in {"closed", "aborted"}

\* Queries end while the pool is being closed, and closing ends while queries
\* run.
AllEnd == CallsEnd /\ CloseEnds

-----------------------------------------------------------------------------
(* The pool as ConnectionLeases.  A connection that is neither in the      *)
(* queue nor with a thread can never be leased: closed or lost.            *)

LeaseOf(c) ==
  IF \E t \in Threads : Holds(t, c) THEN CHOOSE t \in Threads : Holds(t, c)
  ELSE IF c \in Queued \/ phase \in {"connecting", "failed"} THEN "free"
  ELSE "retired"

Leases == INSTANCE ConnectionLeases WITH lease <- [c \in Conns |-> LeaseOf(c)]

\* The pool leases each connection to one thread at a time, which gives it
\* back itself; what is closed or dropped stays out of circulation.
LeasesKept == Leases!Spec
=============================================================================
