-------------------------- MODULE SnowflakePoolProofs --------------------------
(***************************************************************************)
(* Theorems of SnowflakePool, for any finite set of connections and any    *)
(* set of threads.                                                         *)
(***************************************************************************)
EXTENDS SnowflakePool, FiniteSetTheorems, TLAPS

\* When self._pool is set, and that no call runs before.
PoolIsSet ==
  /\ pool <=> phase \in {"open", "draining", "clearing", "aborted"}
  /\ phase \in {"connecting", "failed"} =>
       \A t \in Threads : pc[t] = "idle"

\* The connections opened so far are all in the queue.
CreatedInQueue == phase = "connecting" => open \subseteq Queued

\* A thread that is past get has a connection.
HasConn == \A t \in Threads :
  pc[t] \in {"query", "release", "put"} => conn[t] \in Conns

IInv == /\ TypeOK
        /\ PoolIsSet /\ CreatedInQueue /\ HasConn
        /\ OnePlace /\ UsableIsOpen /\ NoneLost

-----------------------------------------------------------------------------
(* Lemmas on queues.                                                       *)

Elems(s) == {s[i] : i \in DOMAIN s}
Distinct(s) == \A i, j \in DOMAIN s : s[i] = s[j] => i = j

\* Putting adds one element at the end.
LEMMA AppendElems ==
  ASSUME NEW S, NEW s \in Seq(S), NEW e \in S
  PROVE  /\ Append(s, e) \in Seq(S)
         /\ Elems(Append(s, e)) = Elems(s) \cup {e}
         /\ Distinct(s) /\ e \notin Elems(s) => Distinct(Append(s, e))
<1>1. /\ Append(s, e) \in Seq(S)
      /\ DOMAIN Append(s, e) = 1 .. Len(s) + 1
      /\ DOMAIN s = 1 .. Len(s)
      /\ Len(s) \in Nat
      /\ \A i \in 1 .. Len(s) : Append(s, e)[i] = s[i]
      /\ Append(s, e)[Len(s) + 1] = e
  OBVIOUS
<1>2. Elems(Append(s, e)) = Elems(s) \cup {e}
  BY <1>1, SMT DEF Elems
<1>3. ASSUME Distinct(s), e \notin Elems(s) PROVE Distinct(Append(s, e))
  BY <1>1, <1>3, SMT DEF Elems, Distinct
<1>4. QED
  BY <1>1, <1>2, <1>3

\* Getting removes the element at the head.
LEMMA TailElems ==
  ASSUME NEW S, NEW s \in Seq(S), s # <<>>
  PROVE  /\ Tail(s) \in Seq(S)
         /\ Head(s) \in S
         /\ Elems(s) = Elems(Tail(s)) \cup {Head(s)}
         /\ Distinct(s) => Distinct(Tail(s)) /\ Head(s) \notin Elems(Tail(s))
<1>1. /\ Tail(s) \in Seq(S)
      /\ Len(s) \in Nat /\ Len(s) >= 1
      /\ DOMAIN s = 1 .. Len(s)
      /\ DOMAIN Tail(s) = 1 .. Len(s) - 1
      /\ \A i \in 1 .. Len(s) - 1 : Tail(s)[i] = s[i + 1]
      /\ Head(s) = s[1] /\ Head(s) \in S
  OBVIOUS
<1>2. Elems(s) = Elems(Tail(s)) \cup {Head(s)}
  <2>1. ASSUME NEW i \in 1 .. Len(s)
        PROVE  s[i] \in Elems(Tail(s)) \cup {Head(s)}
    <3>1. CASE i = 1
      BY <3>1, <1>1
    <3>2. CASE i # 1
      <4>1. i - 1 \in 1 .. Len(s) - 1 /\ Tail(s)[i - 1] = s[i]
        BY <3>2, <1>1, SMT
      <4>2. QED
        BY <4>1, <1>1 DEF Elems
    <3>3. QED
      BY <3>1, <3>2
  <2>2. ASSUME NEW i \in 1 .. Len(s) - 1 PROVE Tail(s)[i] \in Elems(s)
    <3>1. i + 1 \in 1 .. Len(s) /\ Tail(s)[i] = s[i + 1]
      BY <1>1, SMT
    <3>2. QED
      BY <3>1, <1>1 DEF Elems
  <2>3. Head(s) \in Elems(s)
    <3>1. 1 \in 1 .. Len(s)
      BY <1>1, SMT
    <3>2. QED
      BY <3>1, <1>1 DEF Elems
  <2>4. QED
    BY <2>1, <2>2, <2>3, <1>1 DEF Elems
<1>3. ASSUME Distinct(s)
      PROVE  Distinct(Tail(s)) /\ Head(s) \notin Elems(Tail(s))
  BY <1>1, <1>3, SMT DEF Elems, Distinct
<1>4. QED
  BY <1>1, <1>2, <1>3

\* An injective queue that lacks a connection has a free place for it.
LEMMA RoomForOne ==
  ASSUME NEW s \in Seq(Conns), Distinct(s),
         NEW c \in Conns, c \notin Elems(s)
  PROVE  Len(s) < QueueSize
<1>1. /\ IsFiniteSet(Conns \ {c})
      /\ Cardinality(Conns \ {c}) = Cardinality(Conns) - 1
      /\ Cardinality(Conns) \in Nat
  BY PoolAssumption, FS_RemoveElement, FS_CardinalityType
<1>2. Len(s) \in Nat /\ DOMAIN s = 1 .. Len(s)
  OBVIOUS
<1>3. IsFiniteSet(1 .. Len(s)) /\ Cardinality(1 .. Len(s)) = Len(s)
  <2>1. Cardinality(1 .. Len(s)) = IF 1 > Len(s) THEN 0 ELSE Len(s) - 1 + 1
    BY <1>2, FS_Interval
  <2>2. IsFiniteSet(1 .. Len(s))
    BY <1>2, FS_Interval
  <2>3. QED
    BY <1>2, <2>1, <2>2, SMT
<1>4. s \in [1 .. Len(s) -> Conns \ {c}]
  BY <1>2 DEF Elems
<1>5. SUFFICES ASSUME ~(Len(s) < QueueSize) PROVE FALSE
  OBVIOUS
<1>6. Cardinality(Conns \ {c}) < Cardinality(1 .. Len(s))
  BY <1>1, <1>2, <1>3, <1>5, SMT DEF QueueSize
<1>7. \E x, y \in 1 .. Len(s) : x # y /\ s[x] = s[y]
  BY <1>1, <1>3, <1>4, <1>6, FS_PigeonHole
<1>8. QED
  BY <1>2, <1>7 DEF Distinct

\* The connections in the queue are its elements, now and after a step.
LEMMA QueuedElems ==
  /\ Queued = Elems(idle) /\ Queued' = Elems(idle')
  /\ OnePlace <=> /\ Distinct(idle)
                  /\ \A t \in Threads, c \in Conns : Holds(t, c) =>
                       /\ c \notin Queued
                       /\ \A u \in Threads : Holds(u, c) => u = t
  /\ OnePlace' <=> /\ Distinct(idle')
                   /\ \A t \in Threads, c \in Conns : Holds(t, c)' =>
                        /\ c \notin Queued'
                        /\ \A u \in Threads : Holds(u, c)' => u = t
BY Zenon DEF Queued, Elems, OnePlace, Distinct

-----------------------------------------------------------------------------
(* The inductive invariant.                                                *)

\* Initially nothing is open and no call runs.
LEMMA InitIInv == Init => IInv
<1> SUFFICES ASSUME Init PROVE IInv
  OBVIOUS
<1>1. TypeOK
  <2>1. idle \in Seq(Conns)
    BY SMT DEF Init
  <2>2. pool \in BOOLEAN /\ phase \in Phases
    BY Zenon DEF Init, Phases
  <2>3. /\ open \subseteq Conns
        /\ pc \in [Threads -> ThreadSteps]
        /\ conn \in [Threads -> Conns \cup {NoConn}]
    BY DEF Init, ThreadSteps
  <2>4. QED
    BY <2>1, <2>2, <2>3 DEF TypeOK
<1>2. PoolIsSet /\ CreatedInQueue /\ NoneLost /\ HasConn
  <2>1. phase = "connecting" /\ ~pool /\ open = {}
    BY DEF Init
  <2>2. PoolIsSet
    <3>1. phase \notin {"open", "draining", "clearing", "aborted"}
      BY <2>1
    <3>2. pool = FALSE /\ \A t \in Threads : pc[t] = "idle"
      BY DEF Init
    <3>3. QED
      BY <3>1, <3>2, Zenon DEF PoolIsSet
  <2>3. QED
    BY <2>1, <2>2 DEF Init, CreatedInQueue, NoneLost, HasConn
<1>3. Queued = {} /\ Distinct(idle)
  BY DEF Init, Queued, Distinct
<1>4. \A t \in Threads, c \in Conns : ~Holds(t, c)
  BY PoolAssumption DEF Init, Holds
<1>5. OnePlace /\ UsableIsOpen
  BY <1>3, <1>4, QueuedElems DEF UsableIsOpen
<1>6. QED
  BY <1>1, <1>2, <1>5 DEF IInv

\* A step that moves no connection keeps the invariant; once the pool is gone
\* a thread may drop its connection.
LEMMA NothingMoves ==
  ASSUME IInv, TypeOK', PoolIsSet', HasConn', UNCHANGED <<idle, open>>,
         phase' = "connecting" => phase = "connecting",
         phase' \in {"open", "draining", "clearing"} =>
           phase \in {"open", "draining", "clearing"},
         \A t \in Threads, c \in Conns : Holds(t, c)' => Holds(t, c),
         phase' \in {"open", "draining", "clearing"} =>
           \A t \in Threads, c \in Conns : Holds(t, c) => Holds(t, c)'
  PROVE  IInv'
<1>1. Queued' = Queued /\ (Distinct(idle) => Distinct(idle'))
  BY QueuedElems
<1>2. OnePlace'
  BY <1>1, QueuedElems DEF IInv
<1>3. UsableIsOpen'
  BY <1>1 DEF IInv, UsableIsOpen
<1>4. NoneLost'
  BY <1>1, Zenon DEF IInv, NoneLost, TypeOK
<1>5. CreatedInQueue'
  BY <1>1 DEF IInv, CreatedInQueue
<1>6. QED
  BY <1>2, <1>3, <1>4, <1>5 DEF IInv

\* Creating the pool.
LEMMA ConnectIInv ==
  ASSUME IInv, NEW c \in Conns, Connect(c) PROVE IInv'
<1>1. /\ idle' \in Seq(Conns)
      /\ Queued' = Queued \cup {c}
      /\ c \notin Queued
      /\ Distinct(idle')
  <2>1. c \notin Queued
    BY DEF IInv, UsableIsOpen, Connect
  <2>2. idle \in Seq(Conns) /\ Distinct(idle)
    BY QueuedElems DEF IInv, TypeOK
  <2>3. idle' = Append(idle, c)
    BY DEF Connect
  <2>4. QED
    BY <2>1, <2>2, <2>3, AppendElems, QueuedElems
<1>2. \A t \in Threads, d \in Conns : ~Holds(t, d)' /\ ~Holds(t, d)
  BY DEF IInv, PoolIsSet, Connect, Holds
<1>3. TypeOK'
  BY <1>1 DEF IInv, TypeOK, Connect
<1>4. OnePlace'
  BY <1>1, <1>2, QueuedElems
<1>5. UsableIsOpen' /\ NoneLost' /\ CreatedInQueue' /\ PoolIsSet' /\ HasConn'
  BY <1>1, <1>2
     DEF IInv, HasConn, UsableIsOpen, NoneLost, CreatedInQueue, PoolIsSet, Connect
<1>6. QED
  BY <1>3, <1>4, <1>5 DEF IInv

LEMMA CreateIInv ==
  ASSUME IInv, Create PROVE IInv'
<1>1. CASE ConnectFails
  <2>1. TypeOK' /\ PoolIsSet' /\ HasConn'
    BY <1>1 DEF IInv, HasConn, TypeOK, PoolIsSet, ConnectFails, Phases
  <2>2. QED
    BY <1>1, <2>1, NothingMoves DEF ConnectFails, Holds
<1>2. CASE Created
  <2>1. TypeOK' /\ PoolIsSet' /\ HasConn'
    BY <1>2 DEF IInv, HasConn, TypeOK, PoolIsSet, Created, Phases
  <2>2. Queued' = Queued /\ (OnePlace => OnePlace')
    BY <1>2 DEF Created, Queued, OnePlace, Holds
  <2>3. UsableIsOpen' /\ NoneLost' /\ CreatedInQueue'
    BY <1>2, <2>2
       DEF IInv, UsableIsOpen, NoneLost, CreatedInQueue, Created, Holds
  <2>4. QED
    BY <2>1, <2>2, <2>3 DEF IInv
<1>3. CASE \E c \in Conns : Connect(c)
  BY <1>3, ConnectIInv
<1>4. QED
  BY <1>1, <1>2, <1>3 DEF Create

\* A thread that gets a connection.
LEMMA GotIInv ==
  ASSUME IInv, NEW t \in Threads, Got(t) PROVE IInv'
<1> DEFINE d == Head(idle)
<1>1. /\ idle' \in Seq(Conns) /\ d \in Conns
      /\ Queued = Queued' \cup {d}
      /\ d \notin Queued' /\ Distinct(idle')
  <2>1. idle \in Seq(Conns) /\ Distinct(idle) /\ idle # <<>>
    BY QueuedElems DEF IInv, TypeOK, Got
  <2>2. idle' = Tail(idle)
    BY DEF Got, Rest
  <2>3. QED
    BY <2>1, <2>2, TailElems, QueuedElems
<1> HIDE DEF d
<1>2. /\ pc' = [pc EXCEPT ![t] = "query"] /\ conn' = [conn EXCEPT ![t] = d]
      /\ pc[t] = "waiting"
      /\ UNCHANGED <<phase, pool, open>>
  BY DEF Got, Goto, d
<1>3. TypeOK'
  BY <1>1, <1>2 DEF IInv, TypeOK, ThreadSteps
<1>4. \A u \in Threads, c \in Conns :
        Holds(u, c)' <=> Holds(u, c) \/ (u = t /\ c = d)
  BY <1>2, PoolAssumption DEF IInv, TypeOK, Holds
<1>5. OnePlace'
  <2>1. \A u \in Threads, c \in Conns : Holds(u, c) =>
          c \notin Queued /\ \A w \in Threads : Holds(w, c) => w = u
    BY DEF IInv, OnePlace
  <2>2. \A u \in Threads, c \in Conns : Holds(u, c)' =>
          c \notin Queued' /\ \A w \in Threads : Holds(w, c)' => w = u
    BY <1>1, <1>4, <2>1
  <2>3. QED
    BY <1>1, <2>2, QueuedElems
<1>6. UsableIsOpen' /\ NoneLost'
  BY <1>1, <1>2, <1>4 DEF IInv, UsableIsOpen, NoneLost, TypeOK
<1>7. PoolIsSet' /\ CreatedInQueue' /\ HasConn'
  BY <1>1, <1>2 DEF IInv, TypeOK, PoolIsSet, CreatedInQueue, HasConn
<1>8. QED
  BY <1>3, <1>5, <1>6, <1>7 DEF IInv

\* A thread that puts its connection back, or finds the pool gone.
LEMMA PutIInv ==
  ASSUME IInv, NEW t \in Threads, Put(t) PROVE IInv'
<1>1. /\ pc' = [pc EXCEPT ![t] = "idle"]
      /\ conn' = [conn EXCEPT ![t] = NoConn]
      /\ pc[t] = "put"
      /\ UNCHANGED <<phase, pool, open>>
  BY DEF Put, Ends
<1>2. \A u \in Threads, c \in Conns :
        Holds(u, c)' <=> Holds(u, c) /\ u # t
  BY <1>1 DEF IInv, TypeOK, Holds
<1>3. PoolIsSet' /\ HasConn' /\ CreatedInQueue'
  BY <1>1 DEF IInv, TypeOK, PoolIsSet, HasConn, CreatedInQueue
<1>4. phase \notin {"connecting", "failed"}
  BY <1>1 DEF IInv, PoolIsSet
<1>5. pc' \in [Threads -> ThreadSteps] /\ conn' \in [Threads -> Conns \cup {NoConn}]
  BY <1>1 DEF IInv, TypeOK, ThreadSteps
<1>6. CASE ~pool
  <2>1. phase \in {"closed"} /\ idle' = idle
    BY <1>4, <1>6 DEF IInv, TypeOK, Phases, PoolIsSet, Put
  <2>2. TypeOK'
    BY <1>1, <1>5, <2>1 DEF IInv, TypeOK
  <2>3. QED
    BY <1>1, <1>2, <1>3, <2>1, <2>2, NothingMoves
<1>7. CASE pool
  <2> DEFINE d == conn[t]
  <2>1. d \in Conns /\ Holds(t, d)
    BY <1>1 DEF IInv, HasConn, Holds
  <2>2. idle' = Append(idle, d)
    BY <1>7 DEF Put, Returned
  <2>3. idle \in Seq(Conns) /\ Distinct(idle) /\ d \notin Elems(idle)
    BY <2>1, QueuedElems DEF IInv, TypeOK
  <2> HIDE DEF d
  <2>4. idle' \in Seq(Conns) /\ Queued' = Queued \cup {d} /\ Distinct(idle')
    BY <2>1, <2>2, <2>3, AppendElems, QueuedElems
  <2>5. TypeOK'
    BY <1>1, <1>5, <2>4 DEF IInv, TypeOK
  <2>6. OnePlace'
    <3>1. \A u \in Threads, c \in Conns : Holds(u, c) =>
            c \notin Queued /\ \A w \in Threads : Holds(w, c) => w = u
      BY DEF IInv, OnePlace
    <3>2. \A u \in Threads, c \in Conns : Holds(u, c)' =>
            c \notin Queued' /\ \A w \in Threads : Holds(w, c)' => w = u
      BY <1>2, <2>1, <2>4, <3>1
    <3>3. QED
      BY <2>4, <3>2, QueuedElems
  <2>7. UsableIsOpen'
    BY <1>1, <1>2, <2>1, <2>4 DEF IInv, UsableIsOpen
  <2>8. NoneLost'
    <3>1. \A c \in Conns : Holds(t, c) => c = d
      BY DEF Holds, d
    <3>2. QED
      BY <1>1, <1>2, <2>4, <3>1 DEF IInv, NoneLost, TypeOK
  <2>9. QED
    BY <1>3, <2>5, <2>6, <2>7, <2>8 DEF IInv
<1>8. QED
  BY <1>6, <1>7

\* The other steps of a call move no connection.
LEMMA CallIInv ==
  ASSUME IInv, NEW t \in Threads, Execute(t) \/ Call(t) PROVE IInv'
<1>1. ASSUME UNCHANGED <<phase, pool, idle, open>>,
             \/ \E step \in {"acquire", "get", "waiting"} :
                  Goto(t, step) /\ UNCHANGED conn
             \/ Ends(t),
             pc[t] \in {"idle", "acquire", "get", "waiting"},
             pc[t] = "idle" => pool
      PROVE  IInv'
  <2>1. /\ pc' \in [Threads -> ThreadSteps]
        /\ conn' \in [Threads -> Conns \cup {NoConn}]
        /\ \A u \in Threads : u # t => pc'[u] = pc[u] /\ conn'[u] = conn[u]
        /\ pc'[t] \in {"idle", "acquire", "get", "waiting"}
    BY <1>1 DEF IInv, TypeOK, ThreadSteps, Goto, Ends
  <2>2. TypeOK'
    BY <1>1, <2>1 DEF IInv, TypeOK
  <2>3. PoolIsSet'
    BY <1>1, <2>1 DEF IInv, PoolIsSet
  <2>4. HasConn'
    BY <2>1 DEF IInv, HasConn
  <2>5. \A u \in Threads, c \in Conns : Holds(u, c)' <=> Holds(u, c)
    BY <1>1, <2>1 DEF Holds
  <2>6. QED
    BY <1>1, <2>2, <2>3, <2>4, <2>5, NothingMoves
<1>2. CASE Execute(t)
  BY <1>1, <1>2 DEF Execute
<1>3. CASE Acquire(t)
  BY <1>1, <1>3 DEF Acquire
<1>4. CASE Get(t)
  BY <1>1, <1>4 DEF Get
<1>5. CASE Got(t)
  BY <1>5, GotIInv
<1>6. CASE TimesOut(t)
  BY <1>1, <1>6 DEF TimesOut
<1>7. CASE Query(t) \/ Release(t)
  <2>1. /\ UNCHANGED <<phase, pool, idle, open>>
        /\ pc[t] \in {"query", "release"}
        /\ \/ pc'[t] \in {"release", "put"} /\ conn'[t] = conn[t]
           \/ ~pool /\ pc'[t] = "idle"
        /\ pc' \in [Threads -> ThreadSteps]
        /\ conn' \in [Threads -> Conns \cup {NoConn}]
        /\ \A u \in Threads : u # t => pc'[u] = pc[u] /\ conn'[u] = conn[u]
    <3>1. CASE Query(t)
      BY <3>1 DEF Query, AfterQuery, Goto, IInv, TypeOK, ThreadSteps
    <3>2. CASE Release(t)
      BY <3>2 DEF Release, Goto, Ends, IInv, TypeOK, ThreadSteps
    <3>3. QED
      BY <1>7, <3>1, <3>2
  <2>2. TypeOK'
    BY <2>1 DEF IInv, TypeOK
  <2>3. PoolIsSet' /\ phase \notin {"connecting", "failed"}
    BY <2>1 DEF IInv, PoolIsSet
  <2>4. HasConn'
    BY <2>1 DEF IInv, HasConn
  <2>5. \A u \in Threads, c \in Conns : Holds(u, c)' => Holds(u, c)
    BY <2>1 DEF Holds
  <2>6. pool => \A u \in Threads, c \in Conns : Holds(u, c) => Holds(u, c)'
    BY <2>1 DEF Holds
  <2>7. phase' \in {"open", "draining", "clearing"} => pool
    BY <2>1 DEF IInv, PoolIsSet
  <2>8. QED
    BY <2>1, <2>2, <2>3, <2>4, <2>5, <2>6, <2>7, NothingMoves
<1>8. CASE Put(t)
  BY <1>8, PutIInv
<1>9. QED
  BY <1>2, <1>3, <1>4, <1>5, <1>6, <1>7, <1>8 DEF Call

\* Closing the pool.
LEMMA DrainIInv ==
  ASSUME IInv, Drain \/ DrainFails PROVE IInv'
<1> DEFINE d == Head(idle)
<1>1. /\ idle' \in Seq(Conns) /\ d \in Conns
      /\ Queued = Queued' \cup {d}
      /\ d \notin Queued' /\ Distinct(idle')
  <2>1. idle \in Seq(Conns) /\ Distinct(idle) /\ idle # <<>>
    BY QueuedElems DEF IInv, TypeOK, Drain, DrainFails
  <2>2. idle' = Tail(idle)
    BY DEF Drain, DrainFails, Drained
  <2>3. QED
    BY <2>1, <2>2, TailElems, QueuedElems
<1> HIDE DEF d
<1>2. /\ phase = "draining" /\ phase' \in {"draining", "aborted"}
      /\ open' \in {open, open \ {d}}
      /\ phase' = "draining" => open' = open \ {d}
      /\ UNCHANGED <<pool, pc, conn>>
  BY DEF Drain, DrainFails, ClosedBy, d
<1>3. \A t \in Threads, c \in Conns : Holds(t, c)' <=> Holds(t, c)
  BY <1>2 DEF Holds
<1>4. \A t \in Threads : ~Holds(t, d)
  BY <1>1 DEF IInv, OnePlace
<1>5. TypeOK' /\ PoolIsSet' /\ HasConn' /\ CreatedInQueue'
  BY <1>1, <1>2
     DEF IInv, TypeOK, PoolIsSet, HasConn, CreatedInQueue, Phases
<1>6. OnePlace'
  <2>1. \A u \in Threads, c \in Conns : Holds(u, c) =>
          c \notin Queued /\ \A w \in Threads : Holds(w, c) => w = u
    BY DEF IInv, OnePlace
  <2>2. \A u \in Threads, c \in Conns : Holds(u, c)' =>
          c \notin Queued' /\ \A w \in Threads : Holds(w, c)' => w = u
    BY <1>1, <1>3, <2>1
  <2>3. QED
    BY <1>1, <2>2, QueuedElems
<1>7. UsableIsOpen'
  BY <1>1, <1>2, <1>3, <1>4 DEF IInv, UsableIsOpen
<1>8. NoneLost'
  BY <1>1, <1>2, <1>3 DEF IInv, NoneLost, TypeOK
<1>9. QED
  BY <1>5, <1>6, <1>7, <1>8 DEF IInv

LEMMA CloseIInv ==
  ASSUME IInv, CloseBegins \/ Closing PROVE IInv'
<1>1. CASE Drain \/ DrainFails
  BY <1>1, DrainIInv
<1>2. CASE CloseBegins \/ Drains \/ Clear
  <2>1. /\ UNCHANGED <<idle, open, pc, conn>>
        /\ \/ phase = "open" /\ phase' = "draining" /\ pool' = pool
           \/ phase = "draining" /\ phase' = "clearing" /\ pool' = pool
           \/ phase = "clearing" /\ phase' = "closed" /\ pool' = FALSE
    BY <1>2 DEF CloseBegins, Drains, Clear
  <2>2. phase' \in Phases /\ pool' \in BOOLEAN /\ PoolIsSet'
    <3>1. CASE pool' = pool
      BY <2>1, <3>1 DEF IInv, TypeOK, PoolIsSet, Phases
    <3>2. CASE pool' = FALSE /\ phase' = "closed"
      <4>1. phase' \notin {"open", "draining", "clearing", "aborted"}
        BY <3>2
      <4>2. phase' \in Phases /\ phase' \notin {"connecting", "failed"}
        BY <3>2 DEF Phases
      <4>3. pool' = FALSE
        BY <3>2
      <4>4. QED
        BY <4>1, <4>2, <4>3, Zenon DEF PoolIsSet
    <3>3. QED
      BY <2>1, <3>1, <3>2
  <2>3. TypeOK' /\ HasConn'
    BY <2>1, <2>2 DEF IInv, TypeOK, HasConn
  <2>4. \A t \in Threads, c \in Conns : Holds(t, c)' <=> Holds(t, c)
    BY <2>1 DEF Holds
  <2>5. QED
    BY <2>1, <2>2, <2>3, <2>4, NothingMoves
<1>3. QED
  BY <1>1, <1>2 DEF Closing

LEMMA StepIInv == IInv /\ [Next]_vars => IInv'
<1> SUFFICES ASSUME IInv, [Next]_vars PROVE IInv'
  OBVIOUS
<1>1. CASE Create
  BY <1>1, CreateIInv
<1>2. CASE \E t \in Threads : Execute(t) \/ Call(t)
  BY <1>2, CallIInv
<1>3. CASE CloseBegins \/ Closing
  BY <1>3, CloseIInv
<1>4. CASE UNCHANGED vars
  <2>1. TypeOK' /\ PoolIsSet' /\ HasConn'
    BY <1>4 DEF IInv, vars, TypeOK, PoolIsSet, HasConn
  <2>2. QED
    BY <1>4, <2>1, NothingMoves DEF vars, Holds
<1>5. QED
  BY <1>1, <1>2, <1>3, <1>4 DEF Next

\* The inductive invariant holds in every reachable state.
THEOREM Inductive == Spec => []IInv
<1>1. QED
  BY InitIInv, StepIInv, PTL DEF Spec

\* Every variable keeps its type.
THEOREM TypeCorrect == Spec => []TypeOK
<1>1. IInv => TypeOK
  BY DEF IInv
<1>2. QED
  BY <1>1, Inductive, PTL

\* For any number of threads and connections no connection is in two places,
\* and none that a thread uses or may get has been closed.
THEOREM Exclusive == Spec => []UsableInOnePlace
<1>1. IInv => UsableInOnePlace
  BY DEF IInv, UsableInOnePlace
<1>2. QED
  BY <1>1, Inductive, PTL

\* Until _close_sync has run no open connection drops out of circulation.
THEOREM NothingLost == Spec => []NoneLost
<1>1. IInv => NoneLost
  BY DEF IInv
<1>2. QED
  BY <1>1, Inductive, PTL

\* put never waits: neither in _release nor in _create_pool.
THEOREM NoWaitingPut == Spec => []PutNeverWaits
<1>1. IInv => PutNeverWaits
  <2> SUFFICES ASSUME IInv PROVE PutNeverWaits
    OBVIOUS
  <2>1. idle \in Seq(Conns) /\ Distinct(idle)
    BY QueuedElems DEF IInv, TypeOK
  <2>2. ASSUME NEW t \in Threads, pc[t] = "put"
        PROVE  Len(idle) < QueueSize
    <3>1. conn[t] \in Conns /\ Holds(t, conn[t])
      BY <2>2 DEF IInv, HasConn, Holds
    <3>2. conn[t] \notin Elems(idle)
      BY <3>1, QueuedElems DEF IInv
    <3>3. QED
      BY <2>1, <3>1, <3>2, RoomForOne
  <2>3. ASSUME open # Conns PROVE Len(idle) < QueueSize
    <3>1. PICK c \in Conns : c \notin open
      BY <2>3 DEF IInv, TypeOK
    <3>2. c \notin Elems(idle)
      BY <3>1, QueuedElems DEF IInv, UsableIsOpen
    <3>3. QED
      BY <2>1, <3>2, RoomForOne
  <2>4. QED
    BY <2>2, <2>3 DEF PutNeverWaits
<1>2. QED
  BY <1>1, Inductive, PTL

-----------------------------------------------------------------------------
(* The refinement of ConnectionLeases.                                     *)

Free(c) == c \in Queued \/ phase \in {"connecting", "failed"}

\* The lease of a connection belongs to the only thread that holds it.
LEMMA LeaseIs ==
  ASSUME IInv, NEW c \in Conns
  PROVE  /\ \A t \in Threads : Holds(t, c) => LeaseOf(c) = t
         /\ (\A t \in Threads : ~Holds(t, c)) =>
              LeaseOf(c) = IF Free(c) THEN "free" ELSE "retired"
<1>1. ASSUME NEW t \in Threads, Holds(t, c) PROVE LeaseOf(c) = t
  <2>1. \A u \in Threads : Holds(u, c) => u = t
    BY <1>1 DEF IInv, OnePlace
  <2>2. (CHOOSE u \in Threads : Holds(u, c)) = t
    BY <1>1, <2>1
  <2>3. QED
    BY <1>1, <2>2 DEF LeaseOf
<1>2. QED
  BY <1>1 DEF LeaseOf, Free

\* The same after a step.
LEMMA LeaseIsNext ==
  ASSUME IInv', NEW c \in Conns
  PROVE  /\ \A t \in Threads : Holds(t, c)' => LeaseOf(c)' = t
         /\ (\A t \in Threads : ~Holds(t, c)') =>
              LeaseOf(c)' = IF Free(c)' THEN "free" ELSE "retired"
<1>1. ASSUME NEW t \in Threads, Holds(t, c)' PROVE LeaseOf(c)' = t
  <2>1. \A u \in Threads : Holds(u, c)' => u = t
    BY <1>1 DEF IInv, OnePlace
  <2>2. (CHOOSE u \in Threads : Holds(u, c)') = t
    BY <1>1, <2>1
  <2>3. QED
    BY <1>1, <2>2 DEF LeaseOf
<1>2. QED
  BY <1>1 DEF LeaseOf, Free

LeaseMap == [c \in Conns |-> LeaseOf(c)]

\* A step that moves no connection changes no lease.
LEMMA LeasesStay ==
  ASSUME IInv, IInv',
         \A t \in Threads, c \in Conns : Holds(t, c)' <=> Holds(t, c),
         \A c \in Conns : Free(c)' <=> Free(c)
  PROVE  LeaseMap' = LeaseMap
<1>1. ASSUME NEW c \in Conns PROVE LeaseOf(c)' = LeaseOf(c)
  <2>1. CASE \E t \in Threads : Holds(t, c)
    BY <2>1, LeaseIs, LeaseIsNext
  <2>2. CASE \A t \in Threads : ~Holds(t, c)
    BY <2>2, LeaseIs, LeaseIsNext
  <2>3. QED
    BY <2>1, <2>2
<1>2. QED
  BY <1>1 DEF LeaseMap

\* If only connection d moves, only the lease of d changes.
LEMMA OneLeaseMoves ==
  ASSUME IInv, IInv', NEW d \in Conns, NEW l,
         \A t \in Threads, c \in Conns \ {d} : Holds(t, c)' <=> Holds(t, c),
         \A c \in Conns \ {d} : Free(c)' <=> Free(c),
         LeaseOf(d)' = l
  PROVE  LeaseMap' = [LeaseMap EXCEPT ![d] = l]
<1>1. ASSUME NEW c \in Conns \ {d} PROVE LeaseOf(c)' = LeaseOf(c)
  <2>1. CASE \E t \in Threads : Holds(t, c)
    BY <2>1, LeaseIs, LeaseIsNext
  <2>2. CASE \A t \in Threads : ~Holds(t, c)
    BY <2>2, LeaseIs, LeaseIsNext
  <2>3. QED
    BY <2>1, <2>2
<1>2. QED
  BY <1>1 DEF LeaseMap

\* A thread that has no connection in use has no lease.
LEMMA NoLease ==
  ASSUME IInv, NEW t \in Threads, pc[t] = "waiting"
  PROVE  \A c \in Conns : LeaseOf(c) # t
<1> SUFFICES ASSUME NEW c \in Conns, LeaseOf(c) = t PROVE FALSE
  OBVIOUS
<1>1. \A u \in Threads : ~Holds(u, c)
  BY LeaseIs DEF Holds
<1>2. LeaseOf(c) \in {"free", "retired"}
  BY <1>1, LeaseIs
<1>3. QED
  BY <1>2, PoolAssumption

\* get grants a free connection.
LEMMA GotGrants ==
  ASSUME IInv, IInv', NEW t \in Threads, Got(t)
  PROVE  \E d \in Conns : /\ LeaseMap[d] = "free"
                          /\ \A c \in Conns : LeaseMap[c] # t
                          /\ LeaseMap' = [LeaseMap EXCEPT ![d] = t]
<1>0. PICK d : d = Head(idle)
  OBVIOUS
<1>1. d \in Conns /\ Queued = Queued' \cup {d}
  <2>1. idle \in Seq(Conns) /\ idle # <<>> /\ idle' = Tail(idle)
    BY DEF IInv, TypeOK, Got, Rest
  <2>2. QED
    BY <1>0, <2>1, TailElems, QueuedElems
<1>2. /\ pc' = [pc EXCEPT ![t] = "query"] /\ conn' = [conn EXCEPT ![t] = d]
      /\ pc[t] = "waiting" /\ phase' = phase
  BY <1>0 DEF Got, Goto
<1>3. Holds(t, d)' /\ \A u \in Threads, c \in Conns \ {d} :
                         Holds(u, c)' <=> Holds(u, c)
  BY <1>1, <1>2, PoolAssumption DEF IInv, TypeOK, Holds
<1>4. \A c \in Conns \ {d} : Free(c)' <=> Free(c)
  BY <1>1, <1>2 DEF Free
<1>5. LeaseMap' = [LeaseMap EXCEPT ![d] = t]
  <2>1. LeaseOf(d)' = t
    BY <1>1, <1>3, LeaseIsNext
  <2>2. QED
    BY <1>1, <1>3, <1>4, <2>1, OneLeaseMoves
<1>6. LeaseOf(d) = "free"
  BY <1>1, LeaseIs DEF Free, IInv, OnePlace
<1>7. QED
  BY <1>1, <1>2, <1>5, <1>6, NoLease DEF LeaseMap

\* A thread that ends its call with a connection returns it or drops it.
LEMMA ReturnsOrDrops ==
  ASSUME IInv, IInv', NEW t \in Threads, pc[t] \in {"release", "put"},
         Ends(t), phase' = phase, pool' = pool,
         Queued' \in {Queued, Queued \cup {conn[t]}}
  PROVE  \E d \in Conns, l \in {"free", "retired"} :
            LeaseMap[d] = t /\ LeaseMap' = [LeaseMap EXCEPT ![d] = l]
<1>0. PICK d : d = conn[t]
  OBVIOUS
<1>1. d \in Conns /\ Holds(t, d)
  BY <1>0 DEF IInv, HasConn, Holds
<1>2. LeaseMap[d] = t
  BY <1>1, LeaseIs DEF LeaseMap
<1>3. \A u \in Threads : Holds(u, d) => u = t
  BY <1>1 DEF IInv, OnePlace
<1>4. \A u \in Threads : u # t => pc'[u] = pc[u] /\ conn'[u] = conn[u]
  BY DEF Ends, IInv, TypeOK
<1>5. pc'[t] = "idle"
  BY DEF Ends, IInv, TypeOK
<1>6. \A u \in Threads : ~Holds(u, d)'
  BY <1>3, <1>4, <1>5 DEF Holds
<1>7. PICK l : l = LeaseOf(d)'
  OBVIOUS
<1>8. l \in {"free", "retired"}
  BY <1>1, <1>6, <1>7, LeaseIsNext
<1>9. \A u \in Threads, c \in Conns \ {d} : Holds(u, c)' <=> Holds(u, c)
  BY <1>0, <1>4, <1>5 DEF Holds
<1>10. \A c \in Conns \ {d} : Free(c)' <=> Free(c)
  BY <1>0 DEF Free
<1>11. LeaseMap' = [LeaseMap EXCEPT ![d] = l]
  BY <1>1, <1>7, <1>9, <1>10, OneLeaseMoves
<1>12. QED
  BY <1>1, <1>2, <1>8, <1>11

\* _close_sync retires the connection it takes.
LEMMA DrainRetires ==
  ASSUME IInv, IInv', Drain \/ DrainFails
  PROVE  \E d \in Conns : /\ LeaseMap[d] = "free"
                          /\ LeaseMap' = [LeaseMap EXCEPT ![d] = "retired"]
<1>0. PICK d : d = Head(idle)
  OBVIOUS
<1>1. d \in Conns /\ Queued = Queued' \cup {d} /\ d \notin Queued'
  <2>1. /\ idle \in Seq(Conns) /\ idle # <<>> /\ idle' = Tail(idle)
        /\ Distinct(idle)
    BY QueuedElems DEF IInv, TypeOK, Drain, DrainFails, Drained
  <2>2. QED
    BY <1>0, <2>1, TailElems, QueuedElems
<1>2. /\ phase = "draining" /\ phase' \in {"draining", "aborted"}
      /\ UNCHANGED <<pc, conn>>
  BY DEF Drain, DrainFails
<1>3. \A t \in Threads, c \in Conns : Holds(t, c)' <=> Holds(t, c)
  BY <1>2 DEF Holds
<1>4. \A t \in Threads : ~Holds(t, d)
  BY <1>1 DEF IInv, OnePlace
<1>5. LeaseOf(d) = "free" /\ LeaseOf(d)' = "retired"
  BY <1>1, <1>2, <1>3, <1>4, LeaseIs, LeaseIsNext DEF Free
<1>6. \A c \in Conns \ {d} : Free(c)' <=> Free(c)
  BY <1>1, <1>2 DEF Free
<1>7. LeaseMap' = [LeaseMap EXCEPT ![d] = "retired"]
  BY <1>1, <1>3, <1>5, <1>6, OneLeaseMoves
<1>8. QED
  BY <1>1, <1>5, <1>7 DEF LeaseMap

\* Each remaining step of a call leaves the leases alone, or ends the call of
\* a thread whose connection is dropped.
LEMMA CallLeases ==
  ASSUME IInv, IInv', NEW t \in Threads, Execute(t) \/ Call(t)
  PROVE  \/ LeaseMap' = LeaseMap
         \/ \E d \in Conns : /\ LeaseMap[d] = "free"
                             /\ \A c \in Conns : LeaseMap[c] # t
                             /\ LeaseMap' = [LeaseMap EXCEPT ![d] = t]
         \/ \E d \in Conns, l \in {"free", "retired"} :
              LeaseMap[d] = t /\ LeaseMap' = [LeaseMap EXCEPT ![d] = l]
<1>1. ASSUME UNCHANGED <<phase, idle>>,
             \/ \E step \in {"acquire", "get", "waiting"} :
                  /\ Goto(t, step) /\ UNCHANGED conn
                  /\ pc[t] \in {"idle", "acquire", "get"}
             \/ Ends(t) /\ pc[t] \in {"acquire", "get", "waiting"}
             \/ \E step \in {"release", "put"} :
                  /\ Goto(t, step) /\ UNCHANGED conn
                  /\ pc[t] \in {"query", "release"}
      PROVE  LeaseMap' = LeaseMap
  <2>1. \A u \in Threads, c \in Conns : Holds(u, c)' <=> Holds(u, c)
    BY <1>1 DEF IInv, TypeOK, Holds, Goto, Ends
  <2>2. \A c \in Conns : Free(c)' <=> Free(c)
    BY <1>1 DEF Free, Queued
  <2>3. QED
    BY <2>1, <2>2, LeasesStay
<1>2. CASE Execute(t)
  BY <1>1, <1>2 DEF Execute
<1>3. CASE Acquire(t)
  BY <1>1, <1>3 DEF Acquire
<1>4. CASE Get(t)
  BY <1>1, <1>4 DEF Get
<1>5. CASE Got(t)
  BY <1>5, GotGrants
<1>6. CASE TimesOut(t)
  BY <1>1, <1>6 DEF TimesOut
<1>7. CASE Query(t)
  BY <1>1, <1>7 DEF Query, AfterQuery
<1>8. CASE Release(t)
  <2>1. CASE pool
    BY <1>1, <1>8, <2>1 DEF Release
  <2>2. CASE ~pool
    <3>1. Queued' = Queued
      BY <1>8 DEF Release, Queued
    <3>2. QED
      BY <1>8, <2>2, <3>1, ReturnsOrDrops DEF Release
  <2>3. QED
    BY <2>1, <2>2
<1>9. CASE Put(t)
  <2>1. Queued' \in {Queued, Queued \cup {conn[t]}}
    <3>1. CASE pool
      <4>1. idle' = Append(idle, conn[t]) /\ idle \in Seq(Conns)
        BY <1>9, <3>1 DEF Put, Returned, IInv, TypeOK
      <4>2. conn[t] \in Conns
        BY <1>9 DEF Put, IInv, HasConn
      <4>3. QED
        BY <4>1, <4>2, AppendElems, QueuedElems
    <3>2. CASE ~pool
      BY <1>9, <3>2 DEF Put, Queued
    <3>3. QED
      BY <3>1, <3>2
  <2>2. QED
    BY <1>9, <2>1, ReturnsOrDrops DEF Put
<1>10. QED
  BY <1>2, <1>3, <1>4, <1>5, <1>6, <1>7, <1>8, <1>9 DEF Call

\* While the pool is created every connection is free to be leased, and the
\* steps that begin and end the closing move none.
LEMMA PhaseLeases ==
  ASSUME IInv, IInv', Create \/ CloseBegins \/ Drains \/ Clear
  PROVE  LeaseMap' = LeaseMap
<1>1. UNCHANGED <<pc, conn>>
  BY DEF Create, ConnectFails, Created, Connect, CloseBegins, Drains, Clear
<1>2. \A t \in Threads, c \in Conns : Holds(t, c)' <=> Holds(t, c)
  BY <1>1 DEF Holds
<1>3. \A c \in Conns : Free(c)' <=> Free(c)
  <2>1. CASE ConnectFails \/ \E c \in Conns : Connect(c)
    BY <2>1 DEF ConnectFails, Connect, Free
  <2>2. CASE Created
    <3>1. Conns \subseteq Queued /\ Queued' = Queued
      BY <2>2 DEF Created, IInv, CreatedInQueue, Queued
    <3>2. QED
      BY <2>2, <3>1 DEF Created, Free
  <2>3. CASE CloseBegins \/ Drains \/ Clear
    BY <2>3 DEF CloseBegins, Drains, Clear, Free, Queued
  <2>4. QED
    BY <2>1, <2>2, <2>3 DEF Create
<1>4. QED
  BY <1>2, <1>3, LeasesStay

\* The pool implements the contract of ConnectionLeases: a connection is
\* leased to one thread at a time, given back by it, and never leased again
\* once it was closed or dropped.
THEOREM LeasesRefined == Spec => LeasesKept
<1>1. Init => Leases!Init
  <2> SUFFICES ASSUME Init PROVE LeaseMap = [c \in Conns |-> "free"]
    BY DEF Leases!Init, LeaseMap
  <2>1. \A t \in Threads, c \in Conns : ~Holds(t, c)
    BY PoolAssumption DEF Init, Holds
  <2>2. QED
    BY <2>1, InitIInv, LeaseIs DEF Init, LeaseMap, Free
<1>2. IInv /\ IInv' /\ [Next]_vars => [Leases!Next]_LeaseMap
  <2> SUFFICES ASSUME IInv, IInv', [Next]_vars
               PROVE  [Leases!Next]_LeaseMap
    OBVIOUS
  <2> USE DEF Leases!Next, Leases!Grant, Leases!Return, Leases!Retire,
              Leases!Leased
  <2>1. CASE \E t \in Threads : Execute(t) \/ Call(t)
    BY <2>1, CallLeases, ZenonT(40) DEF LeaseMap
  <2>2. CASE Create \/ CloseBegins \/ Drains \/ Clear
    BY <2>2, PhaseLeases
  <2>3. CASE Drain \/ DrainFails
    BY <2>3, DrainRetires DEF LeaseMap
  <2>4. CASE UNCHANGED vars
    BY <2>4, LeasesStay DEF vars, Holds, Free, Queued
  <2>5. QED
    BY <2>1, <2>2, <2>3, <2>4 DEF Next, Closing
<1>3. QED
  BY <1>1, <1>2, Inductive, PTL
     DEF Spec, LeasesKept, Leases!Spec, LeaseMap
-----------------------------------------------------------------------------
(* Progress of the calls and of closing.                                   *)

\* The steps that a thread is from the end of its call at most.
StepsAhead(step) ==
  CASE step = "acquire" -> 6 [] step = "get" -> 5 [] step = "waiting" -> 4
    [] step = "query" -> 3 [] step = "release" -> 2 [] step = "put" -> 1
    [] OTHER -> 0

\* Each step of a call is one of finitely many, and nobody else turns it back.
CallComesNearer(t) ==
  /\ Call(t) => StepsAhead(pc'[t]) < StepsAhead(pc[t])
  /\ Call(t) \/ Execute(t) \/ pc'[t] = pc[t]

\* Each connection that _close_sync takes is one less to take: what threads put
\* back behind it was open all the time, and nothing is opened any more.
CloseComesNearer ==
  /\ phase = "draining" => open' \subseteq open
  /\ Drain => Cardinality(open') < Cardinality(open)

LEMMA StepsOfCall ==
  ASSUME TypeOK, NEW t \in Threads, Call(t)
  PROVE  /\ StepsAhead(pc'[t]) < StepsAhead(pc[t])
         /\ \A u \in Threads : u # t => pc'[u] = pc[u]
<1>1. pc \in [Threads -> ThreadSteps]
  BY DEF TypeOK
<1>2. PICK step \in ThreadSteps :
        /\ pc' = [pc EXCEPT ![t] = step]
        /\ \/ pc[t] \in {"acquire", "get", "waiting", "release", "put"}
              /\ step = "idle"
           \/ pc[t] = "acquire" /\ step = "get"
           \/ pc[t] = "get" /\ step = "waiting"
           \/ pc[t] = "waiting" /\ step = "query"
           \/ pc[t] = "query" /\ step = "release"
           \/ pc[t] = "release" /\ step = "put"
  <2>1. CASE Acquire(t) \/ Get(t) \/ Release(t)
    BY <2>1 DEF Acquire, Get, Release, Goto, Ends, ThreadSteps
  <2>2. CASE Got(t) \/ TimesOut(t) \/ Query(t) \/ Put(t)
    BY <2>2 DEF Got, TimesOut, Query, AfterQuery, Put, Goto, Ends, ThreadSteps
  <2> QED
    BY <2>1, <2>2 DEF Call
<1>3. pc'[t] = step /\ \A u \in Threads : u # t => pc'[u] = pc[u]
  BY <1>1, <1>2
<1>4. StepsAhead(step) < StepsAhead(pc[t])
  BY <1>2 DEF StepsAhead
<1> QED
  BY <1>3, <1>4

\* Every call goes its finite way, whatever the other threads and _close_sync
\* do to the pool meanwhile; and _close_sync does not take for ever, though
\* threads put connections back into the queue that it empties.
THEOREM CallsAndCloseEndNearer ==
  Spec => [][CloseComesNearer /\ \A t \in Threads : CallComesNearer(t)]_vars
<1>1. ASSUME IInv, Next, NEW t \in Threads PROVE CallComesNearer(t)
  <2>1. Call(t) => StepsAhead(pc'[t]) < StepsAhead(pc[t])
    BY <1>1, StepsOfCall DEF IInv
  <2>2. ASSUME NEW u \in Threads, Execute(u) \/ Call(u), u # t
        PROVE  pc'[t] = pc[t]
    <3>1. CASE Execute(u)
      BY <2>2, <3>1, <1>1 DEF Execute, Goto, IInv, TypeOK
    <3>2. CASE Call(u)
      BY <2>2, <3>2, <1>1, StepsOfCall DEF IInv
    <3> QED
      BY <2>2, <3>1, <3>2
  <2>3. Create \/ CloseBegins \/ Closing => pc'[t] = pc[t]
    BY DEF Create, ConnectFails, Created, Connect, CloseBegins, Closing,
       Drain, DrainFails, Drains, Clear
  <2> QED
    BY <1>1, <2>1, <2>2, <2>3, Zenon DEF Next, CallComesNearer
<1>2. ASSUME IInv, Next PROVE CloseComesNearer
  <2>1. phase = "draining" => open' \subseteq open
    <3>1. ASSUME NEW t \in Threads, Execute(t) \/ Call(t) PROVE UNCHANGED open
      BY <3>1 DEF Execute, Call, Acquire, Get, Got, TimesOut, Query, Release,
         Put
    <3>2. CloseBegins \/ Closing => open' \subseteq open
      BY DEF CloseBegins, Closing, Drain, DrainFails, Drains, Clear
    <3>3. Create => phase = "connecting"
      BY DEF Create, ConnectFails, Created, Connect
    <3> QED
      BY <1>2, <3>1, <3>2, <3>3 DEF Next
  <2>2. ASSUME Drain PROVE Cardinality(open') < Cardinality(open)
    <3>1. open \subseteq Conns /\ idle \in Seq(Conns) /\ idle # <<>>
      BY <1>2, <2>2 DEF IInv, TypeOK, Drain
    <3>2. Head(idle) \in Conns /\ Head(idle) \in Queued
      BY <3>1, TailElems DEF Queued, Elems
    <3>3. Head(idle) \in open
      BY <1>2, <3>2 DEF IInv, UsableIsOpen
    <3>4. IsFiniteSet(open)
      BY <3>1, PoolAssumption, FS_Subset
    <3>5. open' = open \ {Head(idle)}
      BY <2>2 DEF Drain, ClosedBy
    <3>6. Cardinality(open') = Cardinality(open) - 1
      BY <3>3, <3>4, <3>5, FS_RemoveElement
    <3>7. Cardinality(open) \in Nat
      BY <3>4, FS_CardinalityType
    <3> QED
      BY <3>6, <3>7
  <2> QED
    BY <2>1, <2>2 DEF CloseComesNearer
<1>3. IInv /\ [Next]_vars =>
        [CloseComesNearer /\ \A t \in Threads : CallComesNearer(t)]_vars
  BY <1>1, <1>2
<1> QED
  BY <1>3, Inductive, PTL DEF Spec
=============================================================================
