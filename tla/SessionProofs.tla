----------------------------- MODULE SessionProofs -----------------------------
(***************************************************************************)
(* Proofs about Session, for every set of users, every configuration and   *)
(* every lifetime of tokens: a role that was taken away ends with the      *)
(* token, the users are those that the configuration names, and a process  *)
(* that ends loses a connector by a failure only.                          *)
(***************************************************************************)
EXTENDS Session, WellFoundedInduction, TLAPS

-----------------------------------------------------------------------------
(* The user store.                                                         *)

\* Every set of numbers up to a bound has a largest one.
LEMMA LargestNumber ==
  ASSUME NEW m \in Nat, NEW S \in SUBSET (0..m), S # {}
  PROVE  \E i \in S : \A j \in S : j <= i
<1> DEFINE R == OpToRel(<, Nat)
           T == {m - i : i \in S}
<1>1. T \subseteq Nat /\ T # {}
  <2>1. \A i \in S : m - i \in Nat
    BY SMT
  <2>2. PICK i \in S : TRUE
    OBVIOUS
  <2> QED
    BY <2>1, <2>2, Zenon
<1>2. \E x \in T : \A y \in T : <<y, x>> \notin R
  BY <1>1, NatLessThanWellFounded, WFMin
<1>3. PICK i \in S : \A j \in S : <<m - j, m - i>> \notin R
  BY <1>2
<1>4. \A j \in S : ~ (m - j < m - i)
  BY <1>1, <1>3 DEF OpToRel
<1> QED
  BY <1>4

Complete(config, u) ==
  {i \in DOMAIN config : config[i].user = u /\ config[i].fields >= 2}

ConfigEntries == [user : Users, fields : 1..3, roles : SUBSET RoleNames]

\* EntryOf is the last complete entry of its user.
LEMMA EntryOfIsLast ==
  ASSUME NEW config \in Configs, NEW u \in Named(config)
  PROVE  \E i \in Complete(config, u) :
            /\ \A j \in Complete(config, u) : j <= i
            /\ EntryOf(config, u) = config[i]
<1>1. config \in Seq(ConfigEntries)
  BY SessionAssumption DEF ConfigEntries
<1>2. Len(config) \in Nat /\ DOMAIN config = 1..Len(config)
  BY <1>1
<1>3. Complete(config, u) \in SUBSET (0..Len(config))
  BY <1>2 DEF Complete
<1>4. Complete(config, u) # {}
  BY DEF Complete, Named
<1>5. PICK k \in Complete(config, u) : \A j \in Complete(config, u) : j <= k
  BY <1>2, <1>3, <1>4, LargestNumber
<1> DEFINE Last(i) == /\ config[i].user = u /\ config[i].fields >= 2
                      /\ \A j \in i + 1..Len(config) :
                           config[j].user # u \/ config[j].fields < 2
           i == CHOOSE n \in DOMAIN config : Last(n)
<1>6. \A j \in DOMAIN config : config[j].fields \in 1..3
  <2>1. \A j \in DOMAIN config : config[j] \in ConfigEntries
    BY <1>1
  <2> QED
    BY <2>1 DEF ConfigEntries
<1>7. k \in DOMAIN config /\ Last(k)
  BY <1>2, <1>5, <1>6 DEF Complete
<1>8. i \in DOMAIN config /\ Last(i)
  BY <1>7
<1>9. EntryOf(config, u) = config[i]
  BY DEF EntryOf
<1> HIDE DEF i
<1>10. \A j \in Complete(config, u) : j <= i
  BY <1>2, <1>6, <1>8 DEF Complete
<1> QED
  BY <1>8, <1>9, <1>10 DEF Complete

\* What _parse_users returns.
LEMMA ParsedUsers ==
  ASSUME NEW config \in Configs
  PROVE  /\ DOMAIN ParseUsers(config) = Named(config)
         /\ Named(config) \subseteq Users
         /\ \A u \in Named(config) : ParseUsers(config)[u] \in SUBSET RoleNames
<1>1. config \in Seq(ConfigEntries)
  BY SessionAssumption DEF ConfigEntries
<1>2. \A i \in DOMAIN config : config[i] \in ConfigEntries
  BY <1>1
<1>3. Named(config) \subseteq Users
  BY <1>2 DEF Named, ConfigEntries
<1>4. ASSUME NEW u \in Named(config)
      PROVE  ParseUsers(config)[u] \in SUBSET RoleNames
  <2>1. PICK i \in Complete(config, u) : EntryOf(config, u) = config[i]
    BY EntryOfIsLast
  <2>2. EntryOf(config, u).roles \in SUBSET RoleNames
    BY <1>2, <2>1 DEF Complete, ConfigEntries
  <2> QED
    BY <2>2 DEF ParseUsers
<1> QED
  BY <1>3, <1>4 DEF ParseUsers
-----------------------------------------------------------------------------
(* The invariant.                                                          *)

\* The store is that of the configuration from init_user_store to the end of
\* the process, and empty before and after.
StoreIsParsed ==
  user_store =
    IF phase \in {"serving", "shutdown"} \/ (phase = "startup" /\ step > 6)
    THEN ParseUsers(kdaf_users) ELSE NoUsers

\* When somebody was last a knowledge engineer is now or was earlier.
HeldUntilNow ==
  \A u \in Users : /\ held[u] <= clock
                   /\ u \in Engineers(user_store) => held[u] = clock

\* A token with the role was issued when its user had it.
TokenWasEarned ==
  token # NoToken /\ Engineer \in token.roles =>
    token.exp <= held[token.sub] + Lifetime

IInv == TypeOK /\ StoreIsParsed /\ HeldUntilNow /\ TokenWasEarned

LEMMA Lengths == Len(Startup) = 7 /\ Len(Shutdown) = 3
BY DEF Startup, Shutdown

LEMMA InitInv == Init => IInv
<1> SUFFICES ASSUME Init PROVE IInv
  OBVIOUS
<1> USE SessionAssumption DEF Init
<1>1. TypeOK
  <2>1. LifespanTypeOK
    <3>1. registered \in BOOLEAN
      BY Zenon DEF InitLifespan
    <3>2. connectors \in [Connectors -> {"none", "open", "closed"}]
      BY DEF InitLifespan
    <3>3. phase = "down" /\ step = 1 /\ exit = "none"
      BY DEF InitLifespan
    <3> QED
      BY <3>1, <3>2, <3>3, Lengths DEF LifespanTypeOK
  <2>2. DOMAIN user_store = {}
    BY DEF NoUsers
  <2> QED
    BY <2>1, <2>2 DEF TypeOK
<1>2. StoreIsParsed
  BY DEF StoreIsParsed, InitLifespan
<1>3. HeldUntilNow
  BY DEF HeldUntilNow, Engineers, NoUsers
<1>4. TokenWasEarned
  BY DEF TokenWasEarned
<1> QED
  BY <1>1, <1>2, <1>3, <1>4 DEF IInv

\* What the processes of the backend do to the variables of Lifespan.
LEMMA LifespanTypeStays ==
  ASSUME LifespanTypeOK, LifespanStep
  PROVE  LifespanTypeOK'
<1> USE Lengths DEF LifespanTypeOK
<1>1. CASE StartProcess
  <2>1. registered' \in BOOLEAN
    BY <1>1, Zenon DEF StartProcess
  <2>2. connectors' \in [Connectors -> {"none", "open", "closed"}]
    BY <1>1 DEF StartProcess
  <2> QED
    BY <1>1, <2>1, <2>2 DEF StartProcess
<1>2. CASE Prepare
  <2>1. registered' \in BOOLEAN
    BY <1>2, Zenon DEF Prepare
  <2>2. connectors' \in [Connectors -> {"none", "open", "closed"}]
    BY <1>2 DEF Prepare
  <2>3. step' = step + 1 /\ step <= 7 /\ UNCHANGED <<phase, exit>>
    BY <1>2 DEF Prepare
  <2> QED
    BY <2>1, <2>2, <2>3
<1>3. CASE Serve \/ StopServing
  BY <1>3 DEF Serve, StopServing
<1>4. CASE Close
  <2>1. connectors' \in [Connectors -> {"none", "open", "closed"}]
    BY <1>4 DEF Close
  <2>2. step' = step + 1 /\ step <= 3 /\ UNCHANGED <<phase, registered, exit>>
    BY <1>4 DEF Close
  <2> QED
    BY <2>1, <2>2
<1>5. CASE PrepareRaises \/ CloseRaises \/ ExitProcess \/ Die
  BY <1>5 DEF PrepareRaises, CloseRaises, ExitProcess, Die
<1> QED
  BY <1>1, <1>2, <1>3, <1>4, <1>5 DEF LifespanStep

LEMMA StepInv == IInv /\ [Next]_vars => IInv'
<1> SUFFICES ASSUME IInv, [Next]_vars PROVE IInv'
  OBVIOUS
<1> USE DEF IInv
<1>1. /\ Lifetime \in Nat \ {0} /\ MaxTime \in Nat
      /\ clock \in 0..MaxTime /\ kdaf_users \in Configs
      /\ held \in [Users -> -Lifetime..MaxTime]
  BY SessionAssumption DEF TypeOK
<1>2. held \in [Users -> Int] /\ clock \in Nat
  BY <1>1
<1>3. ASSUME NEW store, NEW time \in clock..MaxTime, held' = Observe(store, time)
      PROVE  /\ held' \in [Users -> -Lifetime..MaxTime]
             /\ \A u \in Users : /\ held[u] <= held'[u] /\ held'[u] <= time
                                 /\ u \in Engineers(store) => held'[u] = time
  BY <1>1, <1>3 DEF HeldUntilNow, Observe
<1>4. token # NoToken => token.sub \in Users /\ token.exp \in Nat
  BY <1>1 DEF TypeOK, Tokens
<1>10. ASSUME UNCHANGED token, held' \in [Users -> -Lifetime..MaxTime],
             \A u \in Users : held[u] <= held'[u]
      PROVE  TokenWasEarned'
  <2> SUFFICES ASSUME token # NoToken, Engineer \in token.roles
               PROVE  token.exp <= held'[token.sub] + Lifetime
    BY <1>10 DEF TokenWasEarned
  <2>1. token.exp <= held[token.sub] + Lifetime
    BY DEF TokenWasEarned
  <2>2. token.sub \in Users /\ token.exp \in Nat
    BY <1>4
  <2>3. /\ held[token.sub] \in Int /\ held'[token.sub] \in Int
        /\ held[token.sub] <= held'[token.sub]
    BY <1>1, <1>10, <2>2
  <2> QED
    BY <1>1, <2>1, <2>2, <2>3
<1>5. CASE Tick
  <2>1. /\ clock < MaxTime /\ clock' = clock + 1
        /\ held' = Observe(user_store, clock')
        /\ UNCHANGED <<lifespanVars, kdaf_users, user_store, token, screen>>
    BY <1>5 DEF Tick
  <2>2. clock' \in clock..MaxTime /\ clock' \in 0..MaxTime
    BY <1>1, <2>1
  <2>3. /\ held' \in [Users -> -Lifetime..MaxTime]
        /\ \A u \in Users : /\ held[u] <= held'[u] /\ held'[u] <= clock'
                            /\ u \in Engineers(user_store) => held'[u] = clock'
    BY <1>3, <2>1, <2>2
  <2>4. TypeOK'
    BY <2>1, <2>2, <2>3 DEF TypeOK, LifespanTypeOK, lifespanVars, Tokens
  <2>5. StoreIsParsed'
    BY <2>1 DEF StoreIsParsed, lifespanVars
  <2>6. HeldUntilNow'
    <3>1. Engineers(user_store)' = Engineers(user_store)
      BY <2>1 DEF Engineers
    <3> QED
      BY <2>3, <3>1, Zenon DEF HeldUntilNow
  <2>7. TokenWasEarned'
    <3>1. UNCHANGED token
      BY <2>1
    <3>2. \A u \in Users : held[u] <= held'[u]
      BY <2>3
    <3>3. held' \in [Users -> -Lifetime..MaxTime]
      BY <2>3
    <3> QED
      BY <1>10, <3>1, <3>2, <3>3
  <2> QED
    BY <2>4, <2>5, <2>6, <2>7
<1>6. CASE Reconfigure
  BY <1>6 DEF Reconfigure, TypeOK, LifespanTypeOK, lifespanVars, Tokens,
     StoreIsParsed, HeldUntilNow, Engineers, TokenWasEarned
<1>7. CASE Process
  <2>1. /\ LifespanStep /\ held' = Observe(user_store', clock)
        /\ UNCHANGED <<clock, kdaf_users, token, screen>>
    BY <1>7 DEF Process
  <2>2. /\ held' \in [Users -> -Lifetime..MaxTime]
        /\ \A u \in Users : /\ held[u] <= held'[u] /\ held'[u] <= clock
                            /\ u \in Engineers(user_store') => held'[u] = clock
    BY <1>1, <1>3, <2>1
  <2>3. StoreIsParsed'
    <3>1. phase' = "exited" => user_store' = NoUsers
      BY <1>7 DEF Process
    <3>2. phase' # "exited" =>
            user_store' = IF phase = "startup" /\ phase' = "startup" /\ step = 6
                          THEN ParseUsers(kdaf_users) ELSE user_store
      <4>1. phase = "startup" /\ phase' = "startup" => step \in 1..7
        BY <2>1, Lengths DEF LifespanStep, StartProcess, Prepare, PrepareRaises, Serve,
           StopServing, Close, CloseRaises, ExitProcess, Die, TypeOK, LifespanTypeOK
      <4>2. \A i \in 1..7 : Startup[i] = "init_user_store" <=> i = 6
        BY DEF Startup
      <4> QED
        BY <1>7, <4>1, <4>2 DEF Process
    <3>3. UNCHANGED kdaf_users /\ step \in 1..8
      BY <2>1, Lengths DEF TypeOK, LifespanTypeOK
    <3>4. CASE StartProcess
      BY <3>1, <3>2, <3>3, <3>4 DEF StartProcess, StoreIsParsed
    <3>5. CASE Prepare
      BY <3>1, <3>2, <3>3, <3>5, Lengths DEF Prepare, StoreIsParsed
    <3>6. CASE Serve
      BY <3>1, <3>2, <3>3, <3>6, Lengths DEF Serve, StoreIsParsed
    <3>7. CASE StopServing \/ Close
      <4>1. phase \in {"serving", "shutdown"} /\ phase' = "shutdown"
        BY <3>7 DEF StopServing, Close
      <4>2. user_store' = user_store
        BY <3>2, <4>1
      <4>3. user_store = ParseUsers(kdaf_users)
        BY <4>1 DEF StoreIsParsed
      <4>4. user_store' = ParseUsers(kdaf_users')
        BY <3>3, <4>2, <4>3
      <4> QED
        BY <4>1, <4>4 DEF StoreIsParsed
    <3>8. CASE PrepareRaises \/ CloseRaises \/ ExitProcess \/ Die
      BY <3>1, <3>8
      DEF PrepareRaises, CloseRaises, ExitProcess, Die, StoreIsParsed
    <3> QED
      BY <2>1, <3>4, <3>5, <3>6, <3>7, <3>8 DEF LifespanStep
  <2>4. TypeOK'
    <3>1. DOMAIN user_store' \subseteq Users
      BY <1>1, <2>1, <2>3, ParsedUsers DEF StoreIsParsed, NoUsers
    <3>2. LifespanTypeOK'
      BY <2>1, LifespanTypeStays DEF TypeOK
    <3> QED
      BY <2>1, <2>2, <3>1, <3>2 DEF TypeOK, Tokens
  <2>5. HeldUntilNow'
    <3>1. Engineers(user_store)' = Engineers(user_store')
      BY DEF Engineers
    <3> QED
      BY <2>1, <2>2, <3>1 DEF HeldUntilNow
  <2>6. TokenWasEarned'
    BY <1>10, <2>1, <2>2 DEF TokenWasEarned
  <2> QED
    BY <2>3, <2>4, <2>5, <2>6
<1>8. CASE Login
  <2>1. PICK u \in DOMAIN user_store : token' = TokenFor(u)
    BY <1>8 DEF Login
  <2>2. /\ screen' = "page"
        /\ UNCHANGED <<lifespanVars, clock, kdaf_users, user_store, held>>
    BY <1>8 DEF Login
  <2>3. u \in Users /\ user_store[u] \in SUBSET RoleNames
    BY <1>1, <2>1, ParsedUsers DEF StoreIsParsed, NoUsers, TypeOK
  <2>4. TypeOK'
    BY <1>1, <2>1, <2>2, <2>3
    DEF TypeOK, LifespanTypeOK, lifespanVars, Tokens, TokenFor
  <2>5. StoreIsParsed' /\ HeldUntilNow'
    BY <2>2 DEF StoreIsParsed, lifespanVars, HeldUntilNow, Engineers
  <2>6. TokenWasEarned'
    BY <1>1, <2>1, <2>2, <2>3 DEF TokenWasEarned, TokenFor, HeldUntilNow, Engineers
  <2> QED
    BY <2>4, <2>5, <2>6
<1>9. CASE Open \/ ShowTasks \/ UNCHANGED vars
  <2>1. /\ UNCHANGED <<lifespanVars, clock, kdaf_users, user_store, token, held>>
        /\ screen' \in {"login", "page", "tasks", "denied"}
    BY <1>9 DEF Open, ShowTasks, vars, sessionVars, TypeOK
  <2> QED
    BY <2>1 DEF TypeOK, LifespanTypeOK, lifespanVars, Tokens, StoreIsParsed,
       HeldUntilNow, Engineers, TokenWasEarned
<1> QED
  BY <1>5, <1>6, <1>7, <1>8, <1>9 DEF Next

\* The invariant holds in every state.
THEOREM Inductive == Spec => []IInv
<1> QED
  BY InitInv, StepInv, PTL DEF Spec

-----------------------------------------------------------------------------
(* Theorems.                                                               *)

\* The variables have their types: tokens are those of users, and the clock
\* of who was an engineer never leaves its range.
THEOREM TypeCorrect == Spec => []TypeOK
<1> QED
  BY Inductive, PTL DEF IInv

\* Whoever is shown the tasks was a knowledge engineer of a running process
\* less than JWT_EXPIRE_SECONDS ago (auth.py checks the token, never the
\* store): for every configuration, number of restarts and lifetime.
THEOREM RevocationBounded == Spec => RevocationIsBounded
<1>1. ASSUME IInv, [Next]_vars, screen = "page", screen' = "tasks"
      PROVE  clock - held[token.sub] < Lifetime
  <2>1. CASE ShowTasks
    <3>1. Admits(token)
      BY <1>1, <2>1 DEF ShowTasks
    <3>2. token # NoToken /\ clock < token.exp /\ Engineer \in token.roles
      BY <3>1 DEF Admits, Valid
    <3>3. token.exp <= held[token.sub] + Lifetime
      BY <1>1, <3>2 DEF IInv, TokenWasEarned
    <3>4. token.sub \in Users /\ token.exp \in Nat
      BY <1>1, <3>2, SessionAssumption DEF IInv, TypeOK, Tokens
    <3>5. clock \in Nat /\ held[token.sub] \in Int /\ Lifetime \in Nat
      BY <1>1, <3>4, SessionAssumption DEF IInv, TypeOK
    <3> QED
      BY <3>2, <3>3, <3>4, <3>5
  <2>2. CASE Open \/ Login
    <3>1. screen' \in {"login", "page"}
      BY <2>2 DEF Open, Login
    <3> QED
      BY <1>1, <3>1
  <2>3. CASE Tick \/ Reconfigure \/ Process \/ UNCHANGED vars
    <3>1. screen' = screen
      BY <2>3 DEF Tick, Reconfigure, Process, vars, sessionVars
    <3> QED
      BY <1>1, <3>1
  <2> QED
    BY <1>1, <2>1, <2>2, <2>3 DEF Next
<1>2. IInv /\ [Next]_vars =>
        [screen = "page" /\ screen' = "tasks" =>
           clock - held[token.sub] < Lifetime]_vars
  BY <1>1
<1> QED
  BY <1>2, Inductive, PTL DEF Spec, RevocationIsBounded

\* A serving process knows the users of its configuration and no others, with
\* the roles of their last complete entry; others give nobody a token
\* (_parse_users, init_user_store).
THEOREM StoreConfigured == Spec => []StoreIsConfigured
<1>1. ASSUME IInv PROVE StoreIsConfigured
  <2>1. phase \in {"down", "exited"} => user_store = NoUsers
    BY <1>1 DEF IInv, StoreIsParsed
  <2>2. ASSUME phase \in {"serving", "shutdown"}, NEW u \in Users
        PROVE  LET mine == {i \in DOMAIN kdaf_users :
                              kdaf_users[i].user = u /\ kdaf_users[i].fields > 1}
               IN IF mine = {} THEN u \notin DOMAIN user_store
                  ELSE \E i \in mine : /\ \A j \in mine : j <= i
                                       /\ u \in DOMAIN user_store
                                       /\ kdaf_users[i].fields = 3 =>
                                            user_store[u] = kdaf_users[i].roles
    <3> DEFINE mine == {i \in DOMAIN kdaf_users :
                          kdaf_users[i].user = u /\ kdaf_users[i].fields > 1}
    <3>1. kdaf_users \in Configs /\ user_store = ParseUsers(kdaf_users)
      <4>1. kdaf_users \in Configs
        BY <1>1 DEF IInv, TypeOK
      <4>2. StoreIsParsed
        BY <1>1 DEF IInv
      <4> QED
        BY <2>2, <4>1, <4>2 DEF StoreIsParsed
    <3>2. \A i \in DOMAIN kdaf_users : kdaf_users[i].fields \in 1..3
      <4>1. kdaf_users \in Seq(ConfigEntries)
        BY <3>1, SessionAssumption DEF ConfigEntries
      <4>2. \A i \in DOMAIN kdaf_users : kdaf_users[i] \in ConfigEntries
        BY <4>1
      <4> QED
        BY <4>2 DEF ConfigEntries
    <3>3. mine = Complete(kdaf_users, u)
      BY <3>2 DEF Complete
    <3>4. mine = {} <=> u \notin Named(kdaf_users)
      BY <3>3 DEF Complete, Named
    <3>5. DOMAIN user_store = Named(kdaf_users)
      BY <3>1, ParsedUsers
    <3>6. ASSUME mine # {}
          PROVE  \E i \in mine : /\ \A j \in mine : j <= i
                                 /\ u \in DOMAIN user_store
                                 /\ kdaf_users[i].fields = 3 =>
                                      user_store[u] = kdaf_users[i].roles
      <4>1. u \in Named(kdaf_users)
        BY <3>4, <3>6
      <4>2. PICK i \in Complete(kdaf_users, u) :
              /\ \A j \in Complete(kdaf_users, u) : j <= i
              /\ EntryOf(kdaf_users, u) = kdaf_users[i]
        BY <3>1, <4>1, EntryOfIsLast
      <4>3. kdaf_users[i].fields = 3 => user_store[u] = kdaf_users[i].roles
        BY <3>1, <4>1, <4>2 DEF ParseUsers
      <4> QED
        BY <3>3, <3>5, <4>1, <4>2, <4>3
    <3> QED
      BY <3>4, <3>5, <3>6
  <2> QED
    BY <2>1, <2>2 DEF StoreIsConfigured
<1> QED
  BY <1>1, Inductive, PTL

\* What is still open while the process shuts down is still to be closed.
LeftOpenInv ==
  /\ LeftOpenOnlyByFailure
  /\ phase = "shutdown" =>
       \A c \in Connectors : connectors[c] = "open" =>
         \E i \in step..Len(Shutdown) : Shutdown[i] = c

\* A process that ended left a connector open only if its startup failed, it
\* was killed, or a close raised, its own or that of one before it (main.py
\* has no finally, close_connectors awaits one after the other).
THEOREM LeftOpenByFailure == Spec => []LeftOpenOnlyByFailure
<1>1. Init => LeftOpenInv
  BY DEF Init, InitLifespan, LeftOpenInv, LeftOpenOnlyByFailure
<1>2. ASSUME LeftOpenInv, TypeOK, [Next]_vars PROVE LeftOpenInv'
  <2>0. /\ Shutdown[1] = "neo4j" /\ Shutdown[2] = "redis"
        /\ Shutdown[3] = "data_lake" /\ Len(Shutdown) = 3
    BY DEF Shutdown
  <2> USE DEF LeftOpenInv, LeftOpenOnlyByFailure
  <2>1. CASE UNCHANGED lifespanVars
    BY <1>2, <2>1 DEF lifespanVars
  <2>2. CASE StartProcess \/ Prepare \/ Serve
    BY <2>2 DEF StartProcess, Prepare, Serve
  <2>3. CASE PrepareRaises \/ Die
    BY <2>3 DEF PrepareRaises, Die
  <2>4. CASE StopServing
    BY <2>0, <2>4 DEF StopServing, Connectors
  <2>5. CASE Close
    <3>1. /\ phase = "shutdown" /\ phase' = "shutdown" /\ step' = step + 1
          /\ connectors' = [connectors EXCEPT ![Shutdown[step]] = "closed"]
          /\ step <= 3
      BY <2>0, <2>5 DEF Close
    <3>2. step \in Nat /\ connectors \in [Connectors -> {"none", "open", "closed"}]
      BY <1>2, Lengths DEF TypeOK, LifespanTypeOK
    <3>3. ASSUME NEW c \in Connectors, connectors'[c] = "open"
          PROVE  \E i \in step'..3 : Shutdown[i] = c
      <4>1. connectors[c] = "open" /\ c # Shutdown[step]
        BY <3>1, <3>2, <3>3
      <4>2. PICK i \in step..3 : Shutdown[i] = c
        BY <1>2, <2>0, <3>1, <4>1
      <4> QED
        BY <3>1, <3>2, <4>1, <4>2
    <3> QED
      BY <2>0, <3>1, <3>3
  <2>6. CASE CloseRaises
    BY <1>2, <2>6 DEF CloseRaises
  <2>7. CASE ExitProcess
    <3>1. step > 3 /\ phase = "shutdown" /\ UNCHANGED connectors
      BY <2>0, <2>7 DEF ExitProcess
    <3>2. \A c \in Connectors : connectors[c] # "open"
      <4>1. step \in Nat
        BY <1>2, Lengths DEF TypeOK, LifespanTypeOK
      <4>2. step..3 = {}
        BY <3>1, <4>1
      <4> QED
        BY <1>2, <2>0, <3>1, <4>2
    <3> QED
      BY <2>7, <3>1, <3>2 DEF ExitProcess
  <2> QED
    BY <1>2, <2>1, <2>2, <2>3, <2>4, <2>5, <2>6, <2>7
    DEF Next, LifespanStep, Tick, Reconfigure, Process, Login, Open, ShowTasks,
        vars
<1>3. LeftOpenInv => LeftOpenOnlyByFailure
  BY DEF LeftOpenInv
<1> QED
  BY <1>1, <1>2, <1>3, TypeCorrect, PTL DEF Spec
=============================================================================
