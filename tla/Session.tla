-------------------------------- MODULE Session ---------------------------------
(***************************************************************************)
(* A user's session: KDAF_USERS, which a process of the backend parses     *)
(* into its user store when it starts (auth_token.py), the token that      *)
(* /auth/token issues with the roles of that moment, the checks of each    *)
(* request (auth.py), and the browser, which keeps the token in            *)
(* localStorage and knows of it no more than that it is there (login page, *)
(* AuthGuard).  The token outlives the process that issued it, and the     *)
(* user's roles.                                                           *)
(***************************************************************************)
EXTENDS Lifespan, Functions, Integers

CONSTANTS
  Users,     \* user names
  Configs,   \* values of KDAF_USERS: sequences of entries
  NoToken,   \* nothing in localStorage
  Lifetime,  \* JWT_EXPIRE_SECONDS, in ticks of the clock
  MaxTime    \* the clock stops here

Engineer == "knowledge_engineer"
RoleNames == {"analyst", Engineer}

\* An entry has a name, the number of its fields and the roles of the third.
ASSUME SessionAssumption ==
  /\ Configs \subseteq Seq([user : Users, fields : 1..3, roles : SUBSET RoleNames])
  /\ Lifetime \in Nat \ {0} /\ MaxTime \in Nat

VARIABLES
  clock,       \* time.time(), in ticks
  kdaf_users,  \* the environment variable
  user_store,  \* _USER_STORE: the roles of each user of this process
  token,       \* localStorage["kdaf_token"]
  screen,      \* "login", "page", "tasks", "denied"
  held         \* when a user was last a knowledge engineer of a process

sessionVars == <<clock, kdaf_users, user_store, token, screen, held>>
vars == <<lifespanVars, sessionVars>>

-----------------------------------------------------------------------------
(* The user store.                                                         *)

\* Users of the entries that have a password; a malformed entry is skipped.
Named(config) == {config[i].user : i \in {j \in DOMAIN config : config[j].fields >= 2}}

\* As EntryOf, but the first entry of a user counts.
FirstEntryOf(config, u) ==
  config[CHOOSE i \in DOMAIN config :
           /\ config[i].user = u /\ config[i].fields >= 2
           /\ \A j \in 1..i - 1 : config[j].user # u \/ config[j].fields < 2]

\* A later entry of a user replaces an earlier one.
EntryOf(config, u) ==
  config[CHOOSE i \in DOMAIN config :
           /\ config[i].user = u /\ config[i].fields >= 2
           /\ \A j \in i + 1..Len(config) :
                config[j].user # u \/ config[j].fields < 2]

\* _parse_users: an entry without a third field has no roles.
ParseUsers(config) ==
  [u \in Named(config) |->
     IF EntryOf(config, u).fields = 3 THEN EntryOf(config, u).roles ELSE {}]

NoUsers == [u \in {} |-> {}]

\* Who is a knowledge engineer of the running process.
Engineers(store) == {u \in DOMAIN store : Engineer \in store[u]}

-----------------------------------------------------------------------------
Init ==
  /\ InitLifespan
  /\ clock = 0
  /\ kdaf_users \in Configs
  /\ user_store = NoUsers
  /\ token = NoToken
  /\ screen = "login"
  /\ held = [u \in Users |-> -Lifetime]

\* The latest times at which the users were knowledge engineers.
Observe(store, time) ==
  [u \in Users |-> IF u \in Engineers(store) THEN time ELSE held[u]]

Tick ==
  /\ clock < MaxTime
  /\ clock' = clock + 1
  /\ held' = Observe(user_store, clock + 1)
  /\ UNCHANGED <<lifespanVars, kdaf_users, user_store, token, screen>>

(* Another value of KDAF_USERS, for the next process.                      *)
Reconfigure ==
  /\ phase \in {"down", "exited"}
  /\ kdaf_users' \in Configs
  /\ UNCHANGED <<lifespanVars, clock, user_store, token, screen, held>>

(* The lifespan of the process: init_user_store is one of its calls, and   *)
(* the store goes with the process.                                        *)
Process ==
  /\ LifespanStep
  /\ user_store' =
       IF phase' = "exited" THEN NoUsers
       ELSE IF phase = "startup" /\ phase' = "startup"
                 /\ Startup[step] = "init_user_store"
       THEN ParseUsers(kdaf_users) ELSE user_store
  /\ held' = Observe(user_store', clock)
  /\ UNCHANGED <<clock, kdaf_users, token, screen>>

-----------------------------------------------------------------------------
(* Requests.                                                               *)

\* get_current_user: the signature, the expiry and the subject.
Valid(t) == t # NoToken /\ clock < t.exp

\* As Admits, but for any user.
AdmitsAnyUser(t) == Valid(t)

\* require_role("knowledge_engineer"), by the roles of the token.
Admits(t) == Valid(t) /\ Engineer \in t.roles

\* As TokenFor, but its lifetime is added twice.
TokenForTwice(u) ==
  [sub |-> u, roles |-> user_store[u], exp |-> clock + Lifetime + Lifetime]

\* token_endpoint
TokenFor(u) == [sub |-> u, roles |-> user_store[u], exp |-> clock + Lifetime]

(* The login form is submitted with the password of a user of the store;   *)
(* otherwise the form stays, with an error.                                *)
Login ==
  /\ screen = "login" /\ phase = "serving"
  /\ \E u \in DOMAIN user_store : token' = TokenFor(u)
  /\ screen' = "page"
  /\ UNCHANGED <<lifespanVars, clock, kdaf_users, user_store, held>>

(* A page is opened.  AuthGuard redirects to /login if there is no token,  *)
(* and the login page to /enrichment if there is one.                      *)
Open ==
  /\ screen' = IF token = NoToken THEN "login" ELSE "page"
  /\ UNCHANGED <<lifespanVars, clock, kdaf_users, user_store, token, held>>

(* The page of the tasks asks the backend for them, and shows the tasks or *)
(* the error; a 401 does not touch the token.                              *)
ShowTasks ==
  /\ screen = "page"
  /\ screen' = IF phase = "serving" /\ Admits(token) THEN "tasks" ELSE "denied"
  /\ UNCHANGED <<lifespanVars, clock, kdaf_users, user_store, token, held>>

Next == Tick \/ Reconfigure \/ Process \/ Login \/ Open \/ ShowTasks

Spec == Init /\ [][Next]_vars

-----------------------------------------------------------------------------
(* Properties.                                                             *)

Tokens == [sub : Users, roles : SUBSET RoleNames,
           exp : 0..MaxTime + Lifetime]

\* The values of the variables.
TypeOK ==
  /\ LifespanTypeOK
  /\ clock \in 0..MaxTime
  /\ kdaf_users \in Configs
  /\ DOMAIN user_store \subseteq Users
  /\ token = NoToken \/ token \in Tokens
  /\ screen \in {"login", "page", "tasks", "denied"}
  /\ held \in [Users -> -Lifetime..MaxTime]

\* A role that was taken away works for less than the lifetime of a token:
\* whoever is shown the tasks was a knowledge engineer of a running process
\* less than JWT_EXPIRE_SECONDS ago, across restarts and new configurations.
RevocationIsBounded ==
  [][screen = "page" /\ screen' = "tasks" =>
       clock - held[token.sub] < Lifetime]_vars

\* Whoever serves knows exactly the users that its configuration names, with
\* the roles of their last complete entry; a process that does not serve yet
\* or any more gives nobody a token.
StoreIsConfigured ==
  /\ phase \in {"serving", "shutdown"} =>
       \A u \in Users :
         LET mine == {i \in DOMAIN kdaf_users :
                        kdaf_users[i].user = u /\ kdaf_users[i].fields > 1}
         IN IF mine = {} THEN u \notin DOMAIN user_store
            ELSE \E i \in mine : /\ \A j \in mine : j <= i
                                 /\ u \in DOMAIN user_store
                                 /\ kdaf_users[i].fields = 3 =>
                                      user_store[u] = kdaf_users[i].roles
  /\ phase \in {"down", "exited"} => user_store = NoUsers
=============================================================================
