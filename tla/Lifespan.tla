-------------------------------- MODULE Lifespan --------------------------------
(***************************************************************************)
(* The backend process (main.py): the lifespan of the application creates  *)
(* the three connectors, opens the pool of the data lake, hands the        *)
(* connectors to the getters and loads the users; then it serves; then it  *)
(* closes the connectors one after the other.  Any of these calls may      *)
(* raise, and there is no finally.  The process may also just die.         *)
(***************************************************************************)
EXTENDS Naturals, Sequences

VARIABLES
  phase,       \* "down", "startup", "serving", "shutdown", "exited"
  step,        \* the call of the startup or the shutdown that comes next
  connectors,  \* "none", "open" or "closed", for each connector
  registered,  \* init_connectors was called
  exit         \* how the last process ended

lifespanVars == <<phase, step, connectors, registered, exit>>

Connectors == {"neo4j", "redis", "data_lake"}

\* The calls of the lifespan before its yield, in order; the pool is what the
\* data lake holds open, so its connector counts as open only with the pool.
Startup == <<"neo4j", "redis", "build_data_lake", "data_lake",
             "init_connectors", "init_user_store", "get_graph">>

\* As Shutdown, but the driver of the graph is forgotten.
ShutdownWithoutNeo4j == <<"redis", "data_lake">>

\* close_connectors
Shutdown == <<"neo4j", "redis", "data_lake">>

InitLifespan ==
  /\ phase = "down" /\ step = 1
  /\ connectors = [c \in Connectors |-> "none"]
  /\ registered = FALSE
  /\ exit = "none"

StartProcess ==
  /\ phase \in {"down", "exited"}
  /\ phase' = "startup" /\ step' = 1
  /\ connectors' = [c \in Connectors |-> "none"]
  /\ registered' = FALSE
  /\ exit' = "none"

(* A call of the startup returns.                                          *)
Prepare ==
  /\ phase = "startup" /\ step <= Len(Startup)
  /\ connectors' = [c \in Connectors |->
                      IF c = Startup[step] THEN "open" ELSE connectors[c]]
  /\ registered' = (registered \/ Startup[step] = "init_connectors")
  /\ step' = step + 1
  /\ UNCHANGED <<phase, exit>>

\* A driver refuses its URI, the settings of the engine are incomplete or the
\* engine is unknown, no connection to the data lake.
CanRaise(call) == call \in {"neo4j", "redis", "build_data_lake", "data_lake"}

(* The startup fails, and with it the process; nothing is closed.          *)
PrepareRaises ==
  /\ phase = "startup" /\ step <= Len(Startup)
  /\ CanRaise(Startup[step])
  /\ phase' = "exited" /\ exit' = "startup_failed"
  /\ UNCHANGED <<step, connectors, registered>>

(* The lifespan yields: requests are served.                               *)
Serve ==
  /\ phase = "startup" /\ step > Len(Startup)
  /\ phase' = "serving"
  /\ UNCHANGED <<step, connectors, registered, exit>>

(* The server is told to stop, and has no request left.                    *)
StopServing ==
  /\ phase = "serving"
  /\ phase' = "shutdown" /\ step' = 1
  /\ UNCHANGED <<connectors, registered, exit>>

(* close_connectors awaits one close after the other.                      *)
Close ==
  /\ phase = "shutdown" /\ step <= Len(Shutdown)
  /\ connectors' = [connectors EXCEPT ![Shutdown[step]] = "closed"]
  /\ step' = step + 1
  /\ UNCHANGED <<phase, registered, exit>>

CloseRaises ==
  /\ phase = "shutdown" /\ step <= Len(Shutdown)
  /\ phase' = "exited" /\ exit' = "close_raised"
  /\ UNCHANGED <<step, connectors, registered>>

ExitProcess ==
  /\ phase = "shutdown" /\ step > Len(Shutdown)
  /\ phase' = "exited" /\ exit' = "clean"
  /\ UNCHANGED <<step, connectors, registered>>

(* The process is killed.                                                  *)
Die ==
  /\ phase \in {"startup", "serving", "shutdown"}
  /\ phase' = "exited" /\ exit' = "killed"
  /\ UNCHANGED <<step, connectors, registered>>

LifespanStep ==
  \/ StartProcess \/ Prepare \/ PrepareRaises \/ Serve
  \/ StopServing \/ Close \/ CloseRaises \/ ExitProcess \/ Die

-----------------------------------------------------------------------------
(* Properties.                                                             *)

LifespanTypeOK ==
  /\ phase \in {"down", "startup", "serving", "shutdown", "exited"}
  /\ step \in 1..Len(Startup) + 1
  /\ connectors \in [Connectors -> {"none", "open", "closed"}]
  /\ registered \in BOOLEAN
  /\ exit \in {"none", "startup_failed", "close_raised", "clean", "killed"}

\* A process that ends leaves a connector open only if its startup failed, it
\* was killed, or the close of this connector or of one before it raised: of
\* all that can go wrong at the end these are the only ways to lose one.
LeftOpenOnlyByFailure ==
  phase = "exited" =>
    \A c \in Connectors : connectors[c] = "open" =>
      \/ exit \in {"startup_failed", "killed"}
      \/ exit = "close_raised" /\ \E i \in step..Len(Shutdown) : Shutdown[i] = c
=============================================================================
