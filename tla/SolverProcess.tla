----------------------------- MODULE SolverProcess -----------------------------
(***************************************************************************)
(* execute_solver of execution/python_executor.py and the child process it *)
(* runs, _sandbox_harness.py: the checks before the child is started, the  *)
(* exchange over its pipes, its end by itself, by the time limit or never, *)
(* and the cancellation of the request that waits for it (the client of a  *)
(* stream goes away).                                                      *)
(***************************************************************************)
CONSTANTS
  Codes,        \* the solver codes that the LLM may return
  MentionsData,     \* those whose text has "cypher_context" or "sql_rows" in it
  Behaviour,    \* what running a code comes to, see Behaviours
  LongOutput    \* the codes whose result does not fit into a pipe

Behaviours ==
  {"result",          \* the code ends, its result is JSON or absent
   "raises",          \* it raises an Exception, or exits with another code
   "unserialisable",  \* it ends, its result is not JSON
   "exits",           \* it calls exit() or exit(0): SystemExit is not an Exception
   "loops"}           \* it does not end

ASSUME CodeAssumption ==
  /\ MentionsData \subseteq Codes
  /\ LongOutput \subseteq Codes
  /\ Behaviour \in [Codes -> Behaviours]

VARIABLES
  code,        \* the code of this call
  rows_json,   \* every value in sql_rows can be written as JSON
  parent,      \* what execute_solver does next
  outcome,     \* "result", the type of the exception, or "none" so far
  fed,         \* the payload has been written and stdin closed
  child,       \* the state of the child process
  exit_code,   \* 0 or 1 once the child has ended by itself
  stdout       \* what has arrived from the child: "", "half" or "json"

solverVars == <<code, rows_json, parent, outcome, fed, child, exit_code, stdout>>

Outcomes == {"none", "result", "ValueError", "TypeError", "OSError",
             "TimeoutError", "ProcessLookupError", "RuntimeError",
             "JSONDecodeError", "CancelledError"}
Alive == {"reading", "running", "writing"}
Ended == {"exited", "killed"}

-----------------------------------------------------------------------------
InitSolver ==
  /\ code \in Codes
  /\ rows_json \in BOOLEAN
  /\ parent = "check"
  /\ outcome = "none"
  /\ fed = FALSE
  /\ child = "none"
  /\ exit_code = 0
  /\ stdout = ""

\* execute_solver returns or raises.
EndsAs(how) == parent' = "ended" /\ outcome' = how

Goes(to) == parent' = to /\ UNCHANGED outcome

\* _uses_injected_vars looks at the text only.
ProvenanceChecked == code \in MentionsData

(* _uses_injected_vars, then json.dumps of the payload.                    *)
Check ==
  /\ parent = "check"
  /\ IF ~ProvenanceChecked THEN EndsAs("ValueError")
     ELSE IF ~rows_json THEN EndsAs("TypeError")
     ELSE Goes("spawn")
  /\ UNCHANGED <<code, rows_json, fed, child, exit_code, stdout>>

(* create_subprocess_exec                                                  *)
Spawn ==
  /\ parent = "spawn"
  /\ \/ child' = "reading" /\ Goes("communicate")
     \/ UNCHANGED child /\ EndsAs("OSError")
  /\ UNCHANGED <<code, rows_json, fed, exit_code, stdout>>

(* communicate writes the payload and closes stdin; it reads all the time. *)
Feed ==
  /\ parent = "communicate"
  /\ ~fed
  /\ fed' = TRUE
  /\ UNCHANGED <<code, rows_json, parent, outcome, child, exit_code, stdout>>

-----------------------------------------------------------------------------
(* The child.                                                              *)

(* json.load(sys.stdin) waits for the end of the input.                    *)
ChildReads ==
  /\ child = "reading"
  /\ fed
  /\ child' = "running"
  /\ UNCHANGED <<code, rows_json, parent, outcome, fed, exit_code, stdout>>

\* As ExitCode, but errors of the code are swallowed.
ExitCodeAlwaysZero == 0

\* Exceptions of the code, and of json.dumps of the result, give 1.
ExitCode == IF Behaviour[code] \in {"raises", "unserialisable"} THEN 1 ELSE 0

(* exec of the code.                                                       *)
ChildRuns ==
  /\ child = "running"
  /\ Behaviour[code] # "loops"
  /\ child' = IF Behaviour[code] = "result" THEN "writing" ELSE "exited"
  /\ exit_code' = ExitCode
  /\ UNCHANGED <<code, rows_json, parent, outcome, fed, stdout>>

(* The result goes through the pipe.  A long one takes several writes, and *)
(* somebody who reads: without communicate the reader stops at its limit.  *)
ChildWrites ==
  /\ child = "writing"
  /\ \/ code \in LongOutput /\ stdout = "" /\ stdout' = "half"
        /\ UNCHANGED child
     \/ code \in LongOutput /\ stdout = "half" /\ parent = "communicate"
        /\ stdout' = "json" /\ child' = "exited"
     \/ code \notin LongOutput /\ stdout' = "json" /\ child' = "exited"
  /\ UNCHANGED <<code, rows_json, parent, outcome, fed, exit_code>>

Child == ChildReads \/ ChildRuns \/ ChildWrites

-----------------------------------------------------------------------------
(* The parent waits, for the child or for the time limit.                  *)

\* As ChildIsDone, but communicate returns at the first output.
ChildIsDoneEarly == child \in Ended \/ stdout # ""

\* communicate returns at the end of both pipes, when the child has exited.
ChildIsDone == child = "exited"

Returns ==
  /\ parent = "communicate"
  /\ ChildIsDone
  /\ Goes("parse")
  /\ UNCHANGED <<code, rows_json, fed, child, exit_code, stdout>>

TimeLimit == parent = "communicate"

(* wait_for cancels communicate and raises; the child may end meanwhile.   *)
TimesOut ==
  /\ TimeLimit
  /\ Goes("kill")
  /\ UNCHANGED <<code, rows_json, fed, child, exit_code, stdout>>

\* As AfterKill, but the child is given up without a signal.
AfterKillUnsignalled == child

\* SIGKILL ends a child that is alive.
AfterKill == IF child \in Alive THEN "killed" ELSE child

(* proc.kill(): if the child has just exited there may be no process left. *)
Kill ==
  /\ parent = "kill"
  /\ \/ child' = AfterKill /\ Goes("reap")
     \/ child = "exited" /\ UNCHANGED child /\ EndsAs("ProcessLookupError")
  /\ UNCHANGED <<code, rows_json, fed, exit_code, stdout>>

\* proc.wait()
Reaped == child \in Ended

Reap ==
  /\ parent = "reap"
  /\ Reaped
  /\ EndsAs("TimeoutError")
  /\ UNCHANGED <<code, rows_json, fed, child, exit_code, stdout>>

\* A non-zero exit code is a RuntimeError; nothing on stdout is no JSON.
ParsedOutcome ==
  IF exit_code # 0 THEN "RuntimeError"
  ELSE IF stdout = "json" THEN "result" ELSE "JSONDecodeError"

Parse ==
  /\ parent = "parse"
  /\ EndsAs(ParsedOutcome)
  /\ UNCHANGED <<code, rows_json, fed, child, exit_code, stdout>>

(* CancelledError at an await.  Only create_subprocess_exec cleans up; the *)
(* except clause of execute_solver is for TimeoutError.                    *)
Cancel ==
  /\ parent \in {"spawn", "communicate", "reap"}
  /\ EndsAs("CancelledError")
  /\ UNCHANGED <<code, rows_json, fed, child, exit_code, stdout>>

Parent == Check \/ Spawn \/ Feed \/ Returns \/ TimesOut \/ Kill \/ Reap \/ Parse

SolverNext == Parent \/ Child \/ Cancel

SolverSpec == InitSolver /\ [][SolverNext]_solverVars

\* The event loop runs what is ready and its timers, the operating system the
\* child; nothing makes a client cancel.
FairSolverSpec == SolverSpec /\ WF_solverVars(Parent) /\ WF_solverVars(Child)

-----------------------------------------------------------------------------
(* Properties.                                                             *)

\* The values of the variables.
SolverTypeOK ==
  /\ code \in Codes
  /\ rows_json \in BOOLEAN
  /\ parent \in {"check", "spawn", "communicate", "kill", "reap", "parse",
                 "ended"}
  /\ outcome \in Outcomes
  /\ fed \in BOOLEAN
  /\ child \in {"none"} \cup Alive \cup Ended
  /\ exit_code \in {0, 1}
  /\ stdout \in {"", "half", "json"}

\* A result is the complete output of a code that ended by itself without an
\* error, whatever the time limit and the pipes did meanwhile.
ResultIsComplete ==
  outcome = "result" =>
    child = "exited" /\ Behaviour[code] = "result" /\ stdout = "json"

\* A call that was not cancelled leaves no child behind: when it returns or
\* raises, the process has ended.
NoChildLeft ==
  parent = "ended" /\ outcome # "CancelledError" => child \notin Alive

\* The exception tells what happened: RuntimeError is a code that failed,
\* JSONDecodeError one that left without a result, and none of them is a code
\* that ran too long, whatever ended at the same moment as the time limit.
FailureIsOwn ==
  /\ outcome = "RuntimeError" =>
       child = "exited" /\ Behaviour[code] \in {"raises", "unserialisable"}
  /\ outcome = "JSONDecodeError" =>
       child = "exited" /\ Behaviour[code] = "exits"
  /\ outcome = "ValueError" => child = "none"
  /\ outcome = "TimeoutError" => child \in Ended

\* What a call returns or raises is true of its code.
OutcomeIsTrue == ResultIsComplete /\ FailureIsOwn

\* execute_solver returns or raises, though the code may not end.
CallEnds == <>(parent = "ended")

\* A child that was started ends, unless the call was cancelled.
ChildEnds == child \in Alive ~> child \in Ended \/ outcome = "CancelledError"

\* Neither the call nor its child goes on for ever.
BothEnd == CallEnds /\ ChildEnds
=============================================================================
