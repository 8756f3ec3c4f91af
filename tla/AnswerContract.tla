---------------------------- MODULE AnswerContract ----------------------------
(***************************************************************************)
(* What run_query promises for one request, without the agents: the cached *)
(* answer is replayed, or one answer is decided, published in the cache    *)
(* and then recorded in the history, or the request fails.  A decision is  *)
(* either validated (confidence 0.8 or 1.0, no task) or it gives up        *)
(* (confidence 0.0, and a task is attempted).                              *)
(***************************************************************************)
EXTENDS Answers

VARIABLES phase,     \* "open", "decided", "published", "ended" or "failed"
          answer, cache, tasks, history

vars == <<phase, answer, cache, tasks, history>>

Init ==
  /\ phase = "open"
  /\ answer = NoAnswer
  /\ cache \in {NoAnswer} \cup CacheableAnswers
  /\ tasks = 0
  /\ history = NoQuestion

Replay ==
  /\ phase = "open" /\ cache.set
  /\ phase' = "ended"
  /\ answer' = cache
  /\ UNCHANGED <<cache, tasks, history>>

DecideValidated ==
  /\ phase = "open" /\ ~cache.set
  /\ phase' = "decided"
  /\ answer' \in {a \in CacheableAnswers : a.confidence \in {8, 10}}
  /\ UNCHANGED <<cache, tasks, history>>

DecideGaveUp ==
  /\ phase = "open" /\ ~cache.set
  /\ phase' = "decided"
  /\ tasks' \in {0, 1}
  /\ answer' \in {a \in CacheableAnswers : /\ a.confidence = 0
                                           /\ a.task => tasks' = 1}
  /\ UNCHANGED <<cache, history>>

Publish ==
  /\ phase = "decided"
  /\ phase' = "published"
  /\ cache' = answer
  /\ UNCHANGED <<answer, tasks, history>>

Record ==
  /\ phase = "published"
  /\ phase' = "ended"
  /\ history' \in {history, QuestionOf(answer)}
  /\ UNCHANGED <<answer, cache, tasks>>

Fail ==
  /\ phase \in {"open", "decided"}
  /\ phase' = "failed"
  /\ cache' \in IF phase = "decided" THEN {cache, answer} ELSE {cache}
  /\ UNCHANGED <<answer, tasks, history>>

Next ==
  Replay \/ DecideValidated \/ DecideGaveUp \/ Publish \/ Record \/ Fail

Spec == Init /\ [][Next]_vars

\* The request does not stay between two of these steps for ever.
FairSpec == Spec /\ WF_vars(Next)
=============================================================================
