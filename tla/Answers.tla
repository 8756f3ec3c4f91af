------------------------------- MODULE Answers -------------------------------
(***************************************************************************)
(* The data the chain decides, stores and returns: the "answer" dict that  *)
(* reflection_node puts in AgentState and write_cache_node stores in       *)
(* Redis.  Confidence scores are in tenths: the code's weights 0.4, 0.4    *)
(* and 0.2 are 4, 4 and 2, its threshold 0.7 is 7, and 1.0 is 10.          *)
(***************************************************************************)
EXTENDS Naturals

Scores == 0..10

\* reflection.py: a score below the threshold is a low-confidence answer.
ConfidenceThreshold == 7

LowConfidence(score) == score < ConfidenceThreshold

\* confidence_score = 0.4 graph_coverage + 0.4 sql_pass + 0.2 reflection_agree
Confidence(graph_coverage, sql_pass, agree) ==
  4 * graph_coverage + 4 * sql_pass + 2 * agree

\* "set" is FALSE for the absent answer, "task" tells whether an
\* enrichment_task_id is there.
Answer == [set: BOOLEAN, confidence: Scores, task: BOOLEAN]

NoAnswer == [set |-> FALSE, confidence |-> 0, task |-> FALSE]

\* The answers that can be in Redis: what the chain decides is shown to stay
\* in this set (CacheClosed in AgentChain), so it may be read back as one.
CacheableAnswers ==
  { a \in Answer : /\ a.set
                   /\ a.confidence \in {0, 8, 10}
                   /\ a.task => a.confidence = 0 }

-----------------------------------------------------------------------------
(* The Question node of the history, as write_question_node stores it.     *)

Question == [set: BOOLEAN, confidence: Scores, low: BOOLEAN, task: BOOLEAN]

NoQuestion == [set |-> FALSE, confidence |-> 0, low |-> FALSE, task |-> FALSE]

\* The record of answer a.
QuestionOf(a) == [set |-> TRUE, confidence |-> a.confidence,
                  low |-> LowConfidence(a.confidence), task |-> a.task]
==============================================================================
