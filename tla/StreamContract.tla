----------------------------- MODULE StreamContract ----------------------------
(***************************************************************************)
(* What the answer to one question looks like in the browser, and nothing  *)
(* of events, frames, chunks and connections: the stages of the agent      *)
(* graph show up in the order of its edges, from the first one, and then   *)
(* there is one outcome.                                                   *)
(***************************************************************************)
EXTENDS ChainStages, Sequences, SequencesExt

VARIABLES
  shown,    \* the stages that have shown up
  outcome   \* "none", "answer", "error", or "left": the user went away

vars == <<shown, outcome>>

Init == shown = <<>> /\ outcome = "none"

\* The stages follow the edges of the graph.
Ordered(stages) ==
  /\ stages # <<>> => Head(stages) = "check_cache"
  /\ \A i \in 2..Len(stages) : stages[i] \in Successors(stages[i - 1])

\* The graph has ended after these stages.
Complete(stages) == stages # <<>> /\ "END" \in Successors(Last(stages))

\* Stages show up, several at once if they arrive together.
Show ==
  /\ outcome = "none"
  /\ IsPrefix(shown, shown') /\ Ordered(shown')
  /\ \/ outcome' \in {"none", "error", "left"}
     \/ outcome' = "answer" /\ Complete(shown')

Next == Show

Spec == Init /\ [][Next]_vars

\* The browser is not left waiting.
Answered == <>(outcome # "none")
=============================================================================
