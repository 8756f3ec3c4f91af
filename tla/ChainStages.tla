------------------------------ MODULE ChainStages ------------------------------
(***************************************************************************)
(* The nodes of the agent graph and its edges, as _build_graph wires them. *)
(* AgentChain models what the nodes do; a caller that only sees them pass  *)
(* by needs no more than this.                                             *)
(***************************************************************************)

Stages == {"check_cache", "refiner", "text_to_cypher", "text_to_sql",
           "python_executor", "validator", "reflection", "write_cache",
           "write_question"}

\* As Successors, but the answer bypasses the query cache.
SuccessorsWithoutCache(stage) ==
  CASE stage = "check_cache"     -> {"refiner", "END"}
    [] stage = "refiner"         -> {"text_to_cypher"}
    [] stage = "text_to_cypher"  -> {"text_to_sql"}
    [] stage = "text_to_sql"     -> {"python_executor", "validator"}
    [] stage = "python_executor" -> {"validator"}
    [] stage = "validator"       -> {"refiner", "reflection"}
    [] stage \in {"reflection", "write_cache"} -> {"write_question"}
    [] stage = "write_question"  -> {"END"}

\* Where the graph may go after a node; "END" ends it.
Successors(stage) ==
  CASE stage = "check_cache"     -> {"refiner", "END"}
    [] stage = "refiner"         -> {"text_to_cypher"}
    [] stage = "text_to_cypher"  -> {"text_to_sql"}
    [] stage = "text_to_sql"     -> {"python_executor", "validator"}
    [] stage = "python_executor" -> {"validator"}
    [] stage = "validator"       -> {"refiner", "reflection"}
    [] stage = "reflection"      -> {"write_cache"}
    [] stage = "write_cache"     -> {"write_question"}
    [] stage = "write_question"  -> {"END"}
=============================================================================
