---------------------------- MODULE MCSolverProcess ----------------------------
(***************************************************************************)
(* One code of each kind for SolverProcess.                                *)
(***************************************************************************)
EXTENDS SolverProcess, TLC

MCCodes == {"sum", "table", "crash", "numpy", "quit", "forever",
            "constant"}

MCMentions == MCCodes \ {"constant"}

MCBehaviour ==
  [c \in MCCodes |-> CASE c = "crash"   -> "raises"
                       [] c = "numpy"   -> "unserialisable"
                       [] c = "quit"    -> "exits"
                       [] c = "forever" -> "loops"
                       [] OTHER         -> "result"]

MCLongOutput == {"table"}
=============================================================================
