--------------------------- MODULE ConnectionLeases ---------------------------
(***************************************************************************)
(* What a connection pool promises to the threads that use it, whatever it *)
(* keeps its connections in: a free connection is leased to one thread at  *)
(* a time, which gives it back, and a connection that is retired is never  *)
(* leased again.                                                           *)
(***************************************************************************)
CONSTANTS Threads, Conns

VARIABLE lease   \* of each connection: "free", "retired" or the thread

Leased(t) == \E c \in Conns : lease[c] = t

Init == lease = [c \in Conns |-> "free"]

Grant(t, c) ==
  /\ lease[c] = "free" /\ ~Leased(t)
  /\ lease' = [lease EXCEPT ![c] = t]

\* The pool may have no use for the connection any more.
Return(t, c) ==
  /\ lease[c] = t
  /\ \E l \in {"free", "retired"} : lease' = [lease EXCEPT ![c] = l]

Retire(c) ==
  /\ lease[c] = "free"
  /\ lease' = [lease EXCEPT ![c] = "retired"]

Next == \E c \in Conns :
  \/ \E t \in Threads : Grant(t, c) \/ Return(t, c)
  \/ Retire(c)

Spec == Init /\ [][Next]_lease
===============================================================================
