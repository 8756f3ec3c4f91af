\* More threads than connections, so that threads wait; two connections, so
\* that one can be drained while the other is in use.
CONSTANTS
  Threads = {t1, t2, t3}
  Conns = {c1, c2}
  NoConn = NoConn
SPECIFICATION FairSpec
INVARIANTS
  UsableInOnePlace NoneLost PutNeverWaits
PROPERTIES
  AllEnd LeasesKept
\* Nothing happens any more when the pool is closed or could not be created.
CHECK_DEADLOCK FALSE
