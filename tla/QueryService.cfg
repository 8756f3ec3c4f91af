\* Three requests are enough for two that race and a third that finds what
\* they left; the clock runs through one window into the next.
CONSTANTS
  Requests = {r1, r2, r3}
  NoRequest = NoRequest
  alice = alice
  bob = bob
  Asks <- MCAsks
  Words <- MCWords
  Normalized <- MCNormalized
  RolesPart <- MCRolesPart
  Confidences <- MCConfidences
  CacheTTL = 2
  MaxTime = 2
SPECIFICATION Spec
SYMMETRY RequestSymmetry
INVARIANTS
  ReplayIsOwn TaskIdsExist HistoryIsTrue FinishedIsRecorded
PROPERTIES
  HistoryIsWriteOnce
\* The requests all end, and the clock is bounded.
CHECK_DEADLOCK FALSE
