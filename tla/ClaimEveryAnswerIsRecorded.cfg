CONSTANTS
  Requests = {r1, r2, r3}
  NoRequest = NoRequest
  alice = alice
  bob = bob
  Asks <- MCAsks
  Words <- MCWords
  Normalized <- MCNormalized
  RolesPart <- MCRolesPart
  Confidences <- MCConfidences
  CacheTTL = 2
  MaxTime = 2
SPECIFICATION Spec
INVARIANT EveryAnswerIsRecorded
SYMMETRY RequestSymmetry
\* The requests all end, and the clock is bounded.
CHECK_DEADLOCK FALSE
