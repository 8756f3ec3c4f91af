\* The retries of a question without the solver (refiner.py); two frames and a half are
\* under way at once.
CONSTANTS
  MaxRetries = 2
  Window = 10
SPECIFICATION FairSpec
INVARIANTS
  TypeOK RelayIsFaithful ShownIsStored
PROPERTIES
  StreamKept StreamEnds
