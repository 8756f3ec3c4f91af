\* max_retries as refiner.py sets it: 1 with the solver, 2 without.
CONSTANTS
  SolverRetries = 1
  PlainRetries = 2
SPECIFICATION FairSpec
INVARIANTS
  BudgetsRespected VerdictMatchesConfidence VerdictIsCurrent RetriesAreInformed
  StoresAgree
PROPERTIES
  ContractKept
