\* Two reports, so that a user's second meets the first or another user's;
\* windows of two ticks; two calls of the list, so that one overtakes the
\* other; an engineer whose first write-back may fail halfway.
CONSTANTS
  Reports = {r1, r2}
  ann = ann
  bob = bob
  Asks <- MCAsks
  ReportTTL = 2
  ChainTask <- MCChainTask
  ChainItem <- MCChainItem
  MaxTime = 2
  KnowledgeEngineers = {e1}
  MaxCalls = 2
  MaxWrites = 1
SYMMETRY Symmetry
SPECIFICATION Spec
INVARIANTS
  TypeOK ReportIsKept ShownStaysTrue ResolvedIsWritten
CHECK_DEADLOCK FALSE
