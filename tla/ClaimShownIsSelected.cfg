CONSTANTS
  Reports = {r1, r2}
  ann = ann
  bob = bob
  Asks <- MCAsks
  ReportTTL = 2
  ChainTask <- MCChainTask
  ChainItem <- MCChainItem
  MaxTime = 2
  KnowledgeEngineers = {e1}
  MaxCalls = 2
  MaxWrites = 1
SPECIFICATION Spec
INVARIANT ShownIsSelected
