CONSTANTS
  Requests = {r1, r2}
  Nodes = {rule, rule2, anomaly}
  rule = rule
  rule2 = rule2
  anomaly = anomaly
  Everyone = Everyone
  Absent = Absent
  Words <- MCWords
  Pieces <- MCPieces
  Asks <- MCAsks
  Label <- MCLabel
  Mentions <- MCMentions
  Limit <- MCLimit
  Visibilities <- MCVisibilities
  FirstGraphs <- MCFirstGraphs
  MaxWrites = 1
SPECIFICATION Spec
INVARIANT NoHiddenNodes
\* The calls end.
CHECK_DEADLOCK FALSE
