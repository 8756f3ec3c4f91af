\* Two calls that fill and one that finds an entry, old or new; one change
\* of the graph, before, between or after the reads.
CONSTANTS
  Requests = {r1, r2, r3}
  Nodes = {rule, rule2, anomaly}
  rule = rule
  rule2 = rule2
  anomaly = anomaly
  Everyone = Everyone
  Absent = Absent
  Words <- MCWords
  Pieces <- MCPieces
  Asks <- MCAsks
  Label <- MCLabel
  Mentions <- MCMentions
  Limit <- MCLimit
  Visibilities <- MCVisibilities
  FirstGraphs <- MCFirstGraphs
  MaxWrites = 1
SPECIFICATION Spec
SYMMETRY RequestSymmetry
INVARIANTS
  TypeOK ContextWasTrue RolesRespected
\* The calls end.
CHECK_DEADLOCK FALSE
