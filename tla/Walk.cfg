SPECIFICATION FairSpec
CONSTANTS
  NULL = NULL
  e1 = e1
  e2 = e2
  e3 = e3
  Edges <- MCEdges
  Ids <- MCIds
  Names <- MCNames
  Types <- MCTypes
  InitGraphs <- MCInitGraphs
  InitHops <- MCInitHops
INVARIANTS
  TrailInv
  RowsOnce
  Frontier
  AnswerExact
PROPERTIES
  ImplementsSearch
  Terminates
CHECK_DEADLOCK FALSE
