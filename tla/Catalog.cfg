SPECIFICATION Spec
CONSTANTS
  NULL = NULL
  Names <- MCNames
  Columns <- MCColumns
  NoColumn <- MCNoColumn
  IdColumns <- MCIdColumns
  EdgeTable <- MCEdgeTable
  Schemas <- MCSchemas
INVARIANTS
  NoDoubleFree
  NothingLeaks
  FindsFirstGraphLine
CHECK_DEADLOCK FALSE
