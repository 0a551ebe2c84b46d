SPECIFICATION Spec
CONSTANTS
  NULL = NULL
  Vars <- MCVars
  Labels <- MCLabels
  Columns <- MCColumns
  Values <- MCValues
  Samples <- MCSamples
  Queries <- MCRowQueries
  NameMap <- MCNameMap
  Catalog <- MCCatalog
  EdgeTable <- MCEdgeTable
  SoleEdge <- MCSoleEdge
  GenEdge <- MCGenEdge
  GenNode <- MCGenNode
  Databases <- MCDatabases
  Lower <- MCLower
  Keywords <- MCKeywords
  WalkTable <- MCWalkTable
  IntBits <- MCIntBits
  LongMax <- MCLongMax
INVARIANT RowsAsWritten
CHECK_DEADLOCK FALSE
