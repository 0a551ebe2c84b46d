SPECIFICATION Spec
CONSTANTS
  NULL = NULL
  Vars <- MCVars
  Labels <- MCLabels
  Columns <- MCColumns
  Values <- MCValues
  Samples <- MCSamples
  Queries <- MCNameQueries
  NameMap <- MCNameMap
  Catalog <- MCShadowCatalog
  EdgeTable <- MCEdgeTable
  SoleEdge <- MCSoleEdge
  GenEdge <- MCGenEdge
  GenNode <- MCGenNode
  Databases <- MCDatabases
  Lower <- MCLower
  Keywords <- MCKeywords
  WalkTable <- MCWalkTable
  IntBits <- MCIntBits
  LongMax <- MCLongMax
INVARIANT NamesAsWritten
CHECK_DEADLOCK FALSE
