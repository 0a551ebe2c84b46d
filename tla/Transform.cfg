SPECIFICATION Spec
CONSTANTS
  NULL = NULL
  Vars <- MCVars
  Labels <- MCLabels
  Columns <- MCColumns
  Values <- MCValues
  Samples <- MCSamples
  Queries <- MCQueries
  NameMap <- MCNameMap
  Catalog <- MCCatalog
  EdgeTable <- MCEdgeTable
  SoleEdge <- MCSoleEdge
  GenEdge <- MCGenEdge
  GenNode <- MCGenNode
  Databases <- MCDatabases
  Lower <- MCLower
  Keywords <- MCKeywords
  WalkTable <- MCWalkTable
  IntBits <- MCIntBits
  LongMax <- MCLongMax
INVARIANTS
  TypeOK
  SlotsAreNodes
  NamedReadsDenote
  OnReadsLeft
  SameAnswer
PROPERTY Answered
CHECK_DEADLOCK FALSE
