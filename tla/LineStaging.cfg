SPECIFICATION Spec
CONSTANTS
  Paths <- MCPaths
  Start <- MCStart
  Typed <- MCTyped
  Outside <- MCOutside
  MaxActs = 2
  MaxEdits = 1
  MaxTroubles = 1
INVARIANTS PageIsSound FlagTellsTruth
PROPERTIES ChunkTaken StashLosesNothing SavesAreMeant
CHECK_DEADLOCK FALSE
