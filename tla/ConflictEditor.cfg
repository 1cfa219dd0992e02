SPECIFICATION Spec
CONSTANTS
  Paths <- MCPaths
  Operations <- MCOperations
  Typed <- MCTyped
  Outside <- MCOutside
  MaxEdits = 1
  MaxTroubles = 1
INVARIANTS EditorIsSound EditsKept StagedIsResolved
PROPERTIES RowsTellTheFile SaveKeepsOthers
CHECK_DEADLOCK FALSE
