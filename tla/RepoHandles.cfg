SPECIFICATION HandlesSpec
CONSTANTS
  Path <- MCPath
  Existing <- MCExisting
  Task <- MCTask
  MaxRecent = 2
  MaxHandles = 5
INVARIANTS HandlesAreSound TasksStayHome
