SPECIFICATION Spec
CONSTANTS
  Branch <- MCBranch
  Change <- MCChange
  Local <- MCLocal
  Overlaps <- MCOverlaps
  Selections <- MCSelections
  InitRepo <- MCInitRepo
INVARIANTS SequenceIsSound HistoryHoldsPicks
PROPERTIES AbortRestores PicksApplied
