SPECIFICATION MergeSpec
CONSTANTS
  Branch <- MCBranch
  Change <- MCChange
  Local <- MCLocal
  Overlaps <- MCOverlaps
  InitRepo <- MCInitRepo
  MaxHandlers = 2
  MaxUserEdits = 1
INVARIANTS PendingIsSound MergeTells
