SPECIFICATION WindowsSpec
CONSTANTS
  Branch <- MCBranch
  Change <- MCChange
  Path <- MCPath
  Plans <- MCPlans
  Bases <- MCBases
  InitRepo <- MCInitRepo
  MaxPosted = 1
INVARIANTS WindowsAgree
