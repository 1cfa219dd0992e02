SPECIFICATION FairSpec
CONSTANTS
  Branch <- MCBranch
  Change <- MCChange
  Path <- MCPath
  Plans <- MCPlans
  Bases <- MCBases
  InitRepo <- MCInitRepo
  MaxPosted = 2
INVARIANTS SessionIsSound PlanIsFollowed
PROPERTIES ImplementsReplay AbortRestores SessionProgresses
