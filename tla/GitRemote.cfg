SPECIFICATION FairSpec
CONSTANTS
  Branch <- MCBranch
  Mine <- MCMine
  Theirs <- MCTheirs
  Task <- MCTask
INVARIANTS TasksAreSound
PROPERTIES MovesForward PullBringsAll PullEnds
