SPECIFICATION Spec
CONSTANTS
  Branch <- MCBranch
  Mine <- MCMine
  Theirs <- MCTheirs
  Task <- MCTask
PROPERTY PullFastForwards
