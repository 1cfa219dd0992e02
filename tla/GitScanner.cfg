SPECIFICATION FairScanSpec
CONSTANTS
  Dir <- MCDir
  Root <- MCRoot
  Children <- MCChildren
  RepoDir <- MCRepoDir
  Worker <- MCWorker
  PoolThreads = 3
  MaxScans = 2
INVARIANTS ScanIsSound
PROPERTIES NoRevisit ImplementsSearch ScanSettles
CHECK_DEADLOCK FALSE
