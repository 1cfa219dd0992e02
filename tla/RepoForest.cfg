SPECIFICATION Spec
CONSTANTS
  Item <- MCItem
  Remote <- MCRemote
  RemotesOf <- MCRemotesOf
  Https <- MCHttps
  Selection <- MCSelection
  MaxOpens = 2
  MaxAsks = 2
INVARIANTS QueueIsSound DoneIsDone WaitersAreAsked
PROPERTIES QueueRests
CHECK_DEADLOCK FALSE
