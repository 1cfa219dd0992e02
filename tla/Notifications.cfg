SPECIFICATION FairSpec
CONSTANTS
  Repo <- MCRepo
  Name <- MCName
  NameOf <- MCNameOf
  Note <- MCNote
  Limit <- MCLimit
  Default <- MCDefault
  MaxFaults = 1
INVARIANTS NotesAreSound NotesKept
PROPERTIES OnlyReadWindowsDrift QueuedShown
