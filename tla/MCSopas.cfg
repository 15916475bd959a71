SPECIFICATION FairSpec
CONSTANTS
  Commands <- MCCommands
  MaxRequests = 2
  MaxEvents = 1
  MaxRetries = 1
INVARIANTS OwnReply NothingDestroyedInUse
PROPERTIES SessionEnds
