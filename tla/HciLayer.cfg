SPECIFICATION FairSpec
CONSTANTS
  ClientOps = {"READ_VERSION", "CREATE_CONNECTION"}
  StatusOps = {"CREATE_CONNECTION"}
  MaxCommands = 2
  MaxCredits = 1
  MaxEvents = 2
INVARIANTS
  ServedInOrder
  ResponsesAreExpected
  OutstandingIsWatched
PROPERTIES
  AllAnswered
  
CHECK_DEADLOCK FALSE
