SPECIFICATION FairSpec
CONSTANTS
  Capacity = 2
  MaxItems = 7
  MaxClears = 2
  RemoteDestroy = FALSE
INVARIANTS
  SemaphoresAgree
  CallbackFindsItemAndPlace
  RegisteredWhileBuffered
  
PROPERTIES
  InOrder
  ItemsArrive
  OnEmptyRuns
CHECK_DEADLOCK FALSE
