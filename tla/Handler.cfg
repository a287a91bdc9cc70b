SPECIFICATION FairSpec
CONSTANTS
  Posters = {p1, p2, p3}
  MaxPosts = 5
INVARIANTS
  WakeupsMatchTasks
  StoppedIsQuiet
PROPERTIES
  Sequential
  EveryTaskRuns
  
CHECK_DEADLOCK FALSE
