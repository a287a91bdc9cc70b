SPECIFICATION FairAlarmSpec
CONSTANT MaxTasks = 4
PROPERTIES
  RunsWhenDue
  ScheduledRuns
CHECK_DEADLOCK FALSE
