SPECIFICATION FairSpec
CONSTANTS
  Paths = {"a", "b"}
  Commands <- SeparateCommands
  Rows = 2
  Windows = 2
  Steps = 2
  MaxInterruptions = 2
PROPERTY PauseIsSaved
CHECK_DEADLOCK FALSE
