SPECIFICATION FairSpec
CONSTANTS
  Paths = {"a"}
  Commands <- ReadmeCommands
  Rows = 2
  Windows = 2
  Steps = 2
  MaxInterruptions = 3
INVARIANTS
  CheckpointsAreUsable
  WrittenPauseIsDurable
PROPERTIES
  PauseIsSaved
  DurableProgress
  AudioIsWritten
CHECK_DEADLOCK FALSE
