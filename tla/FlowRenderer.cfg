SPECIFICATION FairSpec
CONSTANTS
  WindowFrames = 4
  HopFrames = 3
  OverlapFrames = 1
  SamplesPerFrame = 2
  SourceFrames = 8
  Steps = 2
  Engines = {e1, e2}
  MaxInterruptions = 3
  None = None
INVARIANTS
  ResultIsUninterrupted
  OnlyForeignEnginesRejected
  CounterCountsWork
PROPERTIES
  UpdatesLostOnlyBeforeResumedWindow
  Completes
CHECK_DEADLOCK FALSE
