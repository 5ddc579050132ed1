SPECIFICATION FairSpec
CONSTANTS
  WindowFrames = 4
  HopFrames = 3
  OverlapFrames = 1
  SamplesPerFrame = 2
  SourceFrames = 8
  Steps = 2
  Engines = {e1}
  MaxInterruptions = 3
  None = None
PROPERTY CountersNeverRegress
CHECK_DEADLOCK FALSE
