SPECIFICATION FairSpec
CONSTANTS
  Frames = 3
  CodebookSize = 1
  Delays <- MCDelays
  Seeds = {s1}
  Backends = {b1, b2}
  DrawCounts = {2, 3}
  MaxInterruptions = 2
  None = None
INVARIANTS
  TypeOK
  ResumeContinuesTheJob
  CheckpointsResumable
  FramesAreCodecTokens
PROPERTIES
  ImplementsTokenStream
  Completes
CHECK_DEADLOCK FALSE
