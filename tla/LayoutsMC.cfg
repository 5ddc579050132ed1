\* Texts that leave room in a prefix, exactly fit it and overflow it; 151645
\* is <|im_end|>, 151646 [verse], and 151652 [outro-short], which the style
\* table no longer holds.  A sequence, a prefix and a song are done at some
\* point.
CONSTANTS
  MaxDepth = 3
  MaxDelaySteps = 2
  MaxTimesteps = 3
  MaxFlatten = 2
  MaxEmpty = 1
  WindowFrames = 5
  HopFrames = 3
  OverlapFrames = 2
  SamplesPerFrame = 2
  MaxSource = 30
  LyricsPrefix = 4
  PromptPrefix = 3
  StylePrefix = 2
  MaxText = 4
  MaxStyle = 2
  Words = {7, 151643, 151645}
  StructureIds = {151646, 151647, 151652}
SPECIFICATION LayoutsSpec
INVARIANTS
  PatternInverts
  WindowsJoin
  PrefixesAlign
CHECK_DEADLOCK FALSE
