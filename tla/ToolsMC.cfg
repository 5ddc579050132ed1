\* Both subjects end: with the process, and with the destroyed writer.
CONSTANTS
  Windows = 3
  Steps = 3
  Intervals = {0, 1, 3}
  MaxTime = 12
SPECIFICATION ToolsSpec
INVARIANTS
  OneModelResident
  CancelIsPrompt
  ExitTellsOutcome
  ReportsAreComplete
PROPERTY ReportsMoveForward
CHECK_DEADLOCK FALSE
