\* A full session that may not be reset again stops.
SPECIFICATION Spec
CONSTANTS
  Capacity = 3
  MainLayers = 1
  DetailLayers = 1
  Tokens = {t1, t2}
  Conditions = {c}
  MaxFaults = 1
  MaxResets = 1
SYMMETRY Symmetry
INVARIANT RowsAreSound
PROPERTY ImplementsUncachedLm
CHECK_DEADLOCK FALSE
