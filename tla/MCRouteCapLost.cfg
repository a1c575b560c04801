SPECIFICATION Spec
CONSTANTS
  RING = 3
  NLayers = 2
  Flushers = {"dumper"}
  MaxSteps = 3
  MaxDumps = 1
INVARIANTS
  LostIsExact
