SPECIFICATION Spec
CONSTANTS
  RING = 3
  NLayers = 2
  Flushers = {"dumper"}
  MaxSteps = 5
  MaxDumps = 1
INVARIANTS
  SavedIdsAreTheSteps
