SPECIFICATION Spec
CONSTANTS
  E = 4
  Cap = 2
  Pin = 1
  S = 2
  MaxDistinct = 2
  MaxInserts = 1
  T = 3
  Totals = {3, 5, 9}
  BATCHES <- MCBatches
  Addresses = {1, 2, 3}
  Rankings <- MCRankings
  Steps <- MCSteps
  OtherHists <- MCOtherHists
INVARIANTS
  GranularityOnlyCosts
  BeladyOptimal
  CurveIsReplay
  AllocOptimal
PROPERTIES
  LfuEvictsLeast
  SimulatesLru
