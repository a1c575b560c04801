SPECIFICATION Spec
CONSTANTS
  E = 4
  Cap = 2
  Pin = 1
  S = 2
  MaxDistinct = 2
  MaxInserts = 1
  T = 4
  Totals = {3, 5, 9}
  BATCHES <- MCBatches
  Addresses = {1, 2, 3}
  Rankings <- MCRankings
  Steps <- MCSingles
  OtherHists <- MCOtherHists
INVARIANTS
  BeladyBoundsLru
