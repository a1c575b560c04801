SPECIFICATION MCSpec
CONSTANTS
  E = 4
  S = 2
  MaxDistinct = 2
  MaxInserts = 1
  FuseMax = 1
  SkipEmpty = TRUE
  RoutedIds <- MCRoutedIds
  MaxRows = 3
  MaxForwards = 2
  NT = 3
  BS = 2
  TopkIds <- MCTopkIds
  MaxSteps = 2
INVARIANTS
  OutputRight
  DropIn
  Deterministic
PROPERTIES
  EveryForwardServed
