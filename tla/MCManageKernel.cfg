SPECIFICATION MCSpec
CONSTANTS
  E = 4
  S = 2
  MaxDistinct = 3
  MaxInserts = 2
  NT = 3
  NSER = 1
  RoutedIds <- MCRoutedIds
  Parked = 1000000000
  MaxStep = 4
INVARIANTS
  RaceFree
PROPERTIES
  ImplementsCache
  Retires
