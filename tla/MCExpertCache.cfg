SPECIFICATION MCSpec
CONSTANTS
  E = 5
  S = 3
  MaxDistinct = 4
  MaxInserts = 2
  MaxSteps = 3
INVARIANTS
  CacheInv
PROPERTIES
  KeepsRouted
  MissListExact
  FewAreAllResident
  ImplementsLru
  SerialAgrees
