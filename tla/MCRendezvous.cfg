SPECIFICATION MCSpec
CONSTANTS
  NT = 4
  NCHUNK = 2
  Values = {0, 1}
  MaxReductions = 2
  TP = 2
  ShardSize = 2
  Padding <- MCPadding
  LogitCases <- MCLogitCases
  MaxCalls = 3
  B = 2
  NPrompts = 1
  NTOK = 4
  MaxSamples = 3
INVARIANTS
  ResultRight
  SameVerdict
  TopIsBest
  SteadyIsExact
PROPERTIES
  Returns
  EveryCallAnswered
  EveryRunEnds
