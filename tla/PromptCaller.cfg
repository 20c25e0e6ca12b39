\* Two invocations of four prompts that may share a tracker and the cache.
SPECIFICATION Spec
CONSTANTS
  c1 = c1
  c2 = c2
  small = small
  large = large
  none = none
  trace = trace
  Calls = {c1, c2}
  Configs <- MCConfigs
  Inputs <- MCInputs
  Models = {small, large}
  None = none
  Tiers <- MCTiers
  FallbackModel = large
  Estimate <- MCEstimate
  Rate <- MCRate
  TokenLimit = 4
  UsdLimit = 6
  ToolLimit = 2
  Trace = trace
INVARIANTS
  AnswersAreValid
  OverspendAccounted
  WorkIsBounded
PROPERTY
  EveryCallEnds
