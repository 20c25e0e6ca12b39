\* One run of two checkpoints, three concurrent decisions, timeouts, a restart.
SPECIFICATION FairSpec
CONSTANTS
  r1 = r1
  s1 = s1
  s2 = s2
  s3 = s3
  NoSubmit = NoSubmit
  Runs <- OneRun
  Allow <- TwoLists
  NumCheckpoints = 2
  Submits <- ThreeSubmits
  HasTimeout = TRUE
  OnTimeout = "cancel"
  MaxPauses = 3
  MaxCrashes = 1
INVARIANTS
  RegistryAgrees
  OneDecisionPerRow
  ActsOnItsRow
PROPERTIES
  EveryWaitEnds
CHECK_DEADLOCK FALSE
