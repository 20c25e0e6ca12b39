\* Two requests for any of three capabilities, one more client than requests.
SPECIFICATION FairSpec
CONSTANTS
  r1 = r1
  r2 = r2
  c1 = c1
  c2 = c2
  c3 = c3
  NoConn = NoConn
  Requests <- TwoRequests
  Capabilities <- MixedCapabilities
  Conns <- ThreeConns
  NumEffects = 2
  MayTimeOut = TRUE
  MaxFailures = 1
INVARIANTS
  NoClientLeaks
  OnlyRefusalsLeak
  RefusedChangesNothing
  EventAtMostOnce
  SuccessMeansEffects
PROPERTIES
  EveryRequestEnds
CHECK_DEADLOCK FALSE
