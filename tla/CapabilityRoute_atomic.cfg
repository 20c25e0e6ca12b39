\* One transactional capability whose second effect fails.
SPECIFICATION Spec
CONSTANTS
  r1 = r1
  r2 = r2
  c1 = c1
  c2 = c2
  c3 = c3
  NoConn = NoConn
  Requests <- OneRequest
  Capabilities <- OneCapability
  Conns <- TwoConns
  NumEffects = 2
  MayTimeOut = FALSE
  MaxFailures = 1
INVARIANT
  FailedChangesNothing
CHECK_DEADLOCK FALSE
