\* Three requests, two flushes, one effect that fails and one restart.
SPECIFICATION Spec
CONSTANTS
  a = a
  b = b
  c = c
  f = f
  g = g
  Requests = {a, b, c}
  Routes <- MCRoutes
  Flushes = {f, g}
  MaxFailures = 1
  MaxRestarts = 1
SYMMETRY Alike
INVARIANTS
  AllOrNothing
  LostOnlyToRollback
  OnlySuccessStays
  StrayTransaction
CHECK_DEADLOCK FALSE
