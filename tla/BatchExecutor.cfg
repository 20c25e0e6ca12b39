\* Three requests, two of them for one handler, and one restart.
SPECIFICATION Spec
CONSTANTS
  r1 = r1
  r2 = r2
  r3 = r3
  settle = settle
  notify = notify
  t1 = t1
  t2 = t2
  Requests = {r1, r2, r3}
  Capabilities = {settle, notify}
  CapOf <- MCCapOf
  Order <- MCOrder
  Registered = {settle}
  Ticks = {t1, t2}
  Clients = 1
  MaxRestarts = 1
INVARIANTS
  FlushIsAtomic
  PendingIsTracked
PROPERTY
  EveryRequestSettles
CHECK_DEADLOCK FALSE
