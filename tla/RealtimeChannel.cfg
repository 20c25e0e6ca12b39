\* Two instances, two clients, two messages, a history of one message, and a restart.
SPECIFICATION Spec
CONSTANTS
  left = left
  right = right
  ann = ann
  bob = bob
  none = none
  NoInstance = none
  Instances = {left, right}
  Clients = {ann, bob}
  Limit = 1
  MaxMessages = 2
  MaxRestarts = 1
INVARIANTS
  FirstCopiesInOrder
  CopiesAccounted
PROPERTIES
  EveryoneHears
CHECK_DEADLOCK FALSE
