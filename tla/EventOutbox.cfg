\* Two events, two concurrent flushes, two handlers, small attempt limits.
SPECIFICATION FairSpec
CONSTANTS
  e1 = e1
  e2 = e2
  w1 = w1
  w2 = w2
  NoEvent = NoEvent
  Events <- TwoEvents
  Workers <- TwoWorkers
  Delivery <- MixedDelivery
  NumHandlers = 2
  BatchLimit = 2
  AtLeastOnceMax = 3
  OtherMax = 2
  MaxAborts = 1
INVARIANTS
  DeliveredWasHandled
  NoPhantomDelivery
  DuplicatesAccounted
PROPERTIES
  EventuallySettled
  ContractSpec
CHECK_DEADLOCK FALSE
