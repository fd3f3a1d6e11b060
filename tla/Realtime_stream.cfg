\* One client and the second of four events is not for it; its queue holds two.
CONSTANTS
  Client = {c1}
  Hidden = {2}
  MaxSequence = 4
  QueueSize = 2
SPECIFICATION Spec
CHECK_DEADLOCK FALSE
INVARIANTS TypeOK NothingMissedBelowCursor PublishedIsHandedOver
