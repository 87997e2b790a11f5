CONSTANTS
  BUFFER_SIZE = 3
  Event = {e1, e2}
  NoEvent = NoEvent
  MaxEvents = 7
SPECIFICATION FairSpec
INVARIANTS FullMeansFull PendingSlotKept
PROPERTIES ImplementsQueue StoredIsDelivered
CHECK_DEADLOCK TRUE
