\* Both rings, with enough inserts for either index to wrap around.
SPECIFICATION FairSpec
CONSTANTS
  k1 = k1
  k2 = k2
  v1 = v1
  v2 = v2
  Item <- MCItem
  Size <- MCSize
  IndexModulus = 4
  MaxInserts = 5
INVARIANTS SlotPrivate VerdictsSound
PROPERTIES ImplementsFifo EventuallyDelivered
CHECK_DEADLOCK FALSE
