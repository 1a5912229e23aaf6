\* One producer, one consumer, the main thread verifying; three slots and
\* enough inserts to go around the ring.
SPECIFICATION FairSpec
CONSTANTS
  k1 = k1
  k2 = k2
  v1 = v1
  v2 = v2
  Key <- MCKey
  Value <- MCValue
  Item <- MCItem
  Producer = {p1}
  Consumer = {c1}
  Observer = {o1}
  Size = 3
  MaxInserts = 5
INVARIANTS RingInv VerifyNeverCorrupt
PROPERTIES HonestRefusals AnswersStayValid ImplementsFifo EventuallyDelivered
