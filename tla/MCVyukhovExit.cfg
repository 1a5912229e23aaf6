\* A polling relay thread, and the verification at exit after it was joined.
SPECIFICATION FairExitSpec
CONSTANTS
  k1 = k1
  k2 = k2
  v1 = v1
  v2 = v2
  Key <- MCKey
  Value <- MCValue
  Item <- MCOneItem
  Producer = {p1, p2}
  Consumer = {c1}
  Observer = {main}
  Capacity = 2
  MaxRetries = 2
  CountModulus = 16
  MaxInserts = 3
PROPERTIES CorruptOnlyFromCount EventuallyDelivered
