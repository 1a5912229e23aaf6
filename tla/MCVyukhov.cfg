\* Two producers and two consumers on a ring of two cells, with a second lap.
SPECIFICATION Spec
CONSTANTS
  k1 = k1
  k2 = k2
  v1 = v1
  v2 = v2
  Key <- MCKey
  Value <- MCValue
  Item <- MCItem
  Producer = {p1, p2}
  Consumer = {c1, c2}
  Observer = {}
  Capacity = 2
  MaxRetries = 2
  CountModulus = 16
  MaxInserts = 3
INVARIANTS RingInv
PROPERTIES HonestRefusals ImplementsFifo
