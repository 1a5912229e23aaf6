\* Two hooks and two popping threads on a buffer of two entries and a spare word.
SPECIFICATION KcovFairSpec
CONSTANTS
  k1 = k1
  k2 = k2
  v1 = v1
  v2 = v2
  Item <- MCItem
  Writer = {w1, w2}
  Popper = {c1, c2}
  Size = 6
  MaxInserts = 3
INVARIANTS CountBounded
PROPERTIES StackUpToFirstRace EventuallyEmptied
CHECK_DEADLOCK FALSE
