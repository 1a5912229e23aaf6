\* Two CPUs inside the inode_create hook: the one-producer contract is broken.
SPECIFICATION Spec
CONSTANTS
  k1 = k1
  k2 = k2
  v1 = v1
  v2 = v2
  Key <- MCKey
  Value <- MCValue
  Item <- MCItem
  Producer = {p1, p2}
  Consumer = {c1}
  Observer = {}
  Size = 3
  MaxInserts = 2
INVARIANTS Lossless
