\* Two kernel tasks, on one CPU or on two, and two user threads.
SPECIFICATION ArenaSpec
CONSTANTS
  KernelTask = {k1, k2}
  UserTask = {u1, u2}
  Cpu = {c1, c2}
  NPages = 4
  NGlobals = 2
  Slots = 3
  Sizes = {1, 2}
  Modulus = 16
  MaxAllocs = 3
SYMMETRY MCSymmetry
INVARIANTS UserObjectsDisjoint OverlapsExplained CountersExact
PROPERTIES FreedPagesUnused
CHECK_DEADLOCK FALSE
