\* One kernel task that allocates until its page is used up.
SPECIFICATION ArenaSpec
CONSTANTS
  KernelTask = {k1}
  UserTask = {u1}
  Cpu = {c1}
  NPages = 4
  NGlobals = 2
  Slots = 3
  Sizes = {1, 2}
  Modulus = 16
  MaxAllocs = 3
INVARIANTS SufficientSpace
CHECK_DEADLOCK FALSE
