\* Two producers and two consumers, one of each in the kernel, and main verifying.
SPECIFICATION FairSpec
CONSTANTS
  Producer = {p1, p2}
  Consumer = {c1, c2}
  Kernel = {p1, c1}
  Observer = {main}
  MaxEntries = 3
  MaxRounds = 2
  CountModulus = 16
INVARIANTS EntriesAccounted VerifyNeverCorrupt
PROPERTIES ImplementsLifo EventuallyDrained
