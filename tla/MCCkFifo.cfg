\* Three entries besides the stub, five inserts: entries are recycled twice.
\* main verifies once and then returns, so the system may stop.
SPECIFICATION FairSpec
CONSTANTS
  k1 = k1
  k2 = k2
  v1 = v1
  v2 = v2
  Key <- MCKey
  Value <- MCValue
  Item <- MCItem
  MaxEntries = 3
  MaxSteps = 3
  MaxInserts = 5
CHECK_DEADLOCK FALSE
INVARIANTS ChainInv NoEntryRace CorruptOnlyFromLag
PROPERTIES ImplementsFifo EventuallyDelivered
