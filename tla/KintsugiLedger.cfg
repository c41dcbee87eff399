\* Three overlapping calls; processes die anywhere, record writes fail, the lock
\* file may not be removable.
SPECIFICATION Spec
CONSTANTS
  c1 = c1
  c2 = c2
  c3 = c3
  Caller <- Callers3
  NoCaller = NoCaller
  LegacyRecords = 0
  Faults = {"crash", "unlink", "record"}
  MaxRecords = 1
  MaxTime = 1
INVARIANTS ChainIntact NothingOffChain OutcomeHonest
PROPERTIES DeadOwnerFreezesLedger ImplementsAppendLog
CHECK_DEADLOCK FALSE
