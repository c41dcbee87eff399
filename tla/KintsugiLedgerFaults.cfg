\* Every fault at once: what the lock and the deadline alone still guarantee.
SPECIFICATION FairSpec
CONSTANTS
  c1 = c1
  c2 = c2
  c3 = c3
  Caller <- Callers2
  NoCaller = NoCaller
  LegacyRecords = 1
  Faults = {"crash", "unlink", "record", "tip", "operator"}
  MaxRecords = 2
  MaxTime = 1
PROPERTIES AppendExtendsTip TipFollowsChain EveryCallReturns
CHECK_DEADLOCK FALSE
