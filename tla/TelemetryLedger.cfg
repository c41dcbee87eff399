\* Two processes, every fault, a verification window shorter than the ledger.
SPECIFICATION FairSpec
CONSTANTS
  p1 = p1
  p2 = p2
  Process <- Processes2
  NoProcess = NoProcess
  Faults = {"fail", "torn", "unlink", "crash", "operator", "hasty", "rotate"}
  MaxEntries = 1
  MaxAppends = 2
INVARIANTS ChainIntact OutcomeHonest UnlockStillStands
PROPERTIES BrokenStaysBroken AppendReturns
CHECK_DEADLOCK FALSE
