\* One process, every incomplete approval, with deaths, throwing
\* capabilities and receipts that cannot be written.
SPECIFICATION Spec
CONSTANTS
  p1 = p1
  p2 = p2
  Process <- Alone
  Writer <- Alone
  Allowed <- Capability
  Request <- Requests
  Faults = {"crash", "throw", "receipt", "entry", "evidence"}
INVARIANTS OneApprovalOneStep VerdictMatchesDeeds MutationIsReceipted
