\* An operator who keeps asking for the unlock.
SPECIFICATION FairSpec
CONSTANTS
  p1 = p1
  p2 = p2
  Process <- Alone
  Writer <- Alone
  Allowed <- Capability
  Request <- OperatorRequests
  Faults = {"evidence"}
PROPERTY LockIsRecoverable
