\* Two processes share the governance files, under every fault of what they write.
SPECIFICATION Spec
CONSTANTS
  p1 = p1
  p2 = p2
  Process <- Two
  Writer <- Two
  Allowed <- Capability
  Request <- FewRequests
  Faults = {"crash", "throw", "copy", "seal", "judgment"}
INVARIANT JudgmentHoldsUndisturbed
