\* Two processes scan and review, while the judgment comes and goes with the seal, the
\* governance lock closes and opens, and appends fail.  Of the six rules, the two whose
\* state changes most; every other one is checked in the same way.  No onboarding
\* session, and no edited file: neither changes what these two rules ask.
SPECIFICATION SentinelSpec
CONSTANTS
  r1 = r1
  r2 = r2
  Run <- TwoRuns
  Session = {}
  Scope = {"dev"}
  NoScope = NoScope
  Faults = {"torn"}
  MaxLines = 2
  Checks <- SomeChecks
  MaxRaised = 2
  MaxTime = 1
SYMMETRY RunSymmetry
INVARIANTS SentinelTypeOK ScanReports OneDecisionEach RemainingIsLeft
PROPERTIES ClearMeansClear
CHECK_DEADLOCK FALSE
