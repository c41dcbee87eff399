\* Nobody edits the files but by the apply steps, and nothing fails.
SPECIFICATION OnboardingSpec
CONSTANTS
  r1 = r1
  r2 = r2
  s1 = s1
  s2 = s2
  Run <- OneRun
  Session <- OneSession
  Scope = {"production"}
  NoScope = NoScope
  Faults = {}
  MaxLines = 2
INVARIANT AppliedPasses
CHECK_DEADLOCK FALSE
