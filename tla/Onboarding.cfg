\* Two processes take one session through two scopes; every fault of the environment.
SPECIFICATION OnboardingSpec
CONSTANTS
  r1 = r1
  r2 = r2
  s1 = s1
  s2 = s2
  Run <- TwoRuns
  Session <- OneSession
  Scope = {"dev", "production"}
  NoScope = NoScope
  Faults = {"torn", "unwritable", "edit", "unseal"}
  MaxLines = 2
SYMMETRY OnboardingSymmetry
INVARIANT AdviceComesAfterSeal
PROPERTY CompletesLatestScope
CHECK_DEADLOCK FALSE
