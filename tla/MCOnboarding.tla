---------------------------- MODULE MCOnboarding ----------------------------
(* A model of Onboarding for TLC.                                          *)
EXTENDS Onboarding, TLC

CONSTANTS r1, r2, s1, s2

OneRun == {r1}
TwoRuns == {r1, r2}
OneSession == {s1}
TwoSessions == {s1, s2}

OnboardingSymmetry == Permutations(Run) \cup Permutations(Session)
=============================================================================
