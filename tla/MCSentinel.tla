----------------------------- MODULE MCSentinel -----------------------------
(* A model of Sentinel, and of Onboarding under it, for TLC.               *)
EXTENDS Sentinel

CONSTANTS r1, r2

TwoRuns == {r1, r2}

SomeChecks == <<"judgment", "lock">>

RunSymmetry == Permutations(Run)
=============================================================================
