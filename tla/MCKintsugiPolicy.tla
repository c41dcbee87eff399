------------------------- MODULE MCKintsugiPolicy -------------------------
(* Small instances of KintsugiPolicy for TLC. *)
EXTENDS KintsugiPolicy, TLC

CONSTANTS p1, p2

Two == {p1, p2}

Symmetry == Permutations(Two)
=============================================================================
