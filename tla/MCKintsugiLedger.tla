------------------------- MODULE MCKintsugiLedger -------------------------
(* Small instances of KintsugiLedger for TLC. *)
EXTENDS KintsugiLedger

CONSTANTS c1, c2, c3

Callers2 == {c1, c2}
Callers3 == {c1, c2, c3}
=============================================================================
