------------------------- MODULE MCTelemetryLedger -------------------------
(* Small instances of TelemetryLedger for TLC. *)
EXTENDS TelemetryLedger

CONSTANTS p1, p2

Processes2 == {p1, p2}
=============================================================================
