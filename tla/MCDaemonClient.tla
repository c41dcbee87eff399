--------------------------- MODULE MCDaemonClient ---------------------------
(* A model of DaemonClient for TLC.                                        *)
EXTENDS DaemonClient, TLC

CONSTANTS cli, other

Clients == {cli, other}
=============================================================================
