---------------------------- MODULE MCDaemonLock ----------------------------
(* A model of DaemonLock for TLC.                                          *)
EXTENDS DaemonLock, TLC

CONSTANTS d1, d2, d3, p1, p2, u1

Daemons == {d1, d2, d3}
Ports == {p1, p2}
Users == {u1, Root}
DaemonSymmetry == Permutations(Daemons) \cup Permutations(Ports)
=============================================================================
