SPECIFICATION Spec
CONSTANTS
  d1 = d1
  d2 = d2
  d3 = d3
  p1 = p1
  p2 = p2
  Daemon <- Daemons
  Port <- Ports
  Nobody = Nobody
  u1 = u1
  User <- Users
  Root = Root
  Faults = {"kill", "setup", "write", "port", "reuse"}
INVARIANTS LockExcludes LockNamesServer
PROPERTY OnlyOthersKeepOut
SYMMETRY DaemonSymmetry
CHECK_DEADLOCK FALSE
