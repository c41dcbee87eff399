\* Two processes, whose capabilities run after each other or overlap; either may
\* die anywhere, and any write may fail.
SPECIFICATION Spec
CONSTANTS
  p1 = p1
  p2 = p2
  Process <- Two
  EnvWrite = TRUE
  Faults = {"crash", "append", "write"}
  Picked = {"noIntegrity", "strict"}
  MaxDepth = 1
  MaxHistory = 3
  MaxRecords = 3
  MaxEntries = 1
SYMMETRY Symmetry
INVARIANTS TypeOK SnapshotFirst ActiveIsRecorded
PROPERTIES LooseningIsConfirmed UnconfirmedIsStale
CHECK_DEADLOCK FALSE
