SPECIFICATION Spec
CONSTANTS
  MaxProcs = 3
  MaxBoots = 1
  MaxClients = 2
  MaxSigs = 1
  OneShot = TRUE
  Faults <- MCNoFaults
INVARIANTS
  ResetOwned
\* The server may be stopped for good, or wait for a client.
CHECK_DEADLOCK FALSE
