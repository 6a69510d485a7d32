SPECIFICATION Spec
CONSTANTS
  MaxProcs = 5
  MaxBoots = 2
  MaxClients = 3
  MaxSigs = 1
  OneShot = TRUE
  Faults <- MCNoFaults
INVARIANTS
  DeviceExclusive
\* The server may be stopped for good, or wait for a client.
CHECK_DEADLOCK FALSE
