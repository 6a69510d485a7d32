SPECIFICATION FairSpec
CONSTANTS
  MaxProcs = 3
  MaxBoots = 1
  MaxClients = 2
  MaxSigs = 1
  OneShot = FALSE
  Faults <- MCNoFaults
PROPERTIES
  ParentSigintExits
\* The server may be stopped for good, or wait for a client.
CHECK_DEADLOCK FALSE
