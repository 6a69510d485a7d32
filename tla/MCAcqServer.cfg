SPECIFICATION FairSpec
CONSTANTS
  MaxProcs = 4
  MaxBoots = 1
  MaxClients = 3
  MaxSigs = 1
  OneShot = TRUE
  Faults <- MCFaults
INVARIANTS
  TypeOK
  DeviceExclusive
  KillsOwnChild
PROPERTIES
  ReconnectServed
  SigintExits
\* The server may be stopped for good, or wait for a client.
CHECK_DEADLOCK FALSE
