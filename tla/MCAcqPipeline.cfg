SPECIFICATION FairSpec
CONSTANTS
  NumBufs <- MCNumBufs
  MaxLen <- MCMaxLen
  MaxUnits <- MCMaxUnits
  MaxPosts <- MCMaxPosts
INVARIANTS
  TypeOK
  BufferExclusive
  NoStall
  InOrder
  Backlog
  IInv
PROPERTIES
  StreamSpec
  StopExits
  LostClientStopsReading
\* The process exits in the end, and then nothing is left to run.
CHECK_DEADLOCK FALSE
