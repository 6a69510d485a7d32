SPECIFICATION FairSpec
CONSTANTS
  Frame <- MCFrame
  Length <- MCLength
  ResetFrame <- MCReset
  MaxLen = 2
  MaxFrames = 2
  MaxUnits = 2
INVARIANTS
  TypeOK
  FramesInOrder
  OnlyWholeFrames
PROPERTIES
  StatusStream
  FramesDelivered
  StatusDrained
  StopExits
\* The process exits in the end, and then nothing is left to run.
CHECK_DEADLOCK FALSE
