SPECIFICATION Spec
CONSTANTS
  Frame <- MCFrame
  Length <- MCLength
  ResetFrame <- MCReset
  MaxLen = 1
  MaxFrames = 1
  MaxUnits = 1
INVARIANTS
  ResetFrameTaken
\* The process exits in the end, and then nothing is left to run.
CHECK_DEADLOCK FALSE
