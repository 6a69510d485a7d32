\* The libraries' programs end: no further step is possible then.
CHECK_DEADLOCK FALSE
SPECIFICATION Spec
CONSTANTS
  Parts = {"net", "check", "thread", "io", "string", "serial"}
  HeadLen = 2
  MsgLen = 1
  Messages = 2
  MaxTry = 2
  MaxEmpty = 1
  NumFds = 3
  MaxOthers = 1
  Base = 4
  MaxRead = 3
  MaxErrs = 4
  Rounds = 2
  MaxBytes = 4
  MaxZero = 2
  Letter = {"a"}
  Upper <- MCUpper
  MaxStr = 5
  MaxTok = 2
  MaxElem = 2
  BaudRates = {9600, 115200, 3500000, 12345}
  DataBits = {7, 8, 9, 264}
  StopBits = {1, 2, 3, 258}
  Parities = {"N", "O", "e", "s", "other"}
INVARIANTS NetTypeOK ConnsReleased ErrCountExact ResultExact FrameFollows
PROPERTIES NoEarlyDrop BacklogServed ClientEnds DemoEnds IoEnds TrimExact SplitExact
