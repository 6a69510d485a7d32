---------------------------- MODULE MCLibraries ----------------------------
(***************************************************************************)
(* The private libraries, the helpers of general.c and the test programs,  *)
(* each by itself: one of Parts is chosen at the start, and runs.          *)
(***************************************************************************)
EXTENDS NetServer, DataCheck, ThreadDemo, BlockingIO, CString, SerialPort

CONSTANT Parts

VARIABLE part

vars == <<part, netVars, checkVars, threadVars, ioVars, stringVars, serialVars>>

Init == /\ part \in Parts
        /\ NetInit(part = "net")       /\ CheckInit(part = "check")
        /\ ThreadInit(part = "thread") /\ IoInit(part = "io")
        /\ StringInit(part = "string") /\ SerialInit(part = "serial")

Net    == /\ part = "net" /\ NetNext
          /\ UNCHANGED <<part, checkVars, threadVars, ioVars, stringVars, serialVars>>
Check  == /\ part = "check" /\ CheckNext
          /\ UNCHANGED <<part, netVars, threadVars, ioVars, stringVars, serialVars>>
Thread == /\ part = "thread" /\ ThreadNext
          /\ UNCHANGED <<part, netVars, checkVars, ioVars, stringVars, serialVars>>
Io     == /\ part = "io" /\ IoNext
          /\ UNCHANGED <<part, netVars, checkVars, threadVars, stringVars, serialVars>>
String == /\ part = "string" /\ StringNext
          /\ UNCHANGED <<part, netVars, checkVars, threadVars, ioVars, serialVars>>
Serial == /\ part = "serial" /\ SerialNext
          /\ UNCHANGED <<part, netVars, checkVars, threadVars, ioVars, stringVars>>

Next == Net \/ Check \/ Thread \/ Io \/ String \/ Serial

Spec == Init /\ [][Next]_vars /\ NetFairness /\ ThreadFairness /\ IoFairness

MCUpper == [c \in {"a"} |-> "A"]
=============================================================================
