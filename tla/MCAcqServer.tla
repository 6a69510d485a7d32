---------------------------- MODULE MCAcqServer ----------------------------
(* The calls that may fail: all of them, none, or only open() of the       *)
(* device.                                                                 *)
EXTENDS AcqServer

MCFaults      == {"listen", "device", "setup", "fork", "thread"}
MCNoFaults    == {}
MCDeviceFault == {"device"}
=============================================================================
