---------------------------- MODULE MCCmdServer ----------------------------
(* The calls that may fail: all of them, or none.                          *)
EXTENDS CmdServer

MCFaults   == {"listen", "device", "setup", "fork", "thread"}
MCNoFaults == {}
=============================================================================
