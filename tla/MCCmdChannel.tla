---------------------------- MODULE MCCmdChannel ----------------------------
(* Two kinds of frame: an empty one, and one of two bytes, so that it can  *)
(* be read and written in parts, which stands for the reset frame too.     *)
EXTENDS CmdChannel

MCFrame  == {"empty", "reset"}
MCLength == [f \in MCFrame |-> IF f = "empty" THEN 0 ELSE 2]
MCReset  == "reset"
=============================================================================
