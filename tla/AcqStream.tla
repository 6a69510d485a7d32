------------------------------ MODULE AcqStream ------------------------------
(***************************************************************************)
(* What the acquisition server promises one client: a byte stream.  The    *)
(* DMA device produces units (a unit stands for a run of bytes) numbered   *)
(* 1, 2, 3, ... and the socket receives the same units, in that order,     *)
(* none twice, none missing, none torn, for as long as the stream is up.   *)
(* A stream that is cut (the client is gone, the process was told to stop) *)
(* delivers nothing more.                                                  *)
(***************************************************************************)
EXTENDS Integers, Sequences

CONSTANTS MaxUnits,  \* how many units the device has to give
          MaxLen     \* how many units one transfer carries at most

VARIABLES produced,  \* units the device has handed over so far
          sock,      \* the units written to the socket, in order
          up         \* the stream has not been cut

vars == <<produced, sock, up>>

TypeOK == /\ produced \in 0..MaxUnits
          /\ sock \in Seq(Nat)
          /\ up \in BOOLEAN

Init == /\ produced = 0
        /\ sock = <<>>
        /\ up = TRUE

(* The device hands over n more units. *)
Produce == /\ \E n \in 1..MaxLen : /\ produced + n <= MaxUnits
                                   /\ produced' = produced + n
           /\ UNCHANGED <<sock, up>>

(* The next k units, and no others, reach the socket. *)
Deliver == /\ up
           /\ \E k \in 1..MaxLen :
                /\ Len(sock) + k <= produced
                /\ sock' = sock \o [j \in 1..k |-> Len(sock) + j]
           /\ UNCHANGED <<produced, up>>

Cut == /\ up
       /\ up' = FALSE
       /\ UNCHANGED <<produced, sock>>

Next == Produce \/ Deliver \/ Cut

SafeSpec == Init /\ [][Next]_vars

(* What was produced is delivered, unless the stream is cut first. *)
Spec == SafeSpec /\ WF_vars(Deliver)
==============================================================================
