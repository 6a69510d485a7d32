----------------------------- MODULE BlockingIO -----------------------------
(***************************************************************************)
(* The four loops of the repository that move n bytes through read() and   *)
(* write() calls which may move fewer: readn and writen (general.c), which *)
(* the servers use, and read_data and write_data (socket_protocol.c).  One *)
(* call of one of them, over a file that transfers what it likes.          *)
(***************************************************************************)
EXTENDS Integers

CONSTANTS MaxBytes, \* bound: bytes asked for
          MaxZero   \* zero results in a row read_data and write_data stand (10)

ASSUME IoAssumption == MaxBytes \in Nat /\ MaxZero \in Nat

Routines == {"readn", "writen", "read_data", "write_data"}
Retrying == {"readn", "writen"}    \* they retry EINTR and EAGAIN

VARIABLES
  routine, n,     \* the call
  nleft,          \* its count of what is missing (left_len in the other two)
  zeros,          \* max_read_count, max_write_count
  moved,          \* bytes the file has really transferred
  io_pc, ret      \* "run" or "done", and what it returned

ioVars == <<routine, n, nleft, zeros, moved, io_pc, ret>>

IoInit(run) == /\ routine \in (IF run THEN Routines ELSE {"readn"})
               /\ n \in (IF run THEN 1..MaxBytes ELSE {1})
               /\ nleft = n /\ zeros = 0 /\ moved = 0
               /\ io_pc = (IF run THEN "run" ELSE "done") /\ ret = 0

Return(value) == io_pc' = "done" /\ ret' = value

(* What the caller gets when nothing is missing. *)
All == IF routine \in Retrying THEN n ELSE 1

IoMoves == /\ io_pc = "run"
           /\ \E k \in 1..nleft :
                /\ moved' = moved + k
                /\ nleft' = nleft - k
                /\ IF k = nleft THEN Return(All) ELSE UNCHANGED <<io_pc, ret>>
           /\ zeros' = 0
           /\ UNCHANGED <<routine, n>>

\* (bug) the -1 of the interrupted call is subtracted like a count
IoInterruptedCounts ==
  /\ io_pc = "run"
  /\ IF routine \in Retrying THEN nleft' = nleft + 1 /\ UNCHANGED <<io_pc, ret>>
                             ELSE nleft' = nleft /\ Return(-1)
  /\ UNCHANGED <<routine, n, zeros, moved>>

(* EINTR or EAGAIN: the call is made again, or given up. *)
IoInterrupted == /\ io_pc = "run"
                 /\ IF routine \in Retrying THEN UNCHANGED <<io_pc, ret>> ELSE Return(-1)
                 /\ UNCHANGED <<routine, n, nleft, zeros, moved>>

(* writen() of a descriptor that is no longer there (-1) returns at once.  *)
IoNoFile == /\ io_pc = "run" /\ routine = "writen" /\ moved = 0
            /\ Return(0)
            /\ UNCHANGED <<routine, n, nleft, zeros, moved>>

IoFails == /\ io_pc = "run"
           /\ Return(-1)
           /\ UNCHANGED <<routine, n, nleft, zeros, moved>>

\* (bug) at the limit the count of zeros starts anew
IoZeroForever == /\ io_pc = "run"
                 /\ zeros' = IF routine \in Retrying \/ zeros = MaxZero THEN 0 ELSE zeros + 1
                 /\ CASE routine = "readn"  -> Return(n - nleft)
                      [] routine = "writen" -> Return(-1)
                      [] OTHER              -> UNCHANGED <<io_pc, ret>>
                 /\ UNCHANGED <<routine, n, nleft, moved>>

(* The call returns 0: the end of the file for readn, a failure for writen,*)
(* a reason to try again a number of times for the other two.              *)
IoZero == /\ io_pc = "run"
          /\ zeros' = IF routine \in Retrying THEN 0 ELSE zeros + 1
          /\ CASE routine = "readn"  -> Return(n - nleft)
               [] routine = "writen" -> Return(-1)
               [] OTHER              -> IF zeros' > MaxZero THEN Return(-1)
                                        ELSE UNCHANGED <<io_pc, ret>>
          /\ UNCHANGED <<routine, n, nleft, moved>>

IoNext == IoMoves \/ IoInterrupted \/ IoNoFile \/ IoFails \/ IoZero

(* A call that is interrupted is not interrupted for ever. *)
IoFairness == WF_ioVars(IoMoves \/ IoFails \/ IoZero)

-----------------------------------------------------------------------------
(* What is returned tells whether all bytes were moved, over any sequence  *)
(* of partial transfers, interruptions and zeros; a short count of readn is*)
(* the number of bytes it has read.                                        *)
ResultExact == /\ moved <= n
               /\ io_pc = "done" => (ret = All) = (moved = n)
               /\ routine = "readn" /\ ret >= 0 /\ io_pc = "done" => ret = moved

(* Each of them returns: zeros in a row are bounded, interruptions end.    *)
IoEnds == (io_pc = "run") ~> (io_pc = "done")
==============================================================================
