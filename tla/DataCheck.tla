------------------------------ MODULE DataCheck ------------------------------
(***************************************************************************)
(* What main() of both servers runs in this commit: read_dma_test and      *)
(* cmd_status_trans_rw_test (test.c of either), which read the device for  *)
(* ever and count, with check_data_inc, the bytes that are not one more    *)
(* than the byte before.  A char is a number below Base and wraps around,  *)
(* whether the build's char is signed or not.                              *)
(***************************************************************************)
EXTENDS Integers, FiniteSets, SequencesExt

CONSTANTS Base,    \* values of a char (256)
          MaxRead, \* bytes one read() returns at most (MAX_DMA_LENGTH, 0x1000)
          MaxErrs  \* bound: errors counted by the reads of a behaviour

ASSUME CheckAssumption == Base \in Nat \ {0, 1} /\ MaxRead \in Nat \ {0} /\ MaxErrs \in Nat

VARIABLES
  testing,       \* the loop runs
  is_first_read, start_val, err_cnt_sum, \* its variables
  breaks         \* errors there were inside the reads (history)

checkVars == <<testing, is_first_read, start_val, err_cnt_sum, breaks>>

Char == 0..Base-1
Succ(c) == (c + 1) % Base

\* (bug) after an error the count goes on from the byte that was expected
CheckStepKeeps(acc, c) == [start_val |-> Succ(acc.start_val),
                           err_cnt |-> IF c = Succ(acc.start_val) THEN acc.err_cnt
                                       ELSE acc.err_cnt + 1]

(* One round of check_data_inc's loop. *)
CheckStep(acc, c) == [start_val |-> c,
                      err_cnt |-> IF c = Succ(acc.start_val) THEN acc.err_cnt
                                  ELSE acc.err_cnt + 1]

(* With start_val_vaild = 1 the value check_data_inc was given is not used:*)
(* it begins before the first byte, which is then the expected one.        *)
CheckDataInc(val, vaild, data) ==
  LET from == IF vaild = 1 /\ data # <<>> THEN (data[1] - 1) % Base ELSE val
  IN  FoldLeft(CheckStep, [start_val |-> from, err_cnt |-> 0], data).err_cnt

CheckInit(run) == /\ testing = run
                  /\ is_first_read = TRUE /\ start_val = 0
                  /\ err_cnt_sum = 0 /\ breaks = 0

Breaks(data) == Cardinality({i \in 2..Len(data) : data[i] # Succ(data[i-1])})

(* One read(), and its check.  After an empty one start_val is the byte in *)
(* front of the buffer, which can be anything.                             *)
CheckRead ==
  /\ testing /\ err_cnt_sum < MaxErrs
  /\ \E data \in BoundedSeq(Char, MaxRead) :
       /\ err_cnt_sum' = err_cnt_sum
            + CheckDataInc(start_val, IF is_first_read THEN 0 ELSE 1, data)
       /\ IF data = <<>> THEN start_val' \in Char ELSE start_val' = Last(data)
       /\ breaks' = breaks + Breaks(data)
            + (IF is_first_read /\ data # <<>> /\ data[1] # 1 THEN 1 ELSE 0)
  /\ is_first_read' = FALSE
  /\ UNCHANGED testing

(* read() fails: the thread returns. *)
CheckReadFails == /\ testing
                  /\ testing' = FALSE
                  /\ UNCHANGED <<is_first_read, start_val, err_cnt_sum, breaks>>

CheckNext == CheckRead \/ CheckReadFails

-----------------------------------------------------------------------------
(* What is reported is the number of breaks inside the reads, and one more *)
(* if the first read does not begin with 1: neither the byte an empty read *)
(* leaves in start_val nor an earlier error is ever counted.  (Nor is a    *)
(* break between one read and the next: bytes lost there go unnoticed.)    *)
ErrCountExact == err_cnt_sum = breaks
==============================================================================
