----------------------------- MODULE ThreadDemo -----------------------------
(***************************************************************************)
(* The thread library's demonstration (private_libary/linux_thread): main  *)
(* starts two detached threads that write the same variable `stop`, and    *)
(* ends when it finds it set twice, three seconds apart.                   *)
(***************************************************************************)
EXTENDS Integers

CONSTANT Rounds   \* max_count of out_info_per_sec, 10 in the code

ASSUME ThreadAssumption == Rounds \in Nat

VARIABLES
  made,     \* the threads create_detached_pthread could create
  stop,     \* the shared variable
  t_pc, max_count, \* out_info_per_sec, for each thread
  main_pc

threadVars == <<made, stop, t_pc, max_count, main_pc>>

Threads == 1..2

(* Creating a thread may fail; main goes on without it.                    *)
ThreadInit(run) == /\ made \in (IF run THEN SUBSET Threads ELSE {{}})
                   /\ stop = 0
                   /\ t_pc = [t \in Threads |-> "loop"]
                   /\ max_count = [t \in Threads |-> Rounds]
                   /\ main_pc = IF run THEN "look" ELSE "over"

(* while(max_count-- > 0) *)
InfoLoop(t) == /\ t_pc[t] = "loop"
               /\ max_count' = [max_count EXCEPT ![t] = @ - 1]
               /\ t_pc' = [t_pc EXCEPT ![t] = IF max_count[t] > 0 THEN "first" ELSE "last"]
               /\ UNCHANGED stop

(* stop = 0; sleep(1); stop = 0 *)
InfoClear(t) == /\ t_pc[t] \in {"first", "second"}
                /\ stop' = 0
                /\ t_pc' = [t_pc EXCEPT ![t] = IF @ = "first" THEN "second" ELSE "loop"]
                /\ UNCHANGED max_count

\* (bug) a thread ends without setting the variable
InfoEndsSilently(t) == /\ t_pc[t] = "last"
                       /\ t_pc' = [t_pc EXCEPT ![t] = "done"]
                       /\ UNCHANGED <<stop, max_count>>

(* stop = 1 *)
InfoEnds(t) == /\ t_pc[t] = "last"
               /\ stop' = 1
               /\ t_pc' = [t_pc EXCEPT ![t] = "done"]
               /\ UNCHANGED max_count

OutInfoPerSec(t) == /\ main_pc # "over"
                    /\ t \in made
                    /\ InfoLoop(t) \/ InfoClear(t) \/ InfoEnds(t)
                    /\ UNCHANGED <<made, main_pc>>

(* A look at the variable; after the first that finds it set, three seconds*)
(* and a second look.  The program is built without optimisation: each look*)
(* reads it.                                                               *)
MainLooks == /\ main_pc \in {"look", "again"}
             /\ main_pc' = IF stop # 1 THEN "look"
                           ELSE IF main_pc = "look" THEN "again" ELSE "over"
             /\ UNCHANGED <<made, stop, t_pc, max_count>>

ThreadNext == MainLooks \/ \E t \in Threads : OutInfoPerSec(t)

(* Every thread is scheduled. *)
ThreadFairness == /\ WF_threadVars(MainLooks)
                  /\ \A t \in Threads : WF_threadVars(OutInfoPerSec(t))

-----------------------------------------------------------------------------
(* The program ends whenever it got a thread at all, in whatever order the *)
(* two clear and set the variable: the last to end leaves it set.          *)
DemoEnds == (made # {}) ~> (main_pc = "over")
==============================================================================
