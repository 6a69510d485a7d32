------------------------------ MODULE CmdServer ------------------------------
(***************************************************************************)
(* The processes of the command and status server (create_cmd_status_      *)
(* trans_server and clear_thread of cmd_status_trans/server.c):            *)
(* ForkingServer, whose child moves frames between the client and the      *)
(* /dev/ammcd_csr device and, told to stop, resets the hardware: control   *)
(* register 1, a tenth of a second, control register 0.  The parent's      *)
(* clear_thread ends the child it was told of before it exits.             *)
(***************************************************************************)
EXTENDS ForkingServer

VARIABLE reg   \* the hardware's control register: 1 holds it in reset

cvars == <<vars, reg>>

Init == InitProcs /\ reg = 0

(* ProcSource.child_pid is the first child's pid and is never updated.     *)
Spawn(p) == /\ Main(p, "spawn")
            /\ Set(p, [proc[p] EXCEPT !.pc = "accept", !.clear = "wait", !.has_clear = TRUE,
                                     !.clear_pid = proc[p].child_pid])
            /\ UNCHANGED <<waiting, counters>>

Parent(p) == /\ \/ Bind(p) \/ BindFails(p) \/ Accept(p) \/ Kill(p) \/ Wait(p) \/ Poll(p)
                \/ Fork(p) \/ ForkFails(p) \/ Spawn(p) \/ SpawnFails(p)
             /\ UNCHANGED reg

Open(p) == /\ Main(p, "open")
           /\ Set(p, [proc[p] EXCEPT !.pc = "setup", !.holds = @ \cup {"device"}])
           /\ UNCHANGED <<waiting, counters>>

OpenFails(p) == /\ "device" \in Faults
                /\ Main(p, "open")
                /\ Set(p, [proc[p] EXCEPT !.pc = "pause"])
                /\ UNCHANGED <<waiting, counters>>

(* Both frame threads and clear_thread, whose ProcSource.child_pid is 0;   *)
(* then main pauses.                                                       *)
Setup(p) == /\ Main(p, "setup")
            /\ Set(p, [proc[p] EXCEPT !.pc = "pause", !.clear = "wait", !.clear_pid = 0])
            /\ UNCHANGED <<waiting, counters>>

(* One of the threads cannot be created: goto Exit, back to main, with the *)
(* device open.                                                            *)
SetupFails(p) == /\ "setup" \in Faults
                 /\ Main(p, "setup")
                 /\ Set(p, [proc[p] EXCEPT !.pc = "pause"])
                 /\ UNCHANGED <<waiting, counters>>

Child(p) == (Open(p) \/ OpenFails(p) \/ Setup(p) \/ SetupFails(p)) /\ UNCHANGED reg

-----------------------------------------------------------------------------
(* clear_thread: a parent ends its child, a child resets the hardware; a   *)
(* parent whose first fork failed (child_pid = -1) does neither.           *)

AfterStop(p) == IF proc[p].clear_pid > 0 THEN "kill"
                ELSE IF proc[p].clear_pid = 0 THEN "reset" ELSE "close"

ClearKill(p) == /\ Live(p) /\ proc[p].clear = "kill"
                /\ proc' = [proc EXCEPT ![p].clear = "reap",
                                        ![proc[p].clear_pid].sigint =
                                           @ \/ Live(proc[p].clear_pid)]
                /\ UNCHANGED <<waiting, counters, reg>>

(* wait(): any child will do. *)
ClearReap(p) == /\ Live(p) /\ proc[p].clear = "reap"
                /\ \/ \E c \in ChildrenOf(p) :
                        /\ proc[c].life = "zombie"
                        /\ proc' = [proc EXCEPT ![p].clear = "close", ![c].life = "gone"]
                   \/ /\ \A c \in ChildrenOf(p) : proc[c].life = "gone"
                      /\ Set(p, [proc[p] EXCEPT !.clear = "close"])
                /\ UNCHANGED <<waiting, counters, reg>>

(* reset_hardware *)
ResetBegins(p) == /\ Live(p) /\ proc[p].clear = "reset"
                  /\ reg' = 1
                  /\ Set(p, [proc[p] EXCEPT !.clear = "resetting"])
                  /\ UNCHANGED <<waiting, counters>>

\* (bug) the register is left at 1
ResetForgets(p) == /\ Live(p) /\ proc[p].clear = "resetting"
                   /\ Set(p, [proc[p] EXCEPT !.clear = "close"])
                   /\ UNCHANGED <<waiting, counters, reg>>

ResetEnds(p) == /\ Live(p) /\ proc[p].clear = "resetting"
                /\ reg' = 0
                /\ Set(p, [proc[p] EXCEPT !.clear = "close"])
                /\ UNCHANGED <<waiting, counters>>

Clear(p) == \/ ClearWait(p, AfterStop(p)) /\ UNCHANGED reg
            \/ ClearKill(p) \/ ClearReap(p) \/ ResetBegins(p) \/ ResetEnds(p)
            \/ ClearClose(p) /\ UNCHANGED reg
            \/ ClearExit(p) /\ UNCHANGED reg

World == (Boot \/ Connect \/ Operator) /\ UNCHANGED reg

Next == \/ \E p \in Pids : \/ Parent(p) \/ Child(p) \/ Clear(p)
                           \/ Handler(p) /\ UNCHANGED reg
        \/ World

Spec == Init /\ [][Next]_cvars

(* As for AcqServer. *)
Fairness == \A p \in Pids : /\ WF_cvars(Parent(p) \/ Child(p))
                            /\ WF_cvars(Handler(p) /\ UNCHANGED reg)
                            /\ WF_cvars(Clear(p))

FairSpec == Spec /\ Fairness

-----------------------------------------------------------------------------
(* Properties *)

TypeOK == ProcTypeOK /\ reg \in {0, 1}

(* The hardware is in reset only while some process is about to release    *)
(* it: nobody ends between the two writes of the register.                 *)
ResetOwned == reg = 1 => \E p \in Pids : Live(p) /\ proc[p].clear = "resetting"

(* What the parent is about to signal is a child of its own that has not   *)
(* been reaped - unless its own clear_thread has been in wait(), which     *)
(* reaps any child, the one main() goes on to signal too.                  *)
KillsUnreaped ==
  \A p \in Pids : Main(p, "kill") /\ proc[p].clear \notin {"close", "exit"}
                   => /\ proc[p].child_pid \in ChildrenOf(p)
                      /\ proc[proc[p].child_pid].life # "gone"

(* SIGINT ends a child, whatever its main thread is blocked in. *)
ChildSigintExits ==
  \A p \in Pids : (Live(p) /\ proc[p].handler = "posted" /\ proc[p].kind = "child")
                   ~> (~Live(p) \/ Stranded(p))

(* SIGINT ends a parent that has its clear_thread, as sig_handler          *)
(* announces ("recv SIGINT signal, exit process").  It does not once a     *)
(* second client has come: clear_thread signals the first child and waits  *)
(* for the second.                                                         *)
ParentSigintExits ==
  \A p \in Pids : (Live(p) /\ proc[p].handler = "posted" /\ proc[p].has_clear
                   /\ proc[p].kind = "parent") ~> ~Live(p)
==============================================================================
