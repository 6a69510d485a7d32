------------------------------ MODULE AcqServer ------------------------------
(***************************************************************************)
(* The processes of the acquisition server (create_acq_data_trans_server   *)
(* and clear_thread of acq_data_trans/server.c): ForkingServer, whose      *)
(* child opens the DMA device and streams.  What it streams is             *)
(* AcqPipeline's subject; here it only has the device open.                *)
(***************************************************************************)
EXTENDS ForkingServer

Init == InitProcs

(* The parent's clear_thread is created after the first fork only; its     *)
(* ProcSource.child_pid stays 0.                                           *)
Spawn(p) == /\ Main(p, "spawn")
            /\ Set(p, [proc[p] EXCEPT !.pc = "accept", !.clear = "wait", !.has_clear = TRUE])
            /\ UNCHANGED <<waiting, counters>>

Parent(p) == \/ Bind(p) \/ BindFails(p) \/ Accept(p) \/ Kill(p) \/ Wait(p) \/ Poll(p)
             \/ Fork(p) \/ ForkFails(p) \/ Spawn(p) \/ SpawnFails(p)

Open(p) == /\ Main(p, "open")
           /\ Set(p, [proc[p] EXCEPT !.pc = "setup", !.holds = @ \cup {"device"}])
           /\ UNCHANGED <<waiting, counters>>

(* open() fails: goto Exit returns to main, which pauses; the process does *)
(* not end and has no clear_thread.                                        *)
OpenFails(p) == /\ "device" \in Faults
                /\ Main(p, "open")
                /\ Set(p, [proc[p] EXCEPT !.pc = "pause"])
                /\ UNCHANGED <<waiting, counters>>

(* Buffers, pipes, the two data threads and clear_thread; then main pauses.*)
Setup(p) == /\ Main(p, "setup")
            /\ Set(p, [proc[p] EXCEPT !.pc = "pause", !.clear = "wait"])
            /\ UNCHANGED <<waiting, counters>>

(* Any of them fails: exit(0). *)
SetupFails(p) == /\ "setup" \in Faults
                 /\ Main(p, "setup")
                 /\ Exit(p)

Child(p) == Open(p) \/ OpenFails(p) \/ Setup(p) \/ SetupFails(p)

(* goto Clear skips the code that would kill a child or unmap the device.  *)
Clear(p) == ClearWait(p, "close") \/ ClearClose(p) \/ ClearExit(p)

Next == \/ \E p \in Pids : Parent(p) \/ Child(p) \/ Handler(p) \/ Clear(p)
        \/ Boot \/ Connect \/ Operator

Spec == Init /\ [][Next]_vars

(* Every thread of a live process is scheduled, and open(), wait() and     *)
(* accept() return when they can.  Nothing is assumed of the clients or    *)
(* the operator.                                                           *)
Fairness == \A p \in Pids : /\ WF_vars(Parent(p) \/ Child(p))
                            /\ WF_vars(Handler(p))
                            /\ WF_vars(Clear(p))

FairSpec == Spec /\ Fairness

-----------------------------------------------------------------------------
(* Properties *)

TypeOK == ProcTypeOK

(* SIGINT ends a child, and a parent that has its clear_thread, whatever   *)
(* their main threads are blocked in; a stranded child it does not end.    *)
SigintExits ==
  \A p \in Pids : (/\ Live(p) /\ proc[p].handler = "posted"
                   /\ proc[p].kind = "child" \/ proc[p].has_clear)
                   ~> (~Live(p) \/ Stranded(p))

(* What sig_handler announces ("recv SIGINT signal, exit process"): a      *)
(* server that caught SIGINT exits.  It does not before its first client:  *)
(* nothing waits on g_sem then.                                            *)
SigintExitsServer ==
  \A p \in Pids : (Live(p) /\ proc[p].handler = "posted" /\ proc[p].kind = "parent")
                   ~> ~Live(p)
==============================================================================
