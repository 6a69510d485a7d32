---------------------------- MODULE ForkingServer ----------------------------
(***************************************************************************)
(* What the two servers of the repository have in common: a parent that    *)
(* accepts a client, ends the child that served the one before - SIGINT,   *)
(* wait(), poll until it is gone - and forks the next; sig_handler; the    *)
(* first half of clear_thread; and the world around them.  create_acq_     *)
(* data_trans_server and create_cmd_status_trans_server are two copies of  *)
(* this code; AcqServer and CmdServer add what differs.                    *)
(*                                                                         *)
(* A process is a record, so that fork() is a copy of it.                  *)
(***************************************************************************)
EXTENDS Integers, FiniteSets

CONSTANTS MaxProcs,    \* bound: processes ever created
          MaxBoots,    \* bound: times the server is started
          MaxClients,  \* bound: connections ever made
          MaxSigs,     \* bound: SIGINTs from outside
          Faults,      \* the calls that may fail
          OneShot      \* signal() is System V's (-std=c99), not BSD's

ASSUME ServerAssumption == /\ MaxProcs \in Nat
                           /\ MaxBoots \in Nat /\ MaxClients \in Nat
                           /\ MaxBoots + MaxClients <= MaxProcs
                           /\ MaxSigs \in Nat
                           /\ Faults \subseteq {"listen", "device", "setup", "fork", "thread"}
                           /\ OneShot \in BOOLEAN

Pids == 1..MaxProcs

VARIABLES
  proc,      \* the process table
  waiting,   \* clients in the backlog of the listening socket
  nboots, nclients, nsigs  \* counted against their bounds

vars == <<proc, waiting, nboots, nclients, nsigs>>

(* kind, life    what the process is, and whether it runs;                 *)
(* ppid          its parent (0: the operator's shell, or init);            *)
(* pc            where its main thread is;                                 *)
(* child_pid     the local variable of create_*_server;                    *)
(* has_clear     the parent's has_clear_thread;                            *)
(* clear         its clear_thread ("none": not created);                   *)
(* clear_pid     ProcSource.child_pid, which clear_thread was given;       *)
(* status, sem   system_status and the value of g_sem;                     *)
(* sigint        whether a SIGINT is pending;                              *)
(* handler       sig_handler: idle, or what it has done so far;            *)
(* holds         the listening socket and the device, if open.             *)
Process ==
  [kind : {"none", "parent", "child"}, life : {"live", "zombie", "gone"},
   ppid : 0..MaxProcs,
   pc : {"bind", "accept", "kill", "wait", "poll", "fork", "spawn", "open", "setup", "pause"},
   child_pid : -1..MaxProcs, has_clear : BOOLEAN,
   clear : {"none", "wait", "kill", "reap", "reset", "resetting", "close", "exit"},
   clear_pid : -1..MaxProcs,
   status : {"Running", "Stop"}, sem : Nat,
   sigint : BOOLEAN, handler : {"idle", "stopped", "posted"},
   holds : SUBSET {"listen", "device"}]

NoProcess == [kind |-> "none", life |-> "gone", ppid |-> 0, pc |-> "bind", child_pid |-> 0,
              has_clear |-> FALSE, clear |-> "none", clear_pid |-> 0, status |-> "Running",
              sem |-> 0, sigint |-> FALSE, handler |-> "idle", holds |-> {}]

Live(p)  == proc[p].life = "live"
Unused   == {p \in Pids : proc[p].kind = "none"}
NextPid(p) == p \in Unused /\ \A q \in Unused : p <= q
ChildrenOf(p) == {c \in Pids : proc[c].kind = "child" /\ proc[c].ppid = p}
Holders(fd) == {p \in Pids : Live(p) /\ fd \in proc[p].holds}

(* The main thread runs: the process lives and no handler runs on it. *)
Main(p, at) == Live(p) /\ proc[p].handler = "idle" /\ proc[p].pc = at

InitProcs == /\ proc = [p \in Pids |-> NoProcess]
             /\ waiting = 0
             /\ nboots = 0 /\ nclients = 0 /\ nsigs = 0

counters == <<nboots, nclients, nsigs>>

(* Once nobody holds the listening socket its backlog is reset. *)
Backlog(holders) == IF holders = {} THEN 0 ELSE waiting

(* Process p ends: its descriptors are closed; it waits to be reaped by    *)
(* its parent, or by nobody; init adopts its children and reaps the dead.  *)
AfterExit(p) ==
  [q \in Pids |->
     IF q = p
       THEN [proc[p] EXCEPT !.life = IF proc[p].ppid \in Pids /\ Live(proc[p].ppid)
                                       THEN "zombie" ELSE "gone",
                            !.holds = {}]
     ELSE IF q \in ChildrenOf(p) /\ proc[q].life # "gone"
       THEN [proc[q] EXCEPT !.ppid = 0,
                            !.life = IF proc[q].life = "zombie" THEN "gone" ELSE "live"]
     ELSE proc[q]]

Exit(p) == /\ proc' = AfterExit(p)
           /\ waiting' = Backlog(Holders("listen") \ {p})
           /\ UNCHANGED counters

Set(p, rec) == proc' = [proc EXCEPT ![p] = rec]

-----------------------------------------------------------------------------
(* The parent's main thread *)

(* create_srv_netsock and listen(): bind() fails, fifteen times in a row,  *)
(* while some process has a socket on the port.                            *)
Bind(p) == /\ Main(p, "bind")
           /\ Holders("listen") = {}
           /\ Set(p, [proc[p] EXCEPT !.pc = "accept", !.holds = {"listen"}])
           /\ UNCHANGED <<waiting, counters>>

(* Or one of them fails.  (A socket that is bound and not listening takes  *)
(* no clients; it is left open, but so is the process.)                    *)
BindFails(p) == /\ Main(p, "bind")
                /\ Holders("listen") # {} \/ "listen" \in Faults
                /\ Set(p, [proc[p] EXCEPT !.pc = "pause"])
                /\ UNCHANGED <<waiting, counters>>

(* clear_thread has closed the listening socket.  An accept() that is      *)
(* blocked on it keeps it, until it returns or a handler interrupts it.    *)
Closed(p) == proc[p].kind = "parent" /\ proc[p].clear = "exit"
HoldsAfter(p) == IF Closed(p) THEN proc[p].holds \ {"listen"} ELSE proc[p].holds
ListenersAfter(p) == IF Closed(p) THEN Holders("listen") \ {p} ELSE Holders("listen")

\* (bug) accept() does not wait for a client
AcceptEmpty(p) ==
  /\ Main(p, "accept")
  /\ "listen" \in proc[p].holds
  /\ waiting' = waiting - 1
  /\ Set(p, [proc[p] EXCEPT !.pc = IF proc[p].child_pid > 0 THEN "kill" ELSE "fork"])
  /\ UNCHANGED counters

(* A client's connection is accepted.  (Called with the socket closed by   *)
(* clear_thread accept() fails and is tried again.)                        *)
Accept(p) == /\ Main(p, "accept")
             /\ "listen" \in proc[p].holds
             /\ waiting > 0
             /\ waiting' = IF ListenersAfter(p) = {} THEN 0 ELSE waiting - 1
             /\ Set(p, [proc[p] EXCEPT !.pc = IF proc[p].child_pid > 0 THEN "kill" ELSE "fork",
                                       !.holds = HoldsAfter(p)])
             /\ UNCHANGED counters

\* (bug) the parent does not wait for the child it signalled
KillNoWait(p) == /\ Main(p, "kill")
                 /\ proc' = [proc EXCEPT ![p].pc = "fork",
                                         ![proc[p].child_pid].sigint =
                                            @ \/ Live(proc[p].child_pid)]
                 /\ UNCHANGED <<waiting, counters>>

(* kill(child_pid, SIGINT) *)
Kill(p) == /\ Main(p, "kill")
           /\ proc' = [proc EXCEPT ![p].pc = "wait",
                                   ![proc[p].child_pid].sigint =
                                      @ \/ Live(proc[p].child_pid)]
           /\ UNCHANGED <<waiting, counters>>

\* (bug) the dead child is only looked at
WaitKeepsZombie(p) == /\ Main(p, "wait")
                      /\ \A c \in ChildrenOf(p) : ~Live(c)
                      /\ Set(p, [proc[p] EXCEPT !.pc = "poll"])
                      /\ UNCHANGED <<waiting, counters>>

(* wait(): reaps a dead child, or fails when there is no child at all.     *)
Wait(p) == /\ Main(p, "wait")
           /\ \/ \E c \in ChildrenOf(p) :
                   /\ proc[c].life = "zombie"
                   /\ proc' = [proc EXCEPT ![p].pc = "poll", ![c].life = "gone"]
              \/ /\ \A c \in ChildrenOf(p) : proc[c].life = "gone"
                 /\ Set(p, [proc[p] EXCEPT !.pc = "poll"])
           /\ UNCHANGED <<waiting, counters>>

\* (bug) one look at the child instead of the loop
PollOnce(p) == /\ Main(p, "poll")
               /\ Set(p, [proc[p] EXCEPT !.pc = "fork"])
               /\ UNCHANGED <<waiting, counters>>

(* while(is_process_alive(child_pid) == 1): a zombie counts as alive.      *)
Poll(p) == /\ Main(p, "poll")
           /\ proc[proc[p].child_pid].life = "gone"
           /\ Set(p, [proc[p] EXCEPT !.pc = "fork"])
           /\ UNCHANGED <<waiting, counters>>

AfterFork(p) == IF proc[p].has_clear THEN "accept" ELSE "spawn"

(* The child is a copy: it has the parent's status and semaphore and, as   *)
(* close_fd does not close, its listening socket.  It has only the main    *)
(* thread.                                                                 *)
Fork(p) == /\ Main(p, "fork")
           /\ \E c \in Pids :
                /\ NextPid(c)
                /\ proc' = [proc EXCEPT
                     ![p].pc = AfterFork(p), ![p].child_pid = c,
                     ![c] = [proc[p] EXCEPT !.kind = "child", !.ppid = p, !.pc = "open",
                                            !.child_pid = 0, !.clear = "none",
                                            !.sigint = FALSE]]
           /\ UNCHANGED <<waiting, counters>>

\* (bug) child_pid keeps its old value when fork() fails
ForkFailsKeepsPid(p) == /\ "fork" \in Faults
                        /\ Main(p, "fork")
                        /\ Set(p, [proc[p] EXCEPT !.pc = AfterFork(p)])
                        /\ UNCHANGED <<waiting, counters>>

ForkFails(p) == /\ "fork" \in Faults
                /\ Main(p, "fork")
                /\ Set(p, [proc[p] EXCEPT !.pc = AfterFork(p), !.child_pid = -1])
                /\ UNCHANGED <<waiting, counters>>

(* goto ExitCloseListenFd: close_fd leaves the socket open; main pauses.   *)
SpawnFails(p) == /\ "thread" \in Faults
                 /\ Main(p, "spawn")
                 /\ Set(p, [proc[p] EXCEPT !.pc = "pause"])
                 /\ UNCHANGED <<waiting, counters>>

-----------------------------------------------------------------------------
(* sig_handler, on the main thread *)

HandlerStop(p) == /\ Live(p) /\ proc[p].sigint /\ proc[p].handler = "idle"
                  /\ Set(p, [proc[p] EXCEPT !.sigint = FALSE, !.status = "Stop",
                                            !.handler = "stopped", !.holds = HoldsAfter(p)])
                  /\ waiting' = Backlog(ListenersAfter(p))
                  /\ UNCHANGED counters

(* System V's signal(): until the handler installs itself again SIGINT has *)
(* its default action.                                                     *)
HandlerKilled(p) == /\ OneShot
                    /\ Live(p) /\ proc[p].sigint /\ proc[p].handler # "idle"
                    /\ Exit(p)

\* (bug) the handler forgets sem_post
HandlerNoPost(p) == /\ Live(p) /\ proc[p].handler = "stopped"
                    /\ Set(p, [proc[p] EXCEPT !.handler = "posted"])
                    /\ UNCHANGED <<waiting, counters>>

HandlerPost(p) == /\ Live(p) /\ proc[p].handler = "stopped"
                  /\ Set(p, [proc[p] EXCEPT !.sem = @ + 1, !.handler = "posted"])
                  /\ UNCHANGED <<waiting, counters>>

(* Where an accept() or a wait() that fails with EINTR leads.              *)
Interrupted(p) ==
  IF proc[p].pc = "wait" THEN "poll"
  ELSE IF proc[p].pc = "accept" /\ ~proc[p].has_clear /\ proc[p].status = "Stop" THEN "pause"
  ELSE proc[p].pc

(* signal() again, and return.  System V's handler interrupts the call the *)
(* main thread was blocked in, if it was.                                  *)
HandlerReturn(p) ==
  /\ Live(p) /\ proc[p].handler = "posted"
  /\ \/ Set(p, [proc[p] EXCEPT !.handler = "idle"])
     \/ OneShot /\ Set(p, [proc[p] EXCEPT !.handler = "idle", !.pc = Interrupted(p)])
  /\ UNCHANGED <<waiting, counters>>

Handler(p) == HandlerStop(p) \/ HandlerKilled(p) \/ HandlerPost(p) \/ HandlerReturn(p)

-----------------------------------------------------------------------------
(* clear_thread *)

(* sem_wait() and the test of the status; "next" is what comes after the   *)
(* loop.                                                                   *)
ClearWait(p, next) ==
  /\ Live(p) /\ proc[p].clear = "wait" /\ proc[p].sem > 0
  /\ Set(p, [proc[p] EXCEPT !.sem = @ - 1,
                            !.clear = IF proc[p].status = "Stop" THEN next ELSE "wait"])
  /\ UNCHANGED <<waiting, counters>>

(* close(): the parent's list has the listening socket, which an accept()  *)
(* that is blocked keeps; the child's has the device (and not the socket   *)
(* it inherited).                                                          *)
ClearClose(p) ==
  LET fd == IF proc[p].kind = "parent" THEN "listen" ELSE "device"
  IN  /\ Live(p) /\ proc[p].clear = "close"
      /\ \/ /\ Set(p, [proc[p] EXCEPT !.clear = "exit", !.holds = @ \ {fd}])
            /\ waiting' = IF fd = "listen" THEN Backlog(Holders("listen") \ {p}) ELSE waiting
         \/ /\ fd = "listen" /\ Main(p, "accept")
            /\ Set(p, [proc[p] EXCEPT !.clear = "exit"])
            /\ UNCHANGED waiting
      /\ UNCHANGED counters

ClearExit(p) == /\ Live(p) /\ proc[p].clear = "exit"
                /\ Exit(p)

-----------------------------------------------------------------------------
(* The world *)

(* The operator starts the server when none is running. *)
Boot == /\ nboots < MaxBoots
        /\ \A p \in Pids : proc[p].kind = "parent" => ~Live(p)
        /\ \E p \in Pids :
             /\ NextPid(p)
             /\ Set(p, [NoProcess EXCEPT !.kind = "parent", !.life = "live"])
        /\ nboots' = nboots + 1
        /\ UNCHANGED <<waiting, nclients, nsigs>>

Connect == /\ nclients < MaxClients
           /\ Holders("listen") # {}
           /\ waiting' = waiting + 1
           /\ nclients' = nclients + 1
           /\ UNCHANGED <<proc, nboots, nsigs>>

(* SIGINT to the server's process alone (kill), or to its whole group (the *)
(* terminal's Ctrl-C).                                                     *)
Sigint(targets) ==
  /\ nsigs < MaxSigs
  /\ proc' = [p \in Pids |-> IF p \in targets /\ Live(p)
                               THEN [proc[p] EXCEPT !.sigint = TRUE] ELSE proc[p]]
  /\ nsigs' = nsigs + 1
  /\ UNCHANGED <<waiting, nboots, nclients>>

Operator == \E p \in Pids : /\ Live(p) /\ proc[p].kind = "parent"
                            /\ \/ Sigint({p})
                               \/ Sigint({p} \cup ChildrenOf(p))

-----------------------------------------------------------------------------
(* Properties of both servers *)

ProcTypeOK == /\ proc \in [Pids -> Process]
              /\ waiting \in 0..MaxClients
              /\ nboots \in 0..MaxBoots
              /\ nclients \in 0..MaxClients
              /\ nsigs \in 0..MaxSigs

(* Never do two processes have the device open: a child opens it only when *)
(* the one before has gone, over reconnects, failures and signals.         *)
DeviceExclusive == Cardinality(Holders("device")) <= 1

(* What the parent is about to signal, or waits to disappear, is a child   *)
(* of its own that has not been reaped: the pid cannot be somebody else's. *)
KillsOwnChild ==
  \A p \in Pids : Main(p, "kill") => /\ proc[p].child_pid \in ChildrenOf(p)
                                     /\ proc[proc[p].child_pid].life # "gone"

(* A child that gave up while it was set up pauses for ever: it has no     *)
(* clear_thread.                                                           *)
Stranded(p) == proc[p].kind = "child" /\ proc[p].pc = "pause" /\ proc[p].clear = "none"

(* A client that reconnects is served: once accepted, the previous child   *)
(* goes away, or the server itself does.                                   *)
ReconnectServed ==
  \A p \in Pids : (Live(p) /\ proc[p].pc = "kill")
                   ~> (~Live(p) \/ proc[p].pc = "fork" \/ \E c \in ChildrenOf(p) : Stranded(c))

(* The same without the exception: "close child process", says the comment *)
(* at the accept loop of both servers.                                     *)
ChildClosed ==
  \A p \in Pids : (Live(p) /\ proc[p].pc = "kill") ~> (~Live(p) \/ proc[p].pc = "fork")
==============================================================================
