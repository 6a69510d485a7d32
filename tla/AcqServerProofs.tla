--------------------------- MODULE AcqServerProofs ---------------------------
(***************************************************************************)
(* Theorems about the processes of the acquisition server, for any number  *)
(* of clients, signals and processes, whatever fails.                      *)
(***************************************************************************)
EXTENDS AcqServer, ForkingServerProofs

(* The parent gets its clear_thread, after the first fork.                 *)
LEMMA SpawnStep == ASSUME SharedInv, NEW p \in Pids, Spawn(p) PROVE SharedInv'
<1>1. /\ proc[p].pc = "spawn" /\ Quiet
      /\ proc[p] \in Process /\ RoleOf(proc[p])
  BY StillQuiet, RecordType DEF Spawn, Main
<1>2. PICK r1 : r1 = [proc[p] EXCEPT !.pc = "accept"]
  OBVIOUS
<1>3. r1 \in Process /\ RoleOf(r1) /\ Alike(r1, proc[p])
  BY <1>1, <1>2 DEF Process, RoleOf, Alike
<1>4. PICK rec : rec = [r1 EXCEPT !.clear = "wait", !.has_clear = TRUE]
  OBVIOUS
<1>5. rec \in Process
  BY <1>3, <1>4 DEF Process
<1>6. RoleOf(rec) /\ Alike(rec, proc[p])
  BY <1>1, <1>2, <1>3, <1>4 DEF Process, RoleOf, Alike
<1>7. Set(p, rec)
  BY <1>2, <1>4 DEF Spawn
<1> QED BY <1>1, <1>5, <1>6, <1>7, AlikeSet

(* The child's main thread: it opens the device, sets itself up, or fails  *)
(* and exits.                                                              *)
LEMMA ChildSteps == ASSUME SharedInv, NEW p \in Pids, Child(p) PROVE SharedInv'
<1>1. proc[p] \in Process /\ RoleOf(proc[p])
  BY RecordType
<1>2. CASE Open(p)
  <2>1. proc[p].pc = "open" /\ Quiet
    BY <1>2, StillQuiet DEF Open, Main
  <2>2. PICK h : h = proc[p].holds \cup {"device"}
    OBVIOUS
  <2>3. h \in SUBSET {"listen", "device"}
    BY <1>1, <2>2 DEF Process
  <2>4. PICK rec : rec = [proc[p] EXCEPT !.pc = "setup", !.holds = h] /\ Set(p, rec)
    BY <1>2, <2>2 DEF Open
  <2>5. rec \in Process
    BY <1>1, <2>3, <2>4 DEF Process
  <2>6. RoleOf(rec) /\ Alike(rec, proc[p])
    BY <1>1, <2>1, <2>4 DEF Process, RoleOf, Alike
  <2> QED BY <2>1, <2>4, <2>5, <2>6, AlikeSet
<1>3. CASE OpenFails(p)
  <2>1. proc[p].pc = "open" /\ Quiet
    BY <1>3, StillQuiet DEF OpenFails, Main
  <2>2. PICK rec : rec = [proc[p] EXCEPT !.pc = "pause"] /\ Set(p, rec)
    BY <1>3 DEF OpenFails
  <2>3. rec \in Process /\ RoleOf(rec) /\ Alike(rec, proc[p])
    BY <1>1, <2>1, <2>2 DEF Process, RoleOf, Alike
  <2> QED BY <2>1, <2>2, <2>3, AlikeSet
<1>4. CASE Setup(p)
  <2>1. proc[p].pc = "setup" /\ Quiet
    BY <1>4, StillQuiet DEF Setup, Main
  <2>2. PICK rec : rec = [proc[p] EXCEPT !.pc = "pause", !.clear = "wait"] /\ Set(p, rec)
    BY <1>4 DEF Setup
  <2>3. rec \in Process
    BY <1>1, <2>2 DEF Process
  <2>4. RoleOf(rec) /\ Alike(rec, proc[p])
    BY <1>1, <2>1, <2>2 DEF Process, RoleOf, Alike
  <2> QED BY <2>1, <2>2, <2>3, <2>4, AlikeSet
<1>5. CASE SetupFails(p)
  BY <1>5, ExitStep DEF SetupFails, Main
<1> QED BY <1>2, <1>3, <1>4, <1>5 DEF Child

(* clear_thread's steps, in a parent or in a child.                        *)
LEMMA ClearSteps == ASSUME SharedInv, NEW p \in Pids, Clear(p) PROVE SharedInv'
<1>1. CASE ClearWait(p, "close")
  BY <1>1, ClearWaitStep
<1>2. CASE ClearClose(p)
  BY <1>2, ClearCloseStep
<1>3. CASE ClearExit(p)
  BY <1>3, ExitStep DEF ClearExit
<1> QED BY <1>1, <1>2, <1>3 DEF Clear

(* Every step of one server program keeps the shared invariant.            *)
LEMMA NextSteps == ASSUME SharedInv, MaxBoots <= 1, [Next]_vars PROVE SharedInv'
<1>1. ASSUME NEW p \in Pids, Parent(p) PROVE SharedInv'
  BY <1>1, ParentSteps, SpawnStep DEF Parent
<1> QED BY <1>1, ChildSteps, HandlerSteps, ClearSteps, WorldSteps, SharedStutter DEF Next

(* A server that is started once: the types, and the invariant that no     *)
(* two of its children are left at any time.                               *)
THEOREM SharedInvCorrect == ASSUME MaxBoots <= 1 PROVE Spec => []SharedInv
<1>1. Init => SharedInv
  BY SharedInit DEF Init
<1>2. SharedInv /\ [Next]_vars => SharedInv'
  BY NextSteps
<1> QED BY <1>1, <1>2, PTL DEF Spec

(* The processes and counters of a server stay in their types, over any    *)
(* number of clients, failures and signals.                                *)
THEOREM TypeCorrect == ASSUME MaxBoots <= 1 PROVE Spec => []TypeOK
<1>1. SharedInv => TypeOK
  BY DEF SharedInv, TypeInv, TypeOK
<1> QED BY <1>1, SharedInvCorrect, PTL

(* Two children of one server never have the DMA device open at once: the  *)
(* child that served one client is gone before the next can open it.       *)
THEOREM DeviceHasOneUser == ASSUME MaxBoots <= 1 PROVE Spec => []DeviceExclusive
BY OneHolder, SharedInvCorrect, PTL

-----------------------------------------------------------------------------
(* Whom the parent signals *)

(* Past the fork and up to the wait, the child_pid of a parent that lives, *)
(* if it is a pid, is a child of its own that is still to be reaped.       *)
OwnKid(p) == LET c == proc[p].child_pid
             IN  c \in Pids /\ proc[c].kind = "child" /\ proc[c].ppid = p
                 /\ proc[c].life # "gone"

Owes(r) == /\ r.kind = "parent" /\ r.life = "live" /\ r.child_pid > 0
           /\ r.pc \notin {"poll", "fork"}

OwnInv == \A p \in Pids : Owes(proc[p]) => OwnKid(p)

Keeps(r, s) == /\ r.kind = s.kind /\ r.ppid = s.ppid /\ r.life = s.life
               /\ Owes(r) => Owes(s) /\ r.child_pid = s.child_pid

(* A step after which no parent owes more than before, and every process   *)
(* has its kind, parent and life as before, keeps OwnInv.                  *)
LEMMA OwnStep ==
  ASSUME SharedInv, OwnInv, \A q \in Pids : Keeps(proc'[q], proc[q])
  PROVE  OwnInv'
<1> SUFFICES ASSUME NEW p \in Pids, Owes(proc'[p]) PROVE OwnKid(p)'
  BY DEF OwnInv
<1>1. Owes(proc[p]) /\ proc'[p].child_pid = proc[p].child_pid
  BY DEF Keeps
<1>2. OwnKid(p)
  BY <1>1 DEF OwnInv
<1> QED BY <1>1, <1>2 DEF OwnKid, Keeps

(* The same of a step that changes one process.                            *)
LEMMA OwnSet ==
  ASSUME SharedInv, OwnInv, NEW p \in Pids, NEW rec, Set(p, rec), Keeps(rec, proc[p])
  PROVE  OwnInv'
<1>1. proc \in [Pids -> Process]
  BY DEF SharedInv, TypeInv, ProcTypeOK
<1>2. \A q \in Pids : Keeps(proc'[q], proc[q])
  BY <1>1 DEF Set, Keeps
<1> QED BY <1>2, OwnStep

(* A child that ends is still to be reaped by its parent; a parent that    *)
(* ends owes nothing.                                                      *)
LEMMA OwnExit == ASSUME SharedInv, OwnInv, NEW p \in Pids, Exit(p) PROVE OwnInv'
<1>1. proc \in [Pids -> Process] /\ \A q \in Pids : RoleOf(proc[q])
  BY RecordType DEF SharedInv, TypeInv, ProcTypeOK
<1>2. PICK l : l = IF proc[p].ppid \in Pids /\ Live(proc[p].ppid) THEN "zombie" ELSE "gone"
  OBVIOUS
<1>3. /\ proc'[p].kind = proc[p].kind /\ proc'[p].ppid = proc[p].ppid /\ proc'[p].life = l
  <2>1. AfterExit(p)[p] = [proc[p] EXCEPT !.life = l, !.holds = {}]
    BY <1>2 DEF AfterExit
  <2> QED BY <1>1, <2>1 DEF Exit, Process
<1>4. ASSUME NEW q \in Pids, q # p, ~(q \in ChildrenOf(p) /\ proc[q].life # "gone")
      PROVE  proc'[q] = proc[q]
  <2>1. AfterExit(p)[q] = proc[q]
    BY <1>4 DEF AfterExit
  <2> QED BY <2>1 DEF Exit
<1>5. ASSUME NEW q \in Pids, q # p, q \in ChildrenOf(p)
      PROVE  proc'[q].kind = "child"
  <2>1. CASE proc[q].life = "gone"
    BY <1>4, <1>5, <2>1 DEF ChildrenOf
  <2>2. CASE proc[q].life # "gone"
    <3> DEFINE k == IF proc[q].life = "zombie" THEN "gone" ELSE "live"
    <3>1. AfterExit(p)[q] = [proc[q] EXCEPT !.ppid = 0, !.life = k]
      BY <1>5, <2>2 DEF AfterExit
    <3> HIDE DEF k
    <3>2. [proc[q] EXCEPT !.ppid = 0, !.life = k].kind = proc[q].kind
      BY <1>1 DEF Process
    <3> QED BY <1>5, <3>1, <3>2 DEF Exit, ChildrenOf
  <2> QED BY <2>1, <2>2
<1> SUFFICES ASSUME NEW r \in Pids, Owes(proc'[r]) PROVE OwnKid(r)'
  BY DEF OwnInv
<1>6. r # p /\ proc'[r] = proc[r]
  BY <1>2, <1>3, <1>4, <1>5 DEF Owes
<1>7. OwnKid(r)
  BY <1>6 DEF OwnInv
<1>8. PICK c \in Pids : c = proc[r].child_pid
  BY <1>7 DEF OwnKid
<1>9. CASE c = p
  <2>1. l = "zombie"
    BY <1>2, <1>6, <1>7, <1>8, <1>9 DEF OwnKid, Owes, Live
  <2> QED BY <1>3, <1>6, <1>7, <1>8, <1>9, <2>1 DEF OwnKid
<1>10. CASE c # p
  <2>1. proc'[c] = proc[c]
    BY <1>4, <1>6, <1>7, <1>8, <1>10 DEF OwnKid, ChildrenOf
  <2> QED BY <1>6, <1>7, <1>8, <2>1 DEF OwnKid
<1> QED BY <1>9, <1>10

(* The parent's main thread: a child is its own from fork() until wait()   *)
(* has returned it.                                                        *)
LEMMA OwnParent ==
  ASSUME SharedInv, OwnInv, NEW p \in Pids, Parent(p)
  PROVE  OwnInv'
<1>1. /\ proc[p] \in Process /\ RoleOf(proc[p]) /\ proc \in [Pids -> Process]
      /\ \A q \in Pids : proc[q] \in Process /\ RoleOf(proc[q])
  BY RecordType DEF SharedInv, TypeInv, ProcTypeOK
<1> USE DEF Owes
<1>2. CASE Bind(p)
  <2>1. PICK rec : rec = [proc[p] EXCEPT !.pc = "accept", !.holds = {"listen"}] /\ Set(p, rec)
    BY <1>2 DEF Bind
  <2>2. Keeps(rec, proc[p])
    BY <1>1, <1>2, <2>1 DEF Bind, Main, Process, Keeps
  <2> QED BY <2>1, <2>2, OwnSet
<1>3. CASE BindFails(p)
  <2>1. PICK rec : rec = [proc[p] EXCEPT !.pc = "pause"] /\ Set(p, rec)
    BY <1>3 DEF BindFails
  <2>2. Keeps(rec, proc[p])
    BY <1>1, <1>3, <2>1 DEF BindFails, Main, Process, Keeps
  <2> QED BY <2>1, <2>2, OwnSet
<1>4. CASE Accept(p)
  <2>1. PICK next \in {"kill", "fork"} :
          Set(p, [proc[p] EXCEPT !.pc = next, !.holds = HoldsAfter(p)])
    BY <1>4 DEF Accept
  <2>2. PICK rec : rec = [proc[p] EXCEPT !.pc = next, !.holds = HoldsAfter(p)] /\ Set(p, rec)
    BY <2>1
  <2>3. Keeps(rec, proc[p])
    BY <1>1, <1>4, <2>2 DEF Accept, Main, Process, Keeps
  <2> QED BY <2>2, <2>3, OwnSet
<1>5. CASE Poll(p)
  <2>1. PICK rec : rec = [proc[p] EXCEPT !.pc = "fork"] /\ Set(p, rec)
    BY <1>5 DEF Poll
  <2>2. Keeps(rec, proc[p])
    BY <1>1, <1>5, <2>1 DEF Poll, Main, Process, Keeps
  <2> QED BY <2>1, <2>2, OwnSet
<1>6. CASE ForkFails(p)
  <2>1. PICK rec : rec = [proc[p] EXCEPT !.pc = AfterFork(p), !.child_pid = -1] /\ Set(p, rec)
    BY <1>6 DEF ForkFails
  <2>2. Keeps(rec, proc[p])
    BY <1>1, <1>6, <2>1 DEF ForkFails, Main, Process, Keeps
  <2> QED BY <2>1, <2>2, OwnSet
<1>7. CASE SpawnFails(p)
  <2>1. PICK rec : rec = [proc[p] EXCEPT !.pc = "pause"] /\ Set(p, rec)
    BY <1>7 DEF SpawnFails
  <2>2. Keeps(rec, proc[p])
    BY <1>1, <1>7, <2>1 DEF SpawnFails, Main, Process, Keeps
  <2> QED BY <2>1, <2>2, OwnSet
<1>8. CASE Spawn(p)
  <2>1. PICK rec : rec = [proc[p] EXCEPT !.pc = "accept", !.clear = "wait",
                                         !.has_clear = TRUE] /\ Set(p, rec)
    BY <1>8 DEF Spawn
  <2>2. Keeps(rec, proc[p])
    BY <1>1, <1>8, <2>1 DEF Spawn, Main, Process, Keeps
  <2> QED BY <2>1, <2>2, OwnSet
<1>9. CASE Kill(p)
  <2>1. \A q \in Pids : Keeps(proc'[q], proc[q])
    BY <1>1, <1>9 DEF Kill, Main, Process, Keeps
  <2> QED BY <2>1, OwnStep
<1>10. CASE Wait(p)
  <2>1. ASSUME NEW c \in ChildrenOf(p),
               proc' = [proc EXCEPT ![p].pc = "poll", ![c].life = "gone"]
        PROVE  OwnInv'
    <3> SUFFICES ASSUME NEW r \in Pids, Owes(proc'[r]) PROVE OwnKid(r)'
      BY DEF OwnInv
    <3>1. c \in Pids /\ proc[c].ppid = p /\ r # p
      BY <1>1, <2>1 DEF ChildrenOf, Process
    <3>2. r # c
      BY <1>1, <2>1, <3>1 DEF Process
    <3>3. proc'[r] = proc[r]
      BY <1>1, <2>1, <3>1, <3>2
    <3>4. OwnKid(r)
      BY <3>3 DEF OwnInv
    <3>5. proc[r].child_pid # c
      BY <3>1, <3>4 DEF OwnKid
    <3>6. /\ proc'[proc[r].child_pid].kind = proc[proc[r].child_pid].kind
          /\ proc'[proc[r].child_pid].ppid = proc[proc[r].child_pid].ppid
          /\ proc'[proc[r].child_pid].life = proc[proc[r].child_pid].life
      BY <1>1, <2>1, <3>1, <3>4, <3>5 DEF OwnKid, Process
    <3> QED BY <3>3, <3>4, <3>6 DEF OwnKid
  <2>2. ASSUME Set(p, [proc[p] EXCEPT !.pc = "poll"]) PROVE OwnInv'
    <3>1. PICK rec : rec = [proc[p] EXCEPT !.pc = "poll"] /\ Set(p, rec)
      BY <2>2
    <3>2. Keeps(rec, proc[p])
      BY <1>1, <3>1 DEF Process, Keeps
    <3> QED BY <3>1, <3>2, OwnSet
  <2> QED BY <1>10, <2>1, <2>2 DEF Wait
<1>11. CASE Fork(p)
  <2>1. PICK c \in Unused :
          proc' = [proc EXCEPT ![p].pc = AfterFork(p), ![p].child_pid = c,
                               ![c] = ChildOf(proc[p], p)]
    BY <1>11 DEF Fork, NextPid, ChildOf
  <2>2. c \in Pids /\ proc[c].life = "gone" /\ Live(p) /\ c # p
    BY <1>1, <1>11 DEF Unused, RoleOf, Fork, Main, Live
  <2>3. PICK kid : kid = ChildOf(proc[p], p)
    OBVIOUS
  <2>4. kid.kind = "child" /\ kid.ppid = p /\ kid.life = "live"
    BY <1>1, <2>2, <2>3 DEF ChildOf, Process, Live
  <2>5. proc'[c] = kid /\ \A q \in Pids \ {p, c} : proc'[q] = proc[q]
    BY <1>1, <2>1, <2>2, <2>3
  <2>6. proc'[p].child_pid = c
    BY <1>1, <2>1, <2>2 DEF Process
  <2> SUFFICES ASSUME NEW r \in Pids, Owes(proc'[r]) PROVE OwnKid(r)'
    BY DEF OwnInv
  <2>7. CASE r = p
    BY <2>2, <2>4, <2>5, <2>6, <2>7 DEF OwnKid
  <2>8. CASE r # p
    <3>1. proc'[r] = proc[r]
      BY <2>4, <2>5, <2>8
    <3>2. OwnKid(r)
      BY <3>1 DEF OwnInv
    <3>3. proc[r].child_pid \notin {c, p}
      BY <1>1, <1>11, <2>2, <3>2, ParentAt DEF OwnKid, Fork, Main
    <3> QED BY <2>5, <3>1, <3>2, <3>3 DEF OwnKid
  <2> QED BY <2>7, <2>8
<1> QED BY <1>2, <1>3, <1>4, <1>5, <1>6, <1>7, <1>8, <1>9, <1>10, <1>11 DEF Parent

(* A child's main thread changes no process but its own.                   *)
LEMMA OwnChild ==
  ASSUME SharedInv, OwnInv, NEW p \in Pids, Child(p)
  PROVE  OwnInv'
<1>1. proc[p] \in Process
  BY RecordType
<1> USE DEF Owes
<1>2. CASE Open(p)
  <2>1. PICK rec : rec = [proc[p] EXCEPT !.pc = "setup", !.holds = @ \cup {"device"}]
                   /\ Set(p, rec)
    BY <1>2 DEF Open
  <2>2. Keeps(rec, proc[p])
    BY <1>1, <1>2, <2>1 DEF Open, Main, Process, Keeps
  <2> QED BY <2>1, <2>2, OwnSet
<1>3. CASE OpenFails(p)
  <2>1. PICK rec : rec = [proc[p] EXCEPT !.pc = "pause"] /\ Set(p, rec)
    BY <1>3 DEF OpenFails
  <2>2. Keeps(rec, proc[p])
    BY <1>1, <1>3, <2>1 DEF OpenFails, Main, Process, Keeps
  <2> QED BY <2>1, <2>2, OwnSet
<1>4. CASE Setup(p)
  <2>1. PICK rec : rec = [proc[p] EXCEPT !.pc = "pause", !.clear = "wait"] /\ Set(p, rec)
    BY <1>4 DEF Setup
  <2>2. Keeps(rec, proc[p])
    BY <1>1, <1>4, <2>1 DEF Setup, Main, Process, Keeps
  <2> QED BY <2>1, <2>2, OwnSet
<1>5. CASE SetupFails(p)
  BY <1>5, OwnExit DEF SetupFails
<1> QED BY <1>2, <1>3, <1>4, <1>5 DEF Child

(* The handler and clear_thread of a process leave child_pid as it is.     *)
LEMMA OwnThreads ==
  ASSUME SharedInv, OwnInv, NEW p \in Pids, Handler(p) \/ Clear(p)
  PROVE  OwnInv'
<1>1. proc[p] \in Process
  BY RecordType
<1> USE DEF Owes
<1>2. CASE HandlerStop(p)
  <2>1. PICK rec : rec = [proc[p] EXCEPT !.sigint = FALSE, !.status = "Stop",
                                         !.handler = "stopped", !.holds = HoldsAfter(p)]
                     /\ Set(p, rec)
    BY <1>2 DEF HandlerStop
  <2>2. Keeps(rec, proc[p])
    BY <1>1, <1>2, <2>1 DEF HandlerStop, Main, Process, Keeps
  <2> QED BY <2>1, <2>2, OwnSet
<1>3. CASE HandlerKilled(p)
  BY <1>3, OwnExit DEF HandlerKilled
<1>4. CASE HandlerPost(p)
  <2>1. PICK rec : rec = [proc[p] EXCEPT !.sem = @ + 1, !.handler = "posted"] /\ Set(p, rec)
    BY <1>4 DEF HandlerPost
  <2>2. Keeps(rec, proc[p])
    BY <1>1, <1>4, <2>1 DEF HandlerPost, Main, Process, Keeps
  <2> QED BY <2>1, <2>2, OwnSet
<1>5. CASE HandlerReturn(p)
  <2>1. ASSUME NEW rec, rec = [proc[p] EXCEPT !.handler = "idle"], Set(p, rec) PROVE OwnInv'
    <3>1. Keeps(rec, proc[p])
      BY <1>1, <2>1 DEF Process, Keeps
    <3> QED BY <2>1, <3>1, OwnSet
  <2>2. ASSUME NEW rec, rec = [proc[p] EXCEPT !.handler = "idle", !.pc = Interrupted(p)],
               Set(p, rec)
        PROVE  OwnInv'
    <3>1. PICK pc : pc = Interrupted(p)
      OBVIOUS
    <3>2. pc \in {"poll", "fork"} \/ proc[p].pc \notin {"poll", "fork"}
      BY <3>1 DEF Interrupted
    <3>3. rec = [proc[p] EXCEPT !.handler = "idle", !.pc = pc]
      BY <2>2, <3>1
    <3>4. Keeps(rec, proc[p])
      BY <1>1, <3>2, <3>3 DEF Process, Keeps
    <3> QED BY <2>2, <3>4, OwnSet
  <2> QED BY <1>5, <2>1, <2>2 DEF HandlerReturn
<1>6. CASE ClearWait(p, "close")
  <2>1. PICK next : Set(p, [proc[p] EXCEPT !.sem = @ - 1, !.clear = next])
    BY <1>6, Zenon DEF ClearWait
  <2>2. PICK rec : rec = [proc[p] EXCEPT !.sem = @ - 1, !.clear = next] /\ Set(p, rec)
    BY <2>1
  <2>3. Keeps(rec, proc[p])
    BY <1>1, <2>2 DEF Process, Keeps
  <2> QED BY <2>2, <2>3, OwnSet
<1>7. CASE ClearClose(p)
  <2>1. ASSUME NEW fd, Set(p, [proc[p] EXCEPT !.clear = "exit", !.holds = @ \ {fd}])
        PROVE  OwnInv'
    <3>1. PICK rec : rec = [proc[p] EXCEPT !.clear = "exit", !.holds = @ \ {fd}] /\ Set(p, rec)
      BY <2>1
    <3>2. Keeps(rec, proc[p])
      BY <1>1, <3>1 DEF Process, Keeps
    <3> QED BY <3>1, <3>2, OwnSet
  <2>2. ASSUME Set(p, [proc[p] EXCEPT !.clear = "exit"]) PROVE OwnInv'
    <3>1. PICK rec : rec = [proc[p] EXCEPT !.clear = "exit"] /\ Set(p, rec)
      BY <2>2
    <3>2. Keeps(rec, proc[p])
      BY <1>1, <3>1 DEF Process, Keeps
    <3> QED BY <3>1, <3>2, OwnSet
  <2>3. \/ Set(p, [proc[p] EXCEPT !.clear = "exit"])
        \/ \E fd : Set(p, [proc[p] EXCEPT !.clear = "exit", !.holds = @ \ {fd}])
    BY <1>7, Zenon DEF ClearClose
  <2> QED BY <2>1, <2>2, <2>3
<1>8. CASE ClearExit(p)
  BY <1>8, OwnExit DEF ClearExit
<1> QED BY <1>2, <1>3, <1>4, <1>5, <1>6, <1>7, <1>8 DEF Handler, Clear

(* A start, a client and the operator give no parent another child.        *)
LEMMA OwnWorld ==
  ASSUME SharedInv, OwnInv, Boot \/ Connect \/ Operator \/ UNCHANGED vars
  PROVE  OwnInv'
<1>1. proc \in [Pids -> Process] /\ \A q \in Pids : proc[q] \in Process /\ RoleOf(proc[q])
  BY RecordType DEF SharedInv, TypeInv, ProcTypeOK
<1>2. CASE Boot
  <2>1. PICK p \in Unused : Set(p, [NoProcess EXCEPT !.kind = "parent", !.life = "live"])
    BY <1>2 DEF Boot, NextPid
  <2>2. PICK rec : rec = [NoProcess EXCEPT !.kind = "parent", !.life = "live"] /\ Set(p, rec)
    BY <2>1
  <2>3. ~Owes(rec)
    BY <2>2 DEF NoProcess, Owes
  <2>4. p \in Pids /\ proc[p].kind = "none"
    BY DEF Unused
  <2>5. proc'[p] = rec /\ \A q \in Pids \ {p} : proc'[q] = proc[q]
    BY <1>1, <2>2, <2>4 DEF Set
  <2> SUFFICES ASSUME NEW r \in Pids, Owes(proc'[r]) PROVE OwnKid(r)'
    BY DEF OwnInv
  <2>6. r # p /\ proc'[r] = proc[r]
    BY <2>3, <2>5
  <2>7. OwnKid(r) /\ proc[r].child_pid # p
    BY <2>4, <2>6 DEF OwnInv, OwnKid
  <2> QED BY <2>5, <2>6, <2>7 DEF OwnKid
<1>3. CASE Connect \/ UNCHANGED vars
  <2>1. \A q \in Pids : Keeps(proc'[q], proc[q])
    BY <1>3 DEF Connect, vars, Keeps
  <2> QED BY <2>1, OwnStep
<1>4. CASE Operator
  <2>1. PICK targets : Sigint(targets)
    BY <1>4 DEF Operator
  <2>2. ASSUME NEW q \in Pids PROVE Keeps(proc'[q], proc[q])
    <3>1. proc'[q] \in {proc[q], [proc[q] EXCEPT !.sigint = TRUE]}
      BY <2>1, Zenon DEF Sigint
    <3>2. CASE proc'[q] = proc[q]
      BY <3>2 DEF Keeps
    <3>3. CASE proc'[q] = [proc[q] EXCEPT !.sigint = TRUE]
      BY <1>1, <3>3 DEF Process, Keeps, Owes
    <3> QED BY <3>1, <3>2, <3>3
  <2> QED BY <2>2, OwnStep
<1> QED BY <1>2, <1>3, <1>4

(* The parent never signals a pid that is not a child of its own still to  *)
(* be reaped - not after a failed fork, an interrupted wait() or a child   *)
(* that ended by itself: kill() cannot reach a stranger.                   *)
THEOREM SignalsOwnChild == ASSUME MaxBoots <= 1 PROVE Spec => []KillsOwnChild
<1>1. Init => OwnInv
  BY DEF Init, InitProcs, NoProcess, OwnInv, Owes
<1>2. SharedInv /\ OwnInv /\ [Next]_vars => OwnInv'
  BY OwnParent, OwnChild, OwnThreads, OwnWorld DEF Next
<1>3. SharedInv /\ OwnInv => KillsOwnChild
  <2> SUFFICES ASSUME SharedInv, OwnInv, NEW p \in Pids, Main(p, "kill")
               PROVE  /\ proc[p].child_pid \in ChildrenOf(p)
                      /\ proc[proc[p].child_pid].life # "gone"
    BY DEF KillsOwnChild
  <2>1. proc[p].kind = "parent" /\ proc[p].child_pid \in Pids
    BY ParentAt, RecordType DEF Main, RoleOf
  <2>2. Owes(proc[p])
    BY <2>1 DEF Owes, Main, Live, Pids
  <2> QED BY <2>2 DEF OwnInv, OwnKid, ChildrenOf
<1> QED BY <1>1, <1>2, <1>3, SharedInvCorrect, PTL DEF Spec
==============================================================================
