--------------------------- MODULE CmdServerProofs ---------------------------
(***************************************************************************)
(* Theorems about the processes of the command and status server, for any  *)
(* number of clients, signals and processes, whatever fails.               *)
(***************************************************************************)
EXTENDS CmdServer, ForkingServerProofs

CmdInv == SharedInv /\ reg \in {0, 1}

(* The parent gets its clear_thread, after the first fork.                 *)
LEMMA SpawnStep == ASSUME SharedInv, NEW p \in Pids, Spawn(p) PROVE SharedInv'
<1>1. /\ proc[p].pc = "spawn" /\ Quiet
      /\ proc[p] \in Process /\ RoleOf(proc[p]) /\ proc[p].child_pid \in -1..MaxProcs
  BY StillQuiet, RecordType DEF Spawn, Main, Process
<1>2. PICK r1 : r1 = [proc[p] EXCEPT !.pc = "accept"]
  OBVIOUS
<1>3. r1 \in Process /\ RoleOf(r1) /\ Alike(r1, proc[p])
  BY <1>1, <1>2 DEF Process, RoleOf, Alike
<1>4. PICK r2 : r2 = [r1 EXCEPT !.clear = "wait", !.has_clear = TRUE]
  OBVIOUS
<1>5. r2 \in Process
  BY <1>3, <1>4 DEF Process
<1>6. r2.has_clear /\ r2.pc = "accept"
  BY <1>1, <1>2, <1>4 DEF Process
<1>7. RoleOf(r2) /\ Alike(r2, proc[p])
  BY <1>1, <1>2, <1>3, <1>4 DEF Process, RoleOf, Alike
<1>8. PICK rec : rec = [r2 EXCEPT !.clear_pid = proc[p].child_pid]
  OBVIOUS
<1>9. rec \in Process
  BY <1>1, <1>5, <1>8, Zenon DEF Process
<1>10. RoleOf(rec) /\ Alike(rec, proc[p])
  BY <1>5, <1>6, <1>7, <1>8 DEF Process, RoleOf, Alike
<1>11. Set(p, rec)
  BY <1>2, <1>4, <1>8 DEF Spawn
<1> QED BY <1>1, <1>9, <1>10, <1>11, AlikeSet

(* The child's main thread: it opens the device, sets itself up, or fails  *)
(* and exits.                                                              *)
LEMMA ChildSteps == ASSUME SharedInv, NEW p \in Pids, Child(p) PROVE SharedInv'
<1>1. proc[p] \in Process /\ RoleOf(proc[p])
  BY RecordType
<1>2. CASE Open(p)
  <2>1. proc[p].pc = "open" /\ Quiet
    BY <1>2, StillQuiet DEF Open, Main
  <2>2. PICK h : h = proc[p].holds \cup {"device"}
    OBVIOUS
  <2>3. h \in SUBSET {"listen", "device"}
    BY <1>1, <2>2 DEF Process
  <2>4. PICK rec : rec = [proc[p] EXCEPT !.pc = "setup", !.holds = h] /\ Set(p, rec)
    BY <1>2, <2>2 DEF Open
  <2>5. rec \in Process
    BY <1>1, <2>3, <2>4 DEF Process
  <2>6. RoleOf(rec) /\ Alike(rec, proc[p])
    BY <1>1, <2>1, <2>4 DEF Process, RoleOf, Alike
  <2> QED BY <2>1, <2>4, <2>5, <2>6, AlikeSet
<1>3. CASE OpenFails(p)
  <2>1. proc[p].pc = "open" /\ Quiet
    BY <1>3, StillQuiet DEF OpenFails, Main
  <2>2. PICK rec : rec = [proc[p] EXCEPT !.pc = "pause"] /\ Set(p, rec)
    BY <1>3 DEF OpenFails
  <2>3. rec \in Process /\ RoleOf(rec) /\ Alike(rec, proc[p])
    BY <1>1, <2>1, <2>2 DEF Process, RoleOf, Alike
  <2> QED BY <2>1, <2>2, <2>3, AlikeSet
<1>4. CASE Setup(p)
  <2>1. proc[p].pc = "setup" /\ Quiet /\ 0 \in -1..MaxProcs
    BY <1>4, StillQuiet, ServerAssumption DEF Setup, Main
  <2>2. PICK r1 : r1 = [proc[p] EXCEPT !.pc = "pause", !.clear = "wait"]
    OBVIOUS
  <2>3. r1 \in Process
    BY <1>1, <2>2 DEF Process
  <2>4. RoleOf(r1) /\ Alike(r1, proc[p]) /\ r1.pc = "pause"
    BY <1>1, <2>1, <2>2 DEF Process, RoleOf, Alike
  <2>5. PICK rec : rec = [r1 EXCEPT !.clear_pid = 0]
    OBVIOUS
  <2>6. rec \in Process
    BY <2>1, <2>3, <2>5, Zenon DEF Process
  <2>7. RoleOf(rec) /\ Alike(rec, proc[p])
    BY <2>3, <2>4, <2>5 DEF Process, RoleOf, Alike
  <2>8. Set(p, rec)
    BY <1>4, <2>2, <2>5 DEF Setup
  <2> QED BY <2>1, <2>6, <2>7, <2>8, AlikeSet
<1>5. CASE SetupFails(p)
  <2>1. proc[p].pc = "setup" /\ Quiet
    BY <1>5, StillQuiet DEF SetupFails, Main
  <2>2. PICK rec : rec = [proc[p] EXCEPT !.pc = "pause"] /\ Set(p, rec)
    BY <1>5 DEF SetupFails
  <2>3. rec \in Process /\ RoleOf(rec) /\ Alike(rec, proc[p])
    BY <1>1, <2>1, <2>2 DEF Process, RoleOf, Alike
  <2> QED BY <2>1, <2>2, <2>3, AlikeSet
<1> QED BY <1>2, <1>3, <1>4, <1>5 DEF Child

(* A step of clear_thread that only moves it on. *)
LEMMA ClearMoves ==
  ASSUME SharedInv, NEW p \in Pids, NEW next \in {"close", "reap", "resetting"},
         proc[p].clear \in {"kill", "reap", "reset", "resetting"},
         NEW rec, rec = [proc[p] EXCEPT !.clear = next]
  PROVE  rec \in Process /\ RoleOf(rec) /\ Alike(rec, proc[p])
<1>1. proc[p] \in Process /\ RoleOf(proc[p])
  BY RecordType
<1> QED BY <1>1 DEF Process, RoleOf, Alike

(* clear_thread of the parent sends SIGINT to the pid of the first child.  *)
LEMMA ClearKillStep == ASSUME SharedInv, NEW p \in Pids, ClearKill(p) PROVE SharedInv'
<1>1. Quiet
  BY StillQuiet DEF ClearKill
<1>2. PICK rec : rec = [proc[p] EXCEPT !.clear = "reap"]
  OBVIOUS
<1>3. rec \in Process /\ RoleOf(rec) /\ Alike(rec, proc[p])
  BY <1>2, ClearMoves DEF ClearKill
<1>4. proc \in [Pids -> Process]
  BY DEF SharedInv, TypeInv, ProcTypeOK
<1>5. CASE proc[p].clear_pid \in Pids
  <2>1. PICK c \in Pids : c = proc[p].clear_pid
    BY <1>5
  <2>2. PICK b \in BOOLEAN : b = ([proc EXCEPT ![p] = rec][c].sigint \/ Live(c))
    OBVIOUS
  <2>3. proc' = [[proc EXCEPT ![p] = rec] EXCEPT ![c].sigint = b]
    BY <1>2, <2>1, <2>2 DEF ClearKill
  <2> QED BY <1>1, <1>3, <2>3, SignalStep
<1>6. CASE proc[p].clear_pid \notin Pids
  <2>1. Set(p, rec)
    BY <1>2, <1>4, <1>6 DEF ClearKill, Set
  <2> QED BY <1>1, <1>3, <2>1, AlikeSet
<1> QED BY <1>5, <1>6

(* clear_thread of the parent waits for a child, or finds none.            *)
LEMMA ClearReapStep == ASSUME SharedInv, NEW p \in Pids, ClearReap(p) PROVE SharedInv'
<1>1. Quiet
  BY StillQuiet DEF ClearReap
<1>2. PICK rec : rec = [proc[p] EXCEPT !.clear = "close"]
  OBVIOUS
<1>3. rec \in Process /\ RoleOf(rec) /\ Alike(rec, proc[p])
  BY <1>2, ClearMoves DEF ClearReap
<1>4. ASSUME NEW c \in Pids, proc' = [proc EXCEPT ![p].clear = "close", ![c].life = "gone"]
      PROVE  SharedInv'
  <2>1. proc' = [[proc EXCEPT ![p] = rec] EXCEPT ![c].life = "gone"]
    BY <1>2, <1>4
  <2> QED BY <1>1, <1>3, <2>1, ReapStep
<1>5. ASSUME Set(p, rec) PROVE SharedInv'
  BY <1>1, <1>3, <1>5, AlikeSet
<1> QED BY <1>2, <1>4, <1>5 DEF ClearReap, ChildrenOf

(* clear_thread's steps, in a parent or in a child.                        *)
LEMMA ClearSteps == ASSUME SharedInv, NEW p \in Pids, Clear(p) PROVE SharedInv'
<1>1. CASE ClearWait(p, AfterStop(p))
  <2>1. AfterStop(p) \in {"kill", "reset", "close"}
    BY DEF AfterStop
  <2> QED BY <1>1, <2>1, ClearWaitStep
<1>2. CASE ResetBegins(p)
  <2>1. PICK rec : rec = [proc[p] EXCEPT !.clear = "resetting"] /\ Set(p, rec)
    BY <1>2 DEF ResetBegins
  <2>2. rec \in Process /\ RoleOf(rec) /\ Alike(rec, proc[p]) /\ Quiet
    BY <1>2, <2>1, ClearMoves, StillQuiet DEF ResetBegins
  <2> QED BY <2>1, <2>2, AlikeSet
<1>3. CASE ResetEnds(p)
  <2>1. PICK rec : rec = [proc[p] EXCEPT !.clear = "close"] /\ Set(p, rec)
    BY <1>3 DEF ResetEnds
  <2>2. rec \in Process /\ RoleOf(rec) /\ Alike(rec, proc[p]) /\ Quiet
    BY <1>3, <2>1, ClearMoves, StillQuiet DEF ResetEnds
  <2> QED BY <2>1, <2>2, AlikeSet
<1>4. CASE ClearClose(p)
  BY <1>4, ClearCloseStep
<1>5. CASE ClearExit(p)
  BY <1>5, ExitStep DEF ClearExit
<1> QED BY <1>1, <1>2, <1>3, <1>4, <1>5, ClearKillStep, ClearReapStep DEF Clear

(* Every step of one server program keeps the shared invariant.            *)
LEMMA NextSteps == ASSUME SharedInv, MaxBoots <= 1, [Next]_cvars PROVE SharedInv'
<1>1. ASSUME NEW p \in Pids, Parent(p) PROVE SharedInv'
  BY <1>1, ParentSteps, SpawnStep DEF Parent
<1>2. UNCHANGED cvars => UNCHANGED vars
  BY DEF cvars
<1> QED BY <1>1, <1>2, ChildSteps, HandlerSteps, ClearSteps, WorldSteps, SharedStutter
        DEF Next, World

(* The reset register holds 0 or 1.                                        *)
LEMMA RegisterSteps == reg \in {0, 1} /\ [Next]_cvars => reg' \in {0, 1}
BY DEF Next, cvars, Parent, Child, Clear, World, ClearKill, ClearReap, ResetBegins, ResetEnds

(* A server that is started once: the types, and the invariant that no     *)
(* two of its children are left at any time.                               *)
THEOREM CmdInvCorrect == ASSUME MaxBoots <= 1 PROVE Spec => []CmdInv
<1>1. Init => CmdInv
  BY SharedInit DEF Init, CmdInv
<1>2. CmdInv /\ [Next]_cvars => CmdInv'
  BY NextSteps, RegisterSteps DEF CmdInv
<1> QED BY <1>1, <1>2, PTL DEF Spec

(* The processes, the counters and the hardware's register stay in their   *)
(* types, over any number of clients, failures and signals.                *)
THEOREM TypeCorrect == ASSUME MaxBoots <= 1 PROVE Spec => []TypeOK
<1>1. CmdInv => TypeOK
  BY DEF CmdInv, SharedInv, TypeInv, TypeOK
<1> QED BY <1>1, CmdInvCorrect, PTL

(* Two children of one server never have the command device open at once:  *)
(* the child of one client is gone before the next can open it.            *)
THEOREM DeviceHasOneUser == ASSUME MaxBoots <= 1 PROVE Spec => []DeviceExclusive
<1>1. CmdInv => DeviceExclusive
  BY OneHolder DEF CmdInv
<1> QED BY <1>1, CmdInvCorrect, PTL

-----------------------------------------------------------------------------
(* The reset of the hardware *)

Resetting(q) == Live(q) /\ proc[q].clear = "resetting"

(* No step of p's but the end of its reset stops it, and none of another   *)
(* process stops it at all.                                                *)

(* A change of one process that leaves its life and its clear_thread alone *)
(* leaves a reset under way.                                               *)
LEMMA SetKeeps ==
  ASSUME SharedInv, NEW p \in Pids, NEW q \in Pids, NEW rec, Set(p, rec), Resetting(q),
         q = p => rec.life = proc[p].life /\ rec.clear = proc[p].clear
  PROVE  Resetting(q)'
<1>1. proc \in [Pids -> Process]
  BY DEF SharedInv, TypeInv, ProcTypeOK
<1>2. proc'[q] = IF q = p THEN rec ELSE proc[q]
  BY <1>1 DEF Set
<1> QED BY <1>2 DEF Resetting, Live

(* The end of one process does not end another's reset.                    *)
LEMMA ExitKeeps ==
  ASSUME SharedInv, NEW p \in Pids, NEW q \in Pids, q # p, Exit(p), Resetting(q)
  PROVE  Resetting(q)'
<1>1. proc[q] \in Process
  BY RecordType
<1>2. proc'[q].life = "live" /\ proc'[q].clear = proc[q].clear
  <2>1. proc[q].life = "live" /\ proc' = AfterExit(p)
    BY DEF Exit, Resetting, Live
  <2>2. CASE q \in ChildrenOf(p)
    <3> DEFINE l == IF proc[q].life = "zombie" THEN "gone" ELSE "live"
    <3>1. AfterExit(p)[q] = [proc[q] EXCEPT !.ppid = 0, !.life = l]
      BY <2>1, <2>2 DEF AfterExit
    <3>2. l = "live"
      BY <2>1
    <3> HIDE DEF l
    <3>3. /\ [proc[q] EXCEPT !.ppid = 0, !.life = l].life = l
          /\ [proc[q] EXCEPT !.ppid = 0, !.life = l].clear = proc[q].clear
      BY <1>1 DEF Process
    <3> QED BY <2>1, <3>1, <3>2, <3>3
  <2>3. CASE q \notin ChildrenOf(p)
    <3>1. AfterExit(p)[q] = proc[q]
      BY <2>3 DEF AfterExit
    <3> QED BY <2>1, <3>1
  <2> QED BY <2>2, <2>3
<1> QED BY <1>2 DEF Resetting, Live

(* No step of a parent's main thread ends a reset under way.               *)
LEMMA ParentKeeps ==
  ASSUME SharedInv, NEW p \in Pids, NEW q \in Pids, Parent(p), Resetting(q)
  PROVE  Resetting(q)'
<1>1. /\ proc[p] \in Process /\ RoleOf(proc[p]) /\ proc[q] \in Process
      /\ proc \in [Pids -> Process]
  BY RecordType DEF SharedInv, TypeInv, ProcTypeOK
<1>2. CASE Spawn(p)
  <2>1. q # p
    BY <1>1, <1>2 DEF Spawn, Main, RoleOf, Resetting
  <2> QED BY <1>2, <2>1, SetKeeps DEF Spawn
<1>3. CASE Kill(p)
  BY <1>1, <1>3 DEF Kill, Resetting, Live, Process
<1>4. CASE Wait(p)
  BY <1>1, <1>4 DEF Wait, Set, Resetting, Live, Process, ChildrenOf
<1>5. CASE Fork(p)
  <2>1. PICK c \in Unused :
          proc' = [proc EXCEPT ![p].pc = AfterFork(p), ![p].child_pid = c,
                               ![c] = ChildOf(proc[p], p)]
    BY <1>5 DEF Fork, NextPid, ChildOf
  <2>2. q # c
    BY RecordType DEF Unused, RoleOf, Resetting, Live
  <2>3. proc'[q] = proc[q]
        \/ proc'[q] = [proc[q] EXCEPT !.pc = AfterFork(p), !.child_pid = c]
    BY <1>1, <2>1, <2>2
  <2>4. /\ [proc[q] EXCEPT !.pc = AfterFork(p), !.child_pid = c].life = proc[q].life
        /\ [proc[q] EXCEPT !.pc = AfterFork(p), !.child_pid = c].clear = proc[q].clear
    BY <1>1 DEF Process
  <2> QED BY <2>3, <2>4 DEF Resetting, Live
<1>6. CASE Bind(p)
  <2>1. PICK rec : rec = [proc[p] EXCEPT !.pc = "accept", !.holds = {"listen"}] /\ Set(p, rec)
    BY <1>6 DEF Bind
  <2>2. rec.life = proc[p].life /\ rec.clear = proc[p].clear
    BY <1>1, <2>1 DEF Process
  <2> QED BY <2>1, <2>2, SetKeeps
<1>7. CASE BindFails(p)
  <2>1. PICK rec : rec = [proc[p] EXCEPT !.pc = "pause"] /\ Set(p, rec)
    BY <1>7 DEF BindFails
  <2>2. rec.life = proc[p].life /\ rec.clear = proc[p].clear
    BY <1>1, <2>1 DEF Process
  <2> QED BY <2>1, <2>2, SetKeeps
<1>8. CASE Accept(p)
  <2> DEFINE next == IF proc[p].child_pid > 0 THEN "kill" ELSE "fork"
  <2>1. PICK rec : rec = [proc[p] EXCEPT !.pc = next, !.holds = HoldsAfter(p)] /\ Set(p, rec)
    BY <1>8 DEF Accept
  <2>2. rec.life = proc[p].life /\ rec.clear = proc[p].clear
    BY <1>1, <2>1 DEF Process
  <2> QED BY <2>1, <2>2, SetKeeps
<1>9. CASE Poll(p)
  <2>1. PICK rec : rec = [proc[p] EXCEPT !.pc = "fork"] /\ Set(p, rec)
    BY <1>9 DEF Poll
  <2>2. rec.life = proc[p].life /\ rec.clear = proc[p].clear
    BY <1>1, <2>1 DEF Process
  <2> QED BY <2>1, <2>2, SetKeeps
<1>10. CASE ForkFails(p)
  <2>1. PICK rec : rec = [proc[p] EXCEPT !.pc = AfterFork(p), !.child_pid = -1] /\ Set(p, rec)
    BY <1>10 DEF ForkFails
  <2>2. rec.life = proc[p].life /\ rec.clear = proc[p].clear
    BY <1>1, <2>1 DEF Process
  <2> QED BY <2>1, <2>2, SetKeeps
<1>11. CASE SpawnFails(p)
  <2>1. PICK rec : rec = [proc[p] EXCEPT !.pc = "pause"] /\ Set(p, rec)
    BY <1>11 DEF SpawnFails
  <2>2. rec.life = proc[p].life /\ rec.clear = proc[p].clear
    BY <1>1, <2>1 DEF Process
  <2> QED BY <2>1, <2>2, SetKeeps
<1> QED BY <1>2, <1>3, <1>4, <1>5, <1>6, <1>7, <1>8, <1>9, <1>10, <1>11 DEF Parent

(* Nor does a step of a child's main thread.                               *)
LEMMA ChildKeeps ==
  ASSUME SharedInv, NEW p \in Pids, NEW q \in Pids, Child(p), Resetting(q)
  PROVE  Resetting(q)'
<1>1. proc[p] \in Process /\ RoleOf(proc[p])
  BY RecordType
<1>2. proc[p].pc \in {"open", "setup"}
  BY DEF Child, Open, OpenFails, Setup, SetupFails, Main
<1>3. q # p
  BY <1>1, <1>2 DEF RoleOf, Resetting
<1>4. PICK rec : Set(p, rec)
  BY DEF Child, Open, OpenFails, Setup, SetupFails
<1> QED BY <1>3, <1>4, SetKeeps

(* Nor does a handler, when it stays installed.                            *)
LEMMA HandlerKeeps ==
  ASSUME SharedInv, OneShot = FALSE, NEW p \in Pids, NEW q \in Pids, Handler(p), Resetting(q)
  PROVE  Resetting(q)'
<1>1. proc[p] \in Process
  BY RecordType
<1>2. CASE HandlerStop(p)
  <2>1. PICK rec : rec = [proc[p] EXCEPT !.sigint = FALSE, !.status = "Stop",
                                         !.handler = "stopped", !.holds = HoldsAfter(p)]
                     /\ Set(p, rec)
    BY <1>2 DEF HandlerStop
  <2>2. rec.life = proc[p].life /\ rec.clear = proc[p].clear
    BY <1>1, <2>1 DEF Process
  <2> QED BY <2>1, <2>2, SetKeeps
<1>3. CASE HandlerPost(p)
  <2>1. PICK rec : rec = [proc[p] EXCEPT !.sem = @ + 1, !.handler = "posted"] /\ Set(p, rec)
    BY <1>3 DEF HandlerPost
  <2>2. rec.life = proc[p].life /\ rec.clear = proc[p].clear
    BY <1>1, <2>1 DEF Process
  <2> QED BY <2>1, <2>2, SetKeeps
<1>4. CASE HandlerReturn(p)
  <2>1. PICK rec : rec = [proc[p] EXCEPT !.handler = "idle"] /\ Set(p, rec)
    BY <1>4 DEF HandlerReturn
  <2>2. rec.life = proc[p].life /\ rec.clear = proc[p].clear
    BY <1>1, <2>1 DEF Process
  <2> QED BY <2>1, <2>2, SetKeeps
<1> QED BY <1>2, <1>3, <1>4 DEF Handler, HandlerKilled

(* Nor does another step of clear_thread than the one that ends the reset. *)
LEMMA ClearKeeps ==
  ASSUME SharedInv, NEW p \in Pids, NEW q \in Pids, Clear(p), ~ResetEnds(p), Resetting(q)
  PROVE  Resetting(q)'
<1>1. proc[p] \in Process /\ proc[q] \in Process /\ proc \in [Pids -> Process]
  BY RecordType DEF SharedInv, TypeInv, ProcTypeOK
<1>2. proc[p].clear # "resetting"
  BY DEF Clear, ClearWait, ClearKill, ClearReap, ResetBegins, ClearClose, ClearExit
<1>3. q # p
  BY <1>2 DEF Resetting
<1>4. CASE ClearWait(p, AfterStop(p)) \/ ResetBegins(p) \/ ClearClose(p)
  <2>1. PICK rec : Set(p, rec)
    BY <1>4 DEF ClearWait, ResetBegins, ClearClose
  <2> QED BY <1>3, <2>1, SetKeeps
<1>5. CASE ClearKill(p)
  BY <1>1, <1>3, <1>5 DEF ClearKill, Resetting, Live, Process
<1>6. CASE ClearReap(p)
  BY <1>1, <1>3, <1>6 DEF ClearReap, Set, Resetting, Live, Process, ChildrenOf
<1>7. CASE ClearExit(p)
  BY <1>3, <1>7, ExitKeeps DEF ClearExit
<1> QED BY <1>4, <1>5, <1>6, <1>7 DEF Clear

(* Nor do a start, a client and the operator.                              *)
LEMMA WorldKeeps ==
  ASSUME SharedInv, NEW q \in Pids, World, Resetting(q)
  PROVE  Resetting(q)'
<1>1. proc[q] \in Process /\ RoleOf(proc[q])
  BY RecordType
<1>2. CASE Boot
  <2>1. PICK p \in Unused : Set(p, [NoProcess EXCEPT !.kind = "parent", !.life = "live"])
    BY <1>2 DEF Boot, NextPid
  <2>2. p \in Pids /\ q # p
    BY <1>1, <2>1 DEF Unused, RoleOf, Resetting, Live
  <2> QED BY <2>1, <2>2, SetKeeps
<1>3. CASE Connect
  BY <1>3 DEF Connect, Resetting, Live
<1>4. CASE Operator
  <2>1. PICK targets : Sigint(targets)
    BY <1>4 DEF Operator
  <2>2. proc'[q] \in {proc[q], [proc[q] EXCEPT !.sigint = TRUE]}
    BY <2>1, Zenon DEF Sigint
  <2>3. \A r \in {proc[q], [proc[q] EXCEPT !.sigint = TRUE]} :
          r.life = proc[q].life /\ r.clear = proc[q].clear
    BY <1>1 DEF Process
  <2> QED BY <2>2, <2>3 DEF Resetting, Live
<1> QED BY <1>2, <1>3, <1>4 DEF World

(* The register is 1 between the two writes of a process that lives.       *)
LEMMA ResetSteps ==
  ASSUME SharedInv, OneShot = FALSE, ResetOwned, [Next]_cvars
  PROVE  ResetOwned'
<1> SUFFICES ASSUME reg' = 1 PROVE \E q \in Pids : Resetting(q)'
  BY DEF ResetOwned, Resetting
<1>1. CASE \E p \in Pids : ResetBegins(p)
  <2>1. PICK p \in Pids : ResetBegins(p)
    BY <1>1
  <2>2. proc \in [Pids -> Process]
    BY DEF SharedInv, TypeInv, ProcTypeOK
  <2> QED BY <2>1, <2>2 DEF ResetBegins, Set, Resetting, Live, Process
<1>2. CASE ~ \E p \in Pids : ResetBegins(p)
  <2>1. \A p \in Pids : ~ResetEnds(p)
    BY DEF ResetEnds
  <2>2. reg = 1
    BY <1>2, <2>1 DEF Next, Parent, Child, Clear, World, ClearKill, ClearReap, cvars
  <2>3. PICK q \in Pids : Resetting(q)
    BY <2>2 DEF ResetOwned, Resetting
  <2>4. CASE UNCHANGED cvars
    BY <2>3, <2>4 DEF cvars, vars, Resetting, Live
  <2>5. CASE Next
    BY <2>1, <2>3, <2>5, ParentKeeps, ChildKeeps, HandlerKeeps, ClearKeeps, WorldKeeps DEF Next
  <2> QED BY <2>3, <2>4, <2>5
<1> QED BY <1>1, <1>2

(* The hardware is in reset only while a process that lives is about to    *)
(* release it: under BSD's signal() nothing - no second SIGINT, no failed  *)
(* call, no other process - ends one between its two writes.               *)
THEOREM ResetAlwaysOwned ==
  ASSUME MaxBoots <= 1, OneShot = FALSE
  PROVE  Spec => []ResetOwned
<1>1. Init => ResetOwned
  BY DEF Init, ResetOwned
<1>2. CmdInv /\ ResetOwned /\ [Next]_cvars => ResetOwned'
  BY ResetSteps DEF CmdInv
<1> QED BY <1>1, <1>2, CmdInvCorrect, PTL DEF Spec
==============================================================================
