------------------------- MODULE ForkingServerProofs -------------------------
(***************************************************************************)
(* What the steps the two servers share preserve, for any bounds: types,   *)
(* who may be where, and that of one server's children only one is left    *)
(* at any time.  AcqServerProofs and CmdServerProofs add the steps of      *)
(* their own.                                                              *)
(***************************************************************************)
EXTENDS ForkingServer, FiniteSetTheorems, TLAPS

Kid(c) == proc[c].kind = "child" /\ proc[c].life # "gone"

TypeInv == ProcTypeOK /\ waiting <= nclients

(* What a process may be doing, and hold: its record, by its kind. *)
RoleOf(r) ==
  /\ r.kind = "none" => r.life = "gone"
  /\ r.kind # "child" => "device" \notin r.holds /\ r.pc \notin {"open", "setup"}
  /\ r.kind = "child" => r.pc \in {"open", "setup", "pause"}
  /\ r.pc \in {"kill", "wait", "poll"} => r.child_pid \in Pids
  /\ r.kind # "child" /\ ~r.has_clear => r.clear = "none"
  /\ r.pc = "spawn" => ~r.has_clear
  /\ r.pc \in {"open", "setup"} => r.clear = "none"

Roles == \A p \in Pids : RoleOf(proc[p])

(* There has been one server only. *)
OneParent == /\ \A p \in Pids : proc[p].kind # "none" => nboots > 0
             /\ \A p, q \in Pids : proc[p].kind = "parent" /\ proc[q].kind = "parent" => p = q

(* One child at most has not been reaped, and a live parent knows its pid; *)
(* when the parent is about to fork there is none.                         *)
OneKid ==
  /\ \A p, c \in Pids : proc[p].kind = "parent" /\ Live(p) /\ Kid(c)
                          => c = proc[p].child_pid /\ proc[p].pc # "fork"
  /\ \A c, d \in Pids : Kid(c) /\ Kid(d) => c = d

SharedInv == TypeInv /\ Roles /\ OneParent /\ OneKid

-----------------------------------------------------------------------------
(* Each process has the fields, and is in the places, of its kind.         *)
LEMMA RecordType ==
  ASSUME SharedInv, NEW p \in Pids
  PROVE  proc[p] \in Process /\ RoleOf(proc[p])
BY DEF SharedInv, TypeInv, ProcTypeOK, Roles

(* A step that brings no process to life keeps the invariant, unless it    *)
(* moves a parent to the fork, or makes it forget its child, while there   *)
(* is a child.                                                             *)
LEMMA CalmStep ==
  ASSUME SharedInv, proc' \in [Pids -> Process],
         \A q \in Pids :
           /\ RoleOf(proc'[q])
           /\ proc'[q].kind = proc[q].kind
           /\ Live(q)' => Live(q)
           /\ Kid(q)' => Kid(q)
           /\ proc'[q].child_pid = proc[q].child_pid \/ \A c \in Pids : ~Kid(c)
           /\ proc'[q].pc = "fork" => proc[q].pc = "fork" \/ \A c \in Pids : ~Kid(c),
         waiting' \in 0..nclients', nclients' \in 0..MaxClients, nsigs' \in 0..MaxSigs,
         nboots' = nboots
  PROVE  SharedInv'
<1>1. TypeInv'
  BY ServerAssumption DEF SharedInv, TypeInv, ProcTypeOK
<1>2. Roles'
  BY DEF Roles
<1>3. OneParent'
  BY DEF SharedInv, OneParent
<1>4. OneKid'
  BY DEF SharedInv, OneKid, Kid, Live
<1> QED BY <1>1, <1>2, <1>3, <1>4 DEF SharedInv

Quiet == waiting' \in 0..nclients /\ UNCHANGED counters

(* A step that leaves the clients and the counters alone is quiet.         *)
LEMMA StillQuiet == SharedInv /\ UNCHANGED <<waiting, counters>> => Quiet
BY ServerAssumption DEF SharedInv, TypeInv, ProcTypeOK, Quiet, counters

(* The same for a step of one process. *)
LEMMA CalmSet ==
  ASSUME SharedInv, NEW p \in Pids, NEW rec \in Process, Set(p, rec), Quiet,
         RoleOf(rec), rec.kind = proc[p].kind, rec.life = proc[p].life,
         rec.child_pid = proc[p].child_pid \/ \A c \in Pids : ~Kid(c),
         rec.pc = "fork" => proc[p].pc = "fork" \/ \A c \in Pids : ~Kid(c)
  PROVE  SharedInv'
<1>1. /\ proc \in [Pids -> Process] /\ proc' = [proc EXCEPT ![p] = rec]
      /\ waiting' \in 0..nclients /\ nclients \in 0..MaxClients /\ nsigs \in 0..MaxSigs
      /\ nboots' = nboots /\ nclients' = nclients /\ nsigs' = nsigs
  BY DEF Set, Quiet, counters, SharedInv, TypeInv, ProcTypeOK
<1>2. proc' \in [Pids -> Process] /\ proc'[p] = rec
      /\ \A q \in Pids \ {p} : proc'[q] = proc[q]
  BY <1>1
<1>3. ASSUME NEW q \in Pids
      PROVE  /\ RoleOf(proc'[q])
             /\ proc'[q].kind = proc[q].kind
             /\ Live(q)' => Live(q)
             /\ Kid(q)' => Kid(q)
             /\ proc'[q].child_pid = proc[q].child_pid \/ \A c \in Pids : ~Kid(c)
             /\ proc'[q].pc = "fork" => proc[q].pc = "fork" \/ \A c \in Pids : ~Kid(c)
  <2>1. CASE q = p
    BY <1>2, <2>1 DEF Live, Kid
  <2>2. CASE q # p
    BY <1>2, <2>2, RecordType DEF Live, Kid
  <2> QED BY <2>1, <2>2
<1> QED BY <1>1, <1>2, <1>3, CalmStep

(* Only a parent is at these places, and the one child there may be is the *)
(* one it knows.                                                           *)
LEMMA ParentAt ==
  ASSUME SharedInv, NEW p \in Pids, Live(p),
         proc[p].pc \in {"bind", "accept", "kill", "wait", "poll", "fork", "spawn"}
  PROVE  /\ proc[p].kind = "parent"
         /\ \A c \in Pids : Kid(c) => c = proc[p].child_pid /\ proc[p].pc # "fork"
<1>1. proc[p] \in Process /\ RoleOf(proc[p])
  BY RecordType
<1>2. proc[p].kind = "parent"
  BY <1>1 DEF RoleOf, Process, Live
<1> QED BY <1>2 DEF SharedInv, OneKid

(* Records that differ neither in kind, life and child_pid nor by a move to *)
(* the fork.                                                               *)
Alike(r, s) == /\ r.kind = s.kind /\ r.life = s.life /\ r.child_pid = s.child_pid
               /\ r.pc = "fork" => s.pc = "fork"

(* A step that changes one process, and leaves alone what others see of    *)
(* it, keeps the invariant.                                                *)
LEMMA AlikeSet ==
  ASSUME SharedInv, NEW p \in Pids, NEW rec \in Process, Set(p, rec), Quiet,
         RoleOf(rec), Alike(rec, proc[p])
  PROVE  SharedInv'
BY CalmSet DEF Alike

-----------------------------------------------------------------------------
(* The steps of the parent's main thread *)

(* bind() and listen(), or their failure.                                  *)
LEMMA BindStep ==
  ASSUME SharedInv, NEW p \in Pids, Bind(p) \/ BindFails(p)
  PROVE  SharedInv'
<1>1. /\ proc[p].pc = "bind"
      /\ Quiet /\ proc[p] \in Process /\ RoleOf(proc[p])
  BY StillQuiet, RecordType DEF Bind, BindFails, Main
<1>2. ASSUME NEW rec, rec = [proc[p] EXCEPT !.pc = "accept", !.holds = {"listen"}], Set(p, rec)
      PROVE  SharedInv'
  <2>1. rec \in Process
    BY <1>1, <1>2 DEF Process
  <2>2. RoleOf(rec) /\ Alike(rec, proc[p])
    BY <1>1, <1>2 DEF Process, RoleOf, Alike
  <2> QED BY <1>1, <1>2, <2>1, <2>2, AlikeSet
<1>3. ASSUME NEW rec, rec = [proc[p] EXCEPT !.pc = "pause"], Set(p, rec)
      PROVE  SharedInv'
  <2>1. rec \in Process
    BY <1>1, <1>3 DEF Process
  <2>2. RoleOf(rec) /\ Alike(rec, proc[p])
    BY <1>1, <1>3 DEF Process, RoleOf, Alike
  <2> QED BY <1>1, <1>3, <2>1, <2>2, AlikeSet
<1> QED BY <1>1, <1>2, <1>3 DEF Bind, BindFails

(* What a process holds once the listening socket is closed for good.      *)
LEMMA HoldsLess ==
  ASSUME SharedInv, NEW p \in Pids
  PROVE  /\ HoldsAfter(p) \in SUBSET {"listen", "device"}
         /\ HoldsAfter(p) \subseteq proc[p].holds
BY RecordType DEF HoldsAfter, Process

(* accept() of a client.                                                   *)
LEMMA AcceptStep == ASSUME SharedInv, NEW p \in Pids, Accept(p) PROVE SharedInv'
<1>1. /\ Live(p) /\ proc[p].pc = "accept"
      /\ proc[p] \in Process /\ RoleOf(proc[p])
  BY RecordType DEF Accept, Main
<1>2. Quiet
  BY ServerAssumption DEF SharedInv, TypeInv, ProcTypeOK, Quiet, Accept
<1>3. proc[p].kind = "parent" /\ \A c \in Pids : Kid(c) => c = proc[p].child_pid
  BY <1>1, ParentAt
<1>a. PICK h : h = HoldsAfter(p) /\ h \in SUBSET {"listen", "device"}
               /\ h \subseteq proc[p].holds
  BY HoldsLess
<1>4. CASE proc[p].child_pid > 0
  <2>1. PICK rec : rec = [proc[p] EXCEPT !.pc = "kill", !.holds = h] /\ Set(p, rec)
    BY <1>4, <1>a DEF Accept
  <2>2. rec \in Process
    BY <1>1, <1>a, <2>1, Zenon DEF Process
  <2>3. RoleOf(rec) /\ Alike(rec, proc[p])
    BY <1>1, <1>4, <1>a, <2>1, ServerAssumption DEF Process, RoleOf, Alike, Pids
  <2> QED BY <1>2, <2>1, <2>2, <2>3, AlikeSet
<1>5. CASE ~(proc[p].child_pid > 0)
  <2>1. PICK rec : rec = [proc[p] EXCEPT !.pc = "fork", !.holds = h] /\ Set(p, rec)
    BY <1>5, <1>a DEF Accept
  <2>2. rec \in Process
    BY <1>1, <1>a, <2>1, Zenon DEF Process
  <2>3. /\ RoleOf(rec) /\ rec.kind = proc[p].kind
        /\ rec.life = proc[p].life /\ rec.child_pid = proc[p].child_pid
    BY <1>1, <1>3, <1>a, <2>1 DEF Process, RoleOf
  <2>4. \A c \in Pids : ~Kid(c)
    BY <1>3, <1>5 DEF Pids
  <2> QED BY <1>2, <2>1, <2>2, <2>3, <2>4, CalmSet
<1> QED BY <1>4, <1>5

(* The parent stops polling: the child it signalled is gone.               *)
LEMMA PollStep == ASSUME SharedInv, NEW p \in Pids, Poll(p) PROVE SharedInv'
<1>1. /\ Live(p) /\ proc[p].pc = "poll" /\ Quiet
      /\ proc[p] \in Process /\ RoleOf(proc[p])
  BY StillQuiet, RecordType DEF Poll, Main
<1>2. proc[p].kind = "parent" /\ \A c \in Pids : Kid(c) => c = proc[p].child_pid
  BY <1>1, ParentAt
<1>3. \A c \in Pids : ~Kid(c)
  BY <1>2 DEF Poll, Kid
<1>4. PICK rec : rec = [proc[p] EXCEPT !.pc = "fork"] /\ Set(p, rec)
  BY DEF Poll
<1>5. /\ rec \in Process /\ RoleOf(rec) /\ rec.kind = proc[p].kind
      /\ rec.life = proc[p].life /\ rec.child_pid = proc[p].child_pid
  BY <1>1, <1>2, <1>4 DEF Process, RoleOf
<1> QED BY <1>1, <1>3, <1>4, <1>5, CalmSet

(* fork() fails.                                                           *)
LEMMA ForkFailsStep == ASSUME SharedInv, NEW p \in Pids, ForkFails(p) PROVE SharedInv'
<1>1. /\ Live(p) /\ proc[p].pc = "fork" /\ Quiet
      /\ proc[p] \in Process /\ RoleOf(proc[p])
  BY StillQuiet, RecordType DEF ForkFails, Main
<1>2. proc[p].kind = "parent" /\ \A c \in Pids : ~Kid(c)
  BY <1>1, ParentAt
<1>3. PICK rec : rec = [proc[p] EXCEPT !.pc = AfterFork(p), !.child_pid = -1] /\ Set(p, rec)
  BY DEF ForkFails
<1>4. /\ AfterFork(p) \in {"accept", "spawn"} /\ -1 \in -1..MaxProcs
      /\ AfterFork(p) = "spawn" => ~proc[p].has_clear
  BY ServerAssumption DEF AfterFork
<1>5. rec \in Process
  BY <1>1, <1>3, <1>4, Zenon DEF Process
<1>6. /\ rec.kind = "parent" /\ rec.life = proc[p].life /\ rec.pc = AfterFork(p)
      /\ rec.holds = proc[p].holds /\ rec.has_clear = proc[p].has_clear
      /\ rec.clear = proc[p].clear
  BY <1>1, <1>2, <1>3 DEF Process
<1>7. RoleOf(rec)
  BY <1>1, <1>2, <1>4, <1>6 DEF RoleOf
<1> QED BY <1>1, <1>2, <1>3, <1>4, <1>5, <1>6, <1>7, CalmSet

(* The parent's clear_thread cannot be created.                            *)
LEMMA SpawnFailsStep == ASSUME SharedInv, NEW p \in Pids, SpawnFails(p) PROVE SharedInv'
<1>1. /\ proc[p].pc = "spawn"
      /\ Quiet /\ proc[p] \in Process /\ RoleOf(proc[p])
  BY StillQuiet, RecordType DEF SpawnFails, Main
<1>2. ASSUME NEW rec, rec = [proc[p] EXCEPT !.pc = "pause"], Set(p, rec)
      PROVE  SharedInv'
  <2>1. rec \in Process
    BY <1>1, <1>2 DEF Process
  <2>2. RoleOf(rec) /\ Alike(rec, proc[p])
    BY <1>1, <1>2 DEF Process, RoleOf, Alike
  <2> QED BY <1>1, <1>2, <2>1, <2>2, AlikeSet
<1> QED BY <1>1, <1>2 DEF SpawnFails

-----------------------------------------------------------------------------
(* sig_handler and clear_thread *)

(* The handler starts: the status is Stop from now on.                     *)
LEMMA HandlerStopStep == ASSUME SharedInv, NEW p \in Pids, HandlerStop(p) PROVE SharedInv'
<1>1. UNCHANGED counters /\ proc[p] \in Process /\ RoleOf(proc[p])
  BY RecordType DEF HandlerStop
<1>a. Quiet
  BY <1>1, ServerAssumption DEF SharedInv, TypeInv, ProcTypeOK, Quiet, HandlerStop, Backlog
<1>b. PICK h : h = HoldsAfter(p) /\ h \in SUBSET {"listen", "device"}
               /\ h \subseteq proc[p].holds
  BY HoldsLess
<1>2. ASSUME NEW rec, Set(p, rec),
             rec = [proc[p] EXCEPT !.sigint = FALSE, !.status = "Stop", !.handler = "stopped",
                                   !.holds = h]
      PROVE  SharedInv'
  <2>1. PICK r1 : r1 = [proc[p] EXCEPT !.sigint = FALSE]
    OBVIOUS
  <2>2. PICK r2 : r2 = [r1 EXCEPT !.status = "Stop"]
    OBVIOUS
  <2>3. r1 \in Process
    BY <1>1, <2>1 DEF Process
  <2>a. r2 \in Process
    BY <2>2, <2>3 DEF Process
  <2>b. PICK r3 : r3 = [r2 EXCEPT !.handler = "stopped"]
    OBVIOUS
  <2>c. r3 \in Process
    BY <2>a, <2>b DEF Process
  <2>d. rec = [r3 EXCEPT !.holds = h]
    BY <1>2, <2>1, <2>2, <2>b
  <2>4. rec \in Process
    BY <1>b, <2>c, <2>d, Zenon DEF Process
  <2>5. RoleOf(rec) /\ Alike(rec, proc[p])
    BY <1>1, <1>b, <1>2 DEF Process, RoleOf, Alike
  <2> QED BY <1>a, <1>2, <2>4, <2>5, AlikeSet
<1> QED BY <1>b, <1>2 DEF HandlerStop

(* The handler's sem_post().                                               *)
LEMMA HandlerPostStep == ASSUME SharedInv, NEW p \in Pids, HandlerPost(p) PROVE SharedInv'
<1>1. Quiet /\ proc[p] \in Process /\ RoleOf(proc[p])
  BY StillQuiet, RecordType DEF HandlerPost
<1>2. ASSUME NEW rec, rec = [proc[p] EXCEPT !.sem = @ + 1, !.handler = "posted"], Set(p, rec)
      PROVE  SharedInv'
  <2>0. proc[p].sem + 1 \in Nat
    BY <1>1 DEF Process
  <2>a. PICK r1 : r1 = [proc[p] EXCEPT !.sem = @ + 1]
    OBVIOUS
  <2>b. r1 \in Process
    BY <1>1, <2>0, <2>a DEF Process
  <2>c. rec = [r1 EXCEPT !.handler = "posted"]
    BY <1>2, <2>a
  <2>1. rec \in Process
    BY <2>b, <2>c DEF Process
  <2>2. RoleOf(rec) /\ Alike(rec, proc[p])
    BY <1>1, <1>2 DEF Process, RoleOf, Alike
  <2> QED BY <1>1, <1>2, <2>1, <2>2, AlikeSet
<1> QED BY <1>1, <1>2 DEF HandlerPost

(* The handler returns.                                                    *)
LEMMA HandlerReturnStep == ASSUME SharedInv, NEW p \in Pids, HandlerReturn(p) PROVE SharedInv'
<1>1. /\ Live(p)
      /\ Quiet /\ proc[p] \in Process /\ RoleOf(proc[p])
  BY StillQuiet, RecordType DEF HandlerReturn
<1>2. ASSUME NEW rec, rec = [proc[p] EXCEPT !.handler = "idle"], Set(p, rec)
      PROVE  SharedInv'
  <2>1. rec \in Process
    BY <1>1, <1>2 DEF Process
  <2>2. RoleOf(rec) /\ Alike(rec, proc[p])
    BY <1>1, <1>2 DEF Process, RoleOf, Alike
  <2> QED BY <1>1, <1>2, <2>1, <2>2, AlikeSet
<1>3. ASSUME NEW rec, rec = [proc[p] EXCEPT !.handler = "idle", !.pc = "poll"], Set(p, rec),
             proc[p].pc = "wait"
      PROVE  SharedInv'
  <2>1. rec \in Process
    BY <1>1, <1>3 DEF Process
  <2>2. RoleOf(rec) /\ Alike(rec, proc[p])
    BY <1>1, <1>3 DEF Process, RoleOf, Alike
  <2> QED BY <1>1, <1>3, <2>1, <2>2, AlikeSet
<1>4. ASSUME NEW rec, rec = [proc[p] EXCEPT !.handler = "idle", !.pc = "pause"], Set(p, rec),
             proc[p].pc = "accept"
      PROVE  SharedInv'
  <2>1. rec \in Process
    BY <1>1, <1>4 DEF Process
  <2>2. RoleOf(rec) /\ Alike(rec, proc[p])
    BY <1>1, <1>4 DEF Process, RoleOf, Alike
  <2> QED BY <1>1, <1>4, <2>1, <2>2, AlikeSet
<1>5. ASSUME NEW rec, rec = [proc[p] EXCEPT !.handler = "idle", !.pc = proc[p].pc], Set(p, rec)
      PROVE  SharedInv'
  <2>a. rec = [proc[p] EXCEPT !.handler = "idle"]
    BY <1>1, <1>5 DEF Process
  <2>1. rec \in Process
    BY <1>1, <2>a DEF Process
  <2>2. RoleOf(rec) /\ Alike(rec, proc[p])
    BY <1>1, <2>a DEF Process, RoleOf, Alike
  <2> QED BY <1>1, <1>5, <2>1, <2>2, AlikeSet
<1> QED BY <1>1, <1>2, <1>3, <1>4, <1>5 DEF HandlerReturn, Interrupted

(* clear_thread's sem_wait() returns, and it goes on as the process's kind *)
(* says.                                                                   *)
LEMMA ClearWaitStep ==
  ASSUME SharedInv, NEW p \in Pids, NEW next \in {"kill", "reset", "close"}, ClearWait(p, next)
  PROVE  SharedInv'
<1>1. /\ proc[p].clear = "wait" /\ proc[p].sem > 0
      /\ Quiet /\ proc[p] \in Process /\ RoleOf(proc[p])
  BY StillQuiet, RecordType DEF ClearWait
<1>2. ASSUME NEW rec, rec = [proc[p] EXCEPT !.sem = @ - 1, !.clear = next], Set(p, rec)
      PROVE  SharedInv'
  <2>0. proc[p].sem - 1 \in Nat
    BY <1>1 DEF Process
  <2>1. rec \in Process
    BY <1>1, <1>2, <2>0, Zenon DEF Process
  <2>2. RoleOf(rec) /\ Alike(rec, proc[p])
    BY <1>1, <1>2 DEF Process, RoleOf, Alike
  <2> QED BY <1>1, <1>2, <2>1, <2>2, AlikeSet
<1>3. ASSUME NEW rec, rec = [proc[p] EXCEPT !.sem = @ - 1, !.clear = "wait"], Set(p, rec)
      PROVE  SharedInv'
  <2>0. proc[p].sem - 1 \in Nat
    BY <1>1 DEF Process
  <2>1. rec \in Process
    BY <1>1, <1>3, <2>0, Zenon DEF Process
  <2>2. RoleOf(rec) /\ Alike(rec, proc[p])
    BY <1>1, <1>3 DEF Process, RoleOf, Alike
  <2> QED BY <1>1, <1>3, <2>1, <2>2, AlikeSet
<1> QED BY <1>1, <1>2, <1>3 DEF ClearWait

(* clear_thread closes what the process holds.                             *)
LEMMA ClearCloseStep ==
  ASSUME SharedInv, NEW p \in Pids, ClearClose(p)
  PROVE  SharedInv'
<1>1. /\ proc[p].clear = "close" /\ UNCHANGED counters
      /\ proc[p] \in Process /\ RoleOf(proc[p])
  BY RecordType DEF ClearClose
<1>2. Quiet
  BY <1>1, ServerAssumption DEF SharedInv, TypeInv, ProcTypeOK, Quiet, ClearClose, Backlog
<1>3. PICK h \in SUBSET proc[p].holds : Set(p, [proc[p] EXCEPT !.clear = "exit", !.holds = h])
  <2>1. ASSUME NEW fd, Set(p, [proc[p] EXCEPT !.clear = "exit", !.holds = @ \ {fd}])
        PROVE  \E h \in SUBSET proc[p].holds :
                 Set(p, [proc[p] EXCEPT !.clear = "exit", !.holds = h])
    <3>1. proc[p].holds \ {fd} \in SUBSET proc[p].holds
      OBVIOUS
    <3> QED BY <2>1, <3>1
  <2>2. ASSUME Set(p, [proc[p] EXCEPT !.clear = "exit"])
        PROVE  \E h \in SUBSET proc[p].holds :
                 Set(p, [proc[p] EXCEPT !.clear = "exit", !.holds = h])
    <3>1. [proc[p] EXCEPT !.clear = "exit"]
            = [proc[p] EXCEPT !.clear = "exit", !.holds = proc[p].holds]
      BY <1>1 DEF Process
    <3>2. proc[p].holds \in SUBSET proc[p].holds
      OBVIOUS
    <3> QED BY <2>2, <3>1, <3>2
  <2>3. \/ Set(p, [proc[p] EXCEPT !.clear = "exit"])
        \/ \E fd : Set(p, [proc[p] EXCEPT !.clear = "exit", !.holds = @ \ {fd}])
    BY Zenon DEF ClearClose
  <2> QED BY <2>1, <2>2, <2>3
<1>5. PICK rec : rec = [proc[p] EXCEPT !.clear = "exit", !.holds = h] /\ Set(p, rec)
  BY <1>3
<1>6. h \subseteq proc[p].holds /\ h \in SUBSET {"listen", "device"}
  BY <1>1, <1>3 DEF Process
<1>7. rec \in Process
  BY <1>1, <1>5, <1>6, Zenon DEF Process
<1>8. RoleOf(rec) /\ Alike(rec, proc[p])
  BY <1>1, <1>5, <1>6 DEF Process, RoleOf, Alike
<1> QED BY <1>2, <1>5, <1>7, <1>8, AlikeSet

-----------------------------------------------------------------------------
(* Steps of several processes *)

(* Records that differ in nothing the invariant speaks of. *)
Same(r, s) == /\ r.kind = s.kind /\ r.life = s.life /\ r.pc = s.pc
              /\ r.child_pid = s.child_pid /\ r.has_clear = s.has_clear
              /\ r.clear = s.clear /\ r.holds = s.holds

(* Processes that differ in nothing their places depend on are both in     *)
(* their places.                                                           *)
LEMMA SameRole == ASSUME NEW r, NEW s, Same(r, s), RoleOf(s) PROVE RoleOf(r)
BY DEF Same, RoleOf

(* A pending SIGINT changes nothing a process's place depends on.          *)
LEMMA Signalled ==
  ASSUME NEW r \in Process, NEW b \in BOOLEAN
  PROVE  [r EXCEPT !.sigint = b] \in Process /\ Same([r EXCEPT !.sigint = b], r)
<1>1. [r EXCEPT !.sigint = b] \in Process
  BY DEF Process
<1>2. Same([r EXCEPT !.sigint = b], r)
  BY DEF Process, Same
<1> QED BY <1>1, <1>2

(* A step that signals process c after process p has taken an Alike step.  *)
LEMMA SignalStep ==
  ASSUME SharedInv, NEW p \in Pids, NEW c \in Pids, NEW b \in BOOLEAN, NEW rec \in Process,
         proc' = [[proc EXCEPT ![p] = rec] EXCEPT ![c].sigint = b],
         RoleOf(rec), Alike(rec, proc[p]), Quiet
  PROVE  SharedInv'
<1>1. /\ proc \in [Pids -> Process]
      /\ waiting' \in 0..nclients /\ nclients \in 0..MaxClients /\ nsigs \in 0..MaxSigs
      /\ nboots' = nboots /\ nclients' = nclients /\ nsigs' = nsigs
  BY DEF Quiet, counters, SharedInv, TypeInv, ProcTypeOK
<1>2. PICK g : g = [proc EXCEPT ![p] = rec]
  OBVIOUS
<1>3. /\ g \in [Pids -> Process]
      /\ \A q \in Pids : RoleOf(g[q]) /\ Alike(g[q], proc[q])
  BY <1>1, <1>2, RecordType DEF Alike
<1>4. /\ proc' = [g EXCEPT ![c] = [g[c] EXCEPT !.sigint = b]]
      /\ [g[c] EXCEPT !.sigint = b] \in Process /\ Same([g[c] EXCEPT !.sigint = b], g[c])
  BY <1>2, <1>3, Signalled
<1>5. /\ proc' \in [Pids -> Process]
      /\ \A q \in Pids : Same(proc'[q], g[q])
  <2>1. PICK s \in Process : proc' = [g EXCEPT ![c] = s] /\ Same(s, g[c])
    BY <1>4
  <2> QED BY <1>3, <2>1 DEF Same
<1>6. \A q \in Pids : RoleOf(proc'[q])
  BY <1>3, <1>5, SameRole
<1>7. \A q \in Pids : /\ proc'[q].kind = proc[q].kind /\ proc'[q].life = proc[q].life
                      /\ proc'[q].child_pid = proc[q].child_pid
                      /\ proc'[q].pc = "fork" => proc[q].pc = "fork"
  BY <1>3, <1>5 DEF Same, Alike
<1>8. \A q \in Pids : (Live(q)' => Live(q)) /\ (Kid(q)' => Kid(q))
  BY <1>7 DEF Live, Kid
<1> QED BY <1>1, <1>5, <1>6, <1>7, <1>8, CalmStep

(* The parent signals its child before it serves the next client.          *)
LEMMA KillStep == ASSUME SharedInv, NEW p \in Pids, Kill(p) PROVE SharedInv'
<1>1. /\ proc[p].pc = "kill" /\ Quiet
      /\ proc[p] \in Process /\ RoleOf(proc[p])
  BY StillQuiet, RecordType DEF Kill, Main
<1>2. PICK c \in Pids : c = proc[p].child_pid
  BY <1>1 DEF RoleOf
<1>3. PICK rec : rec = [proc[p] EXCEPT !.pc = "wait"]
  OBVIOUS
<1>4. rec \in Process /\ RoleOf(rec) /\ Alike(rec, proc[p])
  BY <1>1, <1>3 DEF Process, RoleOf, Alike
<1>5. proc \in [Pids -> Process]
  BY DEF SharedInv, TypeInv, ProcTypeOK
<1>6. PICK b \in BOOLEAN : b = ([proc EXCEPT ![p] = rec][c].sigint \/ Live(c))
  OBVIOUS
<1>7. proc' = [[proc EXCEPT ![p] = rec] EXCEPT ![c].sigint = b]
  BY <1>2, <1>3, <1>6 DEF Kill
<1> QED BY <1>1, <1>4, <1>7, SignalStep

(* A process that was reaped is where it was, and gone.                    *)
LEMMA Reaped ==
  ASSUME NEW r \in Process
  PROVE  LET s == [r EXCEPT !.life = "gone"]
         IN  /\ s \in Process /\ s.life = "gone" /\ s.kind = r.kind /\ s.pc = r.pc
             /\ s.child_pid = r.child_pid
             /\ RoleOf(r) => RoleOf(s)
BY DEF Process, RoleOf

(* A step that reaps process c after process p has taken an Alike step. *)
LEMMA ReapStep ==
  ASSUME SharedInv, NEW p \in Pids, NEW c \in Pids, NEW rec \in Process,
         proc' = [[proc EXCEPT ![p] = rec] EXCEPT ![c].life = "gone"],
         RoleOf(rec), Alike(rec, proc[p]), Quiet
  PROVE  SharedInv'
<1>1. /\ proc \in [Pids -> Process]
      /\ waiting' \in 0..nclients /\ nclients \in 0..MaxClients /\ nsigs \in 0..MaxSigs
      /\ nboots' = nboots /\ nclients' = nclients /\ nsigs' = nsigs
  BY DEF Quiet, counters, SharedInv, TypeInv, ProcTypeOK
<1>2. PICK g : g = [proc EXCEPT ![p] = rec]
  OBVIOUS
<1>3. /\ g \in [Pids -> Process]
      /\ \A q \in Pids : RoleOf(g[q]) /\ Alike(g[q], proc[q])
  BY <1>1, <1>2, RecordType DEF Alike
<1>4. proc' = [g EXCEPT ![c] = [g[c] EXCEPT !.life = "gone"]]
  BY <1>2, <1>3
<1>5. PICK s \in Process : /\ proc' = [g EXCEPT ![c] = s]
                           /\ s.life = "gone" /\ s.kind = g[c].kind /\ s.pc = g[c].pc
                           /\ s.child_pid = g[c].child_pid /\ RoleOf(s)
  BY <1>3, <1>4, Reaped
<1>6. /\ proc' \in [Pids -> Process]
      /\ \A q \in Pids : /\ RoleOf(proc'[q]) /\ proc'[q].kind = g[q].kind
                         /\ proc'[q].pc = g[q].pc /\ proc'[q].child_pid = g[q].child_pid
                         /\ proc'[q].life \in {g[q].life, "gone"}
  BY <1>3, <1>5
<1>7. \A q \in Pids : /\ proc'[q].kind = proc[q].kind /\ proc'[q].child_pid = proc[q].child_pid
                      /\ proc'[q].life \in {proc[q].life, "gone"}
                      /\ proc'[q].pc = "fork" => proc[q].pc = "fork"
  BY <1>3, <1>6 DEF Alike
<1>8. \A q \in Pids : (Live(q)' => Live(q)) /\ (Kid(q)' => Kid(q))
  BY <1>7 DEF Live, Kid
<1> QED BY <1>1, <1>6, <1>7, <1>8, CalmStep

(* wait() returns a child, or finds none.                                  *)
LEMMA WaitStep == ASSUME SharedInv, NEW p \in Pids, Wait(p) PROVE SharedInv'
<1>1. /\ proc[p].pc = "wait" /\ Quiet
      /\ proc[p] \in Process /\ RoleOf(proc[p])
  BY StillQuiet, RecordType DEF Wait, Main
<1>2. PICK rec : rec = [proc[p] EXCEPT !.pc = "poll"]
  OBVIOUS
<1>3. rec \in Process /\ RoleOf(rec) /\ Alike(rec, proc[p])
  BY <1>1, <1>2 DEF Process, RoleOf, Alike
<1>4. ASSUME NEW c \in Pids, proc' = [proc EXCEPT ![p].pc = "poll", ![c].life = "gone"]
      PROVE  SharedInv'
  <2>1. proc' = [[proc EXCEPT ![p] = rec] EXCEPT ![c].life = "gone"]
    BY <1>2, <1>4
  <2> QED BY <1>1, <1>3, <2>1, ReapStep
<1>5. ASSUME Set(p, rec) PROVE SharedInv'
  BY <1>1, <1>3, <1>5, AlikeSet
<1> QED BY <1>2, <1>4, <1>5 DEF Wait, ChildrenOf

EndedAs(s, r, l) == s = [r EXCEPT !.life = l, !.holds = {}]

(* A process that ends is where it was, as a zombie or gone.               *)
LEMMA Ended ==
  ASSUME NEW r \in Process, NEW l \in {"zombie", "gone"}, NEW s, EndedAs(s, r, l)
  PROVE  /\ s \in Process /\ s.life = l /\ s.kind = r.kind /\ s.pc = r.pc
         /\ s.child_pid = r.child_pid
         /\ RoleOf(r) /\ r.kind # "none" => RoleOf(s)
<1>1. s \in Process
  BY DEF Process, EndedAs
<1>2. /\ s.life = l /\ s.kind = r.kind /\ s.pc = r.pc /\ s.child_pid = r.child_pid
      /\ s.has_clear = r.has_clear /\ s.clear = r.clear /\ s.holds \subseteq r.holds
  BY DEF Process, EndedAs
<1>3. RoleOf(r) /\ r.kind # "none" => RoleOf(s)
  BY <1>2 DEF RoleOf
<1> QED BY <1>1, <1>2, <1>3

AdoptedAs(s, r, l) == s = [r EXCEPT !.ppid = 0, !.life = l]

(* A process whose parent ends stays where it is, or is reaped.            *)
LEMMA Adopted ==
  ASSUME NEW r \in Process, NEW l \in {"live", "gone"}, NEW s, AdoptedAs(s, r, l)
  PROVE  /\ s \in Process /\ s.life = l /\ s.kind = r.kind /\ s.pc = r.pc
         /\ s.child_pid = r.child_pid
         /\ RoleOf(r) /\ r.kind # "none" => RoleOf(s)
<1>0. 0 \in 0..MaxProcs /\ l \in {"live", "zombie", "gone"}
  BY ServerAssumption
<1>1. s \in Process
  BY <1>0, Zenon DEF Process, AdoptedAs
<1>2. /\ s.life = l /\ s.kind = r.kind /\ s.pc = r.pc /\ s.child_pid = r.child_pid
      /\ s.has_clear = r.has_clear /\ s.clear = r.clear /\ s.holds \subseteq r.holds
  BY DEF Process, AdoptedAs
<1>3. RoleOf(r) /\ r.kind # "none" => RoleOf(s)
  BY <1>2 DEF RoleOf
<1> QED BY <1>1, <1>2, <1>3

(* A process ends, its zombies are reaped and its children adopted.        *)
LEMMA ExitStep == ASSUME SharedInv, NEW p \in Pids, Live(p), Exit(p) PROVE SharedInv'
<1>1. /\ proc \in [Pids -> Process] /\ proc' = AfterExit(p)
      /\ waiting' \in 0..nclients /\ nclients \in 0..MaxClients /\ nsigs \in 0..MaxSigs
      /\ nboots' = nboots /\ nclients' = nclients /\ nsigs' = nsigs
  BY ServerAssumption DEF Exit, Backlog, counters, SharedInv, TypeInv, ProcTypeOK
<1>2. ASSUME NEW q \in Pids
      PROVE  /\ AfterExit(p)[q] \in Process /\ RoleOf(AfterExit(p)[q])
             /\ AfterExit(p)[q].kind = proc[q].kind
             /\ AfterExit(p)[q].pc = proc[q].pc
             /\ AfterExit(p)[q].child_pid = proc[q].child_pid
             /\ AfterExit(p)[q].life = "live" => proc[q].life = "live"
             /\ AfterExit(p)[q].life # "gone" => proc[q].life # "gone"
  <2>1. proc[q] \in Process /\ RoleOf(proc[q])
    BY RecordType
  <2>2. CASE q = p
    <3>1. proc[q].kind # "none" /\ proc[q].life = "live"
      BY <2>1, <2>2 DEF RoleOf, Live
    <3> DEFINE l == IF proc[p].ppid \in Pids /\ Live(proc[p].ppid) THEN "zombie" ELSE "gone"
    <3>2. AfterExit(p)[q] = [proc[q] EXCEPT !.life = l, !.holds = {}]
      BY <2>2 DEF AfterExit
    <3>3. l \in {"zombie", "gone"}
      OBVIOUS
    <3> HIDE DEF l
    <3>4. PICK s : EndedAs(s, proc[q], l)
      BY DEF EndedAs
    <3>5. /\ s \in Process /\ s.life = l /\ s.kind = proc[q].kind /\ s.pc = proc[q].pc
          /\ s.child_pid = proc[q].child_pid /\ RoleOf(s)
      BY <2>1, <3>1, <3>3, <3>4, Ended
    <3> QED BY <3>1, <3>2, <3>3, <3>4, <3>5 DEF EndedAs
  <2>3. CASE q # p /\ q \in ChildrenOf(p) /\ proc[q].life # "gone"
    <3> DEFINE l == IF proc[q].life = "zombie" THEN "gone" ELSE "live"
    <3>0. AfterExit(p)[q] = [proc[q] EXCEPT !.ppid = 0, !.life = l]
      BY <2>3 DEF AfterExit
    <3>1. l \in {"live", "gone"}
      OBVIOUS
    <3>2. proc[q].kind # "none" /\ (l = "live" => proc[q].life = "live")
      BY <2>1, <2>3 DEF ChildrenOf, Process
    <3> HIDE DEF l
    <3>4. PICK s : AdoptedAs(s, proc[q], l)
      BY DEF AdoptedAs
    <3>5. /\ s \in Process /\ s.life = l /\ s.kind = proc[q].kind /\ s.pc = proc[q].pc
          /\ s.child_pid = proc[q].child_pid /\ RoleOf(s)
      BY <2>1, <3>1, <3>2, <3>4, Adopted
    <3>3. /\ AfterExit(p)[q] \in Process /\ RoleOf(AfterExit(p)[q])
          /\ AfterExit(p)[q].kind = proc[q].kind
          /\ AfterExit(p)[q].pc = proc[q].pc
          /\ AfterExit(p)[q].child_pid = proc[q].child_pid
          /\ AfterExit(p)[q].life = l
      BY <3>0, <3>4, <3>5 DEF AdoptedAs
    <3> QED BY <2>3, <3>2, <3>3
  <2>4. CASE q # p /\ ~(q \in ChildrenOf(p) /\ proc[q].life # "gone")
    <3>1. AfterExit(p)[q] = proc[q]
      BY <2>4 DEF AfterExit
    <3> QED BY <2>1, <3>1
  <2> QED BY <2>2, <2>3, <2>4
<1>3. AfterExit(p) \in [Pids -> Process]
  <2>1. AfterExit(p) = [q \in Pids |-> AfterExit(p)[q]]
    BY Zenon DEF AfterExit
  <2> QED BY <1>2, <2>1
<1>4. \A q \in Pids : (Live(q)' => Live(q)) /\ (Kid(q)' => Kid(q))
  BY <1>1, <1>2 DEF Live, Kid
<1> QED BY <1>1, <1>2, <1>3, <1>4, CalmStep

-----------------------------------------------------------------------------
(* The steps that make a process *)

(* The child that fork() makes of a parent's record. *)
ChildOf(r, p) == [r EXCEPT !.kind = "child", !.ppid = p, !.pc = "open", !.child_pid = 0,
                           !.clear = "none", !.sigint = FALSE]

(* What fork() makes of a process's copy is a child in its place.          *)
LEMMA ChildType ==
  ASSUME NEW r \in Process, RoleOf(r), NEW p \in Pids
  PROVE  /\ ChildOf(r, p) \in Process /\ RoleOf(ChildOf(r, p))
         /\ ChildOf(r, p).kind = "child" /\ ChildOf(r, p).life = r.life
<1>1. PICK s : s = [r EXCEPT !.kind = "child", !.ppid = p]
  OBVIOUS
<1>2. PICK t : t = [s EXCEPT !.pc = "open", !.child_pid = 0]
  OBVIOUS
<1>3. PICK u : u = [t EXCEPT !.clear = "none", !.sigint = FALSE]
  OBVIOUS
<1>4. p \in 0..MaxProcs /\ 0 \in -1..MaxProcs
  BY ServerAssumption DEF Pids
<1>5. s \in Process
  BY <1>1, <1>4 DEF Process
<1>6. t \in Process
  BY <1>2, <1>4, <1>5 DEF Process
<1>7. u \in Process
  <2>1. PICK v : v = [t EXCEPT !.clear = "none"]
    OBVIOUS
  <2>2. v \in Process
    BY <1>6, <2>1 DEF Process
  <2>3. u = [v EXCEPT !.sigint = FALSE]
    BY <1>3, <2>1
  <2> QED BY <2>2, <2>3 DEF Process
<1>8. u.kind = "child" /\ u.life = r.life /\ u.pc = "open" /\ u.clear = "none"
  BY <1>1, <1>2, <1>3, <1>5, <1>6 DEF Process
<1>9. RoleOf(u)
  BY <1>8 DEF RoleOf
<1>10. ChildOf(r, p) = u
  BY <1>1, <1>2, <1>3 DEF ChildOf
<1> QED BY <1>7, <1>8, <1>9, <1>10

(* fork(): the one place where a child comes to life, and only when there  *)
(* is none.                                                                *)
LEMMA ForkStep == ASSUME SharedInv, NEW p \in Pids, Fork(p) PROVE SharedInv'
<1>1. /\ Live(p) /\ proc[p].pc = "fork" /\ Quiet
      /\ proc[p] \in Process /\ RoleOf(proc[p]) /\ proc \in [Pids -> Process]
  BY StillQuiet, RecordType DEF Fork, Main, SharedInv, TypeInv, ProcTypeOK
<1>2. proc[p].kind = "parent" /\ \A c \in Pids : ~Kid(c)
  BY <1>1, ParentAt
<1>3. PICK c \in Unused :
        proc' = [proc EXCEPT ![p].pc = AfterFork(p), ![p].child_pid = c,
                             ![c] = ChildOf(proc[p], p)]
  BY DEF Fork, NextPid, ChildOf
<1>4. c \in Pids /\ c # p
  BY <1>2 DEF Unused
<1>5. PICK rec : rec = [proc[p] EXCEPT !.pc = AfterFork(p), !.child_pid = c]
  OBVIOUS
<1>6. PICK kid : kid = ChildOf(proc[p], p)
  OBVIOUS
<1>7. proc' = [[proc EXCEPT ![p] = rec] EXCEPT ![c] = kid]
  BY <1>1, <1>3, <1>5, <1>6
<1>8. /\ AfterFork(p) \in {"accept", "spawn"} /\ c \in -1..MaxProcs
      /\ AfterFork(p) = "spawn" => ~proc[p].has_clear
  BY <1>4 DEF AfterFork, Pids
<1>9. rec \in Process
  BY <1>1, <1>5, <1>8, Zenon DEF Process
<1>10. /\ rec.kind = "parent" /\ rec.life = proc[p].life /\ rec.pc = AfterFork(p)
       /\ rec.holds = proc[p].holds /\ rec.has_clear = proc[p].has_clear
       /\ rec.clear = proc[p].clear /\ rec.child_pid = c
  BY <1>1, <1>2, <1>5 DEF Process
<1>11. RoleOf(rec)
  BY <1>1, <1>2, <1>8, <1>10 DEF RoleOf
<1>12. kid \in Process /\ RoleOf(kid) /\ kid.kind = "child" /\ kid.life = "live"
  BY <1>1, <1>6, ChildType DEF Live
<1>13. /\ proc' \in [Pids -> Process] /\ proc'[p] = rec /\ proc'[c] = kid
       /\ \A q \in Pids \ {p, c} : proc'[q] = proc[q]
  BY <1>1, <1>4, <1>7, <1>9, <1>12
<1>14. TypeInv'
  BY <1>1, <1>13, ServerAssumption DEF SharedInv, TypeInv, ProcTypeOK, Quiet, counters
<1>15. Roles'
  BY <1>11, <1>12, <1>13, RecordType DEF Roles
<1>16. OneParent'
  BY <1>1, <1>2, <1>10, <1>12, <1>13 DEF SharedInv, OneParent, Quiet, counters
<1>17. \A q \in Pids : Kid(q)' => q = c
  BY <1>2, <1>10, <1>13 DEF Kid
<1>18. \A q \in Pids : proc'[q].kind = "parent" => q = p
  BY <1>2, <1>12, <1>13 DEF SharedInv, OneParent
<1>19. OneKid'
  BY <1>8, <1>10, <1>13, <1>17, <1>18 DEF OneKid
<1> QED BY <1>14, <1>15, <1>16, <1>19 DEF SharedInv

(* The operator starts the server, once.                                   *)
LEMMA BootStep == ASSUME SharedInv, MaxBoots <= 1, Boot PROVE SharedInv'
<1>1. /\ proc \in [Pids -> Process] /\ nboots = 0 /\ nboots' = 1 /\ MaxBoots = 1
      /\ waiting' = waiting /\ nclients' = nclients /\ nsigs' = nsigs
  BY ServerAssumption DEF Boot, SharedInv, TypeInv, ProcTypeOK
<1>2. \A q \in Pids : proc[q].kind = "none"
  BY <1>1 DEF SharedInv, OneParent
<1>3. PICK p \in Pids :
        Set(p, [NoProcess EXCEPT !.kind = "parent", !.life = "live"])
  BY DEF Boot
<1>4. PICK rec : rec = [NoProcess EXCEPT !.kind = "parent", !.life = "live"]
  OBVIOUS
<1>a. /\ 0 \in 0..MaxProcs /\ 0 \in -1..MaxProcs /\ 0 \in Nat
      /\ {} \in SUBSET {"listen", "device"}
  BY ServerAssumption
<1>b. NoProcess \in Process
  BY <1>a DEF NoProcess, Process
<1>5. rec \in Process
  BY <1>4, <1>b, Zenon DEF Process
<1>6. rec.kind = "parent" /\ RoleOf(rec)
  BY <1>4 DEF NoProcess, RoleOf
<1>7. /\ proc' \in [Pids -> Process] /\ proc'[p] = rec
      /\ \A q \in Pids \ {p} : proc'[q] = proc[q]
  BY <1>1, <1>3, <1>4, <1>5 DEF Set
<1>8. TypeInv'
  BY <1>1, <1>7 DEF SharedInv, TypeInv, ProcTypeOK
<1>9. Roles'
  BY <1>6, <1>7, RecordType DEF Roles
<1>10. OneParent'
  BY <1>1, <1>2, <1>6, <1>7 DEF OneParent
<1>11. OneKid'
  BY <1>2, <1>6, <1>7 DEF OneKid, Kid
<1> QED BY <1>8, <1>9, <1>10, <1>11 DEF SharedInv

(* A client connects.                                                      *)
LEMMA ConnectStep == ASSUME SharedInv, Connect PROVE SharedInv'
<1>1. /\ proc' = proc /\ nboots' = nboots /\ nsigs' = nsigs /\ nsigs \in 0..MaxSigs
      /\ waiting' \in 0..nclients' /\ nclients' \in 0..MaxClients
      /\ proc \in [Pids -> Process]
  BY ServerAssumption DEF Connect, SharedInv, TypeInv, ProcTypeOK
<1>2. \A q \in Pids : RoleOf(proc[q])
  BY RecordType
<1>3. \A q \in Pids : (Live(q)' <=> Live(q)) /\ (Kid(q)' <=> Kid(q))
  BY <1>1 DEF Live, Kid
<1> QED BY <1>1, <1>2, <1>3, CalmStep

(* SIGINT reaches a set of processes.                                      *)
LEMMA SigintStep ==
  ASSUME SharedInv, NEW targets \in SUBSET Pids, Sigint(targets)
  PROVE  SharedInv'
<1>1. /\ nboots' = nboots /\ nsigs' \in 0..MaxSigs
      /\ waiting' \in 0..nclients' /\ nclients' \in 0..MaxClients
      /\ proc \in [Pids -> Process]
  BY ServerAssumption DEF Sigint, SharedInv, TypeInv, ProcTypeOK
<1>2. \A q \in Pids : proc'[q] \in Process /\ Same(proc'[q], proc[q])
  <2> TAKE q \in Pids
  <2>1. proc'[q] \in {proc[q], [proc[q] EXCEPT !.sigint = TRUE]}
    BY Zenon DEF Sigint
  <2>2. CASE proc'[q] = proc[q]
    BY <1>1, <2>2 DEF Same
  <2>3. CASE proc'[q] = [proc[q] EXCEPT !.sigint = TRUE]
    BY <1>1, <2>3, Signalled
  <2> QED BY <2>1, <2>2, <2>3
<1>3. proc' \in [Pids -> Process]
  <2>1. proc' = [q \in Pids |-> proc'[q]]
    BY Zenon DEF Sigint
  <2> QED BY <1>2, <2>1
<1>4. \A q \in Pids : RoleOf(proc'[q])
  BY <1>2, RecordType, SameRole
<1>5. \A q \in Pids : (Live(q)' => Live(q)) /\ (Kid(q)' => Kid(q))
  BY <1>2 DEF Live, Kid, Same
<1> QED BY <1>1, <1>2, <1>3, <1>4, <1>5, CalmStep DEF Same

-----------------------------------------------------------------------------
(* All of them *)

(* The steps of the parent's main thread together.                         *)
LEMMA ParentSteps ==
  ASSUME SharedInv, NEW p \in Pids,
         \/ Bind(p) \/ BindFails(p) \/ Accept(p) \/ Kill(p) \/ Wait(p) \/ Poll(p)
         \/ Fork(p) \/ ForkFails(p) \/ SpawnFails(p)
  PROVE  SharedInv'
BY BindStep, AcceptStep, KillStep, WaitStep, PollStep, ForkStep, ForkFailsStep, SpawnFailsStep

(* The steps of the handler together.                                      *)
LEMMA HandlerSteps == ASSUME SharedInv, NEW p \in Pids, Handler(p) PROVE SharedInv'
<1>1. CASE HandlerStop(p)
  BY <1>1, HandlerStopStep
<1>2. CASE HandlerKilled(p)
  BY <1>2, ExitStep DEF HandlerKilled
<1>3. CASE HandlerPost(p)
  BY <1>3, HandlerPostStep
<1>4. CASE HandlerReturn(p)
  BY <1>4, HandlerReturnStep
<1> QED BY <1>1, <1>2, <1>3, <1>4 DEF Handler

(* The steps from outside together.                                        *)
LEMMA WorldSteps ==
  ASSUME SharedInv, MaxBoots <= 1, Boot \/ Connect \/ Operator
  PROVE  SharedInv'
<1>1. CASE Operator
  <2>1. PICK p \in Pids : Sigint({p}) \/ Sigint({p} \cup ChildrenOf(p))
    BY <1>1 DEF Operator
  <2>2. {p} \in SUBSET Pids /\ {p} \cup ChildrenOf(p) \in SUBSET Pids
    BY DEF ChildrenOf
  <2> QED BY <2>1, <2>2, SigintStep
<1> QED BY <1>1, BootStep, ConnectStep

(* Before the first start there is no process.                             *)
LEMMA SharedInit == InitProcs => SharedInv
<1> SUFFICES ASSUME InitProcs PROVE SharedInv
  OBVIOUS
<1>1. /\ 0 \in 0..MaxProcs /\ 0 \in -1..MaxProcs /\ 0 \in Nat
      /\ {} \in SUBSET {"listen", "device"}
  BY ServerAssumption
<1>2. NoProcess \in Process
  BY <1>1 DEF NoProcess, Process
<1>3. TypeInv
  BY <1>2, ServerAssumption DEF InitProcs, TypeInv, ProcTypeOK
<1>4. RoleOf(NoProcess)
  BY DEF NoProcess, RoleOf
<1>5. Roles
  BY <1>4 DEF InitProcs, Roles
<1>6. \A p \in Pids : proc[p].kind = "none"
  BY DEF InitProcs, NoProcess
<1>7. OneParent /\ OneKid
  BY <1>6 DEF OneParent, OneKid, Kid
<1> QED BY <1>3, <1>5, <1>7 DEF SharedInv

(* A step that changes nothing keeps the invariant.                        *)
LEMMA SharedStutter == SharedInv /\ UNCHANGED vars => SharedInv'
BY DEF vars, SharedInv, TypeInv, ProcTypeOK, Roles, OneParent, OneKid, Kid, Live

(* Only a child has the device open, and there is one at most. *)
LEMMA OneHolder == SharedInv => DeviceExclusive
<1> SUFFICES ASSUME SharedInv PROVE Cardinality(Holders("device")) <= 1
  BY DEF DeviceExclusive
<1>1. \A p \in Holders("device") : Kid(p)
  BY RecordType DEF Holders, Kid, Live, RoleOf
<1>2. \A p, q \in Holders("device") : p = q
  BY <1>1 DEF SharedInv, OneKid, Holders
<1>3. CASE Holders("device") = {}
  BY <1>3, FS_EmptySet
<1>4. CASE Holders("device") # {}
  <2>1. PICK p : Holders("device") = {p}
    BY <1>2, <1>4
  <2>2. Cardinality({p}) = 1
    BY FS_Singleton
  <2> QED BY <2>1, <2>2, SMT
<1> QED BY <1>3, <1>4
==============================================================================
