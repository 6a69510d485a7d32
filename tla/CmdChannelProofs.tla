--------------------------- MODULE CmdChannelProofs ---------------------------
(***************************************************************************)
(* Proofs about CmdChannel, for any frames of any length and any amount of *)
(* status.  The command stream and the status stream meet in no step, so   *)
(* each has an invariant of its own.                                       *)
(***************************************************************************)
EXTENDS CmdChannel, SequenceTheorems, TLAPS

Byte == Nat \X Nat
Size(k) == Length[sent[k]]
Is(b, k, j) == b[1] = k /\ b[2] = j

-----------------------------------------------------------------------------
(* The invariants *)

(* Byte b has left the client. *)
Arrived(b) == /\ b[1] \in 1..Len(sent) /\ b[2] \in 0..Size(b[1])
              /\ b[1] < Len(sent) \/ b[2] <= Size(b[1]) - rest

(* What the reader has before it: the byte it read last, if any, is number *)
(* 0 and the bytes that have arrived follow.                               *)
Ahead(i) == IF i = 0 THEN cmd_cache[Len(cmd_cache)] ELSE inq[i]
From     == IF cmd_cache = <<>> THEN 1 ELSE 0

(* Those bytes are one unbroken part of the stream up to its end: to each  *)
(* succeed the later ones of its frame, and to the last of a frame the     *)
(* length byte of the next.                                                *)
Unbroken ==
  /\ \A i \in From..Len(inq) : Arrived(Ahead(i))
  /\ \A i \in From..Len(inq), m \in 1..Len(inq) :
       i + m <= Len(inq) /\ Ahead(i)[2] + m <= Size(Ahead(i)[1])
         => Is(Ahead(i + m), Ahead(i)[1], Ahead(i)[2] + m)
  /\ \A i \in From..Len(inq)-1 :
       Ahead(i)[2] = Size(Ahead(i)[1]) => Is(Ahead(i + 1), Ahead(i)[1] + 1, 0)
  /\ From = 1 /\ inq # <<>> => Is(inq[1], 1, 0)
  /\ From <= Len(inq) => Is(Ahead(Len(inq)), Len(sent), Size(Len(sent)) - rest)
  /\ From > Len(inq) => sent = <<>> /\ rest = 0

Kept == cmd_cache[1][1]    \* the frame in the cache

(* The cache holds the bytes of one frame from its length byte on; all of  *)
(* them, except while its body is read.                                    *)
CacheInv ==
  /\ \A j \in 1..Len(cmd_cache) : Is(cmd_cache[j], Kept, j - 1)
  /\ c_pc \in {"loop", "head"} /\ cmd_cache # <<>> => Len(cmd_cache) = Size(Kept) + 1
  /\ c_pc = "body" => cmd_cache # <<>> /\ Len(cmd_cache) <= Size(Kept)
  /\ c_pc = "write" => /\ cmd_cache # <<>> /\ Len(cmd_cache) = Size(Kept) + 1
                       /\ Size(Kept) > 0 /\ c_done < Len(cmd_cache)
  /\ cmd_cache # <<>> => Len(cmd_cache) <= Size(Kept) + 1
  /\ c_pc \in {"loop", "head", "body"} => c_done = 0

(* The last frame the device has, or that was empty. *)
Upto == IF cmd_cache = <<>> THEN 0
        ELSE IF c_pc \in {"loop", "head"} THEN Kept ELSE Kept - 1

LastDev == dev[Len(dev)]

(* The device has whole frames only, in order, up to the one the reader    *)
(* writes, and of that one what is written.                                *)
DeviceInv ==
  /\ FramesInOrder
  /\ \A i \in 1..Len(dev) : /\ dev[i][1] \in 1..Len(sent) /\ dev[i][2] \in 0..Size(dev[i][1])
                            /\ dev[i][1] < Len(sent) \/ rest = 0
  /\ c_pc # "exit" /\ c_done = 0 =>
       /\ dev = <<>> => \A k \in 1..Upto : Size(k) = 0
       /\ dev # <<>> => /\ LastDev[2] = Size(LastDev[1]) /\ LastDev[1] <= Upto
                        /\ \A k \in LastDev[1]+1..Upto : Size(k) = 0
  /\ c_pc = "write" /\ c_done > 0 => dev # <<>> /\ LastDev = cmd_cache[c_done]

CmdTypes == /\ sent \in Seq(Frame) /\ rest \in Nat /\ inq \in Seq(Byte)
            /\ peer \in {"open", "closed"}
            /\ c_pc \in {"loop", "head", "body", "write", "exit"} /\ c_fd \in {0, 1, -1}
            /\ cmd_cache \in Seq(Byte) /\ c_done \in Nat /\ c_done <= Len(cmd_cache)
            /\ dev \in Seq(Byte) /\ socket_fd \in {1, -1}

CmdInv == CmdTypes /\ Unbroken /\ CacheInv /\ DeviceInv

(* What was read and not written is what the status thread holds, as long  *)
(* as the connection is there.                                             *)
StatusInv ==
  /\ s_pc \in {"loop", "read", "write", "exit"}
  /\ s_len \in 0..MaxLen /\ s_done \in 0..s_len
  /\ pend \in Nat /\ nread \in Nat /\ nread + pend <= MaxUnits
  /\ out \in Seq(Nat)
  /\ s_pc = "write" => s_done < s_len /\ s_len <= nread
  /\ socket_fd = 1 /\ s_pc # "exit" =>
       Len(out) = nread - (IF s_pc = "write" THEN s_len - s_done ELSE 0)

ProcInv == /\ failed \subseteq {"read", "write"}
           /\ sys_status \in {"Running", "Stop"} /\ g_sem \in Nat
           /\ handler \in {"idle", "post"}
           /\ clear_pc \in {"wait", "reset", "close_dev", "close_conn", "exit", "exited"}

-----------------------------------------------------------------------------
(* The command stream *)

(* Lengths, and the two parts of each byte, are numbers. *)
LEMMA Numbers ==
  ASSUME CmdTypes
  PROVE  /\ Len(sent) \in Nat /\ \A k \in 1..Len(sent) : sent[k] \in Frame /\ Size(k) \in Nat
         /\ Len(inq) \in Nat
         /\ \A i \in 1..Len(inq) : inq[i] \in Byte /\ inq[i][1] \in Nat /\ inq[i][2] \in Nat
         /\ Len(cmd_cache) \in Nat /\ (cmd_cache # <<>> => Len(cmd_cache) > 0)
         /\ \A j \in 1..Len(cmd_cache) :
              cmd_cache[j] \in Byte /\ cmd_cache[j][1] \in Nat /\ cmd_cache[j][2] \in Nat
         /\ Len(dev) \in Nat /\ (dev # <<>> => Len(dev) > 0)
         /\ \A j \in 1..Len(dev) : dev[j] \in Byte /\ dev[j][1] \in Nat /\ dev[j][2] \in Nat
<1>1. ASSUME NEW s \in Seq(Byte)
      PROVE  /\ Len(s) \in Nat /\ (s # <<>> => Len(s) > 0)
             /\ \A i \in 1..Len(s) : s[i] \in Byte /\ s[i][1] \in Nat /\ s[i][2] \in Nat
  <2>1. Len(s) \in Nat /\ (s # <<>> => Len(s) \in Nat \ {0})
    BY <1>1, LenProperties, EmptySeq
  <2>2. \A i \in 1..Len(s) : s[i] \in Byte
    BY <1>1, ElementOfSeq
  <2> QED BY <2>1, <2>2 DEF Byte
<1>2. Len(sent) \in Nat /\ \A k \in 1..Len(sent) : sent[k] \in Frame
  BY LenProperties, ElementOfSeq DEF CmdTypes
<1>3. \A k \in 1..Len(sent) : Size(k) \in Nat
  BY <1>2, ChannelAssumption DEF Size
<1> QED BY <1>1, <1>2, <1>3 DEF CmdTypes

(* The frame in the cache has begun to arrive. *)
LEMMA KeptArrived ==
  ASSUME CmdInv, cmd_cache # <<>>
  PROVE  /\ Kept \in 1..Len(sent) /\ Size(Kept) \in Nat
         /\ Is(Ahead(0), Kept, Len(cmd_cache) - 1)
         /\ Kept < Len(sent) \/ Len(cmd_cache) - 1 <= Size(Kept) - rest
<1>1. From = 0 /\ Ahead(0) = cmd_cache[Len(cmd_cache)]
  BY DEF From, Ahead
<1>2. Len(inq) \in Nat /\ Len(cmd_cache) \in Nat /\ Len(cmd_cache) > 0 /\ Len(sent) \in Nat
  BY Numbers DEF CmdInv
<1>3. Arrived(Ahead(0))
  BY <1>1, <1>2 DEF CmdInv, Unbroken
<1>4. Is(Ahead(0), Kept, Len(cmd_cache) - 1)
  BY <1>1, <1>2 DEF CmdInv, CacheInv
<1>5. Kept \in 1..Len(sent)
  BY <1>3, <1>4 DEF Arrived, Is
<1>6. Size(Kept) \in Nat
  BY <1>5, Numbers DEF CmdInv
<1> QED BY <1>3, <1>4, <1>5, <1>6 DEF Arrived, Is

(* Steps that move no byte of the command stream. *)
LEMMA StillStep ==
  ASSUME CmdInv, CmdTypes', UNCHANGED <<sent, rest, inq, cmd_cache, c_done, dev>>,
         \/ c_pc' = c_pc
         \/ c_pc' = "exit"
         \/ c_pc = "loop" /\ c_pc' = "head"
  PROVE  CmdInv'
<1>1. Unbroken'
  BY DEF CmdInv, Unbroken, From, Ahead, Arrived, Size, Is
<1>2. CacheInv'
  BY DEF CmdInv, CacheInv, Kept, Size, Is
<1>3. DeviceInv'
  <2>1. FramesInOrder'
    BY DEF CmdInv, DeviceInv, FramesInOrder, Follows
  <2>2. c_pc' # "exit" => Upto' = Upto
    BY DEF CmdInv, Upto, Kept
  <2> QED BY <2>1, <2>2 DEF CmdInv, DeviceInv, LastDev, Size
<1> QED BY <1>1, <1>2, <1>3 DEF CmdInv

(* n bytes go from the connection to the cache, of which the last is the   *)
(* last the reader has read.                                               *)
LEMMA Consume ==
  ASSUME CmdInv, CmdTypes', UNCHANGED <<sent, rest>>,
         NEW n \in 1..Len(inq), Len(inq') = Len(inq) - n,
         \A i \in 1..Len(inq') : inq'[i] = inq[i + n],
         cmd_cache' # <<>>, cmd_cache'[Len(cmd_cache')] = inq[n]
  PROVE  Unbroken'
<1>1. Len(inq) \in Nat /\ Len(inq') \in Nat
  BY Numbers DEF CmdInv
<1>2. From' = 0 /\ From \in {0, 1}
  BY DEF From
<1>3. \A i \in 0..Len(inq') : i + n \in From..Len(inq) /\ Ahead(i)' = Ahead(i + n)
  <2> TAKE i \in 0..Len(inq')
  <2>1. i + n \in From..Len(inq) /\ i + n # 0
    BY <1>1, <1>2
  <2>2. Ahead(i + n) = inq[i + n]
    BY <2>1 DEF Ahead
  <2>3. CASE i = 0
    BY <2>1, <2>2, <2>3 DEF Ahead
  <2>4. CASE i # 0
    BY <1>1, <2>1, <2>2, <2>4 DEF Ahead
  <2> QED BY <2>3, <2>4
<1>4. \A i \in From'..Len(inq') : Arrived(Ahead(i))'
  BY <1>1, <1>2, <1>3 DEF CmdInv, Unbroken, Arrived, Size
<1>5. \A i \in From'..Len(inq'), m \in 1..Len(inq') :
        i + m <= Len(inq') /\ Ahead(i)'[2] + m <= Size(Ahead(i)[1])'
          => Is(Ahead(i + m)', Ahead(i)'[1], Ahead(i)'[2] + m)
  <2> SUFFICES ASSUME NEW i \in 0..Len(inq'), NEW m \in 1..Len(inq'), i + m <= Len(inq'),
                      Ahead(i)'[2] + m <= Size(Ahead(i)[1])'
               PROVE  Is(Ahead(i + m)', Ahead(i)'[1], Ahead(i)'[2] + m)
    BY <1>2
  <2>1. /\ i + n \in From..Len(inq) /\ Ahead(i)' = Ahead(i + n)
        /\ i + m \in 0..Len(inq') /\ Ahead(i + m)' = Ahead((i + n) + m)
        /\ (i + n) + m <= Len(inq) /\ m \in 1..Len(inq)
    <3>1. i + m \in 0..Len(inq') /\ (i + m) + n = (i + n) + m
      BY <1>1
    <3> QED BY <1>1, <1>3, <3>1
  <2>2. Ahead(i + n)[2] + m <= Size(Ahead(i + n)[1])
    BY <2>1 DEF Size
  <2> QED BY <2>1, <2>2 DEF CmdInv, Unbroken
<1>6. \A i \in From'..Len(inq')-1 :
        Ahead(i)'[2] = Size(Ahead(i)[1])' => Is(Ahead(i + 1)', Ahead(i)'[1] + 1, 0)
  <2> SUFFICES ASSUME NEW i \in 0..Len(inq')-1, Ahead(i)'[2] = Size(Ahead(i)[1])'
               PROVE  Is(Ahead(i + 1)', Ahead(i)'[1] + 1, 0)
    BY <1>2
  <2>1. /\ i + n \in From..Len(inq)-1 /\ Ahead(i)' = Ahead(i + n)
        /\ Ahead(i + 1)' = Ahead((i + n) + 1)
    <3>1. i + 1 \in 0..Len(inq') /\ (i + 1) + n = (i + n) + 1
      BY <1>1
    <3> QED BY <1>1, <1>3, <3>1
  <2> QED BY <2>1 DEF CmdInv, Unbroken, Size
<1>7. Is(Ahead(Len(inq))', Len(sent'), Size(Len(sent))' - rest')
  <2>1. Ahead(Len(inq))' = Ahead(Len(inq)) /\ From <= Len(inq)
    <3>1. Len(inq') \in 0..Len(inq') /\ Len(inq') + n = Len(inq)
      BY <1>1
    <3> QED BY <1>1, <1>3, <3>1
  <2> QED BY <2>1 DEF CmdInv, Unbroken, Size
<1> QED BY <1>1, <1>2, <1>4, <1>5, <1>6, <1>7 DEF Unbroken, Is

(* Before the reader takes a length byte, that byte comes next.            *)
LEMMA NextLength ==
  ASSUME CmdInv, c_pc = "head", inq # <<>>
  PROVE  Upto \in Nat /\ Is(inq[1], Upto + 1, 0) /\ Arrived(inq[1]) /\ Len(inq) > 0
<1>1. Len(inq) \in Nat /\ Len(inq) > 0
  BY EmptySeq DEF CmdInv, CmdTypes
<1>2. Arrived(inq[1])
  BY <1>1 DEF CmdInv, Unbroken, Ahead, From
<1>3. CASE cmd_cache = <<>>
  BY <1>1, <1>2, <1>3 DEF CmdInv, Unbroken, From, Upto
<1>4. CASE cmd_cache # <<>>
  <2>1. Upto = Kept /\ From = 0 /\ Ahead(1) = inq[1]
    BY <1>4 DEF Upto, From, Ahead
  <2>2. Is(Ahead(0), Kept, Size(Kept)) /\ Kept \in Nat
    BY <1>4, KeptArrived DEF CmdInv, CacheInv
  <2>3. Is(Ahead(0 + 1), Kept + 1, 0)
    BY <1>1, <2>1, <2>2 DEF CmdInv, Unbroken, Is
  <2> QED BY <1>1, <1>2, <2>1, <2>2, <2>3
<1> QED BY <1>3, <1>4

(* The length byte of a frame. *)
LEMMA HeadStep == ASSUME CmdInv, CmdTypes', CmdHead PROVE CmdInv'
<1>1. /\ c_pc = "head" /\ inq # <<>> /\ inq \in Seq(Byte)
      /\ cmd_cache' = <<inq[1]>> /\ inq' = Tail(inq)
      /\ c_pc' = IF Value(inq[1]) < 1 THEN "loop" ELSE "body"
      /\ UNCHANGED <<sent, rest, peer, c_done, dev>>
  BY DEF CmdHead, clientVars, CmdInv, CmdTypes
<1>2. Upto \in Nat /\ Is(inq[1], Upto + 1, 0) /\ Arrived(inq[1]) /\ Len(inq) > 0
  BY <1>1, NextLength
<1>0. PICK next \in Nat : next = Upto + 1
  BY <1>2
<1>3. /\ Len(cmd_cache') = 1 /\ cmd_cache' # <<>> /\ cmd_cache'[1] = inq[1]
      /\ Kept' = next
  BY <1>1, <1>2, <1>0 DEF Kept, Is
<1>4. Value(inq[1]) = Size(next) /\ Size(next) \in Nat /\ Size(next)' = Size(next)
  <2>1. next \in 1..Len(sent)
    BY <1>2, <1>0 DEF Is, Arrived
  <2> QED BY <1>1, <1>2, <1>0, <2>1, Numbers DEF Value, Size, Is, CmdInv
<1>5. Unbroken'
  <2>1. /\ Len(inq') = Len(inq) - 1
        /\ \A i \in 1..Len(inq') : inq'[i] = inq[i + 1]
    BY <1>1, HeadTailProperties
  <2>2. 1 \in 1..Len(inq)
    BY <1>1, <1>2, LenProperties
  <2> QED BY <1>1, <1>3, <2>1, <2>2, Consume
<1>6. Size(Kept)' = Size(next)
  BY <1>1, <1>3 DEF Size
<1>7. CacheInv'
  BY <1>1, <1>2, <1>0, <1>3, <1>4, <1>6 DEF CacheInv, CmdInv, Is
<1>8. DeviceInv'
  <2>1. FramesInOrder'
    BY <1>1 DEF CmdInv, DeviceInv, FramesInOrder, Follows
  <2>2. Upto' = Upto \/ (Upto' = Upto + 1 /\ Size(next) = 0)
    <3>1. Upto' = IF c_pc' \in {"loop", "head"} THEN next ELSE next - 1
      BY <1>3 DEF Upto
    <3>2. c_pc' = IF Size(next) < 1 THEN "loop" ELSE "body"
      BY <1>1, <1>4
    <3> QED BY <1>2, <1>0, <1>4, <3>1, <3>2
  <2>3. \A k \in Nat : k \in Upto+1..Upto' => Size(k) = 0
    BY <1>2, <1>0, <2>2
  <2>4. c_done = 0 /\ Len(dev) \in Nat /\ (dev # <<>> => LastDev[1] \in Nat)
    BY <1>1, Numbers DEF CmdInv, CacheInv, LastDev
  <2>5. dev = <<>> => \A k \in 1..Upto' : Size(k) = 0
    BY <1>1, <1>2, <2>3, <2>4, <2>2 DEF CmdInv, DeviceInv
  <2>6. dev # <<>> => /\ LastDev[2] = Size(LastDev[1]) /\ LastDev[1] <= Upto'
                      /\ \A k \in LastDev[1]+1..Upto' : Size(k) = 0
    BY <1>1, <1>2, <2>3, <2>4, <2>2 DEF CmdInv, DeviceInv
  <2>7. \A k : Size(k)' = Size(k)
    BY <1>1 DEF Size
  <2> QED BY <1>1, <2>1, <2>5, <2>6, <2>7 DEF CmdInv, DeviceInv, LastDev
<1> QED BY <1>5, <1>7, <1>8 DEF CmdInv

(* A part of the body. *)
LEMMA BodyStep == ASSUME CmdInv, CmdTypes', CmdBody PROVE CmdInv'
<1>1. PICK n \in 1..Len(inq) :
        /\ n <= Missing
        /\ cmd_cache' = cmd_cache \o SubSeq(inq, 1, n)
        /\ inq' = SubSeq(inq, n + 1, Len(inq))
        /\ c_pc' = IF n = Missing THEN "write" ELSE c_pc
  BY DEF CmdBody
<1>2. /\ c_pc = "body" /\ cmd_cache # <<>> /\ c_done = 0
      /\ UNCHANGED <<sent, rest, peer, c_done, dev>>
  BY DEF CmdBody, clientVars, CmdInv, CacheInv
<1> DEFINE N == Len(cmd_cache)
           M == Len(inq)
<1>3. /\ N \in Nat /\ N > 0 /\ M \in Nat /\ inq \in Seq(Byte) /\ cmd_cache \in Seq(Byte)
      /\ \A i \in 1..M : inq[i] \in Byte
  BY <1>2, Numbers DEF CmdInv, CmdTypes
<1>4. /\ Kept \in 1..Len(sent) /\ Size(Kept) \in Nat /\ Is(Ahead(0), Kept, N - 1)
      /\ Is(cmd_cache[1], Kept, 0) /\ Missing = Size(Kept) + 1 - N /\ N <= Size(Kept)
  <2>1. Is(cmd_cache[1], Kept, 0) /\ N <= Size(Kept)
    BY <1>2, <1>3 DEF CmdInv, CacheInv
  <2>2. Value(cmd_cache[1]) = Size(Kept)
    BY <2>1 DEF Value, Size, Is
  <2> QED BY <1>2, <2>1, <2>2, KeptArrived DEF Missing
<1>5. \A m \in 1..n : Is(inq[m], Kept, N - 1 + m)
  <2> TAKE m \in 1..n
  <2>1. /\ m \in 1..M /\ 0 \in From..M /\ 0 + m <= M /\ Ahead(0 + m) = inq[m]
        /\ Ahead(0)[2] + m <= Size(Ahead(0)[1])
    <3>1. m \in 1..M /\ m # 0 /\ 0 + m = m /\ m <= M /\ N - 1 + m <= Size(Kept)
      BY SMTT(30), <1>1, <1>3, <1>4
    <3>2. From = 0 /\ Ahead(m) = inq[m]
      BY <1>2, <3>1 DEF Ahead, From
    <3> QED BY <1>3, <1>4, <3>1, <3>2 DEF Is
  <2>2. Is(Ahead(0 + m), Ahead(0)[1], Ahead(0)[2] + m)
    BY <2>1 DEF CmdInv, Unbroken
  <2> QED BY <1>4, <2>1, <2>2 DEF Is
<1>6. /\ SubSeq(inq, 1, n) \in Seq(Byte) /\ Len(SubSeq(inq, 1, n)) = n
      /\ \A i \in 1..n : SubSeq(inq, 1, n)[i] = inq[i]
  BY <1>1, <1>3, SubSeqProperties
<1>7. /\ Len(inq') = M - n
      /\ \A i \in 1..Len(inq') : inq'[i] = inq[i + n]
  <2>1. /\ Len(inq') = IF n + 1 <= M THEN M - (n + 1) + 1 ELSE 0
        /\ \A i \in 1..M - (n + 1) + 1 : inq'[i] = inq[n + 1 + i - 1]
    BY <1>1, <1>3, SubSeqProperties
  <2> QED BY <1>1, <1>3, <2>1
<1>8. /\ Len(cmd_cache') = N + n /\ cmd_cache' # <<>>
      /\ \A j \in 1..N : cmd_cache'[j] = cmd_cache[j]
      /\ \A j \in 1..n : cmd_cache'[N + j] = inq[j]
  <2>1. /\ Len(cmd_cache') = N + n
        /\ \A j \in 1..N + n : cmd_cache'[j] =
             IF j <= N THEN cmd_cache[j] ELSE SubSeq(inq, 1, n)[j - N]
    BY <1>1, <1>3, <1>6, ConcatProperties
  <2>2. cmd_cache' # <<>>
    BY <1>1, <1>3, <2>1
  <2> QED BY <1>1, <1>3, <1>6, <2>1, <2>2
<1>9. Unbroken'
  BY <1>1, <1>2, <1>3, <1>7, <1>8, Consume
<1>10. Kept' = Kept /\ Size(Kept)' = Size(Kept)
  <2>1. 1 \in 1..N
    BY <1>3
  <2> QED BY <1>2, <1>8, <2>1 DEF Kept, Size
<1>11. CacheInv'
  <2>1. \A j \in 1..N + n : Is(cmd_cache'[j], Kept, j - 1)
    <3> TAKE j \in 1..N + n
    <3>1. CASE j <= N
      BY <1>1, <1>3, <1>8, <3>1 DEF CmdInv, CacheInv
    <3>2. CASE j > N
      <4>1. j - N \in 1..n /\ N + (j - N) = j /\ N - 1 + (j - N) = j - 1
        BY <1>1, <1>3, <3>2
      <4> QED BY <1>5, <1>8, <4>1
    <3> QED BY <1>1, <1>3, <3>1, <3>2
  <2>2. CASE n = Missing
    <3>1. N + n = Size(Kept) + 1 /\ Size(Kept) > 0
      <4>1. PICK z \in Nat, m \in Nat : z = Size(Kept) /\ m = N
        BY <1>3, <1>4
      <4>2. n = z + 1 - m /\ m <= z /\ m > 0
        BY <1>3, <1>4, <2>2, <4>1
      <4>3. m + n = z + 1 /\ z > 0
        BY <4>2
      <4> QED BY <4>1, <4>3
    <3>2. c_pc' = "write"
      BY <1>1, <2>2
    <3> QED BY <1>2, <1>3, <1>8, <1>10, <2>1, <3>1, <3>2 DEF CacheInv
  <2>3. CASE n # Missing
    <3>1. N + n <= Size(Kept)
      BY <1>1, <1>3, <1>4, <2>3
    <3>2. c_pc' = "body"
      BY <1>1, <1>2, <2>3
    <3> QED BY <1>2, <1>3, <1>4, <1>8, <1>10, <2>1, <3>1, <3>2 DEF CacheInv
  <2> QED BY <2>2, <2>3
<1>12. DeviceInv'
  <2>1. FramesInOrder'
    BY <1>2 DEF CmdInv, DeviceInv, FramesInOrder, Follows
  <2>2. Upto' = Upto
    BY <1>1, <1>2, <1>8, <1>10 DEF Upto
  <2> QED BY <1>1, <1>2, <2>1, <2>2 DEF CmdInv, DeviceInv, LastDev, Size
<1> QED BY <1>9, <1>11, <1>12 DEF CmdInv

(* A part of the frame goes to the device. *)
LEMMA WriteStep == ASSUME CmdInv, CmdTypes', CmdWrite PROVE CmdInv'
<1> DEFINE N == Len(cmd_cache)
           D == Len(dev)
<1>1. PICK n \in 1..N - c_done :
        /\ dev' = dev \o SubSeq(cmd_cache, c_done + 1, c_done + n)
        /\ IF c_done + n = N THEN c_pc' = "loop" /\ c_done' = 0
           ELSE c_done' = c_done + n /\ UNCHANGED c_pc
  BY DEF CmdWrite
<1>2. /\ c_pc = "write" /\ cmd_cache # <<>> /\ N = Size(Kept) + 1 /\ Size(Kept) > 0
      /\ c_done < N /\ c_done \in Nat
      /\ UNCHANGED <<sent, rest, inq, cmd_cache>>
  BY DEF CmdWrite, clientVars, CmdInv, CacheInv, CmdTypes
<1>3. /\ N \in Nat /\ D \in Nat /\ dev \in Seq(Byte) /\ cmd_cache \in Seq(Byte)
      /\ \A j \in 1..N : cmd_cache[j] \in Byte /\ Is(cmd_cache[j], Kept, j - 1)
  BY Numbers DEF CmdInv, CmdTypes, CacheInv
<1>4. PICK K \in 1..Len(sent) : K = Kept
  BY <1>2, KeptArrived
<1>5. /\ Size(K) \in Nat /\ N = Size(K) + 1 /\ K \in Nat
      /\ K < Len(sent) \/ rest = 0
  BY <1>2, <1>3, <1>4, KeptArrived DEF CmdInv, CmdTypes
<1> DEFINE piece == SubSeq(cmd_cache, c_done + 1, c_done + n)
<1>6. n \in Nat /\ n > 0 /\ c_done + n <= N
  BY <1>1, <1>2, <1>3
<1>7. /\ piece \in Seq(Byte) /\ Len(piece) = n
      /\ \A j \in 1..n : piece[j] = cmd_cache[c_done + j]
  <2>1. \A j \in c_done + 1 .. c_done + n : cmd_cache[j] \in Byte
    BY <1>2, <1>3, <1>6
  <2>2. /\ piece \in Seq(Byte)
        /\ Len(piece) = IF c_done + 1 <= c_done + n THEN (c_done + n) - (c_done + 1) + 1 ELSE 0
        /\ \A j \in 1..(c_done + n) - (c_done + 1) + 1 :
             piece[j] = cmd_cache[(c_done + 1) + j - 1]
    <3>1. c_done + 1 \in Int /\ c_done + n \in Int
      BY <1>2, <1>6
    <3> HIDE DEF piece
    <3> QED BY <2>1, <3>1, SubSeqProperties DEF piece
  <2> HIDE DEF piece
  <2> QED BY <1>2, <1>6, <2>2
<1>8. /\ Len(dev') = D + n /\ dev' # <<>>
      /\ \A j \in 1..D : dev'[j] = dev[j]
      /\ \A j \in 1..n : dev'[D + j] = cmd_cache[c_done + j]
  <2> HIDE DEF piece
  <2>1. /\ Len(dev') = D + n
        /\ \A j \in 1..D + n : dev'[j] = IF j <= D THEN dev[j] ELSE piece[j - D]
    <3>1. dev' = dev \o piece
      BY <1>1 DEF piece
    <3> QED BY <1>3, <1>7, <3>1, ConcatProperties
  <2>2. \A j \in 1..n : dev'[D + j] = piece[j]
    <3> TAKE j \in 1..n
    <3>1. D + j \in 1..D + n /\ ~(D + j <= D) /\ (D + j) - D = j
      BY <1>3, <1>6
    <3> QED BY <2>1, <3>1
  <2>3. \A j \in 1..D : j \in 1..D + n /\ j <= D
    BY <1>3, <1>6
  <2>4. dev' # <<>>
    BY <1>3, <1>6, <2>1
  <2> QED BY <1>7, <2>1, <2>2, <2>3, <2>4
<1> HIDE DEF piece
<1>9. \A j \in 1..n : Is(dev'[D + j], K, c_done + j - 1) /\ dev'[D + j] = <<K, c_done + j - 1>>
  <2> TAKE j \in 1..n
  <2>1. c_done + j \in 1..N
    BY <1>2, <1>3, <1>6
  <2>2. PICK x \in 1..N : x = c_done + j
    BY <2>1
  <2>3. cmd_cache[x] \in Byte /\ Is(cmd_cache[x], K, x - 1)
    BY <1>3, <1>4
  <2>4. cmd_cache[x] = <<K, x - 1>>
    BY <2>3 DEF Byte, Is
  <2>5. dev'[D + j] = cmd_cache[x] /\ c_done + j - 1 = x - 1
    <3>1. c_done + j - 1 = x - 1
      BY <1>2, <2>2
    <3> QED BY <1>8, <2>2, <3>1
  <2> QED BY <2>3, <2>4, <2>5
<1>10. Unbroken'
  BY <1>2 DEF CmdInv, Unbroken, From, Ahead, Arrived, Size
<1>11. CacheInv'
  <2>1. Kept' = Kept /\ Size(Kept)' = Size(Kept)
    BY <1>2 DEF Kept, Size
  <2>2. CASE c_done + n = N
    BY <1>1, <1>2, <1>3, <2>1, <2>2 DEF CacheInv
  <2>3. CASE c_done + n # N
    <3>1. c_done + n < N
      BY <1>2, <1>3, <1>6, <2>3
    <3>2. c_pc' = "write" /\ c_done' < N
      BY <1>1, <1>2, <2>3, <3>1
    <3> QED BY <1>2, <1>3, <2>1, <3>2 DEF CacheInv
  <2> QED BY <2>2, <2>3
<1>12. Upto = K - 1 /\ (dev = <<>> => c_done = 0)
  BY <1>2, <1>4 DEF Upto, CmdInv, DeviceInv
<1>13. FramesInOrder'
  <2>1. dev'[1][2] = 0 /\ \A k \in 1..dev'[1][1]-1 : Size(k) = 0
    <3>1. CASE dev = <<>>
      <4>1. D = 0 /\ D + 1 = 1 /\ c_done = 0
        BY <1>12, <3>1
      <4>2. Is(dev'[1], K, 0)
        BY <1>6, <1>9, <4>1
      <4>3. \A k \in 1..K-1 : Size(k) = 0
        BY <1>2, <1>12, <3>1, <4>1 DEF CmdInv, DeviceInv
      <4> QED BY <4>2, <4>3 DEF Is
    <3>2. CASE dev # <<>>
      <4>1. dev'[1] = dev[1]
        BY <1>8, <3>2, Numbers DEF CmdInv
      <4> QED BY <3>2, <4>1 DEF CmdInv, DeviceInv, FramesInOrder, Size
    <3> QED BY <3>1, <3>2
  <2>2. ASSUME NEW i \in 1..Len(dev')-1 PROVE Follows(dev'[i], dev'[i+1])
    <3>1. CASE i < D
      <4>1. i \in 1..D-1 /\ i \in 1..D /\ i + 1 \in 1..D
        BY <1>3, <1>8, <3>1
      <4> QED BY <1>8, <4>1 DEF CmdInv, DeviceInv, FramesInOrder
    <3>2. CASE i = D
      <4>1. dev # <<>> /\ dev'[i] = LastDev /\ Is(dev'[i+1], K, c_done)
            /\ dev'[i+1] = <<K, c_done>>
        <5>1. D \in 1..D /\ 1 \in 1..n /\ c_done + 1 - 1 = c_done
          BY <1>2, <1>3, <1>6, <3>2
        <5> QED BY <1>8, <1>9, <3>2, <5>1 DEF LastDev
      <4>2. CASE c_done = 0
        <5>1. /\ LastDev[2] = Size(LastDev[1]) /\ LastDev[1] <= K - 1
              /\ \A k \in LastDev[1]+1..K-1 : Size(k) = 0
          BY <1>2, <1>12, <4>1, <4>2 DEF CmdInv, DeviceInv
        <5>2. LastDev[1] \in Nat
          BY <4>1, Numbers DEF CmdInv, LastDev
        <5> QED BY <1>5, <4>1, <4>2, <5>1, <5>2 DEF Follows, Size, Is
      <4>3. CASE c_done # 0
        <5>1. LastDev = cmd_cache[c_done] /\ c_done \in 1..N
          BY <1>2, <1>3, <4>3 DEF CmdInv, DeviceInv
        <5>2. Is(LastDev, K, c_done - 1)
          BY <1>3, <1>4, <5>1
        <5>3. c_done - 1 < Size(K) /\ c_done - 1 + 1 = c_done
          BY <1>2, <1>5
        <5> QED BY <4>1, <5>2, <5>3 DEF Follows, Size, Is
      <4> QED BY <4>2, <4>3
    <3>3. CASE i > D
      <4>1. PICK j \in 1..n : i = D + j /\ j + 1 \in 1..n
        <5>1. i - D \in 1..n /\ i = D + (i - D) /\ (i - D) + 1 \in 1..n
          BY <1>3, <1>6, <1>8, <3>3
        <5> QED BY <5>1
      <4>2. /\ Is(dev'[i], K, c_done + j - 1)
            /\ dev'[i + 1] = <<K, c_done + (j + 1) - 1>>
        <5>1. i + 1 = D + (j + 1)
          BY <1>3, <4>1
        <5> QED BY <1>9, <4>1, <5>1
      <4>3. c_done + j - 1 < Size(K) /\ c_done + (j + 1) - 1 = c_done + j - 1 + 1
        BY <1>2, <1>5, <1>6, <4>1
      <4> QED BY <4>2, <4>3 DEF Follows, Size, Is
    <3> QED BY <1>3, <3>1, <3>2, <3>3
  <2> QED BY <1>2, <2>1, <2>2 DEF FramesInOrder, Follows, Size
<1>14. \A i \in 1..Len(dev') :
         /\ dev'[i][1] \in 1..Len(sent) /\ dev'[i][2] \in 0..Size(dev'[i][1])
         /\ dev'[i][1] < Len(sent) \/ rest = 0
  <2> TAKE i \in 1..Len(dev')
  <2>1. CASE i <= D
    <3>1. i \in 1..D /\ dev'[i] = dev[i]
      BY <1>3, <1>8, <2>1
    <3> QED BY <3>1 DEF CmdInv, DeviceInv
  <2>2. CASE i > D
    <3>1. PICK j \in 1..n : i = D + j
      <4>1. i - D \in 1..n /\ i = D + (i - D)
        BY <1>3, <1>6, <1>8, <2>2
      <4> QED BY <4>1
    <3>2. Is(dev'[i], K, c_done + j - 1)
      BY <1>9, <3>1
    <3>3. c_done + j - 1 \in 0..Size(K)
      BY <1>2, <1>3, <1>5, <1>6
    <3> QED BY <1>4, <1>5, <3>2, <3>3 DEF Is
  <2> QED BY <1>3, <1>8, <2>1, <2>2
<1>15. LastDev' = cmd_cache[c_done + n] /\ Is(LastDev', K, c_done + n - 1)
  BY <1>6, <1>8, <1>9 DEF LastDev
<1>16. DeviceInv'
  <2>1. CASE c_done + n = N
    <3>1. c_pc' = "loop" /\ c_done' = 0 /\ Upto' = K
      BY <1>1, <1>2, <1>4, <2>1 DEF Upto, Kept
    <3>2. LastDev'[1] = K /\ LastDev'[2] = Size(K)
      BY <1>2, <1>5, <1>6, <1>15, <2>1 DEF Is
    <3>3. \A k \in LastDev'[1]+1..Upto' : FALSE
      BY <1>5, <3>1, <3>2
    <3> QED BY <1>2, <1>5, <1>8, <1>13, <1>14, <3>1, <3>2, <3>3 DEF DeviceInv, Size
  <2>2. CASE c_done + n # N
    <3>1. c_pc' = "write" /\ c_done' = c_done + n /\ c_done' # 0
      BY <1>1, <1>2, <1>6, <2>2
    <3> QED BY <1>2, <1>8, <1>13, <1>14, <1>15, <3>1 DEF DeviceInv, Size
  <2> QED BY <2>1, <2>2
<1> QED BY <1>10, <1>11, <1>16 DEF CmdInv

(* More of the stream changes nothing of what was read and written. *)
LEMMA Grows ==
  ASSUME CmdInv, UNCHANGED <<c_pc, cmd_cache, c_done, dev>>,
         Len(sent') \in Nat, Len(sent') >= Len(sent),
         \A k \in 1..Len(sent) : sent'[k] = sent[k],
         Len(sent') > Len(sent) \/ rest > 0
  PROVE  CacheInv' /\ DeviceInv'
<1>1. /\ Len(sent) \in Nat
      /\ \A k \in 1..Len(sent) : Size(k)' = Size(k)
  BY Numbers DEF CmdInv, Size
<1>2. CacheInv'
  <2>1. cmd_cache # <<>> => Kept \in 1..Len(sent) /\ Kept' = Kept /\ Size(Kept)' = Size(Kept)
    BY <1>1, KeptArrived DEF Kept, Size
  <2> QED BY <2>1 DEF CmdInv, CacheInv, Kept, Is
<1>3. Upto \in 0..Len(sent) /\ Upto' = Upto
  BY <1>1, KeptArrived DEF Upto, Kept
<1>4. \A i \in 1..Len(dev) : /\ dev[i][1] \in 1..Len(sent)
                             /\ Size(dev[i][1])' = Size(dev[i][1])
  BY <1>1 DEF CmdInv, DeviceInv, Size
<1>5. Len(dev) \in Nat /\ (dev # <<>> => Len(dev) \in 1..Len(dev) /\ 1 \in 1..Len(dev))
  BY Numbers DEF CmdInv
<1>6. FramesInOrder'
  <2>1. dev # <<>> => dev[1][2] = 0 /\ \A k \in 1..dev[1][1]-1 : Length[sent'[k]] = 0
    <3> SUFFICES ASSUME dev # <<>>, NEW k \in 1..dev[1][1]-1 PROVE k \in 1..Len(sent)
      BY <1>1 DEF CmdInv, DeviceInv, FramesInOrder, Size
    <3> QED BY <1>1, <1>4, <1>5
  <2>2. ASSUME NEW i \in 1..Len(dev)-1 PROVE Follows(dev[i], dev[i+1])'
    <3>1. i \in 1..Len(dev) /\ i + 1 \in 1..Len(dev)
      BY <1>5
    <3>2. Follows(dev[i], dev[i+1])
      BY <2>2 DEF CmdInv, DeviceInv, FramesInOrder
    <3>3. dev[i][1] \in 1..Len(sent) /\ dev[i+1][1] \in 1..Len(sent)
      BY <1>4, <3>1
    <3>4. \A k \in dev[i][1]+1..dev[i+1][1]-1 : k \in 1..Len(sent)
      BY <1>1, <3>3, SMTT(20)
    <3> QED BY <1>1, <3>2, <3>3, <3>4 DEF Follows, Size
  <2> QED BY <2>1, <2>2 DEF FramesInOrder
<1>7. \A i \in 1..Len(dev) : dev[i][1] < Len(sent')
  BY <1>1, <1>4 DEF CmdInv, DeviceInv, CmdTypes
<1>8. DeviceInv'
  <2>1. dev # <<>> => LastDev' = LastDev /\ LastDev[1] \in 1..Len(sent)
    BY <1>4, <1>5 DEF LastDev
  <2>2. \A k \in 1..Upto : k \in 1..Len(sent)
    BY <1>1, <1>3
  <2>3. dev # <<>> => \A k \in LastDev[1]+1..Upto : k \in 1..Len(sent)
    BY <1>1, <1>3, <2>1
  <2>4. c_pc # "exit" /\ c_done = 0 =>
          /\ dev = <<>> => \A k \in 1..Upto : Size(k)' = 0
          /\ dev # <<>> => /\ LastDev[2] = Size(LastDev[1])' /\ LastDev[1] <= Upto
                           /\ \A k \in LastDev[1]+1..Upto : Size(k)' = 0
    BY <1>1, <2>1, <2>2, <2>3 DEF CmdInv, DeviceInv, Size
  <2>5. c_pc = "write" /\ c_done > 0 => dev # <<>> /\ LastDev' = cmd_cache[c_done]
    BY <2>1 DEF CmdInv, DeviceInv
  <2>6. \A i \in 1..Len(dev) :
          /\ dev[i][1] \in 1..Len(sent') /\ dev[i][2] \in 0..Size(dev[i][1])'
    <3> TAKE i \in 1..Len(dev)
    <3>1. dev[i][2] \in 0..Size(dev[i][1])
      BY DEF CmdInv, DeviceInv
    <3> QED BY <1>1, <1>4, <3>1
  <2> QED BY <1>3, <1>6, <1>7, <2>1, <2>4, <2>5, <2>6 DEF DeviceInv, Size
<1> QED BY <1>2, <1>8

(* One more byte arrives, the next of the stream. *)
LEMMA AppendByte ==
  ASSUME CmdInv, UNCHANGED cmd_cache, NEW b \in Byte, inq' = Append(inq, b),
         \A k \in 1..Len(sent) : sent'[k] = sent[k],
         \A a : Arrived(a) => Arrived(a)',
         Arrived(b)', Is(b, Len(sent'), Length[sent'[Len(sent')]] - rest'),
         From > Len(inq) => Is(b, 1, 0),
         From <= Len(inq) =>
           LET a == Ahead(Len(inq)) IN \/ a[2] < Size(a[1]) /\ Is(b, a[1], a[2] + 1)
                                       \/ a[2] = Size(a[1]) /\ Is(b, a[1] + 1, 0)
  PROVE  Unbroken'
<1>0. PICK M \in Nat : M = Len(inq)
  BY Numbers DEF CmdInv
<1>1. /\ M = Len(inq) /\ From \in {0, 1} /\ From' = From
      /\ Len(inq') = M + 1 /\ inq'[M + 1] = b /\ \A i \in 1..M : inq'[i] = inq[i]
  BY <1>0, AppendProperties DEF From, CmdInv, CmdTypes
<1>2. \A i \in From..M : Ahead(i)' = Ahead(i) /\ i \in Nat
  BY <1>1 DEF Ahead
<1>3. Ahead(M + 1)' = b
  <2>1. inq'[M + 1] = b /\ Len(inq') = M + 1 /\ M + 1 # 0
    BY <1>1
  <2> QED BY <2>1, <1>1 DEF Ahead
<1>4. \A i \in From..M :
        /\ Arrived(Ahead(i)) /\ Size(Ahead(i)[1])' = Size(Ahead(i)[1])
        /\ Ahead(i)[1] \in Nat /\ Ahead(i)[2] \in Nat /\ Size(Ahead(i)[1]) \in Nat
  <2> TAKE i \in From..M
  <2>1. Arrived(Ahead(i))
    BY <1>1 DEF CmdInv, Unbroken
  <2>2. Ahead(i)[1] \in 1..Len(sent) /\ Ahead(i)[2] \in 0..Size(Ahead(i)[1])
    BY <2>1 DEF Arrived
  <2>3. Ahead(i)[1] \in Nat /\ Size(Ahead(i)[1]) \in Nat
    BY <2>2, Numbers DEF CmdInv
  <2>4. \A k \in 1..Len(sent) : Length[sent'[k]] = Length[sent[k]]
    OBVIOUS
  <2> QED BY <1>2, <2>1, <2>2, <2>3, <2>4 DEF Size
<1>5. \A i \in From'..Len(inq') : Arrived(Ahead(i))'
  <2> SUFFICES ASSUME NEW i \in From..M+1 PROVE Arrived(Ahead(i))'
    BY <1>1
  <2>1. PICK a : /\ a = Ahead(i)' /\ Arrived(a)'
    <3>1. CASE i = M + 1
      BY <1>3, <3>1
    <3>2. CASE i # M + 1
      <4>1. i \in From..M
        BY <1>1, <3>2
      <4> QED BY <1>2, <1>4, <4>1
    <3> QED BY <3>1, <3>2
  <2> QED BY <2>1 DEF Arrived, Size
<1>6. \A i \in From'..Len(inq'), m \in 1..Len(inq') :
        i + m <= Len(inq') /\ Ahead(i)'[2] + m <= Size(Ahead(i)[1])'
          => Is(Ahead(i + m)', Ahead(i)'[1], Ahead(i)'[2] + m)
  <2> SUFFICES ASSUME NEW i \in From'..Len(inq'), NEW m \in 1..Len(inq'), i + m <= Len(inq'),
                      Ahead(i)'[2] + m <= Size(Ahead(i)[1])'
               PROVE  Is(Ahead(i + m)', Ahead(i)'[1], Ahead(i)'[2] + m)
    OBVIOUS
  <2>1. i \in From..M /\ m \in 1..M+1 /\ i + m <= M + 1
    BY <1>1
  <2>2. PICK k \in Nat, j \in Nat : k = Ahead(i)[1] /\ j = Ahead(i)[2]
    BY <1>4, <2>1
  <2>3. Ahead(i)' = Ahead(i) /\ Size(k) \in Nat /\ j + m <= Size(k)
    BY <1>2, <1>4, <2>1, <2>2
  <2>4. \A x \in 1..M : i + x <= M /\ j + x <= Size(k) => Is(Ahead(i + x), k, j + x)
    BY <1>1, <2>1, <2>2 DEF CmdInv, Unbroken
  <2>5. CASE i + m <= M
    <3>1. m \in 1..M /\ i + m \in From..M
      BY <1>1, <2>1, <2>5
    <3> QED BY <1>2, <2>2, <2>3, <2>4, <2>5, <3>1
  <2>6. CASE i + m = M + 1
    <3>1. From <= M /\ Is(Ahead(M), k, j + (m - 1))
      <4>1. CASE m = 1
        <5>1. i = M /\ From <= M /\ j + (m - 1) = j
          BY <1>1, <2>1, <2>6, <4>1
        <5>2. Is(Ahead(M), k, j)
          BY <2>2, <5>1 DEF Is
        <5> QED BY <5>1, <5>2
      <4>2. CASE m # 1
        <5>1. PICK x \in 1..M : x = m - 1
          BY <1>1, <2>1, <2>6, <4>2
        <5>2. i + x = M /\ i + x <= M /\ From <= M /\ j + x <= Size(k) /\ m - 1 = x
          BY <1>1, <2>1, <2>3, <2>6, <5>1
        <5>3. Is(Ahead(i + x), k, j + x)
          BY <2>4, <5>2
        <5> QED BY <5>2, <5>3
      <4> QED BY <4>1, <4>2
    <3>2. j + (m - 1) < Size(k) /\ j + (m - 1) + 1 = j + m
      BY <2>1, <2>3
    <3>3. Is(b, k, j + m)
      BY <1>1, <2>3, <3>1, <3>2 DEF Is
    <3> QED BY <1>3, <2>2, <2>3, <2>6, <3>3
  <2>7. i + m \in Int /\ (i + m <= M \/ i + m = M + 1)
    BY <1>1, <2>1
  <2> QED BY <2>5, <2>6, <2>7
<1>7. \A i \in From'..Len(inq')-1 :
        Ahead(i)'[2] = Size(Ahead(i)[1])' => Is(Ahead(i + 1)', Ahead(i)'[1] + 1, 0)
  <2>0. Len(inq')-1 = M
    BY <1>1
  <2> SUFFICES ASSUME NEW i \in From..M, Ahead(i)[2] = Size(Ahead(i)[1])
               PROVE  Is(Ahead(i + 1)', Ahead(i)[1] + 1, 0)
    <3>1. From' = From
      BY <1>1
    <3> QED BY <1>2, <1>4, <2>0, <3>1
  <2>1. CASE i < M
    <3>1. i \in From..Len(inq)-1 /\ i + 1 \in From..M
      BY <1>1, <2>1
    <3> QED BY <1>2, <3>1 DEF CmdInv, Unbroken
  <2>2. CASE i = M
    <3>1. Is(b, Ahead(M)[1] + 1, 0)
      BY <1>1, <1>4, <2>2
    <3> QED BY <1>3, <2>2, <3>1
  <2> QED BY <1>1, <2>1, <2>2
<1>8. From' = 1 /\ inq' # <<>> => Is(inq'[1], 1, 0)
  <2>1. CASE M = 0
    BY <1>1, <2>1
  <2>2. CASE M > 0
    <3>1. inq # <<>> /\ inq'[1] = inq[1]
      BY <1>1, <2>2, EmptySeq DEF CmdInv, CmdTypes
    <3> QED BY <1>1, <3>1 DEF CmdInv, Unbroken
  <2> QED BY <1>1, <2>1, <2>2
<1>9. Is(Ahead(Len(inq))', Len(sent'), Length[sent'[Len(sent')]] - rest')
  BY <1>1, <1>3 DEF Ahead
<1>10. ~(From' > Len(inq'))
  BY <1>1
<1> QED BY <1>5, <1>6, <1>7, <1>8, <1>9, <1>10 DEF Unbroken, Size, Is

(* What has been sent and ended in the connection: the last byte.          *)
LEMMA LastSent ==
  ASSUME CmdInv, From <= Len(inq)
  PROVE  /\ Len(sent) \in 1..Len(sent) /\ Size(Len(sent)) \in Nat /\ rest \in 0..Size(Len(sent))
         /\ Is(Ahead(Len(inq)), Len(sent), Size(Len(sent)) - rest)
<1>1. Arrived(Ahead(Len(inq))) /\ Is(Ahead(Len(inq)), Len(sent), Size(Len(sent)) - rest)
  <2>1. Len(inq) \in From..Len(inq)
    BY Numbers DEF CmdInv, From
  <2> QED BY <2>1 DEF CmdInv, Unbroken
<1>2. Len(sent) \in 1..Len(sent) /\ Size(Len(sent)) - rest \in 0..Size(Len(sent))
  BY <1>1 DEF Arrived, Is
<1>3. Size(Len(sent)) \in Nat
  BY <1>2, Numbers DEF CmdInv
<1> QED BY <1>1, <1>2, <1>3 DEF CmdInv, CmdTypes

(* The length byte of one more frame. *)
LEMMA ClientFrameStep ==
  ASSUME CmdInv, CmdTypes', ClientFrame, UNCHANGED <<cmdVars, dev>>
  PROVE  CmdInv'
<1>1. PICK f \in Frame : sent' = Append(sent, f) /\ rest' = Length[f]
  BY DEF ClientFrame
<1>2. PICK L \in Nat : L = Len(sent)
  BY Numbers DEF CmdInv
<1>3. /\ Len(sent') = L + 1 /\ sent'[L + 1] = f /\ \A k \in 1..L : sent'[k] = sent[k]
      /\ Length[f] \in Nat
  BY <1>1, <1>2, AppendProperties, ChannelAssumption DEF CmdInv, CmdTypes
<1>4. /\ rest = 0 /\ inq' = Append(inq, <<L + 1, 0>>)
      /\ UNCHANGED <<c_pc, cmd_cache, c_done, dev>>
  BY <1>3 DEF ClientFrame, cmdVars
<1>5. \A a : Arrived(a) => Arrived(a)'
  <2> SUFFICES ASSUME NEW a, Arrived(a) PROVE Arrived(a)'
    OBVIOUS
  <2>1. a[1] \in 1..L /\ Size(a[1])' = Size(a[1])
    BY <1>2, <1>3 DEF Arrived, Size
  <2>2. a[1] \in 1..L + 1 /\ a[1] < L + 1
    BY <2>1
  <2> QED BY <1>3, <2>1, <2>2 DEF Arrived
<1>6. Unbroken'
  <2>1. <<L + 1, 0>> \in Byte
    BY DEF Byte
  <2>2. Arrived(<<L + 1, 0>>)'
    <3>1. Size(L + 1)' = Length[f]
      BY <1>3 DEF Size
    <3> QED BY <1>1, <1>3, <3>1 DEF Arrived
  <2>3. Is(<<L + 1, 0>>, Len(sent'), Length[sent'[Len(sent')]] - rest')
    BY <1>1, <1>3 DEF Is
  <2>4. From > Len(inq) => Is(<<L + 1, 0>>, 1, 0)
    BY <1>2 DEF CmdInv, Unbroken, Is
  <2>5. From <= Len(inq) =>
          /\ Ahead(Len(inq))[2] = Size(Ahead(Len(inq))[1])
          /\ Is(<<L + 1, 0>>, Ahead(Len(inq))[1] + 1, 0)
    BY <1>2, <1>4, LastSent DEF Is
  <2> QED BY <1>2, <1>3, <1>4, <1>5, <2>1, <2>2, <2>3, <2>4, <2>5, AppendByte
<1>7. CacheInv' /\ DeviceInv'
  BY <1>2, <1>3, <1>4, Grows
<1> QED BY <1>6, <1>7 DEF CmdInv

(* One more byte of the frame begun last. *)
LEMMA ClientByteStep ==
  ASSUME CmdInv, CmdTypes', ClientByte, UNCHANGED <<cmdVars, dev>>
  PROVE  CmdInv'
<1>1. /\ rest > 0 /\ rest \in Nat /\ rest' = rest - 1
      /\ UNCHANGED <<sent, c_pc, cmd_cache, c_done, dev>>
  BY DEF ClientByte, cmdVars, CmdInv, CmdTypes
<1>2. From <= Len(inq)
  BY <1>1, Numbers DEF CmdInv, Unbroken, From
<1>3. PICK L \in Nat, z \in Nat : /\ L = Len(sent) /\ z = Size(L)
                                  /\ L \in 1..L /\ rest \in 0..z
                                  /\ Is(Ahead(Len(inq)), L, z - rest)
  BY <1>2, LastSent, Numbers DEF CmdInv
<1>4. PICK b : b = <<L, z + 1 - rest>>
  OBVIOUS
<1>5. inq' = Append(inq, b) /\ Size(L)' = z
  BY <1>1, <1>3, <1>4 DEF ClientByte, Size
<1>6. b \in Byte /\ Is(b, L, z + 1 - rest) /\ z + 1 - rest \in 0..z
  BY <1>1, <1>3, <1>4 DEF Byte, Is
<1>7. \A a : Arrived(a) => Arrived(a)'
  <2> SUFFICES ASSUME NEW a, Arrived(a) PROVE Arrived(a)'
    OBVIOUS
  <2>1. a[1] \in 1..Len(sent) /\ Size(a[1])' = Size(a[1]) /\ Size(a[1]) \in Nat /\ a[2] \in Nat
    BY <1>1, Numbers DEF Arrived, Size, CmdInv
  <2> QED BY <1>1, <2>1 DEF Arrived
<1>8. Unbroken'
  <2>1. Arrived(b)'
    BY <1>1, <1>3, <1>5, <1>6 DEF Arrived, Is
  <2>2. Is(b, Len(sent'), Length[sent'[Len(sent')]] - rest')
    BY <1>1, <1>3, <1>6 DEF Is, Size
  <2>3. /\ Ahead(Len(inq))[2] < Size(Ahead(Len(inq))[1])
        /\ Is(b, Ahead(Len(inq))[1], Ahead(Len(inq))[2] + 1)
    BY <1>1, <1>3, <1>6 DEF Is
  <2>4. ~(From > Len(inq))
    BY <1>2, Numbers DEF CmdInv, From
  <2> QED BY <1>1, <1>5, <1>6, <1>7, <2>1, <2>2, <2>3, <2>4, AppendByte
<1>9. CacheInv' /\ DeviceInv'
  BY <1>1, <1>3, Grows
<1> QED BY <1>8, <1>9 DEF CmdInv

(* The steps of read_net_cmd_thread. *)
LEMMA CmdThreadStep == ASSUME CmdInv, ReadNetCmdThread PROVE CmdInv'
<1>1. CASE CmdLoop
  <2>1. CmdTypes' /\ UNCHANGED <<sent, rest, inq, cmd_cache, c_done, dev>>
    BY <1>1 DEF CmdLoop, CmdInv, CmdTypes, clientVars
  <2> QED BY <1>1, <2>1, StillStep DEF CmdLoop
<1>2. CASE CmdCall
  <2>1. CmdTypes' /\ UNCHANGED <<sent, rest, inq, cmd_cache, c_done, dev, c_pc>>
    BY <1>2 DEF CmdCall, CmdInv, CmdTypes, clientVars
  <2> QED BY <2>1, StillStep
<1>3. CASE CmdHead
  <2>1. inq' \in Seq(Byte) /\ cmd_cache' \in Seq(Byte) /\ c_done' = 0
    <3>1. inq \in Seq(Byte) /\ inq # <<>> /\ inq[1] \in Byte
      BY <1>3, EmptySeq, ElementOfSeq DEF CmdHead, CmdInv, CmdTypes
    <3>2. Tail(inq) \in Seq(Byte) /\ <<inq[1]>> \in Seq(Byte)
      BY <3>1, HeadTailProperties
    <3>3. c_done' = 0
      BY <1>3 DEF CmdHead, CmdInv, CacheInv
    <3> QED BY <1>3, <3>1, <3>2, <3>3 DEF CmdHead
  <2>2. CmdTypes'
    BY <1>3, <2>1, LenProperties DEF CmdHead, CmdInv, CmdTypes, clientVars
  <2> QED BY <1>3, <2>2, HeadStep
<1>4. CASE CmdBody
  <2>1. PICK n \in 1..Len(inq) :
          /\ cmd_cache' = cmd_cache \o SubSeq(inq, 1, n)
          /\ inq' = SubSeq(inq, n + 1, Len(inq))
    BY <1>4 DEF CmdBody
  <2>2. inq \in Seq(Byte) /\ Len(inq) \in Nat /\ \A i \in 1..Len(inq) : inq[i] \in Byte
    BY Numbers DEF CmdInv, CmdTypes
  <2>3. SubSeq(inq, 1, n) \in Seq(Byte) /\ inq' \in Seq(Byte)
    BY <2>1, <2>2, SubSeqProperties
  <2>4. cmd_cache' \in Seq(Byte)
    BY <2>1, <2>3, ConcatProperties DEF CmdInv, CmdTypes
  <2>5. c_done' = 0
    BY <1>4 DEF CmdBody, CmdInv, CacheInv
  <2>6. CmdTypes'
    BY <1>4, <2>3, <2>4, <2>5, LenProperties DEF CmdBody, CmdInv, CmdTypes, clientVars
  <2> QED BY <1>4, <2>6, BodyStep
<1>5. CASE CmdReadFails
  <2>1. CmdTypes' /\ UNCHANGED <<sent, rest, inq, cmd_cache, c_done, dev>> /\ c_pc' = "exit"
    BY <1>5 DEF CmdReadFails, CmdInv, CmdTypes, clientVars
  <2> QED BY <2>1, StillStep
<1>6. CASE CmdWrite
  <2>1. PICK n \in 1..Len(cmd_cache) - c_done :
          /\ dev' = dev \o SubSeq(cmd_cache, c_done + 1, c_done + n)
          /\ IF c_done + n = Len(cmd_cache) THEN c_pc' = "loop" /\ c_done' = 0
             ELSE c_done' = c_done + n /\ UNCHANGED c_pc
    BY <1>6 DEF CmdWrite
  <2>2. PICK d \in Nat, N \in Nat : d = c_done /\ N = Len(cmd_cache)
    BY Numbers DEF CmdInv, CmdTypes
  <2>3. d + n \in Nat /\ d + n <= N /\ \A j \in d + 1 .. d + n : cmd_cache[j] \in Byte
    BY <2>1, <2>2, Numbers DEF CmdInv
  <2>4. SubSeq(cmd_cache, d + 1, d + n) \in Seq(Byte)
    BY <2>1, <2>2, <2>3, SubSeqProperties DEF CmdInv, CmdTypes
  <2>5. dev' \in Seq(Byte)
    BY <2>1, <2>2, <2>4, ConcatProperties DEF CmdInv, CmdTypes
  <2>6. c_done' \in Nat /\ c_done' <= Len(cmd_cache) /\ c_pc' \in {"loop", "write"}
    BY <1>6, <2>1, <2>2, <2>3 DEF CmdWrite
  <2>7. CmdTypes'
    BY <1>6, <2>5, <2>6 DEF CmdWrite, CmdInv, CmdTypes, clientVars
  <2> QED BY <1>6, <2>7, WriteStep
<1>7. CASE CmdWriteFails
  <2>1. CmdTypes' /\ UNCHANGED <<sent, rest, inq, cmd_cache, c_done, dev>> /\ c_pc' = "exit"
    BY <1>7 DEF CmdWriteFails, CmdInv, CmdTypes, clientVars
  <2> QED BY <2>1, StillStep
<1> QED BY <1>1, <1>2, <1>3, <1>4, <1>5, <1>6, <1>7 DEF ReadNetCmdThread

(* The steps of the client. *)
LEMMA ClientStep == ASSUME CmdInv, Client PROVE CmdInv'
<1>1. UNCHANGED <<socket_fd, cmdVars, dev>>
  BY DEF Client
<1>2. CASE ClientFrame
  <2>1. PICK f \in Frame : sent' = Append(sent, f) /\ rest' = Length[f]
    BY <1>2 DEF ClientFrame
  <2>2. sent' \in Seq(Frame) /\ rest' \in Nat /\ <<Len(sent'), 0>> \in Byte
    BY <2>1, AppendProperties, LenProperties, ChannelAssumption DEF CmdInv, CmdTypes, Byte
  <2>3. inq' \in Seq(Byte)
    BY <1>2, <2>2, AppendProperties DEF ClientFrame, CmdInv, CmdTypes
  <2>4. CmdTypes'
    BY <1>1, <1>2, <2>2, <2>3 DEF ClientFrame, CmdInv, CmdTypes, cmdVars
  <2> QED BY <1>1, <1>2, <2>4, ClientFrameStep
<1>3. CASE ClientByte
  <2>1. From <= Len(inq) /\ rest \in Nat /\ rest > 0
    BY <1>3, Numbers DEF CmdInv, CmdTypes, Unbroken, From, ClientByte
  <2>2. Len(sent) \in Nat /\ Size(Len(sent)) \in Nat /\ rest \in 0..Size(Len(sent))
    BY <2>1, LastSent
  <2>3. <<Len(sent), Size(Len(sent)) + 1 - rest>> \in Byte
    BY <2>1, <2>2 DEF Byte
  <2>4. inq' \in Seq(Byte)
    BY <1>3, <2>3, AppendProperties DEF ClientByte, CmdInv, CmdTypes, Size
  <2>5. CmdTypes'
    BY <1>1, <1>3, <2>1, <2>4 DEF ClientByte, CmdInv, CmdTypes, cmdVars
  <2> QED BY <1>1, <1>3, <2>5, ClientByteStep
<1>4. CASE ClientClose
  <2>1. CmdTypes' /\ UNCHANGED <<sent, rest, inq, cmd_cache, c_done, dev, c_pc>>
    BY <1>1, <1>4 DEF ClientClose, CmdInv, CmdTypes, cmdVars
  <2> QED BY <2>1, StillStep
<1> QED BY <1>2, <1>3, <1>4 DEF Client

(* The steps of everything else, which is no part of the command stream.   *)
LEMMA OtherStep ==
  ASSUME CmdInv, SendStatusDataThread \/ Handler \/ ClearThread \/ DeviceStatus
  PROVE  CmdInv'
<1>1. UNCHANGED <<clientVars, inq, cmdVars, dev>> /\ socket_fd' \in {socket_fd, -1}
  BY DEF SendStatusDataThread, StatusLoop, StatusRead, StatusReadNothing, StatusReadFails,
         StatusWrite, StatusWriteFails, Handler, ClearThread, DeviceStatus, dataVars
<1>2. CmdTypes' /\ UNCHANGED <<sent, rest, inq, cmd_cache, c_done, dev, c_pc>>
  BY <1>1 DEF CmdInv, CmdTypes, clientVars, cmdVars
<1> QED BY <1>2, StillStep

(* The client's bytes reach the device as the invariant says, whatever the *)
(* two threads, the handler and the client do and in any order.            *)
LEMMA CmdInvariant == Spec => []CmdInv
<1>1. Init => CmdInv
  <2> SUFFICES ASSUME Init PROVE CmdInv
    OBVIOUS
  <2>1. /\ sent = <<>> /\ rest = 0 /\ inq = <<>> /\ peer = "open" /\ socket_fd = 1
        /\ c_pc = "loop" /\ c_fd = 0 /\ cmd_cache = <<>> /\ c_done = 0 /\ dev = <<>>
        /\ Len(sent) = 0 /\ Len(inq) = 0 /\ Len(cmd_cache) = 0 /\ Len(dev) = 0
    BY DEF Init
  <2>2. CmdTypes
    BY <2>1 DEF CmdTypes
  <2>3. Unbroken
    BY <2>1 DEF Unbroken, From
  <2>4. CacheInv
    BY <2>1 DEF CacheInv
  <2>5. DeviceInv
    BY <2>1 DEF DeviceInv, FramesInOrder, Upto
  <2> QED BY <2>2, <2>3, <2>4, <2>5 DEF CmdInv
<1>2. CmdInv /\ [Next]_vars => CmdInv'
  <2>1. ASSUME CmdInv, UNCHANGED vars PROVE CmdInv'
    <3>1. CmdTypes' /\ UNCHANGED <<sent, rest, inq, cmd_cache, c_done, dev, c_pc>>
      BY <2>1 DEF CmdInv, CmdTypes, vars, clientVars, cmdVars
    <3> QED BY <2>1, <3>1, StillStep
  <2> QED BY <2>1, CmdThreadStep, ClientStep, OtherStep DEF Next
<1> QED BY <1>1, <1>2, PTL DEF Spec

-----------------------------------------------------------------------------
(* The status stream *)

(* Steps that neither read nor write status, and leave the thread where it *)
(* is or move it to where it reads, or ends, while it holds none.          *)
LEMMA StatusStill ==
  ASSUME StatusInv, UNCHANGED <<s_len, s_done, nread, pend, out>>,
         socket_fd' \in {socket_fd, -1},
         \/ s_pc' = s_pc
         \/ s_pc \in {"loop", "read"} /\ s_pc' \in {"loop", "read", "exit"}
  PROVE  StatusInv'
BY DEF StatusInv

(* Status read from the device. *)
LEMMA StatusReadStep == ASSUME StatusInv, StatusRead PROVE StatusInv'
<1>1. PICK n \in 1..MaxLen : /\ n <= pend
                             /\ pend' = pend - n /\ nread' = nread + n
                             /\ s_len' = n /\ s_done' = 0
  BY DEF StatusRead
<1>2. s_pc = "read" /\ s_pc' = "write" /\ UNCHANGED <<out, socket_fd>>
  BY DEF StatusRead
<1> QED BY <1>1, <1>2, ChannelAssumption DEF StatusInv

(* Status written to the connection. *)
LEMMA StatusWriteStep == ASSUME StatusInv, StatusWrite PROVE StatusInv'
<1>1. PICK n \in 1..s_len - s_done :
        /\ out' = out \o [j \in 1..n |-> nread - s_len + s_done + j]
        /\ s_done' = s_done + n
  BY DEF StatusWrite
<1>2. /\ s_pc = "write" /\ socket_fd = 1
      /\ s_pc' = IF s_done' = s_len THEN "loop" ELSE "write"
      /\ UNCHANGED <<s_len, nread, pend, socket_fd>>
  BY DEF StatusWrite
<1>3. /\ s_len \in Nat /\ s_done \in Nat /\ nread \in Nat /\ s_len <= nread
      /\ out \in Seq(Nat) /\ Len(out) \in Nat /\ Len(out) = nread - (s_len - s_done)
  BY <1>2, ChannelAssumption, LenProperties DEF StatusInv
<1>4. /\ out' \in Seq(Nat) /\ Len(out') = Len(out) + n
  <2> DEFINE piece == [j \in 1..n |-> nread - s_len + s_done + j]
  <2>1. \A j \in 1..n : nread - s_len + s_done + j \in Nat
    BY <1>1, <1>3
  <2>2. n \in Nat
    BY <1>1, <1>3
  <2>3. piece \in [1..n -> Nat]
    BY <2>1
  <2>4. piece \in Seq(Nat) /\ Len(piece) = n
    BY <2>2, <2>3, SeqDef, LenProperties
  <2>5. out' = out \o piece
    BY <1>1
  <2> HIDE DEF piece
  <2> QED BY <1>3, <2>4, <2>5, ConcatProperties
<1>5. s_done' \in 0..s_len /\ s_done' <= s_len /\ s_done' = s_done + n
  BY <1>1, <1>3
<1>6. IF s_pc' = "write" THEN s_done' < s_len /\ Len(out') = nread - (s_len - s_done')
                         ELSE Len(out') = nread
  BY <1>2, <1>3, <1>4, <1>5
<1> QED BY <1>2, <1>3, <1>4, <1>5, <1>6 DEF StatusInv

(* What the client has been sent and what the thread holds are what was    *)
(* read, and no more is read than the device has.                          *)
LEMMA StatusInvariant == Spec => []StatusInv
<1>1. Init => StatusInv
  BY ChannelAssumption DEF Init, StatusInv
<1>2. StatusInv /\ [Next]_vars => StatusInv'
  <2> SUFFICES ASSUME StatusInv, [Next]_vars PROVE StatusInv'
    OBVIOUS
  <2>1. CASE ReadNetCmdThread \/ Handler \/ ClearThread \/ Client \/ UNCHANGED vars
    <3>1. UNCHANGED <<s_pc, s_len, s_done, nread, pend, out, socket_fd>>
      BY <2>1 DEF ReadNetCmdThread, CmdLoop, CmdCall, CmdHead, CmdBody, CmdReadFails, CmdWrite,
                  CmdWriteFails, Handler, ClearThread, Client, dataVars, vars, statusVars
    <3> QED BY <3>1, StatusStill
  <2>2. CASE StatusLoop \/ StatusReadNothing \/ StatusReadFails
    BY <2>2, StatusStill DEF StatusLoop, StatusReadNothing, StatusReadFails
  <2>3. CASE StatusRead
    BY <2>3, StatusReadStep
  <2>4. CASE StatusWrite
    BY <2>4, StatusWriteStep
  <2>5. CASE StatusWriteFails
    BY <2>5 DEF StatusWriteFails, StatusInv
  <2>6. CASE DeviceStatus
    <3>1. /\ nread + pend < MaxUnits /\ pend' = pend + 1
          /\ UNCHANGED <<s_pc, s_len, s_done, nread, out, socket_fd>>
      BY <2>6 DEF DeviceStatus, statusVars
    <3>2. pend' \in Nat /\ nread' + pend' <= MaxUnits
      BY <3>1, ChannelAssumption DEF StatusInv
    <3> QED BY <3>1, <3>2 DEF StatusInv
  <2> QED BY <2>1, <2>2, <2>3, <2>4, <2>5, <2>6 DEF Next, SendStatusDataThread
<1> QED BY <1>1, <1>2, PTL DEF Spec

(* The flag, the semaphore, and where the handler and clear_thread are.    *)
LEMMA ProcInvariant == Spec => []ProcInv
<1>1. Init => ProcInv
  BY DEF Init, ProcInv
<1>2. ProcInv /\ [Next]_vars => ProcInv'
  <2> SUFFICES ASSUME ProcInv, [Next]_vars PROVE ProcInv'
    OBVIOUS
  <2>1. CASE ReadNetCmdThread
    <3>1. UNCHANGED procVars /\ failed' \in {failed, failed \cup {"write"}}
      BY <2>1 DEF ReadNetCmdThread, CmdLoop, CmdCall, CmdHead, CmdBody, CmdReadFails,
                  CmdWrite, CmdWriteFails
    <3> QED BY <3>1 DEF ProcInv, procVars
  <2>2. CASE SendStatusDataThread
    <3>1. UNCHANGED procVars /\ failed' \in {failed, failed \cup {"read"}}
      BY <2>2 DEF SendStatusDataThread, StatusLoop, StatusRead, StatusReadNothing,
                  StatusReadFails, StatusWrite, StatusWriteFails
    <3> QED BY <3>1 DEF ProcInv, procVars
  <2>3. CASE Handler
    BY <2>3 DEF Handler, HandlerStop, HandlerPost, ProcInv, dataVars
  <2>4. CASE ClearThread
    <3>1. CASE ClearWait
      BY <2>4, <3>1 DEF ClearThread, ClearWait, ProcInv, dataVars
    <3>2. CASE ClearGoesOn
      BY <2>4, <3>2 DEF ClearThread, ClearGoesOn, ClearSteps, ProcInv, dataVars
    <3> QED BY <2>4, <3>1, <3>2 DEF ClearThread
  <2>5. CASE Client \/ DeviceStatus \/ UNCHANGED vars
    BY <2>5 DEF Client, DeviceStatus, vars, procVars, ProcInv
  <2> QED BY <2>1, <2>2, <2>3, <2>4, <2>5 DEF Next
<1> QED BY <1>1, <1>2, PTL DEF Spec

-----------------------------------------------------------------------------
(* The theorems *)

ChannelInv == CmdInv /\ StatusInv /\ ProcInv

(* The three together. *)
LEMMA Invariant == Spec => []ChannelInv
<1> QED BY CmdInvariant, StatusInvariant, ProcInvariant, PTL DEF ChannelInv

(* The variables stay in their types: the cache never holds more than one  *)
(* frame, the bytes written of it are never more than it has, and the      *)
(* status buffer never holds more than one read() may return.              *)
THEOREM TypeCorrect == Spec => []TypeOK
<1>1. ChannelInv => TypeOK
  <2> SUFFICES ASSUME ChannelInv PROVE TypeOK
    OBVIOUS
  <2>1. cmd_cache # <<>> => Len(cmd_cache) <= Value(cmd_cache[1]) + 1
    <3> SUFFICES ASSUME cmd_cache # <<>> PROVE Len(cmd_cache) <= Value(cmd_cache[1]) + 1
      OBVIOUS
    <3>1. 1 \in 1..Len(cmd_cache)
      BY Numbers DEF ChannelInv, CmdInv
    <3>2. Is(cmd_cache[1], Kept, 0) /\ Len(cmd_cache) <= Size(Kept) + 1
      BY <3>1 DEF ChannelInv, CmdInv, CacheInv
    <3> QED BY <3>2 DEF Value, Size, Is
  <2>2. pend \in 0..MaxUnits /\ nread \in 0..MaxUnits
    BY ChannelAssumption DEF ChannelInv, StatusInv
  <2> QED BY <2>1, <2>2 DEF ChannelInv, CmdInv, CmdTypes, StatusInv, ProcInv, TypeOK, Byte
<1> QED BY <1>1, Invariant, PTL

(* The device receives the non-empty frames the client sent byte for byte  *)
(* and in order, whatever pieces read_net_cmd_thread's readn() and         *)
(* writen_to_cmd_status_dev() move them in, and whatever ends the thread:  *)
(* it never takes a byte inside a frame for a length.                      *)
THEOREM FramesCorrect == Spec => []FramesInOrder
<1>1. ChannelInv => FramesInOrder
  BY DEF ChannelInv, CmdInv, DeviceInv
<1> QED BY <1>1, Invariant, PTL

(* No part of a frame the client has not sent to its end reaches the       *)
(* device: read_net_cmd_thread writes a frame only once it has all of it.  *)
THEOREM WholeFramesCorrect == Spec => []OnlyWholeFrames
<1>1. ChannelInv => OnlyWholeFrames
  BY DEF ChannelInv, CmdInv, DeviceInv, OnlyWholeFrames
<1> QED BY <1>1, Invariant, PTL

(* One write() of writen() delivers the next units of the stream.          *)
LEMMA StatusWriteDelivers ==
  ASSUME ChannelInv, StatusWrite, ~Exited, UNCHANGED clear_pc PROVE Stream!Deliver
<1>1. PICK n \in 1..s_len - s_done :
        out' = out \o [j \in 1..n |-> nread - s_len + s_done + j]
  BY DEF StatusWrite
<1>2. /\ s_pc = "write" /\ socket_fd = 1 /\ socket_fd' = 1 /\ nread' = nread
      /\ s_pc' \in {"loop", "write"}
  BY DEF StatusWrite
<1>3. /\ s_len \in Nat /\ s_done \in Nat /\ nread \in Nat /\ s_len <= MaxLen
      /\ Len(out) \in Nat /\ Len(out) = nread - (s_len - s_done)
  BY <1>2, ChannelAssumption, LenProperties DEF ChannelInv, StatusInv
<1>4. n \in 1..MaxLen /\ Len(out) + n <= nread
  BY <1>1, <1>3, ChannelAssumption
<1>5. \A j \in 1..n : nread - s_len + s_done + j = Len(out) + j
  BY <1>1, <1>3
<1>6. out' = out \o [j \in 1..n |-> Len(out) + j]
  BY <1>1, <1>5
<1> QED BY <1>2, <1>4, <1>6 DEF Stream!Deliver, Exited

(* Every behaviour of the two threads, the handler, clear_thread, the      *)
(* client and the device is a behaviour of the stream AcqStream describes: *)
(* send_status_data_thread loses, repeats and reorders no status, and      *)
(* sends none once the connection is lost.                                 *)
THEOREM ImplementsStream == Spec => Stream!SafeSpec
<1>1. Init => Stream!Init
  BY DEF Init, Stream!Init, Exited
<1>2. ChannelInv /\ [Next]_vars => [Stream!Next]_(Stream!vars)
  <2> SUFFICES ASSUME ChannelInv, [Next]_vars PROVE [Stream!Next]_(Stream!vars)
    OBVIOUS
  <2> DEFINE isUp == socket_fd = 1 /\ s_pc # "exit" /\ ~Exited
  <2>1. CASE SendStatusDataThread /\ StatusWrite
    <3>1. ~Exited /\ UNCHANGED clear_pc
      BY <2>1 DEF SendStatusDataThread, StatusWrite, procVars
    <3> QED BY <2>1, <3>1, StatusWriteDelivers DEF Stream!Next
  <2>2. CASE SendStatusDataThread /\ StatusRead
    <3>1. PICK n \in 1..MaxLen : n <= pend /\ nread' = nread + n
      BY <2>2 DEF StatusRead
    <3>2. nread + n <= MaxUnits
      BY <3>1, ChannelAssumption DEF ChannelInv, StatusInv
    <3>3. UNCHANGED <<out, isUp>>
      BY <2>2 DEF StatusRead, procVars, Exited
    <3> QED BY <3>1, <3>2, <3>3 DEF Stream!Next, Stream!Produce
  <2>3. ASSUME UNCHANGED <<nread, out>>, isUp' => isUp PROVE [Stream!Next]_(Stream!vars)
    BY <2>3 DEF Stream!Next, Stream!Cut, Stream!vars
  <2>4. CASE SendStatusDataThread /\ ~StatusWrite /\ ~StatusRead
    <3>1. UNCHANGED <<nread, out, clear_pc>> /\ s_pc # "exit" /\ socket_fd' \in {socket_fd, -1}
      BY <2>4 DEF SendStatusDataThread, StatusLoop, StatusReadNothing, StatusReadFails,
                  StatusWriteFails, procVars
    <3> QED BY <2>3, <3>1 DEF Exited
  <2>5. CASE ReadNetCmdThread \/ Handler \/ Client \/ DeviceStatus \/ UNCHANGED vars
    <3>1. UNCHANGED <<nread, out, clear_pc, s_pc, socket_fd>>
      BY <2>5 DEF ReadNetCmdThread, CmdLoop, CmdCall, CmdHead, CmdBody, CmdReadFails, CmdWrite,
                  CmdWriteFails, Handler, HandlerStop, HandlerPost, Client, DeviceStatus,
                  dataVars, vars, statusVars, procVars
    <3> QED BY <2>3, <3>1 DEF Exited
  <2>6. CASE ClearThread
    <3>1. UNCHANGED <<nread, out, s_pc, socket_fd>> /\ ~Exited
      BY <2>6 DEF ClearThread, ClearWait, ClearGoesOn, ClearSteps, dataVars, statusVars, Exited
    <3> QED BY <2>3, <3>1
  <2> QED BY <2>1, <2>2, <2>4, <2>5, <2>6 DEF Next, SendStatusDataThread
<1> QED BY <1>1, <1>2, Invariant, PTL DEF Spec, Stream!SafeSpec
==============================================================================
