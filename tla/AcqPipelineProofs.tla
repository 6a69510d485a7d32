-------------------------- MODULE AcqPipelineProofs --------------------------
(***************************************************************************)
(* Proofs about AcqPipeline, for any number of buffers, any transfer size  *)
(* and any amount of data.                                                 *)
(***************************************************************************)
EXTENDS AcqPipeline, SequenceTheorems, TLAPS

(* The initial pipes hold buffer indices only. *)
LEMMA InitType == Init => TypeOK
<1> SUFFICES ASSUME Init PROVE TypeOK
  OBVIOUS
<1>1. 0 \in Bufs
  BY PipelineAssumption DEF Bufs
<1>2. InitIndex \in Seq(Bufs)
  BY PipelineAssumption DEF InitIndex, Bufs
<1>3. /\ length \in [Bufs -> -1..MaxLen]
      /\ first \in [Bufs -> Nat]
  BY PipelineAssumption DEF Init
<1> QED
  BY <1>1, <1>2, <1>3, PipelineAssumption DEF Init, TypeOK, ReaderPc, SenderPc

(* Every action keeps every variable in its type. *)
LEMMA TypeStep == TypeOK /\ [Next]_vars => TypeOK'
<1> SUFFICES ASSUME TypeOK, [Next]_vars PROVE TypeOK'
  OBVIOUS
<1> USE PipelineAssumption DEF TypeOK, ReaderPc, SenderPc,
        vars, readerVars, senderVars, bufVars, pipeVars, streamVars, procVars
<1>1. CASE ReaderLoop
  BY <1>1 DEF ReaderLoop
<1>2. CASE ReaderTake
  <2>1. CASE r_index' = Head(dma_index) /\ dma_index' = Tail(dma_index) /\ dma_index # <<>>
    <3>1. r_index' \in Bufs /\ dma_index' \in Seq(Bufs)
      BY <2>1, HeadTailProperties
    <3> QED
      BY <1>2, <3>1 DEF ReaderTake
  <2>2. CASE UNCHANGED <<r_index, dma_index>>
    BY <1>2, <2>2 DEF ReaderTake
  <2> QED
    BY <1>2, <2>1, <2>2 DEF ReaderTake
<1>3. CASE ReaderFill
  BY <1>3 DEF ReaderFill
<1>4. CASE ReaderFillFails
  BY <1>4 DEF ReaderFillFails
<1>5. CASE ReaderPut
  <2>1. Append(socket_index, r_index) \in Seq(Bufs)
    BY AppendProperties
  <2> QED
    BY <1>5, <2>1 DEF ReaderPut
<1>6. CASE SenderLoop
  BY <1>6 DEF SenderLoop
<1>7. CASE SenderTake
  <2>1. CASE s_index' = Head(socket_index) /\ socket_index' = Tail(socket_index)
             /\ socket_index # <<>>
    <3>1. s_index' \in Bufs /\ socket_index' \in Seq(Bufs)
      BY <2>1, HeadTailProperties
    <3> QED
      BY <1>7, <3>1 DEF SenderTake
  <2>2. CASE UNCHANGED <<s_index, socket_index>>
    BY <1>7, <2>2 DEF SenderTake
  <2> QED
    BY <1>7, <2>1, <2>2 DEF SenderTake
<1>8. CASE SenderTest
  BY <1>8 DEF SenderTest
<1>9. CASE SenderWrite
  <2>1. PICK k \in 1..MaxLen :
          /\ s_done + k <= s_len
          /\ sock' = sock \o [j \in 1..k |-> UnitAt(s_index, s_done + j - 1)]
          /\ s_done' = s_done + k
    BY <1>9 DEF SenderWrite
  <2>2. \A j \in 1..k : UnitAt(s_index, s_done + j - 1) \in Nat
    BY <2>1 DEF UnitAt
  <2>3. [j \in 1..k |-> UnitAt(s_index, s_done + j - 1)] \in Seq(Nat)
    BY <2>1, <2>2
  <2>4. sock' \in Seq(Nat)
    BY <2>1, <2>3
  <2> QED
    BY <1>9, <2>1, <2>4 DEF SenderWrite
<1>10. CASE SenderWriteFails
  BY <1>10 DEF SenderWriteFails
<1>11. CASE SenderCheck
  BY <1>11 DEF SenderCheck
<1>12. CASE SenderGive
  <2>1. Append(dma_index, s_index) \in Seq(Bufs)
    BY AppendProperties
  <2> QED
    BY <1>12, <2>1 DEF SenderGive
<1>13. CASE HandlerStop
  BY <1>13 DEF HandlerStop
<1>14. CASE HandlerPost
  BY <1>14 DEF HandlerPost
<1>15. CASE ClearWait
  BY <1>15 DEF ClearWait
<1>16. CASE ClearCheck
  BY <1>16 DEF ClearCheck
<1>17. CASE ClearClose
  <2>1. nclosed' \in 0..6 /\ clear_pc' \in {"wait", "check", "close", "exited"}
    BY <1>17, SMTT(30) DEF ClearClose
  <2> QED
    BY <1>17, <2>1 DEF ClearClose
<1>18. CASE PeerClose
  BY <1>18 DEF PeerClose
<1>19. CASE UNCHANGED vars
  BY <1>19
<1> QED
  BY <1>1, <1>2, <1>3, <1>4, <1>5, <1>6, <1>7, <1>8, <1>9, <1>10, <1>11, <1>12,
     <1>13, <1>14, <1>15, <1>16, <1>17, <1>18, <1>19
  DEF Next, ReadDmaThread, SendAcqDataThread, Handler, ClearThread

(* The types hold throughout: a buffer's length never exceeds what one     *)
(* read() of the device may return, and writen() never counts past it.     *)
THEOREM TypeCorrect == Spec => []TypeOK
<1> QED
  BY InitType, TypeStep, PTL DEF Spec

-----------------------------------------------------------------------------
(* The indices.  Four actions move one; the others leave each where it is  *)
(* or drop it together with the thread that held it.                       *)

(* Where an index sits depends on these variables only. *)
indexVars == <<dma_index, socket_index, r_pc, r_index, s_pc, s_index>>

(* At the start every index is in the dma pipe, once. *)
LEMMA IndexInit == Init => IndexInv
<1> SUFFICES ASSUME Init PROVE IndexInv
  OBVIOUS
<1> USE PipelineAssumption DEF Init, ReaderHolds, SenderHolds, BufferExclusive
<1>1. Len(dma_index) = NumBufs /\ \A p \in 1..NumBufs : dma_index[p] = p - 1
  BY DEF InitIndex
<1>2. socket_index = <<>> /\ Len(socket_index) = 0
  OBVIOUS
<1>3. IndexUnique
  BY <1>1, <1>2 DEF IndexUnique
<1>4. ASSUME NEW b \in Bufs PROVE Located(b)
  <2>1. b + 1 \in 1..Len(dma_index) /\ dma_index[b + 1] = b
    BY <1>1 DEF Bufs
  <2> QED
    BY <2>1 DEF Located
<1> QED
  BY <1>3, <1>4 DEF IndexInv, IndexConserved

(* What a pipe holds after its first element is read. *)
LEMMA QueueTake ==
  ASSUME NEW S, NEW q \in Seq(S), q # <<>>
  PROVE  /\ 1 \in 1..Len(q) /\ Head(q) = q[1]
         /\ Len(Tail(q)) = Len(q) - 1 /\ Tail(q) \in Seq(S)
         /\ \A p \in 1..Len(Tail(q)) :
              p + 1 \in 1..Len(q) /\ p + 1 # 1 /\ Tail(q)[p] = q[p + 1]
         /\ \A p, r \in 1..Len(Tail(q)) : p # r => p + 1 # r + 1
         /\ \A p \in 1..Len(q) :
              p = 1 \/ \E r \in 1..Len(Tail(q)) : Tail(q)[r] = q[p]
<1>1. Len(q) \in Nat /\ Len(q) >= 1 /\ Head(q) = q[1]
  OBVIOUS
<1>2. /\ Len(Tail(q)) = Len(q) - 1 /\ Tail(q) \in Seq(S)
      /\ \A p \in 1..Len(Tail(q)) : Tail(q)[p] = q[p + 1]
  BY HeadTailProperties
<1>3. ASSUME NEW p \in 1..Len(q), p # 1
      PROVE  \E r \in 1..Len(Tail(q)) : Tail(q)[r] = q[p]
  <2>1. p - 1 \in 1..Len(Tail(q)) /\ (p - 1) + 1 = p
    BY <1>1, <1>2, <1>3
  <2> QED
    BY <1>2, <2>1
<1> QED
  BY <1>1, <1>2, <1>3

(* What a pipe holds after an element is written to it. *)
LEMMA QueuePut ==
  ASSUME NEW S, NEW q \in Seq(S), NEW e \in S, NEW t, t = Append(q, e)
  PROVE  /\ \A p \in 1..Len(t) :
              \/ p \in 1..Len(q) /\ t[p] = q[p]
              \/ p = Len(t) /\ t[p] = e
         /\ \A p \in 1..Len(q) : p \in 1..Len(t) /\ t[p] = q[p]
         /\ \E p \in 1..Len(t) : t[p] = e
<1>1. Len(q) \in Nat
  OBVIOUS
<1>2. /\ Len(t) = Len(q) + 1
      /\ \A p \in 1..Len(q) : t[p] = q[p]
      /\ t[Len(q) + 1] = e
  BY AppendProperties
<1>3. Len(q) + 1 \in 1..Len(t)
  BY <1>1, <1>2
<1> QED
  BY <1>1, <1>2, <1>3

(* readn(dma_index_r_fd): the first index goes from the pipe to the reader. *)
LEMMA ReaderTakeIndex == TypeOK /\ IndexInv /\ ReaderTake => IndexInv'
<1> SUFFICES ASSUME TypeOK, IndexInv, ReaderTake PROVE IndexInv'
  OBVIOUS
<1>1. dma_index \in Seq(Bufs) /\ socket_index \in Seq(Bufs)
  BY DEF TypeOK
<1>2. UNCHANGED <<socket_index, s_pc, s_index>> /\ r_pc = "take"
  BY DEF ReaderTake, senderVars
<1>3. CASE r_pc' = "exit" /\ UNCHANGED <<r_index, dma_index>>
  BY <1>2, <1>3 DEF IndexInv, IndexUnique, IndexConserved, BufferExclusive,
                    ReaderHolds, SenderHolds
<1>4. CASE /\ dma_index # <<>> /\ r_pc' = "dma"
           /\ r_index' = Head(dma_index) /\ dma_index' = Tail(dma_index)
  <2>1. /\ 1 \in 1..Len(dma_index) /\ r_index' = dma_index[1]
        /\ \A p \in 1..Len(dma_index') :
             /\ p + 1 \in 1..Len(dma_index) /\ p + 1 # 1
             /\ dma_index'[p] = dma_index[p + 1]
        /\ \A p, q \in 1..Len(dma_index') : p # q => p + 1 # q + 1
        /\ \A p \in 1..Len(dma_index) :
             p = 1 \/ \E q \in 1..Len(dma_index') : dma_index'[q] = dma_index[p]
    BY <1>1, <1>4, QueueTake
  <2>2. IndexUnique'
    BY <1>2, <1>4, <2>1 DEF IndexInv, IndexUnique, BufferExclusive, ReaderHolds, SenderHolds
  <2>3. ASSUME s_pc # "exit", NEW b \in Bufs PROVE Located(b)'
    <3>1. Located(b)
      BY <1>2, <2>3 DEF IndexInv, IndexConserved
    <3> QED
      BY <1>2, <1>4, <2>1, <3>1, ZenonT(60) DEF Located, ReaderHolds, SenderHolds
  <2> QED
    BY <1>2, <2>2, <2>3 DEF IndexInv, IndexConserved
<1> QED
  BY <1>3, <1>4 DEF ReaderTake

(* writen(socket_index_w_fd): the reader's index goes to the back of the pipe. *)
LEMMA ReaderPutIndex == TypeOK /\ IndexInv /\ ReaderPut => IndexInv'
<1> SUFFICES ASSUME TypeOK, IndexInv, ReaderPut PROVE IndexInv'
  OBVIOUS
<1>1. socket_index \in Seq(Bufs) /\ dma_index \in Seq(Bufs) /\ r_index \in Bufs
  BY DEF TypeOK
<1>2. UNCHANGED <<dma_index, r_index, s_pc, s_index>> /\ r_pc = "put"
  BY DEF ReaderPut, senderVars
<1>3. CASE r_pc' = "exit" /\ UNCHANGED socket_index
  BY <1>2, <1>3 DEF IndexInv, IndexUnique, IndexConserved, BufferExclusive,
                    ReaderHolds, SenderHolds
<1>4. CASE r_pc' = "loop" /\ socket_index' = Append(socket_index, r_index)
  <2>1. /\ \A p \in 1..Len(socket_index') :
             \/ p \in 1..Len(socket_index) /\ socket_index'[p] = socket_index[p]
             \/ p = Len(socket_index') /\ socket_index'[p] = r_index
        /\ \A p \in 1..Len(socket_index) :
             p \in 1..Len(socket_index') /\ socket_index'[p] = socket_index[p]
        /\ \E p \in 1..Len(socket_index') : socket_index'[p] = r_index
    BY <1>1, <1>4, QueuePut
  <2>2. IndexUnique'
    BY <1>2, <1>4, <2>1 DEF IndexInv, IndexUnique, BufferExclusive, ReaderHolds, SenderHolds
  <2>3. ASSUME s_pc # "exit", NEW b \in Bufs PROVE Located(b)'
    <3>1. Located(b)
      BY <1>2, <2>3 DEF IndexInv, IndexConserved
    <3> QED
      BY <1>2, <1>4, <2>1, <3>1 DEF Located, ReaderHolds, SenderHolds
  <2> QED
    BY <1>2, <2>2, <2>3 DEF IndexInv, IndexConserved
<1> QED
  BY <1>3, <1>4 DEF ReaderPut

(* readn(socket_index_r_fd): the first index goes from the pipe to the sender. *)
LEMMA SenderTakeIndex == TypeOK /\ IndexInv /\ SenderTake => IndexInv'
<1> SUFFICES ASSUME TypeOK, IndexInv, SenderTake PROVE IndexInv'
  OBVIOUS
<1>1. socket_index \in Seq(Bufs) /\ dma_index \in Seq(Bufs)
  BY DEF TypeOK
<1>2. UNCHANGED <<dma_index, r_pc, r_index>> /\ s_pc = "take"
  BY DEF SenderTake, readerVars
<1>3. CASE s_pc' = "exit" /\ UNCHANGED <<s_index, socket_index>>
  BY <1>2, <1>3 DEF IndexInv, IndexUnique, IndexConserved, BufferExclusive,
                    ReaderHolds, SenderHolds
<1>4. CASE /\ socket_index # <<>> /\ s_pc' = "test"
           /\ s_index' = Head(socket_index) /\ socket_index' = Tail(socket_index)
  <2>1. /\ 1 \in 1..Len(socket_index) /\ s_index' = socket_index[1]
        /\ \A p \in 1..Len(socket_index') :
             /\ p + 1 \in 1..Len(socket_index) /\ p + 1 # 1
             /\ socket_index'[p] = socket_index[p + 1]
        /\ \A p, q \in 1..Len(socket_index') : p # q => p + 1 # q + 1
        /\ \A p \in 1..Len(socket_index) :
             p = 1 \/ \E q \in 1..Len(socket_index') : socket_index'[q] = socket_index[p]
    BY <1>1, <1>4, QueueTake
  <2>2. IndexUnique'
    BY <1>2, <1>4, <2>1 DEF IndexInv, IndexUnique, BufferExclusive, ReaderHolds, SenderHolds
  <2>3. ASSUME r_pc # "exit", NEW b \in Bufs PROVE Located(b)'
    <3>1. Located(b)
      BY <1>2, <2>3 DEF IndexInv, IndexConserved
    <3> QED
      BY <1>2, <1>4, <2>1, <3>1 DEF Located, ReaderHolds, SenderHolds
  <2> QED
    BY <1>2, <2>2, <2>3 DEF IndexInv, IndexConserved
<1> QED
  BY <1>3, <1>4 DEF SenderTake

(* writen(dma_index_w_fd): the sender's index goes to the back of the pipe. *)
LEMMA SenderGiveIndex == TypeOK /\ IndexInv /\ SenderGive => IndexInv'
<1> SUFFICES ASSUME TypeOK, IndexInv, SenderGive PROVE IndexInv'
  OBVIOUS
<1>1. dma_index \in Seq(Bufs) /\ socket_index \in Seq(Bufs) /\ s_index \in Bufs
  BY DEF TypeOK
<1>2. UNCHANGED <<socket_index, s_index, r_pc, r_index>> /\ s_pc = "give"
  BY DEF SenderGive, readerVars
<1>3. CASE s_pc' = "exit" /\ UNCHANGED dma_index
  BY <1>2, <1>3 DEF IndexInv, IndexUnique, IndexConserved, BufferExclusive,
                    ReaderHolds, SenderHolds
<1>4. CASE s_pc' = "loop" /\ dma_index' = Append(dma_index, s_index)
  <2>1. /\ \A p \in 1..Len(dma_index') :
             \/ p \in 1..Len(dma_index) /\ dma_index'[p] = dma_index[p]
             \/ p = Len(dma_index') /\ dma_index'[p] = s_index
        /\ \A p \in 1..Len(dma_index) : p \in 1..Len(dma_index') /\ dma_index'[p] = dma_index[p]
        /\ \E p \in 1..Len(dma_index') : dma_index'[p] = s_index
    BY <1>1, <1>4, QueuePut
  <2>2. IndexUnique'
    BY <1>2, <1>4, <2>1 DEF IndexInv, IndexUnique, BufferExclusive, ReaderHolds, SenderHolds
  <2>3. ASSUME r_pc # "exit", NEW b \in Bufs PROVE Located(b)'
    <3>1. Located(b)
      BY <1>2, <2>3 DEF IndexInv, IndexConserved
    <3> QED
      BY <1>2, <1>4, <2>1, <3>1 DEF Located, ReaderHolds, SenderHolds
  <2> QED
    BY <1>2, <2>2, <2>3 DEF IndexInv, IndexConserved
<1> QED
  BY <1>3, <1>4 DEF SenderGive

(* The other actions leave the pipes alone; a thread keeps its index until *)
(* it exits.                                                               *)
LEMMA IndexStep == TypeOK /\ IndexInv /\ [Next]_vars => IndexInv'
<1> SUFFICES ASSUME TypeOK, IndexInv, [Next]_vars PROVE IndexInv'
  OBVIOUS
<1> USE DEF vars, readerVars, senderVars, bufVars, pipeVars, streamVars, procVars
<1>1. CASE UNCHANGED indexVars
  BY <1>1 DEF indexVars, IndexInv, IndexUnique, IndexConserved, Located,
              BufferExclusive, ReaderHolds, SenderHolds
<1>2. CASE ReaderLoop
  BY <1>2 DEF ReaderLoop, IndexInv, IndexUnique, IndexConserved, Located,
              BufferExclusive, ReaderHolds, SenderHolds
<1>3. CASE ReaderFill
  BY <1>3 DEF ReaderFill, IndexInv, IndexUnique, IndexConserved, Located,
              BufferExclusive, ReaderHolds, SenderHolds
<1>4. CASE ReaderFillFails
  BY <1>4 DEF ReaderFillFails, IndexInv, IndexUnique, IndexConserved, Located,
              BufferExclusive, ReaderHolds, SenderHolds
<1>5. CASE SenderLoop
  BY <1>5 DEF SenderLoop, IndexInv, IndexUnique, IndexConserved, Located,
              BufferExclusive, ReaderHolds, SenderHolds
<1>6. CASE SenderTest
  BY <1>6 DEF SenderTest, IndexInv, IndexUnique, IndexConserved, Located,
              BufferExclusive, ReaderHolds, SenderHolds
<1>7. CASE SenderWrite
  BY <1>7 DEF SenderWrite, IndexInv, IndexUnique, IndexConserved, Located,
              BufferExclusive, ReaderHolds, SenderHolds
<1>8. CASE SenderWriteFails
  BY <1>8 DEF SenderWriteFails, IndexInv, IndexUnique, IndexConserved, Located,
              BufferExclusive, ReaderHolds, SenderHolds
<1>9. CASE SenderCheck
  BY <1>9 DEF SenderCheck, IndexInv, IndexUnique, IndexConserved, Located,
              BufferExclusive, ReaderHolds, SenderHolds
<1>10. CASE Handler \/ ClearThread \/ PeerClose \/ UNCHANGED vars
  BY <1>1, <1>10 DEF Handler, HandlerStop, HandlerPost, ClearThread, ClearWait,
                     ClearCheck, ClearClose, PeerClose, indexVars
<1> QED
  BY <1>2, <1>3, <1>4, <1>5, <1>6, <1>7, <1>8, <1>9, <1>10,
     ReaderTakeIndex, ReaderPutIndex, SenderTakeIndex, SenderGiveIndex
  DEF Next, ReadDmaThread, SendAcqDataThread

(* The indices that go round through the two pipes and the hands of the    *)
(* two threads stay distinct, and none is lost while both threads run.     *)
THEOREM IndexCorrect == Spec => [](TypeOK /\ IndexInv)
<1> QED
  BY InitType, TypeStep, IndexInit, IndexStep, PTL DEF Spec

(* The device never fills a buffer the sender is sending from: the two     *)
(* threads share the buffers without a lock, and the index is one.         *)
THEOREM BuffersExclusive == Spec => []BufferExclusive
<1>1. IndexInv => BufferExclusive
  BY DEF IndexInv, IndexUnique
<1> QED
  BY <1>1, IndexCorrect, PTL

(* The threads never both wait on an empty pipe: the indices would be      *)
(* nowhere.                                                                *)
THEOREM NeverStalls == Spec => []NoStall
<1>1. TypeOK /\ IndexInv => NoStall
  <2> SUFFICES ASSUME TypeOK, IndexInv, ~NoStall PROVE FALSE
    OBVIOUS
  <2>1. 0 \in Bufs
    BY PipelineAssumption DEF Bufs
  <2>2. ~Located(0)
    BY DEF NoStall, Located, ReaderHolds, SenderHolds
  <2> QED
    BY <2>1, <2>2 DEF NoStall, IndexInv, IndexConserved
<1> QED
  BY <1>1, IndexCorrect, PTL

-----------------------------------------------------------------------------
(* The contents.  What is on the socket, in the sender's hands, in the     *)
(* socket pipe and in the reader's hands is one run of the device's units. *)

(* The numbers ChainInv speaks of are integers. *)
LEMMA ChainTypes ==
  TypeOK => /\ \A b \in Bufs : length[b] \in Int /\ first[b] \in Nat /\ After(b) \in Int
            /\ s_index \in Bufs /\ r_index \in Bufs
            /\ \A p \in 1..Len(socket_index) : socket_index[p] \in Bufs
            /\ Len(socket_index) \in Nat /\ Len(sock) \in Nat /\ produced \in Nat
            /\ s_len \in Int /\ s_done \in Nat /\ Unsent \in Int /\ NextReady \in Int
            /\ socket_index # <<>> => Len(socket_index) \in 1..Len(socket_index)
            /\ socket_index = <<>> => Len(socket_index) = 0
<1> SUFFICES ASSUME TypeOK
    PROVE  /\ \A b \in Bufs : length[b] \in Int /\ first[b] \in Nat /\ After(b) \in Int
           /\ s_index \in Bufs /\ r_index \in Bufs
           /\ \A p \in 1..Len(socket_index) : socket_index[p] \in Bufs
           /\ Len(socket_index) \in Nat /\ Len(sock) \in Nat /\ produced \in Nat
           /\ s_len \in Int /\ s_done \in Nat /\ Unsent \in Int /\ NextReady \in Int
           /\ socket_index # <<>> => Len(socket_index) \in 1..Len(socket_index)
           /\ socket_index = <<>> => Len(socket_index) = 0
  OBVIOUS
<1>1. \A b \in Bufs : length[b] \in Int /\ first[b] \in Nat /\ After(b) \in Int
  BY PipelineAssumption DEF TypeOK, After
<1>2. /\ s_index \in Bufs /\ r_index \in Bufs
      /\ \A p \in 1..Len(socket_index) : socket_index[p] \in Bufs
      /\ Len(socket_index) \in Nat /\ Len(sock) \in Nat /\ produced \in Nat
      /\ s_len \in Int /\ s_done \in Nat
  BY PipelineAssumption DEF TypeOK
<1>3. /\ socket_index # <<>> => Len(socket_index) \in 1..Len(socket_index)
      /\ socket_index = <<>> => Len(socket_index) = 0
  BY DEF TypeOK
<1>4. Unsent \in Int
  BY <1>1, <1>2 DEF Unsent
<1>5. NextReady \in Int
  BY <1>1, <1>2, <1>3, <1>4 DEF NextReady
<1> QED
  BY <1>1, <1>2, <1>3, <1>4, <1>5

(* At the start nothing is read and nothing is on its way.                 *)
LEMMA ChainInit == Init => InOrder /\ ChainInv
<1> SUFFICES ASSUME Init PROVE InOrder /\ ChainInv
  OBVIOUS
<1>1. /\ \A b \in Bufs : After(b) = 0 /\ socket_index = <<>> /\ Len(socket_index) = 0
      /\ Len(sock) = 0 /\ produced = 0 /\ Unsent = 0
  BY DEF Init, After, Unsent
<1> QED
  BY <1>1 DEF Init, InOrder, ChainInv, NextReady

(* A read of the device writes one buffer, which nobody else refers to.    *)
LEMMA ReaderFillChain == TypeOK /\ IndexInv /\ ChainInv /\ ReaderFill => ChainInv'
<1> SUFFICES ASSUME TypeOK, IndexInv, ChainInv, ReaderFill PROVE ChainInv'
  OBVIOUS
<1>1. PICK n \in 0..MaxLen : /\ length' = [length EXCEPT ![r_index] = n]
                             /\ first' = [first EXCEPT ![r_index] = produced + 1]
                             /\ produced' = produced + n
  BY DEF ReaderFill
<1>2. /\ r_pc = "dma" /\ r_pc' = "put"
      /\ UNCHANGED <<r_index, s_pc, s_index, s_len, s_done, socket_index, sock>>
  BY DEF ReaderFill, senderVars, pipeVars
<1>3. /\ length'[r_index] = n /\ first'[r_index] = produced + 1
      /\ \A b \in Bufs : b # r_index => length'[b] = length[b] /\ first'[b] = first[b]
  BY <1>1 DEF TypeOK
<1>4. /\ \A p \in 1..Len(socket_index) : socket_index[p] # r_index
      /\ SenderHolds => s_index # r_index
  BY <1>2 DEF IndexInv, IndexUnique, BufferExclusive, ReaderHolds
<1>5. /\ \A p \in 1..Len(socket_index) :
           /\ length'[socket_index[p]] = length[socket_index[p]]
           /\ first'[socket_index[p]] = first[socket_index[p]]
           /\ (After(socket_index[p]))' = After(socket_index[p])
      /\ SenderHolds => length'[s_index] = length[s_index] /\ first'[s_index] = first[s_index]
  BY <1>2, <1>3, <1>4, ChainTypes DEF After
<1>6. Unsent' = Unsent
  BY <1>2, <1>5 DEF Unsent, SenderHolds
<1>7. NextReady' = NextReady
  BY <1>2, <1>5, <1>6, ChainTypes DEF NextReady
<1>8. After(r_index)' = produced' + 1
  BY <1>1, <1>2, <1>3, ChainTypes, SMTT(40) DEF After
<1>9. \A b \in Bufs : After(b)' <= produced' + 1
  <2> SUFFICES ASSUME NEW b \in Bufs PROVE After(b)' <= produced' + 1
    OBVIOUS
  <2>1. CASE b = r_index
    BY <1>1, <1>2, <1>3, <2>1, ChainTypes DEF After
  <2>2. CASE b # r_index
    <3>1. After(b)' = After(b)
      BY <1>3, <2>2 DEF After
    <3> QED
      BY <1>1, <3>1, ChainTypes DEF ChainInv
  <2> QED
    BY <2>1, <2>2
<1> QED
  BY <1>1, <1>2, <1>3, <1>5, <1>6, <1>7, <1>8, <1>9 DEF ChainInv, SenderHolds

(* A failed read spoils only the reader's own buffer and ends the reader.  *)
LEMMA ReaderFillFailsChain == TypeOK /\ IndexInv /\ ChainInv /\ ReaderFillFails => ChainInv'
<1> SUFFICES ASSUME TypeOK, IndexInv, ChainInv, ReaderFillFails PROVE ChainInv'
  OBVIOUS
<1>1. length' = [length EXCEPT ![r_index] = -1]
  BY DEF ReaderFillFails
<1>2. /\ r_pc = "dma" /\ r_pc' = "exit"
      /\ UNCHANGED <<first, produced, r_index, s_pc, s_index, s_len, s_done,
                     socket_index, sock>>
  BY DEF ReaderFillFails, senderVars, pipeVars, streamVars
<1>3. /\ length'[r_index] = -1
      /\ \A b \in Bufs : b # r_index => length'[b] = length[b]
  BY <1>1 DEF TypeOK
<1>4. /\ \A p \in 1..Len(socket_index) : socket_index[p] # r_index
      /\ SenderHolds => s_index # r_index
  BY <1>2 DEF IndexInv, IndexUnique, BufferExclusive, ReaderHolds
<1>5. /\ \A p \in 1..Len(socket_index) :
           /\ length'[socket_index[p]] = length[socket_index[p]]
           /\ (After(socket_index[p]))' = After(socket_index[p])
      /\ SenderHolds => length'[s_index] = length[s_index]
  BY <1>2, <1>3, <1>4, ChainTypes DEF After
<1>6. Unsent' = Unsent
  BY <1>2, <1>5 DEF Unsent, SenderHolds
<1>7. \A b \in Bufs : After(b)' <= produced' + 1
  <2> SUFFICES ASSUME NEW b \in Bufs PROVE After(b)' <= produced' + 1
    OBVIOUS
  <2>1. CASE b = r_index
    <3>1. first[b] <= produced + 2
      BY <1>2, ChainTypes, <2>1 DEF ChainInv, After, TypeOK
    <3> QED
      BY <1>2, <1>3, <2>1, <3>1, ChainTypes, SMTT(40) DEF After
  <2>2. CASE b # r_index
    <3>1. After(b)' = After(b)
      BY <1>2, <1>3, <2>2 DEF After
    <3> QED
      BY <1>2, <3>1, ChainTypes DEF ChainInv
  <2> QED
    BY <2>1, <2>2
<1> QED
  BY <1>2, <1>5, <1>6, <1>7 DEF ChainInv, SenderHolds

(* The buffer handed over continues the run. *)
LEMMA ReaderPutChain == TypeOK /\ ChainInv /\ ReaderPut => ChainInv'
<1> SUFFICES ASSUME TypeOK, ChainInv, ReaderPut PROVE ChainInv'
  OBVIOUS
<1>1. /\ r_pc = "put"
      /\ UNCHANGED <<first, length, produced, r_index, s_pc, s_index, s_len, s_done, sock>>
  BY DEF ReaderPut, senderVars, bufVars, streamVars
<1>2. Unsent' = Unsent /\ \A b \in Bufs : After(b)' = After(b)
  BY <1>1 DEF Unsent, After
<1>3. CASE r_pc' = "exit" /\ UNCHANGED socket_index
  BY <1>1, <1>2, <1>3 DEF ChainInv, After
<1>4. CASE r_pc' = "loop" /\ socket_index' = Append(socket_index, r_index)
  <2> DEFINE N == Len(socket_index)
  <2>1. /\ N \in Nat /\ Len(socket_index') = N + 1 /\ socket_index'[N + 1] = r_index
        /\ \A p \in 1..N : socket_index'[p] = socket_index[p]
        /\ socket_index' # <<>>
    BY <1>4, AppendProperties, SMTT(40) DEF TypeOK
  <2>2. CASE s_pc = "exit"
    BY <1>1, <1>2, <2>2 DEF ChainInv
  <2>3. CASE s_pc # "exit"
    <3>1. NextReady' = produced' + 1
      BY <1>1, <1>2, <2>1, <2>3 DEF ChainInv, NextReady, After
    <3>2. ASSUME NEW p \in 1..(N + 1)
          PROVE  /\ length[socket_index'[p]] >= 0
                 /\ first[socket_index'[p]] = IF p = 1 THEN Len(sock) + Unsent + 1
                                              ELSE After(socket_index'[p - 1])
      <4>1. CASE p \in 1..N
        <5>1. p # 1 => p - 1 \in 1..N
          BY <2>1
        <5> QED
          BY <2>1, <2>3, <4>1, <5>1 DEF ChainInv
      <4>2. CASE p = N + 1
        <5>1. p # 1 => p - 1 = N /\ N \in 1..N /\ socket_index # <<>>
          BY <2>1, <4>2 DEF TypeOK
        <5>2. p = 1 => socket_index = <<>>
          BY <2>1, <4>2 DEF TypeOK
        <5> QED
          BY <1>1, <2>1, <2>3, <4>2, <5>1, <5>2 DEF ChainInv, NextReady
      <4> QED
        BY <2>1, <4>1, <4>2
    <3>3. \A p \in 1..Len(socket_index') :
            /\ length'[socket_index'[p]] >= 0
            /\ first'[socket_index'[p]] = IF p = 1 THEN Len(sock') + Unsent' + 1
                                          ELSE (After(socket_index[p - 1]))'
      BY <1>1, <1>2, <2>1, <3>2 DEF After
    <3> QED
      BY <1>1, <1>2, <1>4, <2>3, <3>1, <3>3 DEF ChainInv
  <2> QED
    BY <2>2, <2>3
<1> QED
  BY <1>3, <1>4 DEF ReaderPut

(* The buffer taken from the pipe is the next to be written. *)
LEMMA SenderTakeChain == TypeOK /\ ChainInv /\ SenderTake => ChainInv'
<1> SUFFICES ASSUME TypeOK, ChainInv, SenderTake PROVE ChainInv'
  OBVIOUS
<1>1. /\ s_pc = "take" /\ Unsent = 0
      /\ UNCHANGED <<first, length, produced, r_pc, r_index, s_len, s_done, sock>>
  BY DEF SenderTake, readerVars, bufVars, streamVars, Unsent
<1>2. \A b \in Bufs : After(b)' = After(b)
  BY <1>1 DEF After
<1>3. CASE s_pc' = "exit"
  BY <1>1, <1>2, <1>3 DEF ChainInv
<1>4. CASE /\ socket_index # <<>> /\ s_pc' = "test"
           /\ s_index' = Head(socket_index) /\ socket_index' = Tail(socket_index)
  <2> DEFINE N == Len(socket_index)
  <2>1. /\ N \in Nat /\ N >= 1 /\ Len(socket_index') = N - 1
        /\ s_index' = socket_index[1]
        /\ \A p \in 1..(N - 1) : socket_index'[p] = socket_index[p + 1]
        /\ (socket_index' = <<>>) <=> (N = 1)
    <3>1. socket_index \in Seq(Bufs) /\ N \in Nat
      BY DEF TypeOK
    <3>2. /\ 1 \in 1..N /\ s_index' = socket_index[1]
          /\ Len(socket_index') = N - 1 /\ socket_index' \in Seq(Bufs)
          /\ \A p \in 1..Len(socket_index') : socket_index'[p] = socket_index[p + 1]
      BY <1>4, <3>1, QueueTake
    <3>3. (socket_index' = <<>>) <=> (Len(socket_index') = 0)
      BY <3>2, EmptySeq
    <3> QED
      BY <3>1, <3>2, <3>3
  <2>2. /\ length[s_index'] >= 0 /\ first[s_index'] = Len(sock) + 1
        /\ Unsent' = length[s_index']
        /\ Len(sock') + Unsent' + 1 = first[s_index'] + length[s_index']
    <3>1. length[s_index'] >= 0 /\ first[s_index'] = Len(sock) + 0 + 1
      BY <1>1, <2>1 DEF ChainInv
    <3>2. length[s_index'] \in Int /\ Len(sock) \in Nat
      BY <2>1, ChainTypes
    <3>3. Unsent' = length[s_index']
      BY <1>1, <1>4 DEF Unsent
    <3>4. Len(sock') = Len(sock)
      BY <1>1
    <3> QED
      BY <3>1, <3>2, <3>3, <3>4
  <2>3. NextReady' = NextReady
    BY <1>1, <2>1, <2>2 DEF NextReady, After
  <2>4. \A p \in 1..Len(socket_index') :
          /\ length'[socket_index'[p]] >= 0
          /\ first'[socket_index'[p]] = IF p = 1 THEN Len(sock') + Unsent' + 1
                                        ELSE (After(socket_index[p - 1]))'
    <3> SUFFICES ASSUME NEW p \in 1..(N - 1)
        PROVE  /\ length'[socket_index'[p]] >= 0
               /\ first'[socket_index'[p]] = IF p = 1 THEN Len(sock') + Unsent' + 1
                                             ELSE (After(socket_index[p - 1]))'
      BY <2>1
    <3>1. p + 1 \in 1..N /\ p + 1 # 1 /\ (p + 1) - 1 = p
      BY <2>1
    <3>2. /\ length[socket_index[p + 1]] >= 0
          /\ first[socket_index[p + 1]] = first[socket_index[p]] + length[socket_index[p]]
      BY <1>1, <3>1 DEF ChainInv, After
    <3>3. socket_index'[p] = socket_index[p + 1]
      BY <2>1
    <3>4. CASE p = 1
      BY <1>1, <2>1, <2>2, <3>2, <3>3, <3>4
    <3>5. CASE p # 1
      <4>1. p - 1 \in 1..(N - 1) /\ (p - 1) + 1 = p
        BY <2>1, <3>5
      <4>2. socket_index'[p - 1] = socket_index[p]
        BY <2>1, <4>1
      <4> QED
        BY <1>1, <3>2, <3>3, <3>5, <4>2 DEF After
    <3> QED
      BY <3>4, <3>5
  <2>5. /\ r_pc' = "put" => /\ length'[r_index'] >= 0
                             /\ first'[r_index'] = NextReady'
                             /\ (After(r_index))' = produced' + 1
        /\ r_pc' \in {"loop", "take", "dma"} => NextReady' = produced' + 1
    BY <1>1, <2>3 DEF ChainInv, After
  <2>6. s_pc' = "test" /\ first'[s_index'] = Len(sock') + 1 /\ length'[s_index'] >= 0
    BY <1>1, <1>4, <2>2
  <2>7. \A b \in Bufs : (After(b))' <= produced' + 1
    BY <1>1, <1>2 DEF ChainInv
  <2> QED
    BY <2>4, <2>5, <2>6, <2>7 DEF ChainInv
<1> QED
  BY <1>3, <1>4 DEF SenderTake

(* A write() moves units from the sender's hands to the socket, and they   *)
(* are the right ones.                                                     *)
LEMMA SenderWriteChain ==
  TypeOK /\ IndexInv /\ InOrder /\ ChainInv /\ SenderWrite => InOrder' /\ ChainInv'
<1> SUFFICES ASSUME TypeOK, IndexInv, InOrder, ChainInv, SenderWrite
    PROVE  InOrder' /\ ChainInv'
  OBVIOUS
<1>1. PICK k \in 1..MaxLen :
        /\ s_done + k <= s_len
        /\ sock' = sock \o [j \in 1..k |-> UnitAt(s_index, s_done + j - 1)]
        /\ s_done' = s_done + k
  BY DEF SenderWrite
<1>2. /\ s_pc = "write" /\ s_pc' = IF s_done' = s_len THEN "wrote" ELSE "write"
      /\ UNCHANGED <<first, length, produced, r_pc, r_index, s_index, s_len, socket_index>>
  BY DEF SenderWrite, readerVars, bufVars, pipeVars
<1>3. /\ s_len = length[s_index] /\ s_len > 0
      /\ s_done < s_len /\ first[s_index] + s_done = Len(sock) + 1
      /\ Unsent = s_len - s_done
  BY <1>2 DEF ChainInv, Unsent
<1>4. /\ k \in Nat /\ k >= 1 /\ Len(sock) \in Nat /\ s_done \in Nat /\ s_len \in Int
      /\ first[s_index] \in Nat
  BY ChainTypes, PipelineAssumption
<1> DEFINE run == [j \in 1..k |-> UnitAt(s_index, s_done + j - 1)]
<1>5. \A j \in 1..k : UnitAt(s_index, s_done + j - 1) = Len(sock) + j
  <2>1. ~ (r_pc = "dma" /\ r_index = s_index)
    BY <1>2 DEF IndexInv, IndexUnique, BufferExclusive, ReaderHolds, SenderHolds
  <2>2. \A j \in 1..k : UnitAt(s_index, s_done + j - 1) = first[s_index] + (s_done + j - 1)
    BY <2>1 DEF UnitAt
  <2>3. \A j \in 1..k : first[s_index] + (s_done + j - 1) = Len(sock) + j
    BY <1>3, <1>4
  <2> QED
    BY <2>2, <2>3
<1>6. /\ run \in Seq(Nat) /\ Len(run) = k /\ sock' = sock \o run /\ sock \in Seq(Nat)
      /\ \A j \in 1..k : run[j] = Len(sock) + j
  <2>1. \A j \in 1..k : Len(sock) + j \in Nat
    BY <1>4
  <2>2. /\ run \in [1..k -> Nat]
        /\ \A j \in 1..k : run[j] = Len(sock) + j
    BY <1>5, <2>1
  <2>3. sock' = sock \o run /\ sock \in Seq(Nat)
    BY <1>1 DEF TypeOK
  <2> HIDE DEF run
  <2>4. run \in Seq(Nat) /\ Len(run) = k
    BY <1>4, <2>2
  <2> QED
    BY <2>2, <2>3, <2>4
<1> HIDE DEF run
<1>7. /\ Len(sock') = Len(sock) + k
      /\ \A p \in 1..(Len(sock) + k) :
           sock'[p] = IF p <= Len(sock) THEN sock[p] ELSE run[p - Len(sock)]
  BY <1>6, ConcatProperties
<1>8. InOrder'
  <2> SUFFICES ASSUME NEW p \in 1..(Len(sock) + k) PROVE sock'[p] = p
    BY <1>7 DEF InOrder
  <2>1. CASE p <= Len(sock)
    BY <1>4, <1>7, <2>1 DEF InOrder
  <2>2. CASE p > Len(sock)
    <3>1. p - Len(sock) \in 1..k /\ Len(sock) + (p - Len(sock)) = p /\ ~ (p <= Len(sock))
      BY <1>4, <2>2
    <3>2. sock'[p] = run[p - Len(sock)]
      BY <1>7, <3>1
    <3> QED
      BY <1>6, <3>1, <3>2
  <2> QED
    BY <1>4, <2>1, <2>2
<1>9. Unsent' = Unsent - k
  <2>1. Unsent' = s_len - (s_done + k)
    <3>1. CASE s_done' = s_len
      <4>1. s_pc' = "wrote"
        BY <1>2, <3>1
      <4>2. Unsent' = 0
        BY <4>1 DEF Unsent
      <4> QED
        BY <1>1, <1>4, <3>1, <4>2
    <3>2. CASE s_done' # s_len
      BY <1>1, <1>2, <3>2 DEF Unsent
    <3> QED
      BY <3>1, <3>2
  <2> QED
    BY <1>3, <1>4, <2>1
<1>10. Len(sock') + Unsent' = Len(sock) + Unsent
  BY <1>3, <1>4, <1>7, <1>9
<1>11. \A b \in Bufs : After(b)' = After(b)
  BY <1>2 DEF After
<1>12. NextReady' = NextReady
  BY <1>2, <1>10 DEF NextReady, After
<1>13. s_pc' = "write" => s_done' < s_len' /\ first'[s_index'] + s_done' = Len(sock') + 1
  <2> SUFFICES ASSUME s_pc' = "write"
      PROVE  s_done + k < s_len /\ first[s_index] + (s_done + k) = Len(sock) + k + 1
    BY <1>1, <1>2, <1>7
  <2>1. s_done + k # s_len /\ s_done + k <= s_len
    BY <1>1, <1>2
  <2> QED
    BY <1>3, <1>4, <2>1, SMTT(40)
<1>14. \A p \in 1..Len(socket_index') :
         /\ length'[socket_index'[p]] >= 0
         /\ first'[socket_index'[p]] = IF p = 1 THEN Len(sock') + Unsent' + 1
                                       ELSE (After(socket_index[p - 1]))'
  BY <1>2, <1>10 DEF ChainInv, After
<1>15. r_pc' = "put" => /\ length'[r_index'] >= 0
                        /\ first'[r_index'] = NextReady'
                        /\ (After(r_index))' = produced' + 1
  BY <1>2, <1>12 DEF ChainInv, After
<1>16. r_pc' \in {"loop", "take", "dma"} => NextReady' = produced' + 1
  BY <1>2, <1>12 DEF ChainInv
<1> QED
  BY <1>2, <1>3, <1>8, <1>11, <1>13, <1>14, <1>15, <1>16 DEF ChainInv

(* What is left: steps that move no unit. *)
LEMMA ChainStep ==
  TypeOK /\ IndexInv /\ InOrder /\ ChainInv /\ [Next]_vars => InOrder' /\ ChainInv'
<1> SUFFICES ASSUME TypeOK, IndexInv, InOrder, ChainInv, [Next]_vars
    PROVE  InOrder' /\ ChainInv'
  OBVIOUS
<1> USE DEF vars, readerVars, senderVars, bufVars, pipeVars, streamVars, procVars
<1> DEFINE dataVars == <<first, length, produced, socket_index, sock>>
<1>1. CASE UNCHANGED <<dataVars, readerVars, senderVars>>
  BY <1>1 DEF InOrder, ChainInv, NextReady, Unsent, After
<1>2. CASE ReaderLoop \/ ReaderTake
  BY <1>2 DEF ReaderLoop, ReaderTake, InOrder, ChainInv, NextReady, Unsent, After
<1>3. CASE ReaderFill \/ ReaderFillFails \/ ReaderPut
  <2>1. InOrder'
    BY <1>3 DEF ReaderFill, ReaderFillFails, ReaderPut, InOrder
  <2> QED
    BY <1>3, <2>1, ReaderFillChain, ReaderFillFailsChain, ReaderPutChain
<1>4. CASE SenderLoop
  BY <1>4 DEF SenderLoop, InOrder, ChainInv, NextReady, Unsent, After
<1>5. CASE SenderTake
  <2>1. InOrder'
    BY <1>5 DEF SenderTake, InOrder
  <2> QED
    BY <1>5, <2>1, SenderTakeChain
<1>6. CASE SenderTest
  <2>1. Unsent' = Unsent
    BY <1>6, ChainTypes DEF SenderTest, Unsent, ChainInv
  <2>2. /\ InOrder' /\ NextReady' = NextReady
        /\ \A b \in Bufs : After(b)' = After(b)
    BY <1>6, <2>1 DEF SenderTest, InOrder, NextReady, After
  <2>3. s_pc = "test" /\ UNCHANGED <<first, length, produced, socket_index, sock, r_pc,
                                     r_index, s_index>>
    BY <1>6 DEF SenderTest
  <2>4. /\ s_pc' = "write" => /\ s_len' = length[s_index] /\ length[s_index] > 0
                               /\ s_done' = 0
        /\ s_pc' \in {"write", "give"}
    BY <1>6 DEF SenderTest
  <2>5. s_pc' = "write" => /\ s_done' < s_len'
                           /\ first'[s_index'] + s_done' = Len(sock') + 1
    BY <2>3, <2>4, ChainTypes DEF ChainInv
  <2>6. \A p \in 1..Len(socket_index') :
          /\ length'[socket_index'[p]] >= 0
          /\ first'[socket_index'[p]] = IF p = 1 THEN Len(sock') + Unsent' + 1
                                        ELSE (After(socket_index[p - 1]))'
    BY <2>1, <2>3 DEF ChainInv, After
  <2>7. /\ r_pc' = "put" => /\ length'[r_index'] >= 0
                             /\ first'[r_index'] = NextReady'
                             /\ (After(r_index))' = produced' + 1
        /\ r_pc' \in {"loop", "take", "dma"} => NextReady' = produced' + 1
    BY <2>2, <2>3 DEF ChainInv, After
  <2>8. \A b \in Bufs : (After(b))' <= produced' + 1
    BY <2>2, <2>3 DEF ChainInv
  <2> QED
    BY <2>2, <2>3, <2>4, <2>5, <2>6, <2>7, <2>8 DEF ChainInv
<1>7. CASE SenderWrite
  BY <1>7, SenderWriteChain
<1>8. CASE SenderWriteFails
  BY <1>8 DEF SenderWriteFails, InOrder, ChainInv, After
<1>9. CASE SenderCheck \/ SenderGive
  BY <1>9 DEF SenderCheck, SenderGive, InOrder, ChainInv, NextReady, Unsent, After
<1>10. CASE Handler \/ ClearThread \/ PeerClose \/ UNCHANGED vars
  BY <1>1, <1>10 DEF Handler, HandlerStop, HandlerPost, ClearThread, ClearWait,
                     ClearCheck, ClearClose, PeerClose
<1> QED
  BY <1>2, <1>3, <1>4, <1>5, <1>6, <1>7, <1>8, <1>9, <1>10
  DEF Next, ReadDmaThread, SendAcqDataThread

(* The indices and what is in the buffers stay consistent, and the socket  *)
(* in order, in every state.                                               *)
THEOREM IInvCorrect == Spec => []IInv
<1>1. Init => IInv
  BY InitType, IndexInit, ChainInit DEF IInv
<1>2. IInv /\ [Next]_vars => IInv'
  BY TypeStep, IndexStep, ChainStep DEF IInv
<1> QED
  BY <1>1, <1>2, PTL DEF Spec

(* The client gets the device's units in the order they were read: none    *)
(* lost, none twice, none from a half-filled buffer.                       *)
THEOREM DeliveredInOrder == Spec => []InOrder
<1>1. IInv => InOrder
  BY DEF IInv
<1> QED
  BY <1>1, IInvCorrect, PTL

(* What one write() adds to the socket, in the terms of AcqStream. *)
LEMMA WriteDelivers ==
  IInv /\ SenderWrite =>
    \E k \in 1..MaxLen : /\ Len(sock) + k <= produced
                         /\ sock' = sock \o [j \in 1..k |-> Len(sock) + j]
<1> SUFFICES ASSUME IInv, SenderWrite
    PROVE  \E k \in 1..MaxLen : /\ Len(sock) + k <= produced
                                /\ sock' = sock \o [j \in 1..k |-> Len(sock) + j]
  OBVIOUS
<1>1. PICK k \in 1..MaxLen :
        /\ s_done + k <= s_len
        /\ sock' = sock \o [j \in 1..k |-> UnitAt(s_index, s_done + j - 1)]
  BY DEF SenderWrite
<1>2. /\ s_len = length[s_index] /\ first[s_index] + s_done = Len(sock) + 1
      /\ first[s_index] + length[s_index] <= produced + 1
  BY ChainTypes DEF SenderWrite, IInv, ChainInv, After
<1>3. /\ k \in Nat /\ Len(sock) \in Nat /\ s_done \in Nat /\ s_len \in Int
      /\ first[s_index] \in Nat /\ produced \in Nat
  BY ChainTypes, PipelineAssumption DEF IInv
<1>4. ~ (r_pc = "dma" /\ r_index = s_index)
  BY DEF SenderWrite, IInv, IndexInv, IndexUnique, BufferExclusive, ReaderHolds, SenderHolds
<1>5. \A j \in 1..k : UnitAt(s_index, s_done + j - 1) = first[s_index] + (s_done + j - 1)
  BY <1>4 DEF UnitAt
<1>6. \A j \in 1..k : first[s_index] + (s_done + j - 1) = Len(sock) + j
  <2> TAKE j \in 1..k
  <2>1. j \in Int /\ first[s_index] + s_done = Len(sock) + 1
    BY <1>2, <1>3
  <2> QED
    BY <1>3, <2>1
<1>7. [j \in 1..k |-> UnitAt(s_index, s_done + j - 1)] = [j \in 1..k |-> Len(sock) + j]
  <2>1. \A j \in 1..k : UnitAt(s_index, s_done + j - 1) = Len(sock) + j
    BY <1>5, <1>6, Zenon
  <2> QED
    BY <2>1, Zenon
<1>8. Len(sock) + k <= produced
  <2>1. s_done + k <= s_len
    BY <1>1
  <2> QED
    BY <1>2, <1>3, <2>1
<1> QED
  BY <1>1, <1>7, <1>8

-----------------------------------------------------------------------------
(* Back-pressure.  What was read and is not yet written lies in buffers of *)
(* its own, a bufferful in each; so an index that is free takes a buffer's *)
(* worth off what can still be on its way.                                 *)

One(c) == IF c THEN 1 ELSE 0

(* The buffers handed over to the sender or about to be. *)
Ahead == Len(socket_index) + One(r_pc = "put")

(* While both threads run: the indices are at most NumBufs, and from each  *)
(* buffer of the socket pipe to the device's last unit there is a bufferful*)
(* for every buffer from that one on.  Once the sender is gone: a bufferful*)
(* for every index that is not free.                                       *)
BacklogInv ==
  /\ r_pc # "exit" /\ s_pc # "exit" =>
       /\ Len(dma_index) + Len(socket_index) + One(ReaderHolds) + One(SenderHolds) <= NumBufs
       /\ \A p \in 1..Len(socket_index) :
            produced + 1 - first[socket_index[p]] <= MaxLen * (Ahead - p + 1)
  /\ r_pc # "exit" /\ s_pc = "exit" =>
       produced - Len(sock) <= MaxLen * (NumBufs - Len(dma_index) - One(r_pc = "dma"))
  /\ Backlog

(* One buffer more, and fewer buffers, in units. *)
LEMMA Bufferfuls ==
  ASSUME NEW a \in Int, NEW b \in Int
  PROVE  /\ MaxLen * a \in Int /\ MaxLen * (a + 1) = MaxLen * a + MaxLen
         /\ a <= b => MaxLen * a <= MaxLen * b
<1>1. MaxLen \in Nat
  BY PipelineAssumption
<1> QED BY <1>1

(* While both threads run, what is not yet written is what the sender has  *)
(* in its hands and what lies ahead, and the free indices count for none.  *)
LEMMA BacklogNow ==
  ASSUME IInv, BacklogInv, r_pc # "exit", s_pc # "exit"
  PROVE  produced - Len(sock) <= MaxLen * (NumBufs - Len(dma_index) - One(r_pc = "dma"))
<1>1. PICK N \in Nat : N = Len(socket_index)
  BY ChainTypes DEF IInv
<1>2. PICK D \in Nat : D = Len(dma_index)
  BY DEF IInv, TypeOK
<1>3. PICK put \in {0, 1} : put = One(r_pc = "put")
  BY DEF One
<1>4. PICK dma \in {0, 1} : dma = One(r_pc = "dma")
  BY DEF One
<1>5. PICK held \in {0, 1} : held = One(SenderHolds)
  BY DEF One
<1>6. D + N + put + dma + held <= NumBufs
  <2>1. One(ReaderHolds) = put + dma
    BY <1>3, <1>4 DEF One, ReaderHolds
  <2>2. D + N + One(ReaderHolds) + held <= NumBufs
    BY <1>1, <1>2, <1>5 DEF BacklogInv
  <2> QED BY <2>1, <2>2, PipelineAssumption
<1>7. produced \in Nat /\ Len(sock) \in Nat /\ Unsent \in Int
  BY ChainTypes DEF IInv
<1>8. produced - Len(sock) - Unsent <= MaxLen * (N + put)
  <2>1. CASE N > 0
    <3>1. /\ 1 \in 1..N /\ first[socket_index[1]] = Len(sock) + Unsent + 1
      BY <1>1, <2>1 DEF IInv, ChainInv
    <3>2. produced + 1 - first[socket_index[1]] <= MaxLen * (N + put - 1 + 1)
      BY <1>1, <1>3, <3>1 DEF BacklogInv, Ahead
    <3>3. N + put - 1 + 1 = N + put
      OBVIOUS
    <3> QED BY <1>7, <3>1, <3>2, <3>3
  <2>2. CASE N = 0
    <3>1. NextReady = Len(sock) + Unsent + 1
      BY <1>1, <2>2, ChainTypes DEF IInv, NextReady
    <3>2. CASE r_pc = "put"
      <4>1. first[r_index] = Len(sock) + Unsent + 1 /\ After(r_index) = produced + 1
        BY <3>1, <3>2 DEF IInv, ChainInv
      <4>2. first[r_index] \in Nat /\ length[r_index] \in -1..MaxLen
        BY DEF IInv, TypeOK
      <4>3. produced - Len(sock) - Unsent <= MaxLen
        BY <1>7, <4>1, <4>2, PipelineAssumption DEF After
      <4>4. N + put = 1 /\ MaxLen * 1 = MaxLen
        BY <1>3, <2>2, <3>2, PipelineAssumption DEF One
      <4> QED BY <4>3, <4>4
    <3>3. CASE r_pc \in {"loop", "take", "dma"}
      <4>1. NextReady = produced + 1
        BY <3>3 DEF IInv, ChainInv
      <4>2. N + put = 0 /\ MaxLen * 0 = 0
        BY <1>3, <2>2, <3>3, PipelineAssumption DEF One
      <4> QED BY <1>7, <3>1, <4>1, <4>2
    <3> QED BY <3>2, <3>3 DEF IInv, TypeOK, ReaderPc
  <2> QED BY <2>1, <2>2
<1>9. Unsent <= MaxLen * held
  <2>1. /\ held = 1 => MaxLen * held = MaxLen
        /\ held = 0 => MaxLen * held = 0
    BY <1>5, PipelineAssumption
  <2>2. CASE held = 0
    <3>1. Unsent = 0
      BY <1>5, <2>2 DEF One, SenderHolds, Unsent
    <3> QED BY <2>1, <2>2, <3>1
  <2>3. CASE held = 1
    <3>1. length[s_index] \in -1..MaxLen /\ s_len \in -1..MaxLen /\ s_done \in 0..MaxLen
      BY DEF IInv, TypeOK
    <3>2. Unsent <= MaxLen
      BY <3>1, PipelineAssumption DEF Unsent
    <3> QED BY <2>1, <2>3, <3>2
  <2> QED BY <2>2, <2>3
<1>10. MaxLen * (N + put) + MaxLen * held = MaxLen * (N + put + held)
  <2>1. CASE held = 0
    BY <2>1, PipelineAssumption
  <2>2. CASE held = 1
    BY <2>2, Bufferfuls, PipelineAssumption
  <2> QED BY <2>1, <2>2
<1>11. MaxLen * (N + put + held) <= MaxLen * (NumBufs - D - dma)
  <2>1. /\ N + put + held \in Int /\ NumBufs - D - dma \in Int
        /\ N + put + held <= NumBufs - D - dma
    BY <1>6, PipelineAssumption
  <2> QED BY <2>1, Bufferfuls
<1>12. /\ MaxLen * (N + put) \in Int /\ MaxLen * held \in Int
       /\ MaxLen * (NumBufs - D - dma) \in Int
  BY PipelineAssumption
<1>13. produced - Len(sock) <= MaxLen * (NumBufs - D - dma)
  BY <1>7, <1>8, <1>9, <1>10, <1>11, <1>12
<1> QED BY <1>2, <1>4, <1>13

(* While both threads run, the indices stay at most NumBufs: a step moves  *)
(* one between a pipe and a thread's hands, or none.                       *)
LEMMA SlotsStep ==
  ASSUME IInv, BacklogInv, [Next]_vars,
         r_pc # "exit", s_pc # "exit", r_pc' # "exit", s_pc' # "exit"
  PROVE  (Len(dma_index) + Len(socket_index) + One(ReaderHolds) + One(SenderHolds) <= NumBufs)'
<1>1. PICK D \in Nat, N \in Nat : D = Len(dma_index) /\ N = Len(socket_index)
  BY DEF IInv, TypeOK
<1>2. PICK R \in {0, 1}, S \in {0, 1} : R = One(ReaderHolds) /\ S = One(SenderHolds)
  BY DEF One
<1>3. D + N + R + S <= NumBufs
  BY <1>1, <1>2 DEF BacklogInv
<1>4. /\ dma_index # <<>> => Len(Tail(dma_index)) = D - 1
      /\ socket_index # <<>> => Len(Tail(socket_index)) = N - 1
      /\ Len(Append(dma_index, s_index)) = D + 1
      /\ Len(Append(socket_index, r_index)) = N + 1
  BY <1>1 DEF IInv, TypeOK
<1> DEFINE Moves(d, n, r, s) == /\ Len(dma_index') = D + d /\ Len(socket_index') = N + n
                                /\ One(ReaderHolds)' = R + r /\ One(SenderHolds)' = S + s
<1>5. CASE ReaderTake
  <2>1. Moves(-1, 0, 1, 0)
    BY <1>1, <1>2, <1>4, <1>5 DEF ReaderTake, senderVars, One, ReaderHolds, SenderHolds
  <2> QED BY <1>3, <2>1, PipelineAssumption
<1>6. CASE ReaderPut
  <2>1. Moves(0, 1, -1, 0)
    BY <1>1, <1>2, <1>4, <1>6 DEF ReaderPut, senderVars, One, ReaderHolds, SenderHolds
  <2> QED BY <1>3, <2>1, PipelineAssumption
<1>7. CASE SenderTake
  <2>1. Moves(0, -1, 0, 1)
    BY <1>1, <1>2, <1>4, <1>7 DEF SenderTake, readerVars, One, ReaderHolds, SenderHolds
  <2> QED BY <1>3, <2>1, PipelineAssumption
<1>8. CASE SenderGive
  <2>1. Moves(1, 0, 0, -1)
    BY <1>1, <1>2, <1>4, <1>8 DEF SenderGive, readerVars, One, ReaderHolds, SenderHolds
  <2> QED BY <1>3, <2>1, PipelineAssumption
<1>9. CASE UNCHANGED <<pipeVars, ReaderHolds, SenderHolds>>
  <2>1. Moves(0, 0, 0, 0)
    BY <1>1, <1>2, <1>9 DEF pipeVars, One
  <2> QED BY <1>3, <2>1, PipelineAssumption
<1>10. CASE ReaderLoop \/ ReaderFill \/ ReaderFillFails
  <2>1. UNCHANGED <<pipeVars, ReaderHolds, SenderHolds>>
    BY <1>10 DEF ReaderLoop, ReaderFill, ReaderFillFails, pipeVars, senderVars,
                 ReaderHolds, SenderHolds
  <2> QED BY <1>9, <2>1
<1>11. CASE SenderLoop \/ SenderTest \/ SenderWrite \/ SenderWriteFails \/ SenderCheck
  <2>1. UNCHANGED <<pipeVars, ReaderHolds, SenderHolds>>
    BY <1>11 DEF SenderLoop, SenderTest, SenderWrite, SenderWriteFails, SenderCheck,
                 pipeVars, readerVars, ReaderHolds, SenderHolds
  <2> QED BY <1>9, <2>1
<1>12. CASE Handler \/ ClearThread \/ PeerClose \/ UNCHANGED vars
  <2>1. UNCHANGED <<pipeVars, readerVars, senderVars>>
    BY <1>12 DEF Handler, HandlerStop, HandlerPost, ClearThread, ClearWait, ClearCheck,
                 ClearClose, PeerClose, vars
  <2>2. UNCHANGED <<pipeVars, ReaderHolds, SenderHolds>>
    BY <2>1 DEF readerVars, senderVars, ReaderHolds, SenderHolds
  <2> QED BY <1>9, <2>2
<1> QED BY <1>5, <1>6, <1>7, <1>8, <1>10, <1>11, <1>12
        DEF Next, ReadDmaThread, SendAcqDataThread

(* While both threads run, there stays a bufferful for every buffer ahead: *)
(* a read of the device adds at most one and a buffer, and a buffer leaves *)
(* the front with what was before all others.                              *)
LEMMA AheadStep ==
  ASSUME IInv, BacklogInv, [Next]_vars,
         r_pc # "exit", s_pc # "exit", r_pc' # "exit", s_pc' # "exit"
  PROVE  (\A p \in 1..Len(socket_index) :
            produced + 1 - first[socket_index[p]] <= MaxLen * (Ahead - p + 1))'
<1> DEFINE N == Len(socket_index)
<1>1. /\ N \in Nat /\ produced \in Nat /\ r_index \in Bufs
      /\ \A p \in 1..N : socket_index[p] \in Bufs
      /\ \A b \in Bufs : first[b] \in Nat
  BY ChainTypes DEF IInv
<1>2. \A p \in 1..N : produced + 1 - first[socket_index[p]] <= MaxLen * (Ahead - p + 1)
  BY DEF BacklogInv
<1>3. CASE UNCHANGED <<socket_index, first, produced, One(r_pc = "put")>>
  BY <1>2, <1>3 DEF Ahead
<1>4. CASE ReaderFill
  <2>1. PICK n \in 0..MaxLen : /\ first' = [first EXCEPT ![r_index] = produced + 1]
                               /\ produced' = produced + n
    BY <1>4 DEF ReaderFill
  <2>2. /\ r_pc = "dma" /\ r_pc' = "put" /\ socket_index' = socket_index
        /\ \A p \in 1..N : socket_index[p] # r_index
    BY <1>4 DEF ReaderFill, pipeVars, IInv, IndexInv, IndexUnique, ReaderHolds
  <2>3. Ahead' = N + 1 /\ Ahead = N
    BY <1>1, <2>2 DEF Ahead, One
  <2>4. ASSUME NEW p \in 1..N
        PROVE  produced' + 1 - first'[socket_index'[p]] <= MaxLen * (Ahead' - p + 1)
    <3>1. PICK f \in Nat : f = first[socket_index[p]]
      BY <1>1
    <3>2. first'[socket_index'[p]] = f
      BY <1>1, <2>1, <2>2, <3>1 DEF IInv, TypeOK
    <3>3. produced + 1 - f <= MaxLen * (N - p + 1)
      BY <1>2, <2>3, <3>1
    <3>4. /\ MaxLen * (N - p + 1) \in Int
          /\ MaxLen * (N - p + 1 + 1) = MaxLen * (N - p + 1) + MaxLen
      <4>1. N - p + 1 \in Int
        BY <1>1
      <4> QED BY <4>1, Bufferfuls
    <3>5. n <= MaxLen /\ n \in Nat /\ MaxLen \in Nat
      BY PipelineAssumption
    <3>6. produced + n + 1 - f <= MaxLen * (N - p + 1 + 1)
      BY <1>1, <3>3, <3>4, <3>5
    <3>7. N + 1 - p + 1 = N - p + 1 + 1
      BY <1>1
    <3> QED BY <2>1, <2>3, <3>2, <3>6, <3>7
  <2> QED BY <2>2, <2>4
<1>5. CASE ReaderPut
  <2>1. /\ r_pc = "put" /\ r_pc' = "loop" /\ UNCHANGED <<first, produced>>
        /\ socket_index' = Append(socket_index, r_index)
    BY <1>5 DEF ReaderPut, bufVars, streamVars
  <2>2. /\ Len(socket_index') = N + 1 /\ socket_index'[N + 1] = r_index
        /\ \A p \in 1..N : socket_index'[p] = socket_index[p]
    BY <1>1, <2>1, AppendProperties DEF IInv, TypeOK
  <2>3. Ahead' = N + 1 /\ Ahead = N + 1
    BY <1>1, <2>1, <2>2 DEF Ahead, One
  <2>4. produced + 1 - first[r_index] <= MaxLen
    <3>1. After(r_index) = produced + 1 /\ length[r_index] \in -1..MaxLen
      BY <1>1, <2>1 DEF IInv, ChainInv, TypeOK
    <3> QED BY <1>1, <3>1, PipelineAssumption DEF After
  <2>5. ASSUME NEW p \in 1..N + 1
        PROVE  produced' + 1 - first'[socket_index'[p]] <= MaxLen * (Ahead' - p + 1)
    <3>1. CASE p \in 1..N
      BY <1>2, <2>1, <2>2, <2>3, <3>1
    <3>2. CASE p = N + 1
      <4>1. Ahead' - p + 1 = 1 /\ MaxLen * 1 = MaxLen
        BY <1>1, <2>3, <3>2, PipelineAssumption
      <4>2. produced' + 1 - first'[socket_index'[p]] = produced + 1 - first[r_index]
        BY <2>1, <2>2, <3>2
      <4> QED BY <2>4, <4>1, <4>2
    <3> QED BY <1>1, <3>1, <3>2
  <2> QED BY <2>2, <2>5
<1>6. CASE SenderTake
  <2>1. /\ socket_index # <<>> /\ socket_index' = Tail(socket_index)
        /\ UNCHANGED <<first, produced, r_pc>>
    BY <1>6 DEF SenderTake, readerVars, bufVars, streamVars
  <2>2. /\ Len(socket_index') = N - 1
        /\ \A p \in 1..N - 1 : p + 1 \in 1..N /\ socket_index'[p] = socket_index[p + 1]
    <3>1. socket_index \in Seq(Bufs)
      BY DEF IInv, TypeOK
    <3> QED BY <1>1, <2>1, <3>1, QueueTake
  <2>3. PICK put \in {0, 1} : put = One(r_pc = "put")
    BY DEF One
  <2>4. Ahead' = N - 1 + put /\ Ahead = N + put
    BY <2>1, <2>2, <2>3 DEF Ahead, One
  <2>5. ASSUME NEW p \in 1..N - 1
        PROVE  produced' + 1 - first'[socket_index'[p]] <= MaxLen * (Ahead' - p + 1)
    <3>1. produced + 1 - first[socket_index[p + 1]] <= MaxLen * (Ahead - (p + 1) + 1)
      BY <1>2, <2>2
    <3>2. Ahead - (p + 1) + 1 = Ahead' - p + 1
      BY <1>1, <2>4
    <3> QED BY <2>1, <2>2, <3>1, <3>2
  <2> QED BY <2>2, <2>5
<1>7. CASE ReaderLoop \/ ReaderTake \/ ReaderFillFails
  <2>1. UNCHANGED <<socket_index, first, produced>> /\ r_pc # "put" /\ r_pc' # "put"
    BY <1>7 DEF ReaderLoop, ReaderTake, ReaderFillFails, bufVars, pipeVars, streamVars
  <2> QED BY <1>3, <2>1 DEF One
<1>8. CASE \/ SenderLoop \/ SenderTest \/ SenderWrite \/ SenderWriteFails \/ SenderCheck
           \/ SenderGive
  <2>1. UNCHANGED <<socket_index, first, produced, r_pc>>
    BY <1>8 DEF SenderLoop, SenderTest, SenderWrite, SenderWriteFails, SenderCheck,
                SenderGive, readerVars, bufVars, pipeVars, streamVars
  <2> QED BY <1>3, <2>1 DEF One
<1>9. CASE Handler \/ ClearThread \/ PeerClose \/ UNCHANGED vars
  <2>1. UNCHANGED <<socket_index, first, produced, r_pc>>
    BY <1>9 DEF Handler, HandlerStop, HandlerPost, ClearThread, ClearWait, ClearCheck,
                ClearClose, PeerClose, vars, readerVars, bufVars, pipeVars, streamVars
  <2> QED BY <1>3, <2>1 DEF One
<1> QED BY <1>4, <1>5, <1>6, <1>7, <1>8, <1>9 DEF Next, ReadDmaThread, SendAcqDataThread

(* No step takes units off the socket, and the device is read only by the  *)
(* reader while it runs.                                                   *)
LEMMA BacklogGrows ==
  ASSUME IInv, [Next]_vars
  PROVE  /\ Len(sock) \in Nat /\ Len(sock') \in Nat /\ Len(sock) <= Len(sock')
         /\ produced' # produced => ReaderFill
         /\ r_pc = "exit" => r_pc' = "exit" /\ produced' = produced
         /\ s_pc = "exit" => s_pc' = "exit" /\ sock' = sock
<1> USE DEF vars, readerVars, senderVars, bufVars, pipeVars, streamVars, procVars
<1>1. sock \in Seq(Nat) /\ Len(sock) \in Nat
  BY DEF IInv, TypeOK
<1>2. CASE ReadDmaThread
  BY <1>1, <1>2 DEF ReadDmaThread, ReaderLoop, ReaderTake, ReaderFill, ReaderFillFails,
                    ReaderPut
<1>3. CASE SenderWrite
  <2>1. PICK k \in 1..MaxLen : sock' = sock \o [j \in 1..k |-> Len(sock) + j]
    BY <1>3, WriteDelivers
  <2>2. Len(sock') = Len(sock) + k
    <3>1. PICK t : t = [j \in 1..k |-> Len(sock) + j]
      OBVIOUS
    <3>2. k \in Nat /\ t \in [1..k -> Nat]
      BY <1>1, <3>1, PipelineAssumption
    <3>3. t \in Seq(Nat) /\ Len(t) = k
      BY <3>2, LenProperties, IsASeq
    <3> QED BY <1>1, <2>1, <3>1, <3>3, ConcatProperties
  <2>3. k \in Nat
    BY PipelineAssumption
  <2> QED BY <1>1, <1>3, <2>2, <2>3 DEF SenderWrite
<1>4. CASE \/ SenderLoop \/ SenderTake \/ SenderTest \/ SenderWriteFails \/ SenderCheck
           \/ SenderGive
  BY <1>1, <1>4 DEF SenderLoop, SenderTake, SenderTest, SenderWriteFails, SenderCheck,
                    SenderGive
<1>5. CASE Handler \/ ClearThread \/ PeerClose \/ UNCHANGED vars
  BY <1>1, <1>5 DEF Handler, HandlerStop, HandlerPost, ClearThread, ClearWait, ClearCheck,
                    ClearClose, PeerClose
<1> QED BY <1>2, <1>3, <1>4, <1>5 DEF Next, SendAcqDataThread

(* Once the sender is gone an index leaves the dma pipe for the device, and*)
(* none comes back; so a bufferful for every index that is not free holds  *)
(* what is read.                                                           *)
LEMMA LastStep ==
  ASSUME IInv, BacklogInv, [Next]_vars, r_pc' # "exit", s_pc' = "exit"
  PROVE  (produced - Len(sock) <= MaxLen * (NumBufs - Len(dma_index) - One(r_pc = "dma")))'
<1>1. r_pc # "exit"
  BY BacklogGrows
<1>2. produced - Len(sock) <= MaxLen * (NumBufs - Len(dma_index) - One(r_pc = "dma"))
  BY <1>1, BacklogNow DEF BacklogInv
<1>3. /\ dma_index \in Seq(Bufs) /\ Len(dma_index) \in Nat
      /\ produced \in Nat /\ Len(sock) \in Nat
  BY DEF IInv, TypeOK
<1>4. CASE UNCHANGED <<produced, sock, dma_index, One(r_pc = "dma")>>
  BY <1>2, <1>4
<1>5. CASE ReaderTake
  <2>1. /\ r_pc = "take" /\ r_pc' = "dma" /\ dma_index # <<>> /\ dma_index' = Tail(dma_index)
        /\ produced' = produced /\ sock' = sock
    BY <1>5 DEF ReaderTake, streamVars
  <2>2. Len(dma_index') = Len(dma_index) - 1
    BY <1>3, <2>1
  <2>3. NumBufs - Len(dma_index') - One(r_pc = "dma")'
          = NumBufs - Len(dma_index) - One(r_pc = "dma")
    BY <1>3, <2>1, <2>2, PipelineAssumption DEF One
  <2> QED BY <1>2, <2>1, <2>3
<1>6. CASE ReaderFill
  <2>1. PICK n \in 0..MaxLen : produced' = produced + n
    BY <1>6 DEF ReaderFill
  <2>2. r_pc = "dma" /\ r_pc' = "put" /\ sock' = sock /\ dma_index' = dma_index
    BY <1>6 DEF ReaderFill, pipeVars
  <2>3. PICK a \in Int : a = NumBufs - Len(dma_index) - 1
    <3>1. NumBufs - Len(dma_index) - 1 \in Int
      BY <1>3, PipelineAssumption
    <3> QED BY <3>1
  <2>4. /\ NumBufs - Len(dma_index) - One(r_pc = "dma") = a
        /\ NumBufs - Len(dma_index') - One(r_pc = "dma")' = a + 1
    BY <1>3, <2>2, <2>3, PipelineAssumption DEF One
  <2>5. MaxLen * a \in Int /\ MaxLen * (a + 1) = MaxLen * a + MaxLen
    BY Bufferfuls
  <2>6. produced - Len(sock) <= MaxLen * a
    BY <1>2, <2>4
  <2>7. produced + n - Len(sock) <= MaxLen * (a + 1)
    BY <1>3, <2>5, <2>6, PipelineAssumption
  <2>8. produced' - Len(sock') <= MaxLen * (a + 1)
    BY <1>3, <2>1, <2>2, <2>7, PipelineAssumption
  <2> QED BY <2>4, <2>8
<1>7. CASE ReaderLoop \/ ReaderFillFails \/ ReaderPut
  <2>1. UNCHANGED <<produced, sock, dma_index>> /\ r_pc # "dma" /\ r_pc' # "dma"
    BY <1>7 DEF ReaderLoop, ReaderFillFails, ReaderPut, pipeVars, streamVars
  <2> QED BY <1>4, <2>1 DEF One
<1>8. CASE SendAcqDataThread
  <2>1. UNCHANGED <<produced, sock, dma_index, r_pc>>
    BY <1>8 DEF SendAcqDataThread, SenderLoop, SenderTake, SenderTest, SenderWrite,
                SenderWriteFails, SenderCheck, SenderGive, readerVars, pipeVars, streamVars
  <2> QED BY <1>4, <2>1
<1>9. CASE Handler \/ ClearThread \/ PeerClose \/ UNCHANGED vars
  <2>1. UNCHANGED <<produced, sock, dma_index, r_pc>>
    BY <1>9 DEF Handler, HandlerStop, HandlerPost, ClearThread, ClearWait, ClearCheck,
                ClearClose, PeerClose, vars, readerVars, pipeVars, streamVars
  <2> QED BY <1>4, <2>1
<1> QED BY <1>5, <1>6, <1>7, <1>8, <1>9 DEF Next, ReadDmaThread

(* The bound follows, whichever threads are left. *)
LEMMA BacklogStep ==
  ASSUME IInv, IInv', BacklogInv, [Next]_vars
  PROVE  BacklogInv'
<1>1. ASSUME r_pc' # "exit", s_pc' # "exit"
      PROVE  /\ (Len(dma_index) + Len(socket_index)
                   + One(ReaderHolds) + One(SenderHolds) <= NumBufs)'
             /\ (\A p \in 1..Len(socket_index) :
                   produced + 1 - first[socket_index[p]] <= MaxLen * (Ahead - p + 1))'
  <2>1. r_pc # "exit" /\ s_pc # "exit"
    BY <1>1, BacklogGrows
  <2> QED BY <1>1, <2>1, SlotsStep, AheadStep
<1>2. ASSUME r_pc' # "exit", s_pc' = "exit"
      PROVE  (produced - Len(sock) <= MaxLen * (NumBufs - Len(dma_index) - One(r_pc = "dma")))'
  BY <1>2, LastStep
<1>3. Backlog'
  <2>1. produced \in Nat /\ produced' \in Nat /\ Len(sock) \in Nat /\ Len(sock') \in Nat
    <3>1. produced \in Nat /\ produced' \in Nat
      BY PipelineAssumption DEF IInv, TypeOK
    <3> QED BY <3>1, BacklogGrows
  <2>2. CASE produced' = produced
    <3>1. Len(sock) <= Len(sock') /\ produced - Len(sock) <= NumBufs * MaxLen
      BY BacklogGrows DEF BacklogInv, Backlog
    <3> QED BY <2>1, <2>2, <3>1, PipelineAssumption DEF Backlog
  <2>3. CASE ReaderFill
    <3>1. PICK n \in 0..MaxLen : produced' = produced + n
      BY <2>3 DEF ReaderFill
    <3>2. r_pc = "dma" /\ sock' = sock
      BY <2>3 DEF ReaderFill
    <3>3. PICK D \in Nat : D = Len(dma_index)
      BY DEF IInv, TypeOK
    <3>4. produced - Len(sock) <= MaxLen * (NumBufs - D - 1)
      <4>1. produced - Len(sock) <= MaxLen * (NumBufs - Len(dma_index) - One(r_pc = "dma"))
        BY <3>2, BacklogNow DEF BacklogInv
      <4> QED BY <3>2, <3>3, <4>1 DEF One
    <3>5. MaxLen * (NumBufs - D - 1) <= MaxLen * (NumBufs - 1)
      <4>1. /\ NumBufs - D - 1 \in Int /\ NumBufs - 1 \in Int
            /\ NumBufs - D - 1 <= NumBufs - 1
        BY PipelineAssumption
      <4> QED BY <4>1, Bufferfuls
    <3>6. /\ MaxLen * (NumBufs - D - 1) \in Int /\ MaxLen * (NumBufs - 1) \in Int
          /\ MaxLen * (NumBufs - 1) + MaxLen = NumBufs * MaxLen
      BY PipelineAssumption
    <3>7. produced + n - Len(sock) <= NumBufs * MaxLen
      BY <2>1, <3>4, <3>5, <3>6, PipelineAssumption
    <3>8. produced' - Len(sock') <= NumBufs * MaxLen
      BY <2>1, <3>1, <3>2, <3>7, PipelineAssumption
    <3> QED BY <3>8 DEF Backlog
  <2> QED BY <2>2, <2>3, BacklogGrows
<1> QED BY <1>1, <1>2, <1>3 DEF BacklogInv

(* read_dma_thread cannot run ahead of the client by more than the buffers *)
(* hold, whichever thread has failed and whatever is being closed: that an *)
(* index in the pipe is all that lets it read is enough.                   *)
THEOREM BacklogBounded == Spec => []Backlog
<1>1. Init => BacklogInv
  <2> SUFFICES ASSUME Init PROVE BacklogInv
    OBVIOUS
  <2>1. /\ Len(dma_index) = NumBufs /\ Len(socket_index) = 0 /\ Len(sock) = 0 /\ produced = 0
        /\ r_pc = "loop" /\ s_pc = "loop"
    BY PipelineAssumption DEF Init, InitIndex
  <2>2. NumBufs * MaxLen >= 0
    BY PipelineAssumption
  <2> QED BY <2>1, <2>2, PipelineAssumption
          DEF BacklogInv, Backlog, One, ReaderHolds, SenderHolds
<1>2. IInv /\ IInv' /\ BacklogInv /\ [Next]_vars => BacklogInv'
  BY BacklogStep
<1>3. BacklogInv => Backlog
  BY DEF BacklogInv
<1> QED BY <1>1, <1>2, <1>3, IInvCorrect, PTL DEF Spec

-----------------------------------------------------------------------------
(* The pipeline implements the abstract stream. *)

streamUp == s_pc # "exit" /\ ~Exited

(* The other steps change neither the socket nor, a transfer aside, what   *)
(* was produced; the stream never comes up again.                          *)
LEMMA OtherSteps ==
  IInv /\ [Next]_vars /\ ~SenderWrite =>
    /\ sock' = sock
    /\ \/ produced' = produced
       \/ /\ UNCHANGED <<s_pc, clear_pc>>
          /\ \E n \in 1..MaxLen : produced + n <= MaxUnits /\ produced' = produced + n
    /\ streamUp' => streamUp
<1> SUFFICES ASSUME IInv, [Next]_vars, ~SenderWrite
    PROVE  /\ sock' = sock
           /\ \/ produced' = produced
              \/ /\ UNCHANGED <<s_pc, clear_pc>>
                 /\ \E n \in 1..MaxLen : produced + n <= MaxUnits /\ produced' = produced + n
           /\ streamUp' => streamUp
  OBVIOUS
<1> USE DEF vars, readerVars, senderVars, bufVars, pipeVars, streamVars, procVars,
        streamUp, Exited
<1>1. CASE ReaderFill
  <2>1. PICK n \in 0..MaxLen : produced + n <= MaxUnits /\ produced' = produced + n
    BY <1>1 DEF ReaderFill
  <2>2. produced' = produced \/ n \in 1..MaxLen
    BY <2>1 DEF IInv, TypeOK
  <2> QED
    BY <1>1, <2>1, <2>2 DEF ReaderFill
<1>2. CASE ReaderLoop \/ ReaderTake \/ ReaderFillFails \/ ReaderPut
  BY <1>2 DEF ReaderLoop, ReaderTake, ReaderFillFails, ReaderPut
<1>3. CASE \/ SenderLoop \/ SenderTake \/ SenderTest \/ SenderWriteFails \/ SenderCheck
           \/ SenderGive
  BY <1>3 DEF SenderLoop, SenderTake, SenderTest, SenderWriteFails, SenderCheck, SenderGive
<1>4. CASE Handler \/ ClearThread \/ PeerClose \/ UNCHANGED vars
  BY <1>4 DEF Handler, HandlerStop, HandlerPost, ClearThread, ClearWait, ClearCheck,
              ClearClose, PeerClose
<1> QED
  BY <1>1, <1>2, <1>3, <1>4 DEF Next, ReadDmaThread, SendAcqDataThread

(* Every behaviour of the two threads, the handler, clear_thread and the   *)
(* client is a behaviour of the stream AcqStream describes.                *)
THEOREM ImplementsStream == Spec => Stream!SafeSpec
<1>1. Init => Stream!Init
  BY DEF Init, Stream!Init, Exited
<1>2. IInv /\ [Next]_vars => [Stream!Next]_(Stream!vars)
  <2> SUFFICES ASSUME IInv, [Next]_vars PROVE [Stream!Next]_(Stream!vars)
    OBVIOUS
  <2>1. CASE SenderWrite
    <3>1. streamUp /\ streamUp' /\ produced' = produced
      <4>1. s_pc = "write" /\ s_pc' \in {"wrote", "write"} /\ UNCHANGED <<produced, clear_pc>>
        BY <2>1 DEF SenderWrite, procVars
      <4>2. ASSUME Exited PROVE FALSE
        <5>1. UNCHANGED vars
          BY <4>2 DEF Next, ReadDmaThread, SendAcqDataThread, Handler, ClearThread,
                      ClearWait, ClearCheck, ClearClose, PeerClose, Exited
        <5>2. \E k \in 1..MaxLen : s_done' = s_done + k
          BY <2>1 DEF SenderWrite
        <5> QED
          BY <5>1, <5>2, ChainTypes, PipelineAssumption DEF IInv, vars, senderVars
      <4> QED
        BY <4>1, <4>2 DEF streamUp, Exited
    <3> QED
      BY <2>1, <3>1, WriteDelivers DEF streamUp, Stream!Next, Stream!Deliver
  <2>2. CASE ~SenderWrite
    BY <2>2, OtherSteps
    DEF streamUp, Exited, Stream!Next, Stream!Produce, Stream!Cut, Stream!vars
  <2> QED
    BY <2>1, <2>2
<1> QED
  BY <1>1, <1>2, IInvCorrect, PTL DEF Spec, Stream!SafeSpec
==============================================================================
