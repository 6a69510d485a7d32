----------------------------- MODULE AcqPipeline -----------------------------
(***************************************************************************)
(* The data path of one child of the acquisition server                    *)
(* (acq_data_trans/server.c): read_dma_thread fills a buffer from the DMA  *)
(* device, send_acq_data_thread writes it to the client's socket, and the  *)
(* two hand buffers to each other by passing a buffer index - a token -    *)
(* through two pipes.  Beside them run the SIGINT handler and clear_thread,*)
(* which closes the descriptors under the threads' feet and exits.         *)
(*                                                                         *)
(* Bytes are abstracted to units.  The device's units are numbered from 1; *)
(* a buffer holds a run of them, so its content is the number of its first *)
(* unit and its length.                                                    *)
(***************************************************************************)
EXTENDS Integers, Sequences, FiniteSets

CONSTANTS NumBufs,   \* buffers in rotation: dma_buf_list[2], so 2 in the code
          MaxLen,    \* units one read() of the device returns at most (MAX_DMA_LENGTH)
          MaxUnits,  \* bound: units the device has to give in a behaviour
          MaxPosts   \* bound: a SIGINT arrives only while g_sem is below it

ASSUME PipelineAssumption == /\ NumBufs \in Nat \ {0}
                             /\ MaxLen \in Nat \ {0}
                             /\ MaxUnits \in Nat
                             /\ MaxPosts \in Nat

Bufs == 0..NumBufs-1

VARIABLES
  dma_index,     \* dma_index_pipe: indices of the buffers free to be filled
  socket_index,  \* socket_index_pipe: indices of the buffers ready to be sent
  length,        \* DmaBuffer.length of each buffer
  first,         \* the number of the device unit at data[0] of each buffer
  r_pc, r_index, \* read_dma_thread: where it is, its buf_index
  s_pc, s_index, \* send_acq_data_thread: where it is, its buf_index
  s_len, s_done, \* its writen(): bytes asked for (n), bytes written so far
  produced,      \* units read from the device so far
  sock,          \* the units written to the socket, in order
  peer,          \* whether the client still has its end open
  sys_status,    \* Running or Stop
  g_sem,         \* value of the semaphore clear_thread waits on
  handler,       \* sig_handler: idle, or between setting Stop and sem_post
  clear_pc,      \* clear_thread
  nclosed        \* how many of its descriptors clear_thread has closed

readerVars == <<r_pc, r_index>>
senderVars == <<s_pc, s_index, s_len, s_done>>
bufVars    == <<length, first>>
pipeVars   == <<dma_index, socket_index>>
streamVars == <<produced, sock, peer>>
procVars   == <<sys_status, g_sem, handler, clear_pc, nclosed>>
vars == <<readerVars, senderVars, bufVars, pipeVars, streamVars, procVars>>

(* The order in which ProcSource.fd lists the child's descriptors.         *)
FdOrder == <<"dma", "conn", "dma_r", "dma_w", "socket_r", "socket_w">>
Fds     == {FdOrder[i] : i \in 1..6}
Closed(fd) == \E i \in 1..6 : FdOrder[i] = fd /\ i <= nclosed

Exited == clear_pc = "exited"

(* The pipe between two threads of one process: a read finds nothing more  *)
(* once the writing end is closed, and a call on a closed descriptor fails.*)
(* A read that was already blocked when its descriptor was closed goes on. *)
ReadFails(r, w, pipe) == Closed(r) \/ (Closed(w) /\ pipe = <<>>)
WriteFails(r, w)      == Closed(r) \/ Closed(w)

-----------------------------------------------------------------------------
(* All buffer indices start in the dma pipe: init_index = {0x00, 0x01}.    *)
\* (bug) the same index twice
InitIndexTwice == [i \in 1..NumBufs |-> 0]
InitIndex == [i \in 1..NumBufs |-> i - 1]

Init == /\ dma_index = InitIndex
        /\ socket_index = <<>>
        /\ length = [b \in Bufs |-> 0]
        /\ first = [b \in Bufs |-> 0]
        /\ r_pc = "loop" /\ r_index = 0
        /\ s_pc = "loop" /\ s_index = 0 /\ s_len = 0 /\ s_done = 0
        /\ produced = 0 /\ sock = <<>> /\ peer = "open"
        /\ sys_status = "Running" /\ g_sem = 0 /\ handler = "idle"
        /\ clear_pc = "wait" /\ nclosed = 0

-----------------------------------------------------------------------------
(* read_dma_thread *)

ReaderLoop == /\ r_pc = "loop"
              /\ r_pc' = IF sys_status # "Stop" THEN "take" ELSE "exit"
              /\ UNCHANGED <<r_index, senderVars, bufVars, pipeVars, streamVars, procVars>>

(* readn(dma_index_r_fd) and CONFIG_ADDROFFSET: the device now owns the    *)
(* buffer until read() returns.                                            *)
ReaderTake == /\ r_pc = "take"
              /\ \/ /\ dma_index # <<>>
                    /\ r_index' = Head(dma_index)
                    /\ dma_index' = Tail(dma_index)
                    /\ r_pc' = "dma"
                 \/ /\ ReadFails("dma_r", "dma_w", dma_index)
                    /\ r_pc' = "exit"
                    /\ UNCHANGED <<r_index, dma_index>>
              /\ UNCHANGED <<socket_index, senderVars, bufVars, streamVars, procVars>>

(* (bug) the device is asked for one unit more than a buffer holds *)
ReaderFillOverrun == /\ r_pc = "dma"
                     /\ \E n \in 0..MaxLen + 1 :
                          /\ produced + n <= MaxUnits
                          /\ length' = [length EXCEPT ![r_index] = n]
                          /\ first' = [first EXCEPT ![r_index] = produced + 1]
                          /\ produced' = produced + n
                     /\ r_pc' = "put"
                     /\ UNCHANGED <<r_index, senderVars, pipeVars, sock, peer, procVars>>

(* read(dma_fd, data, MAX_DMA_LENGTH) returns n > 0 bytes, or 0 when the   *)
(* device has none, or fails - which ends the thread.                      *)
ReaderFill == /\ r_pc = "dma"
              /\ \E n \in 0..MaxLen :
                   /\ produced + n <= MaxUnits
                   /\ length' = [length EXCEPT ![r_index] = n]
                   /\ first' = [first EXCEPT ![r_index] = produced + 1]
                   /\ produced' = produced + n
              /\ r_pc' = "put"
              /\ UNCHANGED <<r_index, senderVars, pipeVars, sock, peer, procVars>>

ReaderFillFails == /\ r_pc = "dma"
                   /\ length' = [length EXCEPT ![r_index] = -1]
                   /\ r_pc' = "exit"
                   /\ UNCHANGED <<r_index, senderVars, first, pipeVars, streamVars, procVars>>

(* (bug) an empty buffer is not handed over but filled again *)
ReaderPutRecycles ==
  /\ r_pc = "put"
  /\ r_pc' = "loop"
  /\ IF length[r_index] > 0
       THEN socket_index' = Append(socket_index, r_index) /\ UNCHANGED dma_index
       ELSE dma_index' = Append(dma_index, r_index) /\ UNCHANGED socket_index
  /\ UNCHANGED <<r_index, senderVars, bufVars, streamVars, procVars>>

(* writen(socket_index_w_fd) *)
ReaderPut == /\ r_pc = "put"
             /\ \/ /\ ~Closed("socket_w")
                   /\ socket_index' = Append(socket_index, r_index)
                   /\ r_pc' = "loop"
                \/ /\ WriteFails("socket_r", "socket_w")
                   /\ r_pc' = "exit"
                   /\ UNCHANGED socket_index
             /\ UNCHANGED <<r_index, dma_index, senderVars, bufVars, streamVars, procVars>>

ReadDmaThread == ~Exited /\ (ReaderLoop \/ ReaderTake \/ ReaderFill \/ ReaderFillFails \/ ReaderPut)

-----------------------------------------------------------------------------
(* send_acq_data_thread *)

SenderLoop == /\ s_pc = "loop"
              /\ s_pc' = IF sys_status # "Stop" THEN "take" ELSE "exit"
              /\ UNCHANGED <<s_index, s_len, s_done, readerVars, bufVars, pipeVars,
                             streamVars, procVars>>

SenderTake == /\ s_pc = "take"
              /\ \/ /\ socket_index # <<>>
                    /\ s_index' = Head(socket_index)
                    /\ socket_index' = Tail(socket_index)
                    /\ s_pc' = "test"
                 \/ /\ ReadFails("socket_r", "socket_w", socket_index)
                    /\ s_pc' = "exit"
                    /\ UNCHANGED <<s_index, socket_index>>
              /\ UNCHANGED <<dma_index, s_len, s_done, readerVars, bufVars, streamVars, procVars>>

(* (bug) an empty buffer is skipped and its index not returned *)
SenderTestDrops == /\ s_pc = "test"
                   /\ s_pc' = IF length[s_index] > 0 THEN "write" ELSE "loop"
                   /\ s_len' = length[s_index]
                   /\ s_done' = 0
                   /\ UNCHANGED <<s_index, readerVars, bufVars, pipeVars, streamVars, procVars>>

(* (bug) the whole buffer is sent, whatever the device put into it *)
SenderTestCapacity == /\ s_pc = "test"
                      /\ s_pc' = "write"
                      /\ s_len' = MaxLen
                      /\ s_done' = 0
                      /\ UNCHANGED <<s_index, readerVars, bufVars, pipeVars, streamVars, procVars>>

(* An empty read of the device sends nothing and only returns the index.   *)
SenderTest == /\ s_pc = "test"
              /\ s_pc' = IF length[s_index] > 0 THEN "write" ELSE "give"
              /\ s_len' = length[s_index]
              /\ s_done' = 0
              /\ UNCHANGED <<s_index, readerVars, bufVars, pipeVars, streamVars, procVars>>

(* The unit at offset j of buffer b as a write() finds it: torn (0) while  *)
(* the device is filling the same buffer.                                  *)
UnitAt(b, j) == IF r_pc = "dma" /\ r_index = b THEN 0 ELSE first[b] + j

(* (bug) writen() does not advance its pointer after a partial write *)
SenderWriteRepeats == /\ s_pc = "write"
                      /\ \E k \in 1..MaxLen :
                           /\ s_done + k <= s_len
                           /\ sock' = sock \o [j \in 1..k |-> UnitAt(s_index, j - 1)]
                           /\ s_done' = s_done + k
                      /\ s_pc' = IF s_done' = s_len THEN "wrote" ELSE "write"
                      /\ UNCHANGED <<s_index, s_len, readerVars, bufVars, pipeVars,
                                     produced, peer, procVars>>

(* One write() of writen(socket_fd, data, length): it takes any part of    *)
(* what is left.  One that was blocked when clear_thread closed conn_fd    *)
(* still completes.                                                        *)
SenderWrite == /\ s_pc = "write"
               /\ \E k \in 1..MaxLen :
                    /\ s_done + k <= s_len
                    /\ sock' = sock \o [j \in 1..k |-> UnitAt(s_index, s_done + j - 1)]
                    /\ s_done' = s_done + k
               /\ s_pc' = IF s_done' = s_len THEN "wrote" ELSE "write"
               /\ UNCHANGED <<s_index, s_len, readerVars, bufVars, pipeVars,
                              produced, peer, procVars>>

(* (bug) a failed write is ignored: the index goes back to the reader *)
SenderWriteFailsGoesOn == /\ s_pc = "write"
                          /\ peer = "closed" \/ Closed("conn")
                          /\ s_pc' = "give"
                          /\ UNCHANGED <<s_index, s_len, s_done, readerVars, bufVars,
                                         pipeVars, streamVars, procVars>>

(* write() fails once the client is gone or clear_thread closed conn_fd.   *)
(* The thread ends and keeps the index it holds.                           *)
SenderWriteFails == /\ s_pc = "write"
                    /\ peer = "closed" \/ Closed("conn")
                    /\ s_pc' = "exit"
                    /\ UNCHANGED <<s_index, s_len, s_done, readerVars, bufVars, pipeVars,
                                   streamVars, procVars>>

(* writen() returned n: the code compares it with the length the buffer    *)
(* has by then.                                                            *)
SenderCheck == /\ s_pc = "wrote"
               /\ s_pc' = IF s_len = length[s_index] THEN "give" ELSE "exit"
               /\ UNCHANGED <<s_index, s_len, s_done, readerVars, bufVars, pipeVars,
                              streamVars, procVars>>

(* writen(dma_index_w_fd) *)
SenderGive == /\ s_pc = "give"
              /\ \/ /\ ~Closed("dma_w")
                    /\ dma_index' = Append(dma_index, s_index)
                    /\ s_pc' = "loop"
                 \/ /\ WriteFails("dma_r", "dma_w")
                    /\ s_pc' = "exit"
                    /\ UNCHANGED dma_index
              /\ UNCHANGED <<s_index, s_len, s_done, socket_index, readerVars, bufVars,
                             streamVars, procVars>>

SendAcqDataThread == /\ ~Exited
                     /\ \/ SenderLoop \/ SenderTake \/ SenderTest \/ SenderWrite
                        \/ SenderWriteFails \/ SenderCheck \/ SenderGive

-----------------------------------------------------------------------------
(* sig_handler(SIGINT) and clear_thread *)

(* (bug) the handler forgets sem_post *)
HandlerNoPost == /\ handler = "post"
                 /\ handler' = "idle"
                 /\ UNCHANGED <<sys_status, g_sem, clear_pc, nclosed, readerVars, senderVars,
                                bufVars, pipeVars, streamVars>>

(* SIGINT, from the parent or from the terminal; it may come again.        *)
HandlerStop == /\ handler = "idle" /\ g_sem < MaxPosts
               /\ sys_status' = "Stop"
               /\ handler' = "post"
               /\ UNCHANGED <<g_sem, clear_pc, nclosed, readerVars, senderVars, bufVars,
                              pipeVars, streamVars>>

HandlerPost == /\ handler = "post"
               /\ g_sem' = g_sem + 1
               /\ handler' = "idle"
               /\ UNCHANGED <<sys_status, clear_pc, nclosed, readerVars, senderVars, bufVars,
                              pipeVars, streamVars>>

ClearWait == /\ clear_pc = "wait"
             /\ g_sem > 0
             /\ g_sem' = g_sem - 1
             /\ clear_pc' = "check"
             /\ UNCHANGED <<sys_status, handler, nclosed, readerVars, senderVars, bufVars,
                            pipeVars, streamVars>>

ClearCheck == /\ clear_pc = "check"
              /\ clear_pc' = IF sys_status = "Stop" THEN "close" ELSE "wait"
              /\ UNCHANGED <<sys_status, g_sem, handler, nclosed, readerVars, senderVars,
                             bufVars, pipeVars, streamVars>>

(* close(fd[i]) for the six descriptors, one after the other; then exit(0).*)
ClearClose == /\ clear_pc = "close"
              /\ IF nclosed < 6
                   THEN nclosed' = nclosed + 1 /\ UNCHANGED clear_pc
                   ELSE clear_pc' = "exited" /\ UNCHANGED nclosed
              /\ UNCHANGED <<sys_status, g_sem, handler, readerVars, senderVars, bufVars,
                             pipeVars, streamVars>>

Handler     == ~Exited /\ (HandlerStop \/ HandlerPost)
ClearThread == ClearWait \/ ClearCheck \/ ClearClose

(* The client closes its end. *)
PeerClose == /\ ~Exited
             /\ peer = "open"
             /\ peer' = "closed"
             /\ UNCHANGED <<produced, sock, readerVars, senderVars, bufVars, pipeVars, procVars>>

Next == ReadDmaThread \/ SendAcqDataThread \/ Handler \/ ClearThread \/ PeerClose

Spec == Init /\ [][Next]_vars

(* Both threads, the handler and clear_thread run on a preemptive          *)
(* scheduler; read() of the device returns (the driver answers 0 when it   *)
(* has nothing) and a client that keeps its end open keeps reading.        *)
Fairness == /\ WF_vars(ReadDmaThread)
            /\ WF_vars(SendAcqDataThread)
            /\ WF_vars(HandlerPost)
            /\ WF_vars(ClearThread)

FairSpec == Spec /\ Fairness

-----------------------------------------------------------------------------
(* Properties *)

ReaderPc == {"loop", "take", "dma", "put", "exit"}
SenderPc == {"loop", "take", "test", "write", "wrote", "give", "exit"}

(* The variables stay in their types; in particular a length never exceeds *)
(* the buffer's capacity and is negative only after a failed read.         *)
TypeOK == /\ dma_index \in Seq(Bufs)
          /\ socket_index \in Seq(Bufs)
          /\ length \in [Bufs -> -1..MaxLen]
          /\ first \in [Bufs -> Nat]
          /\ r_pc \in ReaderPc /\ r_index \in Bufs
          /\ s_pc \in SenderPc /\ s_index \in Bufs
          /\ s_len \in -1..MaxLen /\ s_done \in 0..MaxLen
          /\ produced \in 0..MaxUnits
          /\ sock \in Seq(Nat)
          /\ peer \in {"open", "closed"}
          /\ sys_status \in {"Running", "Stop"}
          /\ g_sem \in Nat
          /\ handler \in {"idle", "post"}
          /\ clear_pc \in {"wait", "check", "close", "exited"}
          /\ nclosed \in 0..6

ReaderHolds == r_pc \in {"dma", "put"}
SenderHolds == s_pc \in {"test", "write", "wrote", "give"}

(* A buffer the device is filling is never one the sender is looking at:   *)
(* read_dma_thread and send_acq_data_thread share buff_list and its        *)
(* lengths with no lock, only the index tells whose turn it is.            *)
BufferExclusive == ReaderHolds /\ SenderHolds => r_index # s_index

(* The two threads never wait for each other: as long as neither has left  *)
(* its loop, one of the two blocking readn() calls has an index to return. *)
NoStall == ~ (/\ r_pc = "take" /\ dma_index = <<>>
              /\ s_pc = "take" /\ socket_index = <<>>)

(* The client receives the device's data in the order it was read, without *)
(* a gap, a repetition or a piece of a half-filled buffer, over partial    *)
(* writes, empty reads, failures and shutdown.                             *)
InOrder == \A k \in 1..Len(sock) : sock[k] = k

(* Back-pressure: what was read and not yet written fits the buffers, also *)
(* after either thread is gone.                                            *)
Backlog == produced - Len(sock) <= NumBufs * MaxLen

(* The pipeline is the stream AcqStream promises, fairness included.       *)
Stream == INSTANCE AcqStream WITH up <- s_pc # "exit" /\ ~Exited
StreamSpec == Stream!Spec

(* SIGINT ends the process, whatever the two threads are blocked on.       *)
StopExits == (sys_status = "Stop") ~> Exited

(* Once the sending thread is gone (the client closed, a write failed) the *)
(* device is read no more: the reader runs out of indices or ends.         *)
LostClientStopsReading == (s_pc = "exit") ~> [](Exited \/ r_pc \in {"take", "exit"})

-----------------------------------------------------------------------------
(* The inductive invariant *)

(* No index is in two places: a pipe twice, both pipes, or a pipe and the  *)
(* hands of a thread.                                                      *)
IndexUnique ==
  /\ \A p, q \in 1..Len(dma_index) : p # q => dma_index[p] # dma_index[q]
  /\ \A p, q \in 1..Len(socket_index) : p # q => socket_index[p] # socket_index[q]
  /\ \A p \in 1..Len(dma_index), q \in 1..Len(socket_index) : dma_index[p] # socket_index[q]
  /\ ReaderHolds => /\ \A p \in 1..Len(dma_index) : dma_index[p] # r_index
                    /\ \A p \in 1..Len(socket_index) : socket_index[p] # r_index
  /\ SenderHolds => /\ \A p \in 1..Len(dma_index) : dma_index[p] # s_index
                    /\ \A p \in 1..Len(socket_index) : socket_index[p] # s_index
  /\ BufferExclusive

(* While both threads run no index is lost. *)
Located(b) == \/ \E p \in 1..Len(dma_index) : dma_index[p] = b
              \/ \E p \in 1..Len(socket_index) : socket_index[p] = b
              \/ ReaderHolds /\ r_index = b
              \/ SenderHolds /\ s_index = b
IndexConserved == r_pc # "exit" /\ s_pc # "exit" => \A b \in Bufs : Located(b)

IndexInv == IndexUnique /\ IndexConserved

(* Units in the sender's hands that are still to be written.               *)
Unsent == IF s_pc = "test" THEN length[s_index]
          ELSE IF s_pc = "write" THEN s_len - s_done ELSE 0

After(b) == first[b] + length[b]

(* The number of the unit that follows all those handed to the sender.     *)
NextReady == IF socket_index = <<>> THEN Len(sock) + Unsent + 1
             ELSE After(socket_index[Len(socket_index)])

(* What the sender holds follows what is on the socket; the buffers in the *)
(* socket pipe follow each other from there; what the reader is about to   *)
(* hand over follows them and ends with the device's last unit.            *)
ChainInv ==
  /\ \A b \in Bufs : After(b) <= produced + 1
  /\ s_pc # "exit" =>
       /\ s_pc = "test" => first[s_index] = Len(sock) + 1 /\ length[s_index] >= 0
       /\ s_pc \in {"write", "wrote"} => s_len = length[s_index] /\ s_len > 0
       /\ s_pc = "write" => s_done < s_len /\ first[s_index] + s_done = Len(sock) + 1
       /\ \A p \in 1..Len(socket_index) :
            /\ length[socket_index[p]] >= 0
            /\ first[socket_index[p]] = IF p = 1 THEN Len(sock) + Unsent + 1
                                        ELSE After(socket_index[p - 1])
       /\ r_pc = "put" => /\ length[r_index] >= 0
                          /\ first[r_index] = NextReady
                          /\ After(r_index) = produced + 1
       /\ r_pc \in {"loop", "take", "dma"} => NextReady = produced + 1

IInv == TypeOK /\ IndexInv /\ InOrder /\ ChainInv
==============================================================================
