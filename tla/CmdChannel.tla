------------------------------ MODULE CmdChannel ------------------------------
(***************************************************************************)
(* The data path of one child of the command and status server             *)
(* (cmd_status_trans/server.c).  read_net_cmd_thread takes frames - a      *)
(* length byte and that many bytes - from the client's socket and writes   *)
(* each to the device; send_status_data_thread reads status from the       *)
(* device and writes it to the socket.  They share one parameter block:    *)
(* when the client is lost the second sets its socket_fd to -1 under the   *)
(* first.  Beside them run the SIGINT handler and clear_thread, which      *)
(* resets the hardware, closes the descriptors and exits.                  *)
(*                                                                         *)
(* A byte of the command stream is <<k, j>>: byte j of the k-th frame the  *)
(* client sent, its length byte being byte 0.  Status is abstracted to     *)
(* units numbered from 1, as in AcqPipeline.                               *)
(***************************************************************************)
EXTENDS Integers, Sequences

CONSTANTS Frame,      \* the frames a client may send
          Length,     \* the value of a frame's length byte (up to 255)
          ResetFrame, \* the frame reset_frame of the code
          MaxLen,     \* units one read() of the device's status returns at most
          MaxFrames,  \* bound: frames sent in a behaviour
          MaxUnits    \* bound: status units the device has to give

ASSUME ChannelAssumption == /\ Length \in [Frame -> Nat]
                            /\ ResetFrame \in Frame
                            /\ MaxLen \in Nat \ {0}
                            /\ MaxFrames \in Nat /\ MaxUnits \in Nat

VARIABLES
  sent,        \* the frames the client has begun to send
  rest,        \* bytes of the last of them it has not sent yet
  inq,         \* bytes that have arrived and were not read
  peer,        \* whether the client still has its end open
  socket_fd,   \* params->socket_fd: 1 while it is the connection, or -1
  c_pc, c_fd,  \* read_net_cmd_thread, and the fd of the readn() it is in (0: none)
  cmd_cache,   \* the bytes of the frame it is reading or writing
  c_done,      \* how many of them it has written
  dev,         \* the bytes written to the device
  s_pc, s_len, s_done, \* send_status_data_thread, its read_ret, units written
  pend, nread, \* status units the device has ready, and that were read
  out,         \* the status units written to the socket, in order
  failed,      \* calls on the device that have failed (history)
  sys_status, g_sem, handler, clear_pc  \* as in AcqPipeline

clientVars == <<sent, rest, peer>>
cmdVars    == <<c_pc, c_fd, cmd_cache, c_done>>
statusVars == <<s_pc, s_len, s_done, nread, out>>
procVars   == <<sys_status, g_sem, handler, clear_pc>>
vars == <<clientVars, inq, socket_fd, cmdVars, dev, statusVars, pend, failed, procVars>>

Init == /\ sent = <<>> /\ rest = 0 /\ inq = <<>> /\ peer = "open"
        /\ socket_fd = 1
        /\ c_pc = "loop" /\ c_fd = 0 /\ cmd_cache = <<>> /\ c_done = 0
        /\ dev = <<>>
        /\ s_pc = "loop" /\ s_len = 0 /\ s_done = 0
        /\ pend = 0 /\ nread = 0 /\ out = <<>>
        /\ failed = {}
        /\ sys_status = "Running" /\ g_sem = 0 /\ handler = "idle" /\ clear_pc = "wait"

Exited    == clear_pc = "exited"
DevClosed == clear_pc \in {"close_conn", "exit", "exited"}
ConnClosed == clear_pc \in {"exit", "exited"}

(* The value of a byte; that of a byte inside a frame does not matter.     *)
Value(b) == IF b[2] = 0 THEN Length[sent[b[1]]] ELSE 1

-----------------------------------------------------------------------------
(* read_net_cmd_thread *)

CmdLoop == /\ c_pc = "loop"
           /\ c_pc' = IF sys_status # "Stop" THEN "head" ELSE "exit"
           /\ UNCHANGED <<clientVars, inq, socket_fd, c_fd, cmd_cache, c_done, dev,
                          statusVars, pend, failed, procVars>>

(* readn(params->socket_fd, ...) is called: socket_fd is read here, once.  *)
CmdCall == /\ c_pc \in {"head", "body"} /\ c_fd = 0
           /\ c_fd' = socket_fd
           /\ UNCHANGED <<clientVars, inq, socket_fd, c_pc, cmd_cache, c_done, dev,
                          statusVars, pend, failed, procVars>>

\* (bug) an empty frame ends the thread
CmdHeadEmptyEnds ==
  /\ c_pc = "head" /\ c_fd = 1 /\ inq # <<>>
  /\ cmd_cache' = <<Head(inq)>>
  /\ inq' = Tail(inq)
  /\ c_pc' = IF Value(Head(inq)) < 1 THEN "exit" ELSE "body"
  /\ c_fd' = 0
  /\ UNCHANGED <<clientVars, socket_fd, c_done, dev, statusVars, pend, failed, procVars>>

(* The length byte; a frame of length 0 is dropped.                        *)
CmdHead == /\ c_pc = "head" /\ c_fd = 1 /\ inq # <<>>
           /\ cmd_cache' = <<Head(inq)>>
           /\ inq' = Tail(inq)
           /\ c_pc' = IF Value(Head(inq)) < 1 THEN "loop" ELSE "body"
           /\ c_fd' = 0
           /\ UNCHANGED <<clientVars, socket_fd, c_done, dev, statusVars, pend, failed,
                          procVars>>

\* (bug) the length byte is not counted as read
MissingLengthByte == Value(cmd_cache[1]) + 2 - Len(cmd_cache)

(* Bytes of the frame that are not in the cache yet. *)
Missing == Value(cmd_cache[1]) + 1 - Len(cmd_cache)

\* (bug) a part of the frame is taken for the whole
CmdBodyShort ==
  /\ c_pc = "body" /\ c_fd = 1
  /\ \E n \in 1..Len(inq) :
       /\ n <= Missing
       /\ cmd_cache' = cmd_cache \o SubSeq(inq, 1, n)
       /\ inq' = SubSeq(inq, n + 1, Len(inq))
  /\ c_pc' = "write" /\ c_fd' = 0
  /\ UNCHANGED <<clientVars, socket_fd, c_done, dev, statusVars, pend, failed, procVars>>

(* One read() of readn(cmd_cache + 1, cmd_cache[0]): any part of what is   *)
(* missing and has arrived.                                                *)
CmdBody == /\ c_pc = "body" /\ c_fd = 1
           /\ \E n \in 1..Len(inq) :
                /\ n <= Missing
                /\ cmd_cache' = cmd_cache \o SubSeq(inq, 1, n)
                /\ inq' = SubSeq(inq, n + 1, Len(inq))
                /\ IF n = Missing THEN c_pc' = "write" /\ c_fd' = 0
                   ELSE UNCHANGED <<c_pc, c_fd>>
           /\ UNCHANGED <<clientVars, socket_fd, c_done, dev, statusVars, pend, failed,
                          procVars>>

(* Either readn() falls short: a bad descriptor, or the end of the stream. *)
CmdReadFails == /\ c_pc \in {"head", "body"}
                /\ \/ c_fd = -1
                   \/ c_fd = 1 /\ ConnClosed
                   \/ c_fd = 1 /\ inq = <<>> /\ peer = "closed"
                /\ c_pc' = "exit"
                /\ UNCHANGED <<clientVars, inq, socket_fd, c_fd, cmd_cache, c_done, dev,
                               statusVars, pend, failed, procVars>>

\* (bug) after a partial write the frame is written from its start
CmdWriteRestarts ==
  /\ c_pc = "write"
  /\ \E n \in 1..Len(cmd_cache) - c_done :
       /\ dev' = dev \o SubSeq(cmd_cache, 1, n)
       /\ IF c_done + n = Len(cmd_cache) THEN c_pc' = "loop" /\ c_done' = 0
          ELSE c_done' = c_done + n /\ UNCHANGED c_pc
  /\ UNCHANGED <<clientVars, inq, socket_fd, c_fd, cmd_cache, statusVars, pend, failed,
                 procVars>>

(* One write() of writen_to_cmd_status_dev.  Every frame gets here, the    *)
(* reset frame too: strncmp is asked to compare sizeof(...) == 0, so no,   *)
(* bytes, returns 0, and the branch that resets the hardware is dead.      *)
CmdWrite == /\ c_pc = "write"
            /\ \E n \in 1..Len(cmd_cache) - c_done :
                 /\ dev' = dev \o SubSeq(cmd_cache, c_done + 1, c_done + n)
                 /\ IF c_done + n = Len(cmd_cache) THEN c_pc' = "loop" /\ c_done' = 0
                    ELSE c_done' = c_done + n /\ UNCHANGED c_pc
            /\ UNCHANGED <<clientVars, inq, socket_fd, c_fd, cmd_cache, statusVars, pend,
                           failed, procVars>>

CmdWriteFails == /\ c_pc = "write"
                 /\ c_pc' = "exit"
                 /\ failed' = IF DevClosed THEN failed ELSE failed \cup {"write"}
                 /\ UNCHANGED <<clientVars, inq, socket_fd, c_fd, cmd_cache, c_done, dev,
                                statusVars, pend, procVars>>

ReadNetCmdThread == /\ ~Exited
                    /\ \/ CmdLoop \/ CmdCall \/ CmdHead \/ CmdBody \/ CmdReadFails
                       \/ CmdWrite \/ CmdWriteFails

-----------------------------------------------------------------------------
(* send_status_data_thread *)

StatusLoop == /\ s_pc = "loop"
              /\ s_pc' = IF sys_status # "Stop" THEN "read" ELSE "exit"
              /\ UNCHANGED <<clientVars, inq, socket_fd, cmdVars, dev, s_len, s_done, nread,
                             out, pend, failed, procVars>>

(* read(dev_fd, status_buf, max_read_len_once) *)
StatusRead == /\ s_pc = "read"
              /\ \E n \in 1..MaxLen :
                   /\ n <= pend
                   /\ pend' = pend - n /\ nread' = nread + n
                   /\ s_len' = n /\ s_done' = 0
              /\ s_pc' = "write"
              /\ UNCHANGED <<clientVars, inq, socket_fd, cmdVars, dev, out, failed, procVars>>

(* It returns 0, or fails with EINTR or EAGAIN. *)
StatusReadNothing == /\ s_pc = "read" /\ pend = 0
                     /\ s_pc' = "loop"
                     /\ UNCHANGED <<clientVars, inq, socket_fd, cmdVars, dev, s_len, s_done,
                                    nread, out, pend, failed, procVars>>

StatusReadFails == /\ s_pc = "read"
                   /\ s_pc' = "exit"
                   /\ failed' = IF DevClosed THEN failed ELSE failed \cup {"read"}
                   /\ UNCHANGED <<clientVars, inq, socket_fd, cmdVars, dev, s_len, s_done,
                                  nread, out, pend, procVars>>

(* One write() of writen(params->socket_fd, status_buf, read_ret).         *)
StatusWrite == /\ s_pc = "write" /\ socket_fd = 1
               /\ \E n \in 1..s_len - s_done :
                    /\ out' = out \o [j \in 1..n |-> nread - s_len + s_done + j]
                    /\ s_done' = s_done + n
               /\ s_pc' = IF s_done' = s_len THEN "loop" ELSE "write"
               /\ UNCHANGED <<clientVars, inq, socket_fd, cmdVars, dev, s_len, nread, pend,
                              failed, procVars>>

\* (bug) the thread ends with the connection
StatusWriteFailsEnds ==
  /\ s_pc = "write"
  /\ socket_fd = -1 \/ peer = "closed" \/ ConnClosed
  /\ socket_fd' = -1
  /\ s_pc' = "exit"
  /\ UNCHANGED <<clientVars, inq, cmdVars, dev, s_len, s_done, nread, out, pend, failed,
                 procVars>>

\* (bug) the descriptor is kept and written to again
StatusWriteFailsKeepsFd ==
  /\ s_pc = "write"
  /\ socket_fd = -1 \/ peer = "closed" \/ ConnClosed
  /\ s_pc' = "loop"
  /\ UNCHANGED <<clientVars, inq, socket_fd, cmdVars, dev, s_len, s_done, nread, out, pend,
                 failed, procVars>>

(* It fails, or returns 0 at once for a descriptor that is -1 already: the *)
(* status is dropped and the thread goes on reading it from the device.    *)
StatusWriteFails == /\ s_pc = "write"
                    /\ socket_fd = -1 \/ peer = "closed" \/ ConnClosed
                    /\ socket_fd' = -1
                    /\ s_pc' = "loop"
                    /\ UNCHANGED <<clientVars, inq, cmdVars, dev, s_len, s_done, nread, out,
                                   pend, failed, procVars>>

SendStatusDataThread == /\ ~Exited
                        /\ \/ StatusLoop \/ StatusRead \/ StatusReadNothing
                           \/ StatusReadFails \/ StatusWrite \/ StatusWriteFails

-----------------------------------------------------------------------------
(* sig_handler(SIGINT) and clear_thread.  One SIGINT is enough here: a     *)
(* second one sets Stop again and posts a semaphore nobody waits on any    *)
(* more.  (In a one-shot handler it kills: CmdServer.)                     *)

HandlerStop == /\ handler = "idle" /\ sys_status = "Running"
               /\ sys_status' = "Stop"
               /\ handler' = "post"
               /\ UNCHANGED <<g_sem, clear_pc>>

\* (bug) the handler forgets sem_post
HandlerNoPost == /\ handler = "post"
                 /\ handler' = "idle"
                 /\ UNCHANGED <<sys_status, g_sem, clear_pc>>

HandlerPost == /\ handler = "post"
               /\ g_sem' = g_sem + 1
               /\ handler' = "idle"
               /\ UNCHANGED <<sys_status, clear_pc>>

ClearWait == /\ clear_pc = "wait" /\ g_sem > 0
             /\ g_sem' = g_sem - 1
             /\ clear_pc' = IF sys_status = "Stop" THEN "reset" ELSE "wait"
             /\ UNCHANGED <<sys_status, handler>>

(* reset_hardware (its two writes of the register are CmdServer's), then   *)
(* close() of the device and of the connection, then exit(0).              *)
ClearSteps == <<"reset", "close_dev", "close_conn", "exit", "exited">>
ClearGoesOn == /\ \E i \in 1..4 : /\ clear_pc = ClearSteps[i]
                                  /\ clear_pc' = ClearSteps[i + 1]
               /\ UNCHANGED <<sys_status, g_sem, handler>>

dataVars == <<clientVars, inq, socket_fd, cmdVars, dev, statusVars, pend, failed>>

Handler     == ~Exited /\ (HandlerStop \/ HandlerPost) /\ UNCHANGED dataVars
ClearThread == (ClearWait \/ ClearGoesOn) /\ UNCHANGED dataVars

-----------------------------------------------------------------------------
(* The client and the device *)

(* The client begins a frame with its length byte; the other bytes follow  *)
(* one by one; it may close its end between any two.                       *)
ClientFrame == /\ peer = "open" /\ rest = 0 /\ Len(sent) < MaxFrames
               /\ \E f \in Frame : sent' = Append(sent, f) /\ rest' = Length[f]
               /\ inq' = Append(inq, <<Len(sent'), 0>>)
               /\ UNCHANGED peer

ClientByte == /\ peer = "open" /\ rest > 0
              /\ inq' = Append(inq, <<Len(sent), Length[sent[Len(sent)]] + 1 - rest>>)
              /\ rest' = rest - 1
              /\ UNCHANGED <<sent, peer>>

ClientClose == /\ peer = "open"
               /\ peer' = "closed"
               /\ UNCHANGED <<sent, rest, inq>>

Client == /\ ~Exited
          /\ ClientFrame \/ ClientByte \/ ClientClose
          /\ UNCHANGED <<socket_fd, cmdVars, dev, statusVars, pend, failed, procVars>>

(* The device has one more unit of status. *)
DeviceStatus == /\ ~Exited
                /\ nread + pend < MaxUnits
                /\ pend' = pend + 1
                /\ UNCHANGED <<clientVars, inq, socket_fd, cmdVars, dev, statusVars, failed,
                               procVars>>

Next == \/ ReadNetCmdThread \/ SendStatusDataThread \/ Handler \/ ClearThread
        \/ Client \/ DeviceStatus

Spec == Init /\ [][Next]_vars

(* The threads and a pending handler are scheduled; the device takes what  *)
(* is written and a client that keeps its end open keeps reading.  Nothing *)
(* is assumed of what the client sends or when it leaves.                  *)
Fairness == /\ WF_vars(ReadNetCmdThread)
            /\ WF_vars(SendStatusDataThread)
            /\ WF_vars(HandlerPost /\ UNCHANGED dataVars)
            /\ WF_vars(ClearThread)

FairSpec == Spec /\ Fairness

-----------------------------------------------------------------------------
(* Properties *)

(* The variables stay in their types; the cache never holds more than one  *)
(* frame, and status_buf never more than one read() returns.               *)
TypeOK == /\ sent \in Seq(Frame)
          /\ rest \in Nat
          /\ inq \in Seq(Nat \X Nat)
          /\ peer \in {"open", "closed"}
          /\ socket_fd \in {1, -1}
          /\ c_pc \in {"loop", "head", "body", "write", "exit"}
          /\ c_fd \in {0, 1, -1}
          /\ cmd_cache \in Seq(Nat \X Nat)
          /\ cmd_cache # <<>> => Len(cmd_cache) <= Value(cmd_cache[1]) + 1
          /\ c_done \in Nat /\ c_done <= Len(cmd_cache)
          /\ dev \in Seq(Nat \X Nat)
          /\ s_pc \in {"loop", "read", "write", "exit"}
          /\ s_len \in 0..MaxLen /\ s_done \in 0..s_len
          /\ pend \in 0..MaxUnits /\ nread \in 0..MaxUnits
          /\ out \in Seq(Nat)
          /\ failed \subseteq {"read", "write"}
          /\ sys_status \in {"Running", "Stop"}
          /\ g_sem \in Nat
          /\ handler \in {"idle", "post"}
          /\ clear_pc \in {"wait", "reset", "close_dev", "close_conn", "exit", "exited"}

(* Byte b comes right after byte a in the stream without its empty frames. *)
Follows(a, b) ==
  \/ b = <<a[1], a[2] + 1>> /\ a[2] < Length[sent[a[1]]]
  \/ /\ a[2] = Length[sent[a[1]]] /\ b[2] = 0 /\ a[1] < b[1]
     /\ \A k \in a[1]+1..b[1]-1 : Length[sent[k]] = 0

(* The device receives the client's non-empty frames byte for byte and in  *)
(* order, whatever pieces readn() and writen() move them in: the reader    *)
(* never takes a byte inside a frame for a length.                         *)
FramesInOrder ==
  /\ dev # <<>> => dev[1][2] = 0 /\ \A k \in 1..dev[1][1]-1 : Length[sent[k]] = 0
  /\ \A i \in 1..Len(dev)-1 : Follows(dev[i], dev[i+1])

(* A frame the client has not sent to its end, because it left or has not  *)
(* got there yet, does not reach the device in any part.                   *)
OnlyWholeFrames == \A i \in 1..Len(dev) : dev[i][1] < Len(sent) \/ rest = 0

(* Status reaches the client as the stream AcqStream describes: in order,  *)
(* without gaps, until the connection is lost, and after that not at all.  *)
Stream == INSTANCE AcqStream
            WITH produced <- nread, sock <- out,
                 up <- socket_fd = 1 /\ s_pc # "exit" /\ ~Exited
StatusStream == Stream!Spec

(* Whether frame k has been sent to its end. *)
Whole(k) == k <= Len(sent) /\ (k < Len(sent) \/ rest = 0)
OnDevice(k) == \E i \in 1..Len(dev) : dev[i][1] = k /\ dev[i][2] = Length[sent[k]]

(* A frame that was sent reaches the device, also when the client has left *)
(* meanwhile - unless the process is stopped, a write to the device fails, *)
(* or the status thread has lost the connection first.                     *)
FramesDelivered ==
  \A k \in 1..MaxFrames :
    (Whole(k) /\ Length[sent[k]] > 0)
      ~> (OnDevice(k) \/ socket_fd = -1 \/ sys_status = "Stop" \/ "write" \in failed)

(* The device's status is read for as long as the process runs, with the   *)
(* client or without: a lost connection does not leave it to pile up.      *)
StatusDrained == (pend > 0) ~> (pend = 0 \/ sys_status = "Stop" \/ "read" \in failed)

(* SIGINT ends the process, whatever the two threads are blocked on. *)
StopExits == (sys_status = "Stop") ~> Exited

(* "recv system reset frame": the reset frame resets the hardware and is   *)
(* no command for the device.  The code writes it to the device like any   *)
(* other.                                                                  *)
ResetFrameTaken == \A i \in 1..Len(dev) : sent[dev[i][1]] # ResetFrame
==============================================================================
