------------------------------ MODULE NetServer ------------------------------
(***************************************************************************)
(* The socket library (private_libary/linux_socket) as its demonstration   *)
(* program runs it: in one process, create_netsock_server on one thread    *)
(* and open_clt, a client of it, on another.  The port is open, so other   *)
(* programs connect too.  The threads share nothing but the process's      *)
(* descriptor table, whose numbers are used again, lowest first.           *)
(*                                                                         *)
(* Of the streams only the number of units in flight is kept.              *)
(***************************************************************************)
EXTENDS Integers, Sequences, FiniteSetsExt

CONSTANTS HeadLen,   \* units of a HeadFrame: sizeof(HeadFrame), 16 in the code
          MsgLen,    \* units of a message of the client
          Messages,  \* messages it sends (20)
          MaxTry,    \* MAX_TRY_CONN_TIMES and MAX_TRY_BIND_TIMES (15)
          MaxEmpty,  \* empty reads in a row read_data puts up with (10)
          NumFds,    \* bound: numbers of the descriptor table
          MaxOthers  \* bound: connections other programs make

ASSUME NetAssumption == /\ HeadLen \in Nat \ {0, 1} /\ MsgLen \in Nat \ {0}
                        /\ Messages \in Nat /\ MaxTry \in Nat \ {0}
                        /\ MaxEmpty \in Nat /\ MaxOthers \in Nat
                        /\ NumFds \in Nat \ {0, 1, 2}

VARIABLES
  fds,         \* the descriptor table: what each number stands for
  conns,       \* the connections ever made to the port, oldest first
  listening,   \* whether listen() has been called
  alive,       \* the process runs and was not killed by SIGPIPE
  srv_pc, conn_fd,    \* create_netsock_server, and its variable (0 for -1)
  left_len, empty,    \* of read_data: what is missing, max_read_count
  bind_count,         \* of create_srv_netsock
  clt_pc, clt_fd, try_count, \* open_clt and create_clt_netsock
  msg, clt_left       \* messages sent, and what write_data has left

srvVars == <<srv_pc, conn_fd, left_len, empty, bind_count>>
cltVars == <<clt_pc, clt_fd, try_count, msg, clt_left>>
netVars == <<fds, conns, listening, alive, srvVars, cltVars>>

(* clt     the client's end: open, closed, or shut down by its own process;*)
(* srv     the server's end: not accepted yet, or its state;               *)
(* link    what a write by the client meets: nothing, the server's FIN,    *)
(*         its reset, or a reset that was reported already.                *)
Connection == [demo : BOOLEAN, clt : {"open", "shut", "closed"},
               srv : {"backlog", "open", "closed"},
               link : {"up", "fin", "reset", "broken"}, inq : Nat]

NewConn(demo) == [demo |-> demo, clt |-> "open", srv |-> "backlog", link |-> "up", inq |-> 0]

Free      == <<"free", 0>>
NewFd     == Min({f \in 1..NumFds : fds[f] = Free})
ConnOf(f) == fds[f][2]
Conn      == ConnOf(conn_fd)           \* the connection the server is reading
Mine      == CHOOSE k \in DOMAIN conns : conns[k].demo
Waiting   == {k \in DOMAIN conns : conns[k].srv = "backlog"}

(* `run` tells whether the program is started at all. *)
NetInit(run) == /\ fds = [f \in 1..NumFds |-> Free]
                /\ conns = <<>> /\ listening = FALSE /\ alive = run
                /\ srv_pc = "socket" /\ conn_fd = 0 /\ left_len = 0 /\ empty = 0
                /\ bind_count = 0
                /\ clt_pc = "socket" /\ clt_fd = 0 /\ try_count = 0
                /\ msg = 0 /\ clt_left = 0

-----------------------------------------------------------------------------
(* create_netsock_server *)

SrvSocket == /\ srv_pc = "socket"
             /\ fds' = [fds EXCEPT ![NewFd] = <<"listen", 0>>]
             /\ srv_pc' = "bind"
             /\ UNCHANGED <<conns, listening, conn_fd, left_len, empty, bind_count>>

SrvBind == /\ srv_pc = "bind"
           /\ srv_pc' = "listen"
           /\ UNCHANGED <<fds, conns, listening, conn_fd, left_len, empty, bind_count>>

\* (bug) the last try is tested before it is counted
SrvBindFailsOnceMore ==
  /\ srv_pc = "bind"
  /\ bind_count' = bind_count + 1
  /\ srv_pc' = IF bind_count = MaxTry THEN "exit" ELSE "bind"
  /\ UNCHANGED <<fds, conns, listening, conn_fd, left_len, empty>>

(* The port is in use; tried again at once, MaxTry times in all.           *)
SrvBindFails == /\ srv_pc = "bind"
                /\ bind_count' = bind_count + 1
                /\ srv_pc' = IF bind_count' = MaxTry THEN "exit" ELSE "bind"
                /\ UNCHANGED <<fds, conns, listening, conn_fd, left_len, empty>>

(* LISTEN_AGAIN.  conn_fd still has the number of the connection that was  *)
(* closed; if it stands for the client's socket by now, that is shut down. *)
SrvShutdown ==
  /\ srv_pc = "again"
  /\ conns' = IF fds[conn_fd][1] = "clt" /\ clt_pc = "send"
                THEN [conns EXCEPT ![Mine].clt = "shut"] ELSE conns
  /\ conn_fd' = 0
  /\ srv_pc' = "listen"
  /\ UNCHANGED <<fds, listening, left_len, empty, bind_count>>

SrvListen == /\ srv_pc = "listen"
             /\ listening' = TRUE
             /\ srv_pc' = "accept"
             /\ UNCHANGED <<fds, conns, conn_fd, left_len, empty, bind_count>>

SrvAccept == /\ srv_pc = "accept" /\ Waiting # {}
             /\ LET k == Min(Waiting)
                IN  /\ fds' = [fds EXCEPT ![NewFd] = <<"conn", k>>]
                    /\ conns' = [conns EXCEPT ![k].srv = "open"]
             /\ conn_fd' = NewFd
             /\ left_len' = HeadLen /\ empty' = 0
             /\ srv_pc' = "head"
             /\ UNCHANGED <<listening, bind_count>>

(* socket(), listen() or accept() fails: the thread returns.               *)
SrvGivesUp == /\ srv_pc \in {"socket", "listen", "accept"}
              /\ srv_pc' = "exit"
              /\ UNCHANGED <<fds, conns, listening, conn_fd, left_len, empty, bind_count>>

\* (bug) any part of the header will do
AfterHeadShort(left, over) == "drop"

(* Where the server goes when read_data has `left` units to read and stops *)
(* or does not.  read_head_frame returns 1 or -1 and the result is compared*)
(* with sizeof(HeadFrame): what follows a whole header is not reached, and *)
(* the connection is closed as for half of one.                            *)
AfterHead(left, over) ==
  IF left > 0 /\ ~over THEN "head"
  ELSE LET ret == IF left = 0 THEN 1 ELSE -1
       IN  IF ret # HeadLen THEN "drop" ELSE "entity"

(* One read() of read_data. *)
SrvRead == /\ srv_pc = "head"
           /\ \E n \in 1..left_len :
                /\ n <= conns[Conn].inq
                /\ conns' = [conns EXCEPT ![Conn].inq = @ - n]
                /\ left_len' = left_len - n
           /\ empty' = 0
           /\ srv_pc' = AfterHead(left_len', FALSE)
           /\ UNCHANGED <<fds, listening, conn_fd, bind_count>>

Ended(k) == conns[k].inq = 0 /\ conns[k].clt # "open"

\* (bug) empty reads are not counted
SrvReadEmptyForever == /\ srv_pc = "head" /\ Ended(Conn)
                       /\ srv_pc' = AfterHead(left_len, FALSE)
                       /\ UNCHANGED <<fds, conns, listening, conn_fd, left_len, empty,
                                      bind_count>>

(* The end of the stream: tried again a few times. *)
SrvReadEmpty == /\ srv_pc = "head" /\ Ended(Conn)
                /\ empty' = empty + 1
                /\ srv_pc' = AfterHead(left_len, empty' > MaxEmpty)
                /\ UNCHANGED <<fds, conns, listening, conn_fd, left_len, bind_count>>

(* read() fails: another program reset its connection.                     *)
SrvReadFails == /\ srv_pc = "head" /\ conns[Conn].clt = "closed" /\ ~conns[Conn].demo
                /\ srv_pc' = AfterHead(left_len, TRUE)
                /\ UNCHANGED <<fds, conns, listening, conn_fd, left_len, empty, bind_count>>

\* (bug) the connection is given up and not closed
SrvDropKeeps == /\ srv_pc = "drop"
                /\ srv_pc' = "again"
                /\ UNCHANGED <<fds, conns, listening, conn_fd, left_len, empty, bind_count>>

(* close(conn_fd): with units unread the client's end is reset.            *)
SrvDrop ==
  /\ srv_pc = "drop"
  /\ fds' = [fds EXCEPT ![conn_fd] = Free]
  /\ conns' = [conns EXCEPT ![Conn].srv = "closed", ![Conn].inq = 0,
                            ![Conn].link = IF conns[Conn].inq > 0 THEN "reset" ELSE "fin"]
  /\ srv_pc' = "again"
  /\ UNCHANGED <<listening, conn_fd, left_len, empty, bind_count>>

Server == /\ alive
          /\ \/ SrvSocket \/ SrvBind \/ SrvBindFails \/ SrvShutdown \/ SrvListen \/ SrvAccept
             \/ SrvRead \/ SrvReadEmpty \/ SrvDrop
          /\ UNCHANGED <<alive, cltVars>>

ServerFails == /\ alive
               /\ SrvGivesUp \/ SrvReadFails
               /\ UNCHANGED <<alive, cltVars>>

-----------------------------------------------------------------------------
(* open_clt *)

CltSocket == /\ clt_pc = "socket"
             /\ fds' = [fds EXCEPT ![NewFd] = <<"clt", 0>>]
             /\ clt_fd' = NewFd
             /\ clt_pc' = "connect"
             /\ UNCHANGED <<conns, alive, try_count, msg, clt_left>>

(* socket() fails: the thread returns. *)
CltSocketFails == /\ clt_pc = "socket"
                  /\ clt_pc' = "exit"
                  /\ UNCHANGED <<fds, conns, alive, clt_fd, try_count, msg, clt_left>>

CltConnect == /\ clt_pc = "connect" /\ listening
              /\ conns' = Append(conns, NewConn(TRUE))
              /\ clt_pc' = "send" /\ clt_left' = HeadLen + MsgLen
              /\ UNCHANGED <<fds, alive, clt_fd, try_count, msg>>

\* (bug) the failed try is not counted
CltConnectForever == /\ clt_pc = "connect" /\ ~listening
                     /\ UNCHANGED <<fds, conns, alive, cltVars>>

(* Nobody listens: tried again every second, MaxTry times in all.          *)
CltConnectFails ==
  /\ clt_pc = "connect" /\ ~listening
  /\ try_count' = try_count + 1
  /\ IF try_count' = MaxTry
       THEN clt_pc' = "exit" /\ fds' = [fds EXCEPT ![clt_fd] = Free]
       ELSE UNCHANGED <<clt_pc, fds>>
  /\ UNCHANGED <<conns, alive, clt_fd, msg, clt_left>>

(* The next of the header and the message after `left` units are left of   *)
(* both: whatever write_data returned, the loop goes on.                   *)
Sent(left) == IF left = 0
                THEN msg' = msg + 1 /\ clt_left' = HeadLen + MsgLen
                ELSE msg' = msg /\ clt_left' = left

Sending == clt_pc = "send" /\ msg < Messages
Current == IF clt_left > MsgLen THEN clt_left - MsgLen ELSE clt_left

(* One write() of write_data, of the header or of the message.  A socket   *)
(* whose other end is closed takes one more write, and is reset by it.     *)
CltWrite == /\ Sending /\ conns[Mine].clt = "open" /\ conns[Mine].link \in {"up", "fin"}
            /\ \E n \in 1..Current :
                 /\ conns' = IF conns[Mine].link = "up"
                               THEN [conns EXCEPT ![Mine].inq = @ + n]
                               ELSE [conns EXCEPT ![Mine].link = "reset"]
                 /\ Sent(clt_left - n)
            /\ UNCHANGED <<fds, alive, clt_pc, clt_fd, try_count>>

(* write() fails with ECONNRESET, once; write_data gives up what is left.  *)
CltWriteFails == /\ Sending /\ conns[Mine].link = "reset"
                 /\ conns' = [conns EXCEPT ![Mine].link = "broken"]
                 /\ Sent(clt_left - Current)
                 /\ UNCHANGED <<fds, alive, clt_pc, clt_fd, try_count>>

(* It fails with EPIPE: the program does not handle SIGPIPE.               *)
CltKilled == /\ Sending
             /\ conns[Mine].clt = "shut" \/ conns[Mine].link \in {"reset", "broken"}
             /\ alive' = FALSE
             /\ UNCHANGED <<fds, conns, cltVars>>

CltClose == /\ clt_pc = "send" /\ msg = Messages
            /\ fds' = [fds EXCEPT ![clt_fd] = Free]
            /\ conns' = [conns EXCEPT ![Mine].clt = "closed"]
            /\ clt_pc' = "exit"
            /\ UNCHANGED <<alive, clt_fd, try_count, msg, clt_left>>

Client == /\ alive
          /\ \/ CltSocket \/ CltSocketFails \/ CltConnect \/ CltConnectFails \/ CltWrite
             \/ CltWriteFails \/ CltKilled \/ CltClose
          /\ UNCHANGED <<listening, srvVars>>

-----------------------------------------------------------------------------
(* Other programs: they connect, send or do not, and leave or do not.      *)

Others == {k \in DOMAIN conns : ~conns[k].demo}

OtherConnects == /\ listening /\ Cardinality(Others) < MaxOthers
                 /\ conns' = Append(conns, NewConn(FALSE))

OtherSends == \E k \in Others :
                /\ conns[k].clt = "open" /\ conns[k].link = "up" /\ conns[k].inq < HeadLen
                /\ conns' = [conns EXCEPT ![k].inq = @ + 1]

OtherLeaves == \E k \in Others : /\ conns[k].clt = "open"
                                 /\ conns' = [conns EXCEPT ![k].clt = "closed"]

Other == /\ alive
         /\ OtherConnects \/ OtherSends \/ OtherLeaves
         /\ UNCHANGED <<fds, listening, alive, srvVars, cltVars>>

NetNext == Server \/ ServerFails \/ Client \/ Other

(* Both threads are scheduled; nothing is assumed of other programs, nor   *)
(* that any call fails.                                                    *)
NetFairness == WF_netVars(Server) /\ WF_netVars(Client)

-----------------------------------------------------------------------------
(* Properties *)

(* The variables stay in their types: in particular the retries stop at    *)
(* their limits.                                                           *)
NetTypeOK == /\ fds \in [1..NumFds -> {Free, <<"listen", 0>>, <<"clt", 0>>}
                                        \cup ({"conn"} \X (DOMAIN conns))]
             /\ conns \in Seq(Connection)
             /\ listening \in BOOLEAN /\ alive \in BOOLEAN
             /\ srv_pc \in {"socket", "bind", "listen", "accept", "head", "drop", "again",
                            "exit"}
             /\ conn_fd \in 0..NumFds
             /\ left_len \in 0..HeadLen /\ empty \in 0..MaxEmpty+1
             /\ bind_count \in 0..MaxTry
             /\ clt_pc \in {"socket", "connect", "send", "exit"}
             /\ clt_fd \in 0..NumFds /\ try_count \in 0..MaxTry
             /\ msg \in 0..Messages /\ clt_left \in 0..HeadLen+MsgLen

(* Over any number of clients, incomplete headers and failed reads, the    *)
(* server has at most the one connection open that conn_fd names.          *)
ConnsReleased == \A f \in 1..NumFds : fds[f][1] = "conn" => f = conn_fd

(* A connection is given up only when its header has come in whole or its  *)
(* client has gone: a slow client's pieces are waited for.                 *)
NoEarlyDrop ==
  [][(srv_pc = "head" /\ srv_pc' = "drop")
       => (left_len' = 0 \/ conns[Conn].clt # "open")]_netVars

Silent == srv_pc = "head" /\ conns[Conn].clt = "open"

(* A client in the backlog is accepted in the end, whatever became of the  *)
(* one before it, unless that one for ever neither sends its header nor    *)
(* leaves.                                                                 *)
BacklogServed ==
  \A k \in 1..MaxOthers+1 :
    <>[]Silent \/ ((k \in Waiting) ~> (k \notin Waiting \/ srv_pc = "exit" \/ ~alive))

(* The client's thread comes to its end, also when nobody listens or the   *)
(* connection is lost: its retries are bounded.                            *)
ClientEnds == <>(clt_pc = "exit" \/ ~alive)
==============================================================================
