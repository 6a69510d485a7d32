---------------------------- MODULE NetServerProofs ----------------------------
(***************************************************************************)
(* Theorems about the socket library's server and its client, for any      *)
(* number of messages, retries, other programs and descriptors.            *)
(***************************************************************************)
EXTENDS NetServer, LeastNumber, SequenceTheorems, TLAPS

NetSpec == NetInit(TRUE) /\ [][NetNext]_netVars

-----------------------------------------------------------------------------
(* The invariant *)

Kind(f) == fds[f][1]

(* A number of the table stands for one thing: the socket that listens,    *)
(* once it is made; the client's socket, while the client has one; or the  *)
(* connection being read, while there is one - and no two numbers stand    *)
(* for things of one kind.                                                 *)
TableInv ==
  /\ fds \in [1..NumFds -> {Free, <<"listen", 0>>, <<"clt", 0>>}
                               \cup ({"conn"} \X DOMAIN conns)]
  /\ \A f, g \in 1..NumFds : Kind(f) = "listen" /\ Kind(g) = "listen" => f = g
  /\ srv_pc = "socket" => \A f \in 1..NumFds : Kind(f) # "listen"
  /\ \A f \in 1..NumFds : Kind(f) = "clt" => f = clt_fd /\ clt_pc \in {"connect", "send"}
  /\ \A f \in 1..NumFds : Kind(f) = "conn" => f = conn_fd /\ srv_pc \in {"head", "drop"}
  /\ clt_fd \in 0..NumFds /\ conn_fd \in 0..NumFds
  /\ clt_pc \in {"connect", "send"} => clt_fd # 0 /\ Kind(clt_fd) = "clt"
  /\ srv_pc \in {"head", "drop"} => conn_fd # 0 /\ Kind(conn_fd) = "conn"
  /\ srv_pc = "again" => conn_fd # 0

ConnsInv == /\ conns \in Seq(Connection)
            /\ clt_pc = "send" => \E k \in DOMAIN conns : conns[k].demo

(* What is left to read or write, and the tries, stay below their limits   *)
(* as long as the loops go on.                                             *)
CountInv ==
  /\ srv_pc \in {"socket", "bind", "listen", "accept", "head", "drop", "again", "exit"}
  /\ clt_pc \in {"socket", "connect", "send", "exit"}
  /\ listening \in BOOLEAN /\ alive \in BOOLEAN
  /\ left_len \in 0..HeadLen /\ empty \in 0..MaxEmpty+1
  /\ srv_pc = "head" => left_len > 0 /\ empty <= MaxEmpty
  /\ bind_count \in 0..MaxTry
  /\ srv_pc \in {"socket", "bind"} => bind_count < MaxTry
  /\ try_count \in 0..MaxTry
  /\ clt_pc \in {"socket", "connect"} => try_count < MaxTry
  /\ msg \in 0..Messages /\ clt_left \in 0..HeadLen+MsgLen

NetInv == TableInv /\ ConnsInv /\ CountInv

-----------------------------------------------------------------------------
(* The connections *)

(* The connections are numbered from 1, and those the two threads speak of *)
(* are among them.                                                         *)
LEMMA ConnTypes ==
  ASSUME NetInv
  PROVE  /\ Len(conns) \in Nat /\ DOMAIN conns = 1..Len(conns)
         /\ \A k \in DOMAIN conns : conns[k] \in Connection
         /\ srv_pc \in {"head", "drop"} =>
              conn_fd \in 1..NumFds /\ fds[conn_fd] = <<"conn", Conn>> /\ Conn \in DOMAIN conns
         /\ clt_pc = "send" => Mine \in DOMAIN conns /\ conns[Mine].demo
<1>1. Len(conns) \in Nat /\ DOMAIN conns = 1..Len(conns)
  BY LenProperties DEF NetInv, ConnsInv
<1>2. \A k \in DOMAIN conns : conns[k] \in Connection
  BY <1>1, ElementOfSeq DEF NetInv, ConnsInv
<1>3. ASSUME srv_pc \in {"head", "drop"}
      PROVE  conn_fd \in 1..NumFds /\ fds[conn_fd] = <<"conn", Conn>> /\ Conn \in DOMAIN conns
  <2>1. conn_fd \in 1..NumFds /\ Kind(conn_fd) = "conn"
    BY <1>3, NetAssumption DEF NetInv, TableInv
  <2>2. fds[conn_fd] \in {Free, <<"listen", 0>>, <<"clt", 0>>} \cup ({"conn"} \X DOMAIN conns)
    BY <2>1 DEF NetInv, TableInv
  <2>3. fds[conn_fd] \in {"conn"} \X DOMAIN conns
    BY <2>1, <2>2 DEF Kind, Free
  <2> QED BY <2>1, <2>3 DEF Conn, ConnOf
<1>4. ASSUME clt_pc = "send" PROVE Mine \in DOMAIN conns /\ conns[Mine].demo
  BY <1>4 DEF NetInv, ConnsInv, Mine
<1> QED BY <1>1, <1>2, <1>3, <1>4

(* A step that loses no connection and does not change whose it is.        *)
ConnsGoOn == /\ conns' \in Seq(Connection) /\ DOMAIN conns \subseteq DOMAIN conns'
             /\ \A j \in DOMAIN conns : conns'[j].demo = conns[j].demo

(* One connection changes. *)
LEMMA ConnSet ==
  ASSUME NetInv, NEW k \in DOMAIN conns, NEW r \in Connection, r.demo = conns[k].demo,
         conns' = [conns EXCEPT ![k] = r]
  PROVE  ConnsGoOn
<1>1. conns' \in Seq(Connection)
  BY ConnTypes, ExceptSeq DEF NetInv, ConnsInv
<1> QED BY <1>1 DEF ConnsGoOn

(* One more connection. *)
LEMMA ConnAppend ==
  ASSUME NetInv, NEW demo \in BOOLEAN, conns' = Append(conns, NewConn(demo))
  PROVE  ConnsGoOn /\ (demo => \E j \in DOMAIN conns' : conns'[j].demo)
<1>1. NewConn(demo) \in Connection /\ NewConn(demo).demo = demo
  BY DEF NewConn, Connection
<1>2. PICK c \in Connection : c = NewConn(demo) /\ c.demo = demo
  BY <1>1
<1>3. /\ conns' \in Seq(Connection) /\ Len(conns') = Len(conns) + 1
      /\ \A i \in 1..Len(conns) : conns'[i] = conns[i]
      /\ conns'[Len(conns) + 1] = c
  BY <1>2, AppendProperties DEF NetInv, ConnsInv
<1>4. Len(conns) \in Nat /\ DOMAIN conns = 1..Len(conns) /\ DOMAIN conns' = 1..Len(conns) + 1
  BY <1>3, ConnTypes, LenProperties
<1>5. Len(conns) + 1 \in DOMAIN conns' /\ DOMAIN conns \subseteq DOMAIN conns'
  BY <1>4
<1> QED BY <1>2, <1>3, <1>4, <1>5 DEF ConnsGoOn

(* No step loses a connection or changes whose it is. *)
LEMMA ConnsStep == ASSUME NetInv, [NetNext]_netVars PROVE ConnsGoOn
<1>1. CASE CltConnect
  BY <1>1, ConnAppend DEF CltConnect
<1>2. ASSUME NEW k \in DOMAIN conns, NEW r \in Connection, r.demo = conns[k].demo,
             conns' = [conns EXCEPT ![k] = r]
      PROVE  ConnsGoOn
  BY <1>2, ConnSet
<1>3. ASSUME UNCHANGED conns PROVE ConnsGoOn
  BY <1>3 DEF NetInv, ConnsInv, ConnsGoOn
<1>4. CASE Server \/ ServerFails
  <2>1. CASE SrvAccept
    <3>1. PICK k \in DOMAIN conns : conns' = [conns EXCEPT ![k].srv = "open"]
      <4>1. Min(Waiting) \in Waiting
        <5>1. Waiting \in SUBSET Nat /\ Waiting # {}
          BY <2>1, ConnTypes DEF Waiting, SrvAccept
        <5> QED BY <5>1, MinInSet
      <4> QED BY <2>1, <4>1 DEF SrvAccept, Waiting
    <3>2. PICK r : r = [conns[k] EXCEPT !.srv = "open"]
      OBVIOUS
    <3>3. r \in Connection /\ r.demo = conns[k].demo
      BY <3>2, ConnTypes DEF Connection
    <3>4. conns' = [conns EXCEPT ![k] = r]
      BY <3>1, <3>2
    <3> QED BY <1>2, <3>3, <3>4
  <2>2. CASE SrvShutdown
    <3>1. CASE fds[conn_fd][1] = "clt" /\ clt_pc = "send"
      <4>1. PICK k \in DOMAIN conns : conns' = [conns EXCEPT ![k].clt = "shut"]
        BY <2>2, <3>1, ConnTypes DEF SrvShutdown
      <4>2. PICK r : r = [conns[k] EXCEPT !.clt = "shut"]
        OBVIOUS
      <4>3. r \in Connection /\ r.demo = conns[k].demo
        BY <4>2, ConnTypes DEF Connection
      <4>4. conns' = [conns EXCEPT ![k] = r]
        BY <4>1, <4>2
      <4> QED BY <1>2, <4>3, <4>4
    <3> QED BY <1>3, <2>2, <3>1 DEF SrvShutdown
  <2>3. CASE SrvRead
    <3>1. PICK n \in 1..left_len :
            n <= conns[Conn].inq /\ conns' = [conns EXCEPT ![Conn].inq = @ - n]
      BY <2>3 DEF SrvRead
    <3>2. Conn \in DOMAIN conns /\ conns[Conn] \in Connection
      BY <2>3, ConnTypes DEF SrvRead
    <3>3. PICK k \in DOMAIN conns, i \in Nat : k = Conn /\ i = conns[k].inq - n
      <4>1. conns[Conn].inq \in Nat
        BY <3>2 DEF Connection
      <4>2. conns[Conn].inq - n \in Nat
        BY <3>1, <4>1, NetAssumption DEF NetInv, CountInv
      <4> QED BY <3>2, <4>2
    <3>4. PICK r : r = [conns[k] EXCEPT !.inq = i]
      OBVIOUS
    <3>5. r \in Connection /\ r.demo = conns[k].demo
      BY <3>2, <3>3, <3>4 DEF Connection
    <3>6. conns' = [conns EXCEPT ![k] = r]
      BY <3>1, <3>3, <3>4
    <3> QED BY <1>2, <3>5, <3>6
  <2>4. CASE SrvDrop
    <3>1. Conn \in DOMAIN conns /\ conns[Conn] \in Connection
      BY <2>4, ConnTypes DEF SrvDrop
    <3>2. PICK k \in DOMAIN conns, l \in {"reset", "fin"} :
            /\ k = Conn
            /\ l = IF conns[Conn].inq > 0 THEN "reset" ELSE "fin"
      BY <3>1
    <3>3. PICK q : q = [conns[k] EXCEPT !.srv = "closed"]
      OBVIOUS
    <3>4. q \in Connection /\ q.demo = conns[k].demo
      BY <3>1, <3>2, <3>3 DEF Connection
    <3>5. PICK p : p = [q EXCEPT !.inq = 0]
      OBVIOUS
    <3>6. p \in Connection /\ p.demo = conns[k].demo
      BY <3>4, <3>5 DEF Connection
    <3>7. PICK r : r = [p EXCEPT !.link = l]
      OBVIOUS
    <3>8. r \in Connection /\ r.demo = conns[k].demo
      BY <3>6, <3>7 DEF Connection
    <3>9. conns' = [conns EXCEPT ![k] = r]
      BY <2>4, <3>2, <3>3, <3>5, <3>7 DEF SrvDrop
    <3> QED BY <1>2, <3>8, <3>9
  <2>5. CASE \/ SrvSocket \/ SrvBind \/ SrvBindFails \/ SrvListen \/ SrvReadEmpty
             \/ SrvGivesUp \/ SrvReadFails
    BY <1>3, <2>5 DEF SrvSocket, SrvBind, SrvBindFails, SrvListen, SrvReadEmpty, SrvGivesUp,
                      SrvReadFails
  <2> QED BY <1>4, <2>1, <2>2, <2>3, <2>4, <2>5 DEF Server, ServerFails
<1>5. CASE Client
  <2>1. CASE Sending
    <3>1. Mine \in DOMAIN conns /\ conns[Mine] \in Connection
      BY <2>1, ConnTypes DEF Sending
    <3>2. PICK k \in DOMAIN conns : k = Mine
      BY <3>1
    <3>3. conns[k] \in Connection /\ conns[k].inq \in Nat
      BY <3>1, <3>2 DEF Connection
    <3>4. CASE CltWrite
      <4>1. PICK n \in 1..Current :
              conns' = IF conns[Mine].link = "up" THEN [conns EXCEPT ![Mine].inq = @ + n]
                                                  ELSE [conns EXCEPT ![Mine].link = "reset"]
        BY <3>4 DEF CltWrite
      <4>2. CASE conns[Mine].link = "up"
        <5>1. PICK i \in Nat : i = conns[k].inq + n
          <6>1. n \in Nat
            BY NetAssumption DEF NetInv, CountInv, Current
          <6> QED BY <3>3, <6>1
        <5>2. PICK r : r = [conns[k] EXCEPT !.inq = i]
          OBVIOUS
        <5>3. r \in Connection /\ r.demo = conns[k].demo
          BY <3>3, <5>2 DEF Connection
        <5>4. conns' = [conns EXCEPT ![k] = r]
          BY <3>2, <4>1, <4>2, <5>1, <5>2
        <5> QED BY <1>2, <5>3, <5>4
      <4>3. CASE conns[Mine].link # "up"
        <5>1. PICK r : r = [conns[k] EXCEPT !.link = "reset"]
          OBVIOUS
        <5>2. r \in Connection /\ r.demo = conns[k].demo
          BY <3>3, <5>1 DEF Connection
        <5>3. conns' = [conns EXCEPT ![k] = r]
          BY <3>2, <4>1, <4>3, <5>1
        <5> QED BY <1>2, <5>2, <5>3
      <4> QED BY <4>2, <4>3
    <3>5. CASE CltWriteFails
      <4>1. PICK r : r = [conns[k] EXCEPT !.link = "broken"]
        OBVIOUS
      <4>2. r \in Connection /\ r.demo = conns[k].demo
        BY <3>3, <4>1 DEF Connection
      <4>3. conns' = [conns EXCEPT ![k] = r]
        BY <3>2, <3>5, <4>1 DEF CltWriteFails
      <4> QED BY <1>2, <4>2, <4>3
    <3>6. CASE CltKilled
      BY <1>3, <3>6 DEF CltKilled
    <3>7. CASE ~(CltWrite \/ CltWriteFails \/ CltKilled)
      <4>1. clt_pc = "send" /\ msg # Messages
        BY <2>1, NetAssumption DEF Sending, NetInv, CountInv
      <4> QED BY <1>5, <3>7, <4>1
              DEF Client, CltSocket, CltSocketFails, CltConnect, CltConnectFails, CltClose
    <3> QED BY <3>4, <3>5, <3>6, <3>7
  <2>2. CASE CltClose
    <3>1. PICK k \in DOMAIN conns : k = Mine /\ conns[k] \in Connection
      BY <2>2, ConnTypes DEF CltClose
    <3>2. PICK r : r = [conns[k] EXCEPT !.clt = "closed"]
      OBVIOUS
    <3>3. r \in Connection /\ r.demo = conns[k].demo
      BY <3>1, <3>2 DEF Connection
    <3>4. conns' = [conns EXCEPT ![k] = r]
      BY <2>2, <3>1, <3>2 DEF CltClose
    <3> QED BY <1>2, <3>3, <3>4
  <2>3. CASE CltSocket \/ CltSocketFails \/ CltConnectFails
    BY <1>3, <2>3 DEF CltSocket, CltSocketFails, CltConnectFails
  <2> QED BY <1>1, <1>5, <2>1, <2>2, <2>3 DEF Client, CltWrite, CltWriteFails, CltKilled
<1>6. CASE Other
  <2>1. CASE OtherConnects
    BY <2>1, ConnAppend DEF OtherConnects
  <2>2. CASE OtherSends
    <3>1. PICK k \in DOMAIN conns : conns' = [conns EXCEPT ![k].inq = @ + 1]
      BY <2>2 DEF OtherSends, Others
    <3>2. conns[k] \in Connection /\ conns[k].inq \in Nat
      BY ConnTypes DEF Connection
    <3>3. PICK i \in Nat : i = conns[k].inq + 1
      BY <3>2
    <3>4. PICK r : r = [conns[k] EXCEPT !.inq = i]
      OBVIOUS
    <3>5. r \in Connection /\ r.demo = conns[k].demo
      BY <3>2, <3>4 DEF Connection
    <3>6. conns' = [conns EXCEPT ![k] = r]
      BY <3>1, <3>3, <3>4
    <3> QED BY <1>2, <3>5, <3>6
  <2>3. CASE OtherLeaves
    <3>1. PICK k \in DOMAIN conns : conns' = [conns EXCEPT ![k].clt = "closed"]
      BY <2>3 DEF OtherLeaves, Others
    <3>2. PICK r : r = [conns[k] EXCEPT !.clt = "closed"]
      OBVIOUS
    <3>3. r \in Connection /\ r.demo = conns[k].demo
      BY <3>2, ConnTypes DEF Connection
    <3>4. conns' = [conns EXCEPT ![k] = r]
      BY <3>1, <3>2
    <3> QED BY <1>2, <3>3, <3>4
  <2> QED BY <1>6, <2>1, <2>2, <2>3 DEF Other
<1>7. CASE UNCHANGED netVars
  BY <1>3, <1>7 DEF netVars
<1> QED BY <1>4, <1>5, <1>6, <1>7 DEF NetNext

-----------------------------------------------------------------------------
(* The descriptor table *)

(* There is a free number whenever one is asked for: what is in the table  *)
(* is of two kinds at most then, one number of each, and it has three.     *)
LEMMA FreeNumber ==
  ASSUME NetInv, srv_pc \in {"socket", "accept"} \/ clt_pc = "socket"
  PROVE  NewFd \in 1..NumFds /\ fds[NewFd] = Free
<1>1. PICK a, b, c \in 1..NumFds : a # b /\ b # c /\ a # c
  <2>1. 1 \in 1..NumFds /\ 2 \in 1..NumFds /\ 3 \in 1..NumFds
    BY NetAssumption
  <2> QED BY <2>1
<1>2. \A f \in 1..NumFds : fds[f] = Free \/ Kind(f) \in {"listen", "clt", "conn"}
  <2> TAKE f \in 1..NumFds
  <2>1. fds[f] \in {Free, <<"listen", 0>>, <<"clt", 0>>} \cup ({"conn"} \X DOMAIN conns)
    BY DEF NetInv, TableInv
  <2> QED BY <2>1 DEF Kind
<1>3. \A f, g \in 1..NumFds :
        Kind(f) \in {"listen", "clt", "conn"} /\ Kind(f) = Kind(g) => f = g
  BY DEF NetInv, TableInv
<1>4. \E kind \in {"listen", "clt", "conn"} : \A f \in 1..NumFds : Kind(f) # kind
  <2>1. CASE srv_pc = "socket"
    BY <2>1 DEF NetInv, TableInv
  <2>2. CASE srv_pc = "accept"
    BY <2>2 DEF NetInv, TableInv
  <2>3. CASE clt_pc = "socket"
    BY <2>3 DEF NetInv, TableInv
  <2> QED BY <2>1, <2>2, <2>3
<1>5. fds[a] = Free \/ fds[b] = Free \/ fds[c] = Free
  BY <1>1, <1>2, <1>3, <1>4
<1>6. PICK S : S = {f \in 1..NumFds : fds[f] = Free}
  OBVIOUS
<1>7. S \in SUBSET Nat /\ S # {}
  BY <1>5, <1>6
<1>8. Min(S) \in S /\ NewFd = Min(S)
  BY <1>6, <1>7, MinInSet DEF NewFd
<1> QED BY <1>6, <1>8

(* Steps that leave the table as it is. *)
LEMMA TableStill ==
  ASSUME NetInv, ConnsGoOn, UNCHANGED <<fds, clt_fd>>,
         \/ UNCHANGED <<srv_pc, conn_fd>>
         \/ /\ srv_pc \notin {"head", "drop"}
            /\ srv_pc' \notin {"socket", "head", "drop", "again"}
            /\ conn_fd' \in {conn_fd, 0}
         \/ srv_pc = "head" /\ srv_pc' \in {"head", "drop"} /\ conn_fd' = conn_fd,
         \/ UNCHANGED clt_pc
         \/ clt_pc \in {"connect", "send"} /\ clt_pc' \in {"connect", "send"}
         \/ clt_pc = "socket" /\ clt_pc' = "exit"
  PROVE  TableInv'
<1>1. fds' \in [1..NumFds -> {Free, <<"listen", 0>>, <<"clt", 0>>}
                                \cup ({"conn"} \X DOMAIN conns')]
  BY DEF NetInv, TableInv, ConnsGoOn
<1>2. \A f : Kind(f)' = Kind(f)
  BY DEF Kind
<1>3. Kind(clt_fd)' = Kind(clt_fd)
  BY DEF Kind
<1>4. srv_pc' \in {"head", "drop"} => Kind(conn_fd)' = Kind(conn_fd)
  BY DEF Kind
<1> QED BY <1>1, <1>2, <1>3, <1>4, NetAssumption DEF NetInv, TableInv

(* Steps that set one number of the table. *)
LEMMA TableSet ==
  ASSUME NetInv, ConnsGoOn, NEW f \in 1..NumFds,
         NEW v \in {Free, <<"listen", 0>>, <<"clt", 0>>} \cup ({"conn"} \X DOMAIN conns),
         fds' = [fds EXCEPT ![f] = v]
  PROVE  /\ fds' \in [1..NumFds -> {Free, <<"listen", 0>>, <<"clt", 0>>}
                                      \cup ({"conn"} \X DOMAIN conns')]
         /\ \A g \in 1..NumFds : Kind(g)' = IF g = f THEN v[1] ELSE Kind(g)
<1>1. fds \in [1..NumFds -> {Free, <<"listen", 0>>, <<"clt", 0>>}
                                \cup ({"conn"} \X DOMAIN conns)]
  BY DEF NetInv, TableInv
<1>2. fds' \in [1..NumFds -> {Free, <<"listen", 0>>, <<"clt", 0>>}
                                \cup ({"conn"} \X DOMAIN conns)]
  BY <1>1
<1>3. DOMAIN conns \subseteq DOMAIN conns'
  BY DEF ConnsGoOn
<1>4. \A g \in 1..NumFds : fds'[g] = IF g = f THEN v ELSE fds[g]
  BY <1>1
<1> QED BY <1>2, <1>3, <1>4 DEF Kind

(* The server's steps: its socket, a connection taken and one given up.    *)
LEMMA ServerTable ==
  ASSUME NetInv, ConnsGoOn, Server \/ ServerFails PROVE TableInv'
<1>1. UNCHANGED <<clt_pc, clt_fd>>
  BY DEF Server, ServerFails, cltVars
<1>2. CASE SrvSocket
  <2>1. PICK f \in 1..NumFds : f = NewFd /\ Kind(f) = "free"
    BY <1>2, FreeNumber DEF SrvSocket, Kind, Free
  <2>2. /\ srv_pc = "socket" /\ srv_pc' = "bind" /\ conn_fd' = conn_fd
        /\ fds' = [fds EXCEPT ![f] = <<"listen", 0>>]
    BY <1>2, <2>1 DEF SrvSocket
  <2>3. /\ fds' \in [1..NumFds -> {Free, <<"listen", 0>>, <<"clt", 0>>}
                                    \cup ({"conn"} \X DOMAIN conns')]
        /\ \A g \in 1..NumFds : Kind(g)' = IF g = f THEN "listen" ELSE Kind(g)
    <3>1. PICK v \in {Free, <<"listen", 0>>, <<"clt", 0>>} :
            v = <<"listen", 0>> /\ v[1] = "listen"
      OBVIOUS
    <3> QED BY <2>2, <3>1, TableSet
  <2>4. clt_pc \in {"connect", "send"} => clt_fd \in 1..NumFds /\ fds'[clt_fd][1] = "clt"
    BY <2>1, <2>3, NetAssumption DEF NetInv, TableInv, Kind
  <2> QED BY <1>1, <2>1, <2>2, <2>3, <2>4 DEF NetInv, TableInv, Kind
<1>3. CASE SrvAccept
  <2>1. PICK f \in 1..NumFds : f = NewFd /\ Kind(f) = "free"
    BY <1>3, FreeNumber DEF SrvAccept, Kind, Free
  <2>2. PICK k \in DOMAIN conns : fds' = [fds EXCEPT ![f] = <<"conn", k>>]
    <3>1. Waiting \in SUBSET Nat /\ Waiting # {}
      BY <1>3, ConnTypes DEF Waiting, SrvAccept
    <3>2. Min(Waiting) \in DOMAIN conns
      BY <3>1, MinInSet DEF Waiting
    <3> QED BY <1>3, <2>1, <3>2 DEF SrvAccept
  <2>3. srv_pc = "accept" /\ srv_pc' = "head" /\ conn_fd' = f
    BY <1>3, <2>1 DEF SrvAccept
  <2>4. /\ fds' \in [1..NumFds -> {Free, <<"listen", 0>>, <<"clt", 0>>}
                                    \cup ({"conn"} \X DOMAIN conns')]
        /\ \A g \in 1..NumFds : Kind(g)' = IF g = f THEN "conn" ELSE Kind(g)
    <3>1. PICK v : v = <<"conn", k>>
      OBVIOUS
    <3>2. v[1] = "conn" /\ v \in {"conn"} \X DOMAIN conns
      BY <3>1
    <3> QED BY <2>2, <3>1, <3>2, TableSet
  <2>5. f # 0 /\ f \in 0..NumFds
    BY NetAssumption
  <2>6. clt_pc \in {"connect", "send"} => clt_fd \in 1..NumFds /\ fds'[clt_fd][1] = "clt"
    BY <2>1, <2>4, NetAssumption DEF NetInv, TableInv, Kind
  <2>7. fds'[conn_fd'][1] = "conn"
    BY <2>3, <2>4 DEF Kind
  <2> QED BY <1>1, <2>1, <2>3, <2>4, <2>5, <2>6, <2>7 DEF NetInv, TableInv, Kind
<1>4. CASE SrvDrop
  <2>1. PICK f \in 1..NumFds : f = conn_fd /\ Kind(f) = "conn"
    BY <1>4, ConnTypes DEF SrvDrop, Kind
  <2>2. /\ srv_pc = "drop" /\ srv_pc' = "again" /\ conn_fd' = conn_fd
        /\ fds' = [fds EXCEPT ![f] = Free]
    BY <1>4, <2>1 DEF SrvDrop
  <2>3. /\ fds' \in [1..NumFds -> {Free, <<"listen", 0>>, <<"clt", 0>>}
                                    \cup ({"conn"} \X DOMAIN conns')]
        /\ \A g \in 1..NumFds : Kind(g)' = IF g = f THEN "free" ELSE Kind(g)
    <3>1. Free[1] = "free"
      BY DEF Free
    <3> QED BY <2>2, <3>1, TableSet
  <2>4. clt_pc \in {"connect", "send"} => clt_fd \in 1..NumFds /\ fds'[clt_fd][1] = "clt"
    BY <2>1, <2>3, NetAssumption DEF NetInv, TableInv, Kind
  <2>5. f # 0
    BY NetAssumption
  <2> QED BY <1>1, <2>1, <2>2, <2>3, <2>4, <2>5 DEF NetInv, TableInv, Kind
<1>5. CASE SrvRead \/ SrvReadEmpty \/ SrvReadFails
  <2>1. srv_pc = "head" /\ srv_pc' \in {"head", "drop"} /\ UNCHANGED <<fds, conn_fd>>
    BY <1>5, NetAssumption DEF SrvRead, SrvReadEmpty, SrvReadFails, AfterHead
  <2> QED BY <1>1, <2>1, TableStill
<1>6. CASE SrvBind \/ SrvBindFails \/ SrvShutdown \/ SrvListen \/ SrvGivesUp
  <2>1. /\ srv_pc \notin {"head", "drop"} /\ srv_pc' \notin {"socket", "head", "drop", "again"}
        /\ conn_fd' \in {conn_fd, 0} /\ fds' = fds
    BY <1>6 DEF SrvBind, SrvBindFails, SrvShutdown, SrvListen, SrvGivesUp
  <2> QED BY <1>1, <2>1, TableStill
<1> QED BY <1>2, <1>3, <1>4, <1>5, <1>6 DEF Server, ServerFails

(* The client's steps: its socket, made and closed. *)
LEMMA ClientTable == ASSUME NetInv, ConnsGoOn, Client PROVE TableInv'
<1>1. UNCHANGED <<srv_pc, conn_fd>>
  BY DEF Client, srvVars
<1>2. CASE CltSocket
  <2>1. PICK f \in 1..NumFds : f = NewFd /\ Kind(f) = "free"
    BY <1>2, FreeNumber DEF CltSocket, Kind, Free
  <2>2. /\ clt_pc = "socket" /\ clt_pc' = "connect" /\ clt_fd' = f
        /\ fds' = [fds EXCEPT ![f] = <<"clt", 0>>]
    BY <1>2, <2>1 DEF CltSocket
  <2>3. /\ fds' \in [1..NumFds -> {Free, <<"listen", 0>>, <<"clt", 0>>}
                                    \cup ({"conn"} \X DOMAIN conns')]
        /\ \A g \in 1..NumFds : Kind(g)' = IF g = f THEN "clt" ELSE Kind(g)
    <3>1. PICK v \in {Free, <<"listen", 0>>, <<"clt", 0>>} : v = <<"clt", 0>> /\ v[1] = "clt"
      OBVIOUS
    <3> QED BY <2>2, <3>1, TableSet
  <2>4. f # 0 /\ f \in 0..NumFds /\ fds'[clt_fd'][1] = "clt"
    BY <2>2, <2>3, NetAssumption DEF Kind
  <2>5. srv_pc \in {"head", "drop"} => conn_fd \in 1..NumFds /\ fds'[conn_fd][1] = "conn"
    BY <2>1, <2>3, ConnTypes DEF Kind
  <2> QED BY <1>1, <2>1, <2>2, <2>3, <2>4, <2>5 DEF NetInv, TableInv, Kind
<1>3. CASE /\ clt_pc \in {"connect", "send"} /\ clt_pc' = "exit"
           /\ fds' = [fds EXCEPT ![clt_fd] = Free] /\ clt_fd' = clt_fd
  <2>1. PICK f \in 1..NumFds : f = clt_fd /\ Kind(f) = "clt"
    BY <1>3, NetAssumption DEF NetInv, TableInv
  <2>2. /\ fds' \in [1..NumFds -> {Free, <<"listen", 0>>, <<"clt", 0>>}
                                    \cup ({"conn"} \X DOMAIN conns')]
        /\ \A g \in 1..NumFds : Kind(g)' = IF g = f THEN "free" ELSE Kind(g)
    <3>1. Free[1] = "free"
      BY DEF Free
    <3> QED BY <1>3, <2>1, <3>1, TableSet
  <2>3. srv_pc \in {"head", "drop"} => conn_fd \in 1..NumFds /\ fds'[conn_fd][1] = "conn"
    BY <2>1, <2>2, ConnTypes DEF Kind
  <2> QED BY <1>1, <1>3, <2>1, <2>2, <2>3 DEF NetInv, TableInv, Kind
<1>4. CASE \/ CltSocketFails \/ CltConnect \/ CltWrite \/ CltWriteFails \/ CltKilled
           \/ CltConnectFails /\ UNCHANGED <<clt_pc, fds>>
  <2>1. CASE CltSocketFails
    BY <1>1, <2>1, TableStill DEF CltSocketFails
  <2>2. CASE CltConnect
    BY <1>1, <2>2, TableStill DEF CltConnect
  <2>3. CASE CltWrite \/ CltWriteFails
    <3>1. UNCHANGED <<fds, clt_fd, clt_pc>>
      BY <2>3 DEF CltWrite, CltWriteFails
    <3> QED BY <1>1, <3>1, TableStill
  <2>4. CASE CltKilled
    BY <1>1, <2>4, TableStill DEF CltKilled, cltVars
  <2>5. CASE CltConnectFails /\ UNCHANGED <<clt_pc, fds>>
    BY <1>1, <2>5, TableStill DEF CltConnectFails
  <2> QED BY <1>4, <2>1, <2>2, <2>3, <2>4, <2>5
<1>5. CltClose \/ CltConnectFails =>
        \/ UNCHANGED <<clt_pc, fds>>
        \/ /\ clt_pc \in {"connect", "send"} /\ clt_pc' = "exit"
           /\ fds' = [fds EXCEPT ![clt_fd] = Free] /\ clt_fd' = clt_fd
  BY DEF CltClose, CltConnectFails
<1>6. ~(CltClose /\ UNCHANGED clt_pc)
  BY DEF CltClose
<1> QED BY <1>2, <1>3, <1>4, <1>5, <1>6 DEF Client

-----------------------------------------------------------------------------
(* The loops *)

(* read_data and the bind() of create_srv_netsock: the server's loops.     *)
LEMMA ServerCounts == ASSUME NetInv, Server \/ ServerFails PROVE CountInv'
<1> USE NetAssumption DEF NetInv, CountInv
<1>1. UNCHANGED <<clt_pc, try_count, msg, clt_left, alive>>
  BY DEF Server, ServerFails, cltVars
<1>2. CASE SrvSocket \/ SrvBind \/ SrvShutdown \/ SrvListen \/ SrvGivesUp
  BY <1>1, <1>2 DEF SrvSocket, SrvBind, SrvShutdown, SrvListen, SrvGivesUp
<1>3. CASE SrvBindFails
  BY <1>1, <1>3 DEF SrvBindFails
<1>4. CASE SrvAccept
  BY <1>1, <1>4 DEF SrvAccept
<1>5. CASE SrvRead
  <2>1. PICK n \in 1..left_len : left_len' = left_len - n
    BY <1>5 DEF SrvRead
  <2>2. /\ left_len' \in 0..HeadLen /\ empty' = 0
        /\ srv_pc' = IF left_len' > 0 THEN "head" ELSE "drop"
    BY <1>5, <2>1 DEF SrvRead, AfterHead
  <2>3. bind_count' = bind_count /\ listening' = listening
    BY <1>5 DEF SrvRead
  <2>4. empty' \in 0..MaxEmpty+1 /\ empty' <= MaxEmpty /\ (srv_pc' = "head" => left_len' > 0)
    BY <2>2
  <2> QED BY <1>1, <2>2, <2>3, <2>4
<1>6. CASE SrvReadEmpty
  <2>1. /\ empty' = empty + 1 /\ left_len' = left_len
        /\ srv_pc = "head" /\ srv_pc' = IF empty' > MaxEmpty THEN "drop" ELSE "head"
        /\ UNCHANGED <<listening, bind_count>>
    BY <1>6 DEF SrvReadEmpty, AfterHead
  <2>2. /\ empty' \in 0..MaxEmpty+1 /\ (srv_pc' = "head" => empty' <= MaxEmpty)
        /\ srv_pc' \in {"head", "drop"} /\ left_len' > 0
    BY <2>1
  <2>3. /\ srv_pc' \in {"socket", "bind", "listen", "accept", "head", "drop", "again", "exit"}
        /\ left_len' \in 0..HeadLen /\ empty' \in 0..MaxEmpty+1
        /\ srv_pc' = "head" => left_len' > 0 /\ empty' <= MaxEmpty
    BY <2>1, <2>2
  <2>4. /\ bind_count' \in 0..MaxTry /\ listening' \in BOOLEAN
        /\ srv_pc' \notin {"socket", "bind"}
    BY <2>1, <2>2
  <2>5. /\ alive' \in BOOLEAN
        /\ clt_pc' \in {"socket", "connect", "send", "exit"} /\ try_count' \in 0..MaxTry
        /\ clt_pc' \in {"socket", "connect"} => try_count' < MaxTry
        /\ msg' \in 0..Messages /\ clt_left' \in 0..HeadLen+MsgLen
    BY <1>1
  <2> QED BY <2>3, <2>4, <2>5
<1>7. CASE SrvReadFails \/ SrvDrop
  BY <1>1, <1>7 DEF SrvReadFails, SrvDrop, AfterHead
<1> QED BY <1>2, <1>3, <1>4, <1>5, <1>6, <1>7 DEF Server, ServerFails

(* connect() and write_data: the client's loops. *)
LEMMA ClientCounts == ASSUME NetInv, Client PROVE CountInv'
<1> USE NetAssumption DEF NetInv, CountInv
<1>1. UNCHANGED <<listening, srv_pc, left_len, empty, bind_count>>
  BY DEF Client, srvVars
<1>2. CASE CltSocket \/ CltSocketFails \/ CltClose
  BY <1>1, <1>2 DEF CltSocket, CltSocketFails, CltClose
<1>3. CASE CltConnect
  BY <1>1, <1>3 DEF CltConnect
<1>4. CASE CltConnectFails
  BY <1>1, <1>4 DEF CltConnectFails
<1>5. CASE CltKilled
  BY <1>1, <1>5 DEF CltKilled, cltVars
<1>6. CASE CltWrite \/ CltWriteFails
  <2>1. \E n \in 0..clt_left : Sent(clt_left - n)
    BY <1>6 DEF CltWrite, CltWriteFails, Current
  <2>2. /\ Sending /\ clt_pc' = clt_pc
        /\ UNCHANGED <<alive, try_count>>
    BY <1>6 DEF CltWrite, CltWriteFails
  <2>3. msg' \in 0..Messages /\ clt_left' \in 0..HeadLen+MsgLen
    BY <2>1, <2>2 DEF Sent, Sending
  <2> QED BY <1>1, <2>2, <2>3
<1> QED BY <1>2, <1>3, <1>4, <1>5, <1>6 DEF Client

-----------------------------------------------------------------------------
(* The theorems *)

(* At the start the table is empty, nobody is connected and nothing has    *)
(* been tried.                                                             *)
LEMMA NetInvInit == NetInit(TRUE) => NetInv
<1> SUFFICES ASSUME NetInit(TRUE) PROVE NetInv
  OBVIOUS
<1>1. conns = <<>> /\ DOMAIN conns = {}
  BY DEF NetInit
<1>2. TableInv
  BY <1>1, NetAssumption DEF NetInit, TableInv, Kind, Free
<1>3. ConnsInv
  BY <1>1 DEF NetInit, ConnsInv
<1>4. CountInv
  <2>1. listening \in BOOLEAN /\ alive \in BOOLEAN
    BY DEF NetInit
  <2> QED BY <2>1, NetAssumption DEF NetInit, CountInv
<1> QED BY <1>2, <1>3, <1>4 DEF NetInv

(* Every step of the server, the client and the other programs keeps the   *)
(* table, the connections and the counters as the invariant has them.      *)
LEMMA NetInvNext == NetInv /\ [NetNext]_netVars => NetInv'
<1> SUFFICES ASSUME NetInv, [NetNext]_netVars PROVE NetInv'
  OBVIOUS
<1>1. ConnsGoOn
  BY ConnsStep
<1>2. ConnsInv'
  <2>1. CASE CltConnect
    BY <1>1, <2>1, ConnAppend DEF CltConnect, ConnsInv, ConnsGoOn
  <2>2. CASE clt_pc' = "send" => clt_pc = "send"
    BY <1>1, <2>2 DEF NetInv, ConnsInv, ConnsGoOn
  <2>3. clt_pc' = "send" => clt_pc = "send" \/ CltConnect
    BY DEF NetNext, Server, ServerFails, Client, Other, CltSocket, CltSocketFails,
           CltConnectFails, CltWrite, CltWriteFails, CltKilled, CltClose, netVars, cltVars
  <2> QED BY <2>1, <2>2, <2>3
<1>3. TableInv'
  <2>1. CASE Other \/ UNCHANGED netVars
    <3>1. UNCHANGED <<fds, clt_fd, srv_pc, conn_fd, clt_pc>>
      BY <2>1 DEF Other, netVars, srvVars, cltVars
    <3> QED BY <1>1, <3>1, TableStill
  <2> QED BY <1>1, <2>1, ServerTable, ClientTable DEF NetNext
<1>4. CountInv'
  <2>1. CASE Other \/ UNCHANGED netVars
    BY <2>1 DEF Other, netVars, srvVars, cltVars, NetInv, CountInv
  <2> QED BY <2>1, ServerCounts, ClientCounts DEF NetNext
<1> QED BY <1>2, <1>3, <1>4 DEF NetInv

(* The invariant holds in every state of the two threads and the others.   *)
LEMMA NetInvariant == NetSpec => []NetInv
<1> QED BY NetInvInit, NetInvNext, PTL DEF NetSpec

(* The variables stay in their types: the retries of bind() and connect()  *)
(* and the empty reads of read_data stop at their limits, and the table    *)
(* names only connections that were made.                                  *)
THEOREM NetTypeCorrect == NetSpec => []NetTypeOK
<1>1. NetInv => NetTypeOK
  BY DEF NetInv, TableInv, ConnsInv, CountInv, NetTypeOK
<1> QED BY <1>1, NetInvariant, PTL

(* The server never has two connections open: whatever became of the last  *)
(* one, create_netsock_server has closed it before it accepts the next,    *)
(* and the number it closes is that connection's.                          *)
THEOREM ConnsReleasedCorrect == NetSpec => []ConnsReleased
<1>1. NetInv => ConnsReleased
  BY DEF NetInv, TableInv, ConnsReleased, Kind
<1> QED BY <1>1, NetInvariant, PTL

(* read_data gives a connection up when the header has come in whole or    *)
(* its client has gone, and never because a piece was short or is late.    *)
THEOREM NoEarlyDropCorrect == NetSpec => NoEarlyDrop
<1>1. NetInv /\ [NetNext]_netVars =>
        [(srv_pc = "head" /\ srv_pc' = "drop")
           => (left_len' = 0 \/ conns[Conn].clt # "open")]_netVars
  <2> SUFFICES ASSUME NetInv, NetNext, srv_pc = "head", srv_pc' = "drop"
               PROVE  left_len' = 0 \/ conns[Conn].clt # "open"
    OBVIOUS
  <2>1. SrvRead \/ SrvReadEmpty \/ SrvReadFails
    BY DEF NetNext, Server, ServerFails, Client, Other, srvVars, SrvSocket, SrvBind,
           SrvBindFails, SrvShutdown, SrvListen, SrvAccept, SrvDrop, SrvGivesUp
  <2>2. CASE SrvRead
    <3>1. left_len' \in Nat
      BY <2>2, NetAssumption DEF SrvRead, NetInv, CountInv
    <3> QED BY <2>2, <3>1 DEF SrvRead, AfterHead
  <2>3. CASE SrvReadEmpty \/ SrvReadFails
    BY <2>3 DEF SrvReadEmpty, SrvReadFails, Ended
  <2> QED BY <2>1, <2>2, <2>3
<1> QED BY <1>1, NetInvariant, PTL DEF NetSpec, NoEarlyDrop
===============================================================================
