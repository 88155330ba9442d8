------------------------------ MODULE DataBus ------------------------------
(***************************************************************************)
(* The data bus over AF_UNIX sockets (af_unix_cs: af_server.c, af_client.c,*)
(* data_bus/data_bus.c).  The server's listen thread accepts connections,  *)
(* starts a receive thread for each and only then calls connected_cb, which*)
(* puts an entry into client_list.  A receive thread hands packages to the *)
(* user, labels the entry with the device of the first one, and on end of  *)
(* file removes the entry and closes the descriptor.  bus_server_send      *)
(* looks a device up and writes to the entry's descriptor.  Nothing locks  *)
(* client_list.                                                            *)
(*                                                                         *)
(* The sockets carry bytes.  recv_thd takes what is there, as much as its  *)
(* buffer holds, and srv_recv_cb cuts that into packages; what is left over*)
(* is thrown away, so when a package is split the next ones are read at    *)
(* the wrong offset, until a recv happens to empty the socket.             *)
(*                                                                         *)
(* A descriptor number is used again after close.  What C leaves undefined *)
(* (an access to the list while a thread changes it, a read of a freed     *)
(* entry, a call through an unset pointer) ends the run as srv = "wild".   *)
(***************************************************************************)
EXTENDS Naturals, Sequences

CONSTANTS Conns,     \* connections made while the server runs
          Devs,      \* pairs of dev_type and dev_id
          DevOf,     \* the device of each connection's client
          IdZero,    \* the pair of the same dev_type and dev_id 0
          Fds,       \* descriptor numbers of the server for clients
          PkgSize,   \* sizeof(struct bus_data), 524
          BufSize,   \* MAX_BUF_SIZE of recv_thd, 4096
          MaxSends,  \* bound: packages of each client
          MaxData,   \* bound: packages of bus_server_send
          Faults,    \* subset of {"nomem", "nothread"}: calloc, pthread_create
                     \* fail in listen_thd
          INVALID,   \* DEV_TYPE_INVALID
          None       \* no connection, no descriptor, no writer

ASSUME DataBusAssumption ==
  /\ DevOf \in [Conns -> Devs]
  /\ IdZero \in [Devs -> Devs]
  /\ PkgSize \in Nat \ {0} /\ BufSize \in Nat /\ BufSize >= PkgSize
  /\ MaxSends \in [Conns -> Nat] /\ MaxData \in Nat
  /\ INVALID \notin Devs
  /\ None \notin Conns \cup Fds /\ "listen" \notin Conns /\ None # "listen"
  /\ Faults \subseteq {"nomem", "nothread"}

VARIABLES cli,      \* each client: its state, packages sent
          up,       \* packages on their way to the server
          off,      \* the bytes of the first of them that recv has taken
          down,     \* packages on their way to the client
          srv,      \* the server process
          fd,       \* the server's descriptor of each connection
          list,     \* client_list
          writer,   \* the thread inside queue_push_tail or queue_remove
          listen,   \* listen_thd: where it is, connection, descriptor
          rpc,      \* where the recv_thd of each connection is
          rbuf,     \* the packages it has received and not handled
          usr,      \* the caller of bus_server_send
          listed,   \* history: connected_cb has returned
          handled,  \* history: packages given to the server's callback
          dropped,  \* history: packages dropped as "socket missing"
          torn,     \* history: connections of which a package was split
          seen,     \* history: what the clients' callbacks were called with
          unset     \* history: clients that called an unset callback

clientVars == <<cli, up, off, down, seen, unset>>
listVars == <<list, writer>>
recvVars == <<rpc, rbuf>>
histVars == <<listed, handled, dropped, torn>>
serverVars == <<srv, fd, listVars, listen, recvVars, usr, histVars>>
vars == <<clientVars, serverVars>>

\* A package is known by its number; what srv_recv_cb reads at a wrong offset
\* is none of the packages that were sent.
Package == Nat \ {0}
Garbled == 0
Received == Package \cup {Garbled}

Entry == [conn : Conns, sock : Fds, dev : Devs \cup {INVALID}]

\* A package of bus_server_send: its device, the connection that had the
\* entry's descriptor at the lookup, and whether that entry's dev_id had
\* still to be written.
Data == [dev : Devs, for : Conns, half : BOOLEAN]

NoSend == [pc |-> "idle", dev |-> INVALID, conn |-> None, for |-> None,
           sock |-> None, half |-> FALSE, n |-> 0]

Init ==
  /\ cli = [k \in Conns |-> [st |-> "none", sent |-> 0]]
  /\ up = [k \in Conns |-> <<>>] /\ off = [k \in Conns |-> 0]
  /\ down = [k \in Conns |-> <<>>]
  /\ srv = "starting"
  /\ fd = [k \in Conns |-> None]
  /\ list = <<>> /\ writer = None
  /\ listen = [pc |-> "accept", conn |-> None, sock |-> None]
  /\ rpc = [k \in Conns |-> "none"] /\ rbuf = [k \in Conns |-> <<>>]
  /\ usr = NoSend
  /\ listed = {} /\ dropped = {} /\ torn = {}
  /\ handled = [k \in Conns |-> <<>>]
  /\ seen = [k \in Conns |-> <<>>] /\ unset = {}

-----------------------------------------------------------------------------
\* Clients.

\* tcpc_create has connected; "A pair of dev_type and dev_id can only create
\* one client" at a time.
bus_client_create(k) ==
  /\ cli[k].st = "none"
  /\ \A j \in Conns : DevOf[j] = DevOf[k] => cli[j].st \in {"none", "closed"}
  /\ cli' = [cli EXCEPT ![k].st = "starting"]
  /\ UNCHANGED <<up, off, down, seen, unset, serverVars>>

\* After a pause the callback is set, and bus_client_create returns.
ClientReady(k) ==
  /\ cli[k].st = "starting"
  /\ cli' = [cli EXCEPT ![k].st = "ready"]
  /\ UNCHANGED <<up, off, down, seen, unset, serverVars>>

bus_client_send(k) ==
  /\ cli[k].st = "ready"
  /\ cli[k].sent < MaxSends[k]
  /\ cli' = [cli EXCEPT ![k].sent = @ + 1]
  /\ up' = [up EXCEPT ![k] = Append(@, cli[k].sent + 1)]
  /\ UNCHANGED <<off, down, seen, unset, serverVars>>

\* The client's receive thread: of what one recv returns the callback gets the
\* first package only.  A callback that is not set yet ends the process.
client_recv_cb(k) ==
  /\ cli[k].st \in {"starting", "ready"}
  /\ down[k] # <<>>
  /\ down' = [down EXCEPT ![k] = <<>>]
  /\ seen' = [seen EXCEPT ![k] = Append(@, Head(down[k]))]
  /\ IF cli[k].st = "ready"
     THEN UNCHANGED <<cli, unset>>
     ELSE unset' = unset \cup {k} /\ cli' = [cli EXCEPT ![k].st = "closed"]
  /\ UNCHANGED <<up, off, serverVars>>

\* The process ends; a client cannot be destroyed otherwise.
ClientExit(k) ==
  /\ cli[k].st \in {"starting", "ready"}
  /\ cli' = [cli EXCEPT ![k].st = "closed"]
  /\ UNCHANGED <<up, off, down, seen, unset, serverVars>>

-----------------------------------------------------------------------------
\* The server.

Running == srv \in {"starting", "ready"}

\* tcps_create has returned; only now is the callback set.
bus_server_create ==
  /\ srv = "starting"
  /\ srv' = "ready"
  /\ UNCHANGED <<clientVars, fd, listVars, listen, recvVars, usr, histVars>>

\* Undefined behaviour.
Wild ==
  /\ srv' = "wild"
  /\ UNCHANGED <<clientVars, fd, listVars, listen, recvVars, usr, histVars>>

\* queue_find: of the entries that match, the first; 0 if there is none.
queue_find(S) == IF S = {} THEN 0 ELSE CHOOSE i \in S : \A j \in S : i <= j

BySock(f) == queue_find({i \in DOMAIN list : list[i].sock = f})

\* Mutant: dev_type is compared, dev_id is not.
ById_TypeOnly(d) == queue_find({i \in DOMAIN list : list[i].dev # INVALID})

ById(d) == queue_find({i \in DOMAIN list : list[i].dev = d})

\* Mutants: the entry stays; the oldest entry goes, whoever it is for.
queue_remove_Kept(q, i) == q
queue_remove_Oldest(q, i) == Tail(q)

queue_remove(q, i) ==
  [j \in 1..(Len(q) - 1) |-> IF j < i THEN q[j] ELSE q[j + 1]]

\* accept, the memory for the thread, and the thread.  Without memory the
\* connection is shut down and its descriptor kept for ever.  Without the
\* thread all goes on as with it: the error of pthread_create is a positive
\* number, and the test is res < 0.
Accept(k) ==
  /\ listen.pc = "accept"
  /\ cli[k].st # "none" /\ rpc[k] = "none"
  /\ \E f \in Fds :
       /\ \A j \in Conns : fd[j] # f
       /\ fd' = [fd EXCEPT ![k] = f]
       /\ \/ /\ \/ rpc' = [rpc EXCEPT ![k] = "recv"]
                \/ "nothread" \in Faults /\ rpc' = [rpc EXCEPT ![k] = "nothread"]
             /\ listen' = [pc |-> "connected", conn |-> k, sock |-> f]
             /\ UNCHANGED cli
          \/ /\ "nomem" \in Faults
             /\ rpc' = [rpc EXCEPT ![k] = "leaked"]
             /\ cli' = [cli EXCEPT ![k].st = "closed"]
             /\ UNCHANGED listen
  /\ UNCHANGED <<up, off, down, seen, unset, srv, listVars, rbuf, usr, histVars>>

\* connected_cb enters queue_push_tail (calloc's result is not tested) ...
srv_conn_cb ==
  /\ listen.pc = "connected"
  /\ \/ (writer # None \/ "nomem" \in Faults) /\ Wild
     \/ /\ writer = None
        /\ writer' = "listen"
        /\ listen' = [listen EXCEPT !.pc = "push"]
        /\ UNCHANGED <<clientVars, srv, fd, list, recvVars, usr, histVars>>

\* Mutants: dev_type stays 0 as calloc left it; so does the descriptor.
NewClient_Labelled ==
  [conn |-> listen.conn, sock |-> listen.sock,
   dev |-> CHOOSE d \in Devs : IdZero[d] = d]
NewClient_NoSock == [conn |-> listen.conn, sock |-> None, dev |-> INVALID]

NewClient == [conn |-> listen.conn, sock |-> listen.sock, dev |-> INVALID]

\* ... and leaves it, and listen_thd is back at accept.
queue_push_tail ==
  /\ listen.pc = "push"
  /\ list' = Append(list, NewClient)
  /\ listed' = listed \cup {listen.conn}
  /\ writer' = None
  /\ listen' = [listen EXCEPT !.pc = "accept"]
  /\ UNCHANGED <<clientVars, srv, fd, recvVars, usr, handled, dropped, torn>>

\* Mutant: only errors end recv_thd (len < 0).
EndOfFile_ErrorOnly(k) == FALSE

EndOfFile(k) == up[k] = <<>> /\ cli[k].st = "closed"

\* What recv takes: the bytes in the socket, at most BufSize.
Taken(k) ==
  LET there == PkgSize * Len(up[k]) - off[k]
  IN IF there <= BufSize THEN there ELSE BufSize

\* The packages srv_recv_cb makes of n bytes (len / sizeof(struct bus_data)):
\* the next ones of the client, if they begin where a package begins.
Cut(k, n) ==
  [i \in 1..(n \div PkgSize) |-> IF off[k] = 0 THEN up[k][i] ELSE Garbled]

\* recv_thd: data, or end of file.  With less than a package srv_recv_cb has
\* nothing to do.
Recv(k) ==
  /\ rpc[k] = "recv"
  /\ \/ /\ up[k] # <<>>
        /\ LET b == Cut(k, Taken(k))
               end == off[k] + Taken(k)
           IN /\ rbuf' = [rbuf EXCEPT ![k] = b]
              /\ rpc' = [rpc EXCEPT ![k] = IF b = <<>> THEN "recv" ELSE "package"]
              /\ up' = [up EXCEPT ![k] = SubSeq(@, end \div PkgSize + 1, Len(@))]
              /\ off' = [off EXCEPT ![k] = end % PkgSize]
              /\ torn' = IF end % PkgSize = 0 THEN torn ELSE torn \cup {k}
     \/ /\ EndOfFile(k)
        /\ rpc' = [rpc EXCEPT ![k] = "discon"]
        /\ UNCHANGED <<up, off, rbuf, torn>>
  /\ UNCHANGED <<cli, down, seen, unset, srv, fd, listVars, listen, usr,
                 listed, handled, dropped>>

\* The devices that the package at hand may name.
Named(k) == IF Head(rbuf[k]) = Garbled THEN Devs ELSE {DevOf[k]}

\* One round of srv_recv_cb: without an entry the rest of the buffer is
\* dropped; dev_type and then dev_id of an unlabelled entry are set from the
\* package (to no avail if a garbled one says INVALID).
srv_recv_cb(k) ==
  /\ rpc[k] = "package"
  /\ LET i == BySock(fd[k])
         To(l) == rpc' = [rpc EXCEPT ![k] = l]
     IN \/ writer # None /\ Wild
        \/ /\ writer = None
           /\ \/ /\ i = 0 /\ To("recv")
                 /\ dropped' = dropped \cup {<<k, rbuf[k][j]>> : j \in DOMAIN rbuf[k]}
                 /\ rbuf' = [rbuf EXCEPT ![k] = <<>>]
                 /\ UNCHANGED list
              \/ /\ i # 0 /\ list[i].dev = INVALID /\ To("dev_id")
                 /\ \E d \in Named(k) : list' = [list EXCEPT ![i].dev = IdZero[d]]
                 /\ UNCHANGED <<dropped, rbuf>>
              \/ /\ i # 0 /\ (list[i].dev # INVALID \/ Head(rbuf[k]) = Garbled)
                 /\ To("callback")
                 /\ UNCHANGED <<list, dropped, rbuf>>
           /\ UNCHANGED <<clientVars, srv, fd, writer, listen, usr, listed, handled,
                          torn>>

\* dev_id is added to the dev_type that has been written.
SetDevId(k) ==
  /\ rpc[k] = "dev_id"
  /\ \E d \in Named(k) :
       /\ IdZero[d] = list[BySock(fd[k])].dev
       /\ list' = [list EXCEPT ![BySock(fd[k])].dev = d]
  /\ rpc' = [rpc EXCEPT ![k] = "callback"]
  /\ UNCHANGED <<clientVars, srv, fd, writer, listen, rbuf, usr, histVars>>

\* Mutant: data++ is missing.
NextPackage_Same(b) == IF Len(b) = 1 THEN <<>> ELSE <<Head(b)>>

NextPackage(b) == Tail(b)

\* srv->callback, which bus_server_create may not have set yet.
callback(k) ==
  /\ rpc[k] = "callback"
  /\ \/ srv # "ready" /\ Wild
     \/ /\ srv = "ready"
        /\ handled' = [handled EXCEPT ![k] = Append(@, Head(rbuf[k]))]
        /\ rbuf' = [rbuf EXCEPT ![k] = NextPackage(@)]
        /\ rpc' = [rpc EXCEPT
                     ![k] = IF Len(rbuf[k]) = 1 THEN "recv" ELSE "package"]
        /\ UNCHANGED <<clientVars, srv, fd, listVars, listen, usr, listed,
                       dropped, torn>>

\* The entry is looked up; if there is one, queue_remove is entered ...
srv_discon_cb(k) ==
  /\ rpc[k] = "discon"
  /\ \/ writer # None /\ Wild
     \/ /\ writer = None
        /\ LET found == BySock(fd[k]) # 0 IN
           /\ rpc' = [rpc EXCEPT ![k] = IF found THEN "remove" ELSE "close"]
           /\ writer' = IF found THEN k ELSE None
        /\ UNCHANGED <<clientVars, srv, fd, list, listen, rbuf, usr, histVars>>

\* ... and left, and the entry is freed.
Remove(k) ==
  /\ rpc[k] = "remove"
  /\ list' = queue_remove(list, BySock(fd[k]))
  /\ writer' = None
  /\ rpc' = [rpc EXCEPT ![k] = "close"]
  /\ UNCHANGED <<clientVars, srv, fd, listen, rbuf, usr, histVars>>

Close(k) ==
  /\ rpc[k] = "close"
  /\ fd' = [fd EXCEPT ![k] = None]
  /\ rpc' = [rpc EXCEPT ![k] = "done"]
  /\ UNCHANGED <<clientVars, srv, listVars, listen, rbuf, usr, histVars>>

\* The lookup of bus_server_send (without an entry it returns -1) ...
bus_server_send(d) ==
  /\ srv = "ready" /\ usr.pc = "idle" /\ usr.n < MaxData
  /\ \/ writer # None /\ Wild
     \/ /\ writer = None /\ ById(d) # 0
        /\ LET e == list[ById(d)] IN
           \E k \in Conns :
             /\ fd[k] = e.sock
             /\ usr' = [usr EXCEPT !.pc = "found", !.dev = d, !.conn = e.conn,
                          !.for = k, !.half = (rpc[k] = "dev_id"), !.n = @ + 1]
        /\ UNCHANGED <<clientVars, srv, fd, listVars, listen, recvVars, histVars>>

\* ... the read of cli->sock, which may be freed by now ...
ReadSock ==
  /\ usr.pc = "found"
  /\ \/ /\ \A i \in DOMAIN list : list[i].conn # usr.conn
        /\ Wild
     \/ \E i \in DOMAIN list :
          /\ list[i].conn = usr.conn
          /\ usr' = [usr EXCEPT !.pc = "send", !.sock = list[i].sock]
          /\ UNCHANGED <<clientVars, srv, fd, listVars, listen, recvVars, histVars>>

\* ... and send: to whom the descriptor belongs by now.  A client that is
\* gone costs the server its life (SIGPIPE); a closed descriptor, nothing.
tcps_send ==
  /\ usr.pc = "send"
  /\ usr' = [NoSend EXCEPT !.n = usr.n]
  /\ \/ /\ \A k \in Conns : fd[k] # usr.sock
        /\ UNCHANGED <<down, srv>>
     \/ \E k \in Conns :
          /\ fd[k] = usr.sock
          /\ \/ cli[k].st = "closed" /\ srv' = "killed" /\ UNCHANGED down
             \/ /\ cli[k].st # "closed"
                /\ down' = [down EXCEPT ![k] =
                     Append(@, [dev |-> usr.dev, for |-> usr.for, half |-> usr.half])]
                /\ UNCHANGED srv
  /\ UNCHANGED <<cli, up, off, seen, unset, fd, listVars, listen, recvVars, histVars>>

-----------------------------------------------------------------------------
ClientStep(k) ==
  \/ bus_client_create(k) \/ ClientReady(k) \/ bus_client_send(k)
  \/ client_recv_cb(k) \/ ClientExit(k)

ListenStep ==
  \/ \E k \in Conns : Accept(k)
  \/ srv_conn_cb \/ queue_push_tail

RecvStep(k) ==
  \/ Recv(k) \/ srv_recv_cb(k) \/ SetDevId(k) \/ callback(k)
  \/ srv_discon_cb(k) \/ Remove(k) \/ Close(k)

SendStep == (\E d \in Devs : bus_server_send(d)) \/ ReadSock \/ tcps_send

Next ==
  /\ Running
  /\ \/ \E k \in Conns : ClientStep(k) \/ RecvStep(k)
     \/ bus_server_create \/ ListenStep \/ SendStep

Spec == Init /\ [][Next]_vars

\* The threads of the server run.
FairSpec ==
  /\ Spec
  /\ WF_vars(Running /\ ListenStep)
  /\ \A k \in Conns : WF_vars(Running /\ RecvStep(k))

-----------------------------------------------------------------------------
Client == [st : {"none", "starting", "ready", "closed"}, sent : Nat]
Listener == [pc : {"accept", "connected", "push"},
             conn : Conns \cup {None}, sock : Fds \cup {None}]
Receiver == {"none", "leaked", "nothread", "recv", "package", "dev_id", "callback",
             "discon", "remove", "close", "done"}
Sender == [pc : {"idle", "found", "send"}, dev : Devs \cup {INVALID},
           conn : Conns \cup {None}, for : Conns \cup {None},
           sock : Fds \cup {None}, half : BOOLEAN, n : 0..MaxData]

TypeOK ==
  /\ cli \in [Conns -> Client]
  /\ up \in [Conns -> Seq(Package)] /\ off \in [Conns -> 0..(PkgSize - 1)]
  /\ down \in [Conns -> Seq(Data)]
  /\ seen \in [Conns -> Seq(Data)] /\ unset \subseteq Conns
  /\ srv \in {"starting", "ready", "wild", "killed"}
  /\ fd \in [Conns -> Fds \cup {None}]
  /\ list \in Seq(Entry) /\ writer \in Conns \cup {"listen", None}
  /\ listen \in Listener
  /\ rpc \in [Conns -> Receiver] /\ rbuf \in [Conns -> Seq(Received)]
  /\ usr \in Sender
  /\ listed \subseteq Conns
  /\ handled \in [Conns -> Seq(Received)]
  /\ dropped \subseteq Conns \X Received /\ torn \subseteq Conns

\* An entry that carries a device has the descriptor of an open connection of
\* that device (or of one whose dev_id is about to be written).  Entries left
\* behind by a connection that ended before its connected_cb stay unlabelled
\* until a new connection gets their descriptor, so bus_server_send never
\* finds one that leads nowhere.  Of a connection of which a package was split
\* the device may be any.
EntriesAgree ==
  \A i \in DOMAIN list : list[i].dev # INVALID =>
    \E k \in Conns :
      /\ fd[k] = list[i].sock
      /\ \/ k \in torn
         \/ list[i].dev = IF rpc[k] = "dev_id" THEN IdZero[DevOf[k]] ELSE DevOf[k]

\* A package is dropped as "socket missing" only when its connection's
\* connected_cb has not returned yet.
DropsOnlyEarly ==
  [][\A p \in dropped' \ dropped : p[1] \notin listed]_vars

\* What bus_server_send sends reaches a client of another device only if the
\* connection it looked up has ended since, or was about to get its dev_id, or
\* is one of which a package was split.
Misdirected(p, k) == p.dev # DevOf[k]
MisdirectedOnly ==
  \A k \in Conns : \A p \in {down[k][i] : i \in DOMAIN down[k]}
                              \cup {seen[k][i] : i \in DOMAIN seen[k]} :
    Misdirected(p, k) => p.half \/ rpc[p.for] = "done" \/ p.for \in torn

\* A client is never called back before bus_client_create has set its
\* callback, unless by a package that is not for it: the server knows a
\* client by the first package it sent.
CallbackReady ==
  \A k \in unset : \E i \in DOMAIN seen[k] :
    seen[k][i].for # k

\* Every package a client has sent is, in the order of sending, with the
\* callback, in the receive buffer or in the socket, or was dropped.  Once a
\* recv has split a package some are garbled, but what reaches the callback
\* whole is still in order and comes once.
PackagesKept ==
  \A k \in Conns :
    LET s == handled[k] \o rbuf[k] \o up[k]
        there == {s[i] : i \in DOMAIN s}
        gone == {p[2] : p \in {q \in dropped : q[1] = k}}
    IN /\ \A i, j \in DOMAIN s : i < j => s[i] < s[j] \/ s[j] = Garbled
       /\ k \notin torn => /\ there \cap gone = {}
                           /\ there \cup gone = 1..cli[k].sent

\* The descriptor of a client that is gone is closed in the end, unless
\* listen_thd had no memory or got no thread for the connection, or the server
\* is gone too.
DescriptorReleased ==
  \A k \in Conns :
    cli[k].st = "closed" /\ fd[k] # None
      ~> fd[k] = None \/ rpc[k] \in {"leaked", "nothread"} \/ ~Running
============================================================================
