--------------------------- MODULE DataBusProofs ---------------------------
(***************************************************************************)
(* Proofs about DataBus for any number of connections, devices and         *)
(* descriptors: entries that carry a device lead to an open connection of  *)
(* it, packages are dropped only before connected_cb has returned, data    *)
(* goes astray only in the windows MisdirectedOnly names, no package of a  *)
(* client is lost or reordered on its way to the callback as long as recv  *)
(* has split none, and only a package for another client calls an unset    *)
(* callback.                                                               *)
(*                                                                         *)
(* The argument.  Open descriptors are distinct, so an entry's descriptor  *)
(* names at most one connection.  queue_find takes the first entry of a    *)
(* descriptor, for labelling and for removal alike: of the entries of one  *)
(* descriptor only the first is ever labelled (FirstOnly), so removing it  *)
(* leaves unlabelled ones behind (ClosedClean) and close leaves no label   *)
(* that leads nowhere.                                                     *)
(***************************************************************************)
EXTENDS DataBus, SequenceTheorems, WellFoundedInduction, TLAPS

Serving == {"recv", "package", "dev_id", "callback", "discon", "remove"}

\* The states in which recv_thd holds received packages.
Handling == {"package", "dev_id", "callback"}

ListenOK ==
  listen.pc # "accept" =>
    /\ listen.conn \in Conns \ listed /\ listen.sock \in Fds
    /\ rpc[listen.conn] # "none"
    /\ rpc[listen.conn] # "done" => fd[listen.conn] = listen.sock

SenderOK ==
  usr.pc # "idle" =>
    /\ usr.dev \in Devs /\ usr.for \in Conns /\ usr.conn \in listed
    /\ rpc[usr.for] # "none"
    /\ usr.half \/ usr.dev = DevOf[usr.for] \/ usr.for \in torn
    /\ usr.pc = "found" =>
         \A i \in DOMAIN list : list[i].conn = usr.conn =>
           list[i].sock = fd[usr.for] \/ rpc[usr.for] = "done"
    /\ usr.pc = "send" => usr.sock = fd[usr.for] \/ rpc[usr.for] = "done"

Buffers == \A k \in Conns : rpc[k] \in Handling => rbuf[k] # <<>>

\* A package is garbled only after another was split.
Whole == \A k \in Conns \ torn : /\ off[k] = 0
                                  /\ \A i \in DOMAIN rbuf[k] : rbuf[k][i] # Garbled

\* Open descriptors belong to one connection each.
Sockets ==
  /\ \A k, j \in Conns : fd[k] = fd[j] /\ fd[k] # None => k = j
  /\ \A k \in Conns : fd[k] # None <=> rpc[k] \notin {"none", "done"}

FirstOnly == \A i, j \in DOMAIN list :
               i < j /\ list[i].sock = list[j].sock => list[j].dev = INVALID

ClosedClean == \A k \in Conns : rpc[k] = "close" =>
                 \A i \in DOMAIN list : list[i].sock = fd[k] => list[i].dev = INVALID

LabelBegun == \A k \in Conns : rpc[k] = "dev_id" =>
                \E i \in DOMAIN list : list[i].sock = fd[k] /\ list[i].dev # INVALID

HasEntry(k) == \E i \in DOMAIN list : list[i].sock = fd[k]

ListedServed == \A k \in Conns : (k \in listed /\ rpc[k] \in Serving) \/ rpc[k] = "remove"
                                   => HasEntry(k)

OneEntry == /\ \A i \in DOMAIN list : list[i].conn \in listed
            /\ \A i, j \in DOMAIN list : list[i].conn = list[j].conn => i = j
            /\ \A k \in listed : rpc[k] # "none"

ListOK == EntriesAgree /\ FirstOnly /\ ClosedClean /\ LabelBegun /\ ListedServed /\ OneEntry

IInv == /\ TypeOK /\ Buffers /\ Sockets /\ ListOK /\ ListenOK /\ SenderOK
        /\ MisdirectedOnly

-----------------------------------------------------------------------------
\* Every nonempty set of numbers has a least element.
LEMMA LeastElement ==
  ASSUME NEW S, S \subseteq Nat, S # {}
  PROVE  \E i \in S : \A j \in S : i <= j
<1> DEFINE R == {p \in Nat \X Nat : p[1] < p[2]}
<1>1. IsWellFoundedOn(R, Nat)
  BY NatLessThanWellFounded DEF OpToRel
<1>2. \A j, i \in Nat : j < i => <<j, i>> \in R
  OBVIOUS
<1> HIDE DEF R
<1>3. PICK i \in S : \A j \in S : ~ (<<j, i>> \in R)
  BY <1>1, WFMin
<1>4. \A j \in S : ~ (j < i)
  BY <1>2, <1>3
<1> QED BY <1>4

\* queue_find returns 0 or the first match.
LEMMA QueueFind ==
  ASSUME NEW S, S \subseteq Nat \ {0}
  PROVE  /\ queue_find(S) = 0 <=> S = {}
         /\ S # {} => queue_find(S) \in S /\ \A j \in S : queue_find(S) <= j
<1>1. CASE S = {}
  BY <1>1 DEF queue_find
<1>2. CASE S # {}
  <2>1. \E i \in S : \A j \in S : i <= j
    BY <1>2, LeastElement
  <2> QED BY <1>2, <2>1 DEF queue_find
<1> QED BY <1>1, <1>2

LEMMA BySockFacts ==
  ASSUME list \in Seq(Entry), NEW f
  PROVE  /\ BySock(f) = 0 <=> \A i \in DOMAIN list : list[i].sock # f
         /\ BySock(f) # 0 => /\ BySock(f) \in DOMAIN list
                             /\ list[BySock(f)].sock = f
                             /\ \A j \in DOMAIN list : list[j].sock = f => BySock(f) <= j
<1> DEFINE S == {i \in DOMAIN list : list[i].sock = f}
<1>1. S \subseteq Nat \ {0}
  OBVIOUS
<1>2. /\ queue_find(S) = 0 <=> S = {}
      /\ S # {} => queue_find(S) \in S /\ \A j \in S : queue_find(S) <= j
  BY <1>1, QueueFind
<1>3. BySock(f) = queue_find(S)
  BY DEF BySock
<1> QED BY <1>2, <1>3

LEMMA ByIdFacts ==
  ASSUME list \in Seq(Entry), NEW d, ById(d) # 0
  PROVE  ById(d) \in DOMAIN list /\ list[ById(d)].dev = d
<1> DEFINE S == {i \in DOMAIN list : list[i].dev = d}
<1>1. S \subseteq Nat \ {0}
  OBVIOUS
<1>2. /\ queue_find(S) = 0 <=> S = {}
      /\ S # {} => queue_find(S) \in S
  BY <1>1, QueueFind
<1>3. ById(d) = queue_find(S)
  BY DEF ById
<1> QED BY <1>2, <1>3

\* Setting the device of an entry.
LEMMA Relabelled ==
  ASSUME NEW q \in Seq(Entry), NEW i, NEW d \in Devs
  PROVE  LET r == [q EXCEPT ![i].dev = d]
         IN /\ r \in Seq(Entry) /\ DOMAIN r = DOMAIN q
            /\ \A j \in DOMAIN q : /\ r[j].conn = q[j].conn /\ r[j].sock = q[j].sock
                                  /\ r[j].dev = IF j = i THEN d ELSE q[j].dev
<1> DEFINE r == [q EXCEPT ![i].dev = d]
<1>1. Len(q) \in Nat /\ DOMAIN q = 1..Len(q) /\ \A j \in DOMAIN q : q[j] \in Entry
  OBVIOUS
<1>2. DOMAIN r = DOMAIN q /\ \A j \in DOMAIN q : r[j] = IF j = i THEN [q[j] EXCEPT !.dev = d] ELSE q[j]
  OBVIOUS
<1>3. \A e \in Entry : /\ [e EXCEPT !.dev = d] \in Entry
                       /\ [e EXCEPT !.dev = d].conn = e.conn
                       /\ [e EXCEPT !.dev = d].sock = e.sock
                       /\ [e EXCEPT !.dev = d].dev = d
  BY DEF Entry
<1>4. \A j \in DOMAIN q : r[j] \in Entry
  BY <1>1, <1>2, <1>3
<1>5. r = [j \in 1..Len(q) |-> r[j]]
  BY <1>1, <1>2
<1> HIDE DEF r
<1>6. r \in Seq(Entry)
  BY <1>1, <1>4, <1>5
<1> QED BY <1>1, <1>2, <1>3, <1>6 DEF r

\* Removing an entry moves the later ones up by one place.
LEMMA RemoveFacts ==
  ASSUME NEW q \in Seq(Entry), NEW i \in DOMAIN q
  PROVE  LET r == queue_remove(q, i)
             Old(j) == IF j < i THEN j ELSE j + 1
         IN /\ r \in Seq(Entry)
            /\ \A j \in DOMAIN r : Old(j) \in DOMAIN q /\ Old(j) # i /\ r[j] = q[Old(j)]
            /\ \A j, m \in DOMAIN r : j < m => Old(j) < Old(m)
            /\ \A m \in DOMAIN q : m # i => \E j \in DOMAIN r : Old(j) = m
<1> DEFINE r == queue_remove(q, i)
           Old(j) == IF j < i THEN j ELSE j + 1
           n == Len(q)
<1>1. DOMAIN q = 1..n /\ n \in Nat /\ i \in 1..n /\ \A j \in 1..n : q[j] \in Entry
  OBVIOUS
<1>2. n - 1 \in Nat /\ DOMAIN r = 1..(n - 1)
  BY <1>1 DEF queue_remove
<1>3. \A j \in 1..(n - 1) : Old(j) \in 1..n /\ Old(j) # i
  BY <1>1
<1>4. \A j \in 1..(n - 1) : r[j] = q[Old(j)]
  BY <1>1 DEF queue_remove
<1>5. r = [j \in 1..(n - 1) |-> r[j]]
  BY DEF queue_remove
<1> HIDE DEF r
<1>6. r \in Seq(Entry)
  BY <1>1, <1>2, <1>3, <1>4, <1>5
<1>7. \A j, m \in 1..(n - 1) : j < m => Old(j) < Old(m)
  BY <1>1
<1>8. ASSUME NEW m \in 1..n, m # i PROVE \E j \in 1..(n - 1) : Old(j) = m
  <2>1. CASE m < i
    BY <1>1, <2>1
  <2>2. CASE m > i
    <3>1. m - 1 \in 1..(n - 1) /\ Old(m - 1) = m
      BY <1>1, <1>8, <2>2
    <3> QED BY <3>1
  <2> QED BY <1>1, <1>8, <2>1, <2>2
<1> QED BY <1>1, <1>2, <1>3, <1>4, <1>6, <1>7, <1>8 DEF r

-----------------------------------------------------------------------------
LEMMA InitInv == Init => IInv
<1> SUFFICES ASSUME Init PROVE IInv
  OBVIOUS
<1> USE DataBusAssumption DEF Init
<1>1. 0 \in Nat /\ 0 \in 0..MaxData /\ 0 \in 0..(PkgSize - 1)
  OBVIOUS
<1>2. usr \in Sender /\ listen \in Listener
  BY <1>1 DEF NoSend, Sender, Listener
<1>3. TypeOK
  BY <1>1, <1>2 DEF TypeOK, Client, Receiver
<1>4. Buffers /\ Sockets /\ ListOK
  BY DEF Buffers, Handling, Sockets, ListOK, EntriesAgree, FirstOnly, ClosedClean,
         LabelBegun, ListedServed, HasEntry, OneEntry, Serving
<1>5. ListenOK /\ SenderOK /\ MisdirectedOnly
  BY DEF ListenOK, SenderOK, NoSend, MisdirectedOnly
<1> QED BY <1>3, <1>4, <1>5 DEF IInv

\* The client processes' own steps.
LEMMA ClientType ==
  ASSUME TypeOK, NEW k \in Conns, ClientStep(k)
  PROVE  TypeOK'
<1> USE DEF serverVars, listVars, recvVars, histVars
<1>0. \A c \in Client, t \in {"starting", "ready", "closed"} : [c EXCEPT !.st = t] \in Client
  BY DEF Client
<1>1. CASE bus_client_create(k)
  <2>1. cli' \in [Conns -> Client]
    BY <1>0, <1>1 DEF bus_client_create, TypeOK
  <2> QED BY <1>1, <2>1 DEF bus_client_create, TypeOK
<1>2. CASE ClientReady(k)
  <2>1. cli' \in [Conns -> Client]
    BY <1>0, <1>2 DEF ClientReady, TypeOK
  <2> QED BY <1>2, <2>1 DEF ClientReady, TypeOK
<1>3. CASE bus_client_send(k)
  <2>1. cli[k].sent + 1 \in Package /\ [cli[k] EXCEPT !.sent = @ + 1] \in Client
    <3>1. cli[k] \in Client
      BY DEF TypeOK
    <3> QED BY <3>1 DEF Package, Client
  <2>2. cli' \in [Conns -> Client] /\ up' \in [Conns -> Seq(Package)]
    BY <1>3, <2>1 DEF bus_client_send, TypeOK
  <2> QED BY <1>3, <2>2 DEF bus_client_send, TypeOK
<1>4. CASE client_recv_cb(k)
  <2>1. Head(down[k]) \in Data
    BY <1>4 DEF client_recv_cb, TypeOK
  <2>2. seen' \in [Conns -> Seq(Data)] /\ down' \in [Conns -> Seq(Data)]
    BY <1>4, <2>1 DEF client_recv_cb, TypeOK
  <2>3. cli' \in [Conns -> Client] /\ unset' \subseteq Conns
    <3>1. /\ cli' = cli \/ cli' = [cli EXCEPT ![k].st = "closed"]
          /\ unset' = unset \/ unset' = unset \cup {k}
      BY <1>4 DEF client_recv_cb
    <3>2. cli \in [Conns -> Client] /\ unset \subseteq Conns
      BY DEF TypeOK
    <3>3. [cli[k] EXCEPT !.st = "closed"] \in Client
      BY <1>0, <3>2
    <3> QED BY <3>1, <3>2, <3>3
  <2>4. UNCHANGED <<up, off, serverVars>>
    BY <1>4 DEF client_recv_cb
  <2> QED BY <2>2, <2>3, <2>4 DEF TypeOK
<1>5. CASE ClientExit(k)
  <2>1. cli' \in [Conns -> Client]
    BY <1>0, <1>5 DEF ClientExit, TypeOK
  <2> QED BY <1>5, <2>1 DEF ClientExit, TypeOK
<1> QED BY <1>1, <1>2, <1>3, <1>4, <1>5 DEF ClientStep

\* The steps of the server's threads.
LEMMA WildType == TypeOK /\ Wild => TypeOK'
  BY DEF Wild, TypeOK, clientVars, listVars, recvVars, histVars

LEMMA ListenType ==
  ASSUME TypeOK, ListenOK, ListenStep
  PROVE  TypeOK'
<1> USE DEF clientVars, listVars, recvVars, histVars
<1>1. ASSUME NEW k \in Conns, Accept(k) PROVE TypeOK'
  <2>1. PICK f \in Fds :
          /\ fd' = [fd EXCEPT ![k] = f]
          /\ \/ /\ \E l \in {"recv", "nothread"} : rpc' = [rpc EXCEPT ![k] = l]
                /\ UNCHANGED cli
                /\ listen' = [pc |-> "connected", conn |-> k, sock |-> f]
             \/ /\ rpc' = [rpc EXCEPT ![k] = "leaked"] /\ UNCHANGED listen
                /\ cli' = [cli EXCEPT ![k].st = "closed"]
    BY <1>1 DEF Accept
  <2>2. fd' \in [Conns -> Fds \cup {None}]
    BY <2>1 DEF TypeOK
  <2>3. rpc' \in [Conns -> Receiver]
    BY <2>1 DEF TypeOK, Receiver
  <2>4. listen' \in Listener
    BY <2>1 DEF TypeOK, Listener
  <2>5. cli' \in [Conns -> Client]
    <3>1. cli \in [Conns -> Client]
      BY DEF TypeOK
    <3>2. [cli[k] EXCEPT !.st = "closed"] \in Client
      BY <3>1 DEF Client
    <3> QED BY <2>1, <3>1, <3>2
  <2>6. UNCHANGED <<up, off, down, seen, unset, srv, listVars, rbuf, usr, histVars>>
    BY <1>1 DEF Accept
  <2> QED BY <2>2, <2>3, <2>4, <2>5, <2>6 DEF TypeOK
<1>2. CASE srv_conn_cb
  <2>1. CASE Wild
    BY <2>1, WildType
  <2>2. CASE ~Wild
    <3>1. listen' \in Listener /\ writer' = "listen"
      BY <1>2, <2>2 DEF srv_conn_cb, TypeOK, Listener
    <3> QED BY <1>2, <2>2, <3>1 DEF srv_conn_cb, TypeOK
  <2> QED BY <2>1, <2>2
<1>3. CASE queue_push_tail
  <2>1. NewClient \in Entry /\ listen.conn \in Conns
    BY <1>3 DEF queue_push_tail, ListenOK, NewClient, Entry
  <2>2. listen' \in Listener
    BY <1>3 DEF queue_push_tail, TypeOK, Listener
  <2>3. list' \in Seq(Entry) /\ listed' \subseteq Conns /\ writer' = None
    BY <1>3, <2>1 DEF queue_push_tail, TypeOK
  <2> QED BY <1>3, <2>2, <2>3 DEF queue_push_tail, TypeOK
<1> QED BY <1>1, <1>2, <1>3 DEF ListenStep

\* Division with remainder.
LEMMA Division ==
  ASSUME NEW p \in Nat \ {0}, NEW n \in Nat
  PROVE  n \div p \in Nat /\ n % p \in 0..(p - 1) /\ n = p * (n \div p) + (n % p)
  OBVIOUS

LEMMA Quotient ==
  ASSUME NEW p \in Nat \ {0}, NEW n \in Nat, NEW m \in Nat, n <= p * m
  PROVE  n \div p <= m
<1> DEFINE q == n \div p
           r == n % p
<1>1. q \in Nat /\ r \in Nat /\ n = p * q + r
  BY Division
<1> HIDE DEF q
<1> SUFFICES ASSUME q >= m + 1 PROVE FALSE
  BY <1>1 DEF q
<1>2. PICK x \in Nat : q = m + 1 + x
  <2>1. q - m - 1 \in Nat /\ q = m + 1 + (q - m - 1)
    BY <1>1
  <2> QED BY <2>1
<1>3. p * q = p * m + p + p * x
  BY <1>2
<1>4. p * x \in Nat /\ p * m \in Nat
  OBVIOUS
<1> QED BY <1>1, <1>3, <1>4

\* What a recv takes and leaves.
LEMMA RecvData ==
  ASSUME TypeOK, NEW k \in Conns, up[k] # <<>>
  PROVE  LET n == Taken(k)
             b == Cut(k, n)
             m == (off[k] + n) \div PkgSize
             u == SubSeq(up[k], m + 1, Len(up[k]))
         IN /\ n \in Nat /\ m \in 0..Len(up[k]) /\ (off[k] + n) % PkgSize \in 0..(PkgSize - 1)
            /\ b \in Seq(Received) /\ u \in Seq(Package)
            /\ off[k] = 0 => b \in Seq(Package) /\ b \o u = up[k]
            /\ off[k] # 0 => \A i \in DOMAIN b : b[i] = Garbled
<1> DEFINE n == Taken(k)
           b == Cut(k, n)
           m == (off[k] + n) \div PkgSize
           q == n \div PkgSize
           L == Len(up[k])
           u == SubSeq(up[k], m + 1, L)
<1>1. /\ up[k] \in Seq(Package) /\ L \in Nat \ {0} /\ off[k] \in Nat /\ off[k] < PkgSize
      /\ PkgSize \in Nat \ {0} /\ BufSize \in Nat
  <2>1. up[k] \in Seq(Package) /\ off[k] \in 0..(PkgSize - 1)
    BY DEF TypeOK
  <2> QED BY <2>1, DataBusAssumption
<1>2. PkgSize * L \in Nat /\ PkgSize * L >= PkgSize
  BY <1>1
<1>3. n \in Nat /\ off[k] + n <= PkgSize * L
  BY <1>1, <1>2 DEF Taken
<1>4. off[k] + n \in Nat /\ n <= PkgSize * L
  BY <1>1, <1>3
<1> HIDE DEF n, L
<1>5. /\ m \in Nat /\ m <= L /\ q \in Nat /\ q <= L
      /\ (off[k] + n) % PkgSize \in 0..(PkgSize - 1)
  BY <1>1, <1>3, <1>4, Division, Quotient
<1>6. off[k] = 0 => m = q
  BY <1>3
<1>7. b = [i \in 1..q |-> IF off[k] = 0 THEN up[k][i] ELSE Garbled]
  BY DEF Cut
<1> HIDE DEF m, q, b
<1>8. u \in Seq(Package) /\ Len(u) = L - m /\ \A i \in 1..(L - m) : u[i] = up[k][m + i]
  BY <1>1, <1>5 DEF L
<1>9. b \in Seq(Received) /\ Len(b) = q
  <2>1. \A i \in 1..q : b[i] \in Received
    BY <1>1, <1>5, <1>7 DEF Received, L
  <2> QED BY <1>5, <1>7, <2>1
<1>10. ASSUME off[k] = 0 PROVE b \in Seq(Package) /\ b \o u = up[k]
  <2>1. b = [i \in 1..q |-> up[k][i]]
    BY <1>7, <1>10
  <2>2. \A i \in 1..q : up[k][i] \in Package
    BY <1>1, <1>5 DEF L
  <2>3. b \in Seq(Package)
    BY <1>5, <2>1, <2>2
  <2> HIDE DEF u
  <2>4. b \o u \in Seq(Package) /\ Len(b \o u) = L
    <3>1. b \o u \in Seq(Package) /\ Len(b \o u) = Len(b) + Len(u)
      BY <1>8, <2>3
    <3>2. Len(b) + Len(u) = L
      BY <1>1, <1>5, <1>6, <1>8, <1>9, <1>10
    <3> QED BY <3>1, <3>2
  <2>5. ASSUME NEW i \in 1..L PROVE (b \o u)[i] = up[k][i]
    <3>1. CASE i <= q
      BY <1>5, <1>8, <1>9, <2>1, <2>3, <3>1
    <3>2. CASE i > q
      <4>1. i - q \in 1..(L - m) /\ m + (i - q) = i
        BY <1>1, <1>5, <1>6, <1>10, <3>2
      <4>2. (b \o u)[i] = u[i - q]
        BY <1>1, <1>5, <1>6, <1>8, <1>9, <1>10, <2>3, <3>2
      <4> QED BY <1>6, <1>8, <1>10, <4>1, <4>2
    <3>3. i <= q \/ i > q
      BY <1>1, <1>5
    <3> QED BY <3>1, <3>2, <3>3, Zenon
  <2>6. Len(up[k]) = L /\ L \in Nat
    BY <1>1 DEF L
  <2> HIDE DEF L
  <2> QED BY <1>1, <2>3, <2>4, <2>5, <2>6, SeqEqual
<1>11. off[k] # 0 => \A i \in DOMAIN b : b[i] = Garbled
  BY <1>7
<1>12. m \in 0..L
  BY <1>1, <1>5
<1> QED BY <1>3, <1>5, <1>8, <1>9, <1>10, <1>11, <1>12, Zenon DEF n, m, b, L

\* A label is a device.
LEMMA NamedDevs == ASSUME NEW k \in Conns PROVE Named(k) \subseteq Devs
  BY DataBusAssumption DEF Named

\* As long as no package was split, it is the client's own.
LEMMA NamedOwn ==
  ASSUME TypeOK, Buffers, Whole, NEW k \in Conns, rpc[k] \in Handling
  PROVE  k \in torn \/ Named(k) = {DevOf[k]}
<1>1. rbuf[k] \in Seq(Received) /\ rbuf[k] # <<>>
  BY DEF TypeOK, Buffers
<1>2. Head(rbuf[k]) = rbuf[k][1] /\ 1 \in DOMAIN rbuf[k]
  BY <1>1
<1>3. k \in torn \/ rbuf[k][1] # Garbled
  BY <1>2 DEF Whole
<1> QED BY <1>2, <1>3 DEF Named

LEMMA RecvType ==
  ASSUME TypeOK, Buffers, NEW k \in Conns, RecvStep(k)
  PROVE  TypeOK'
<1> USE DEF clientVars, listVars, recvVars, histVars
<1>a. \A l \in Receiver : [rpc EXCEPT ![k] = l] \in [Conns -> Receiver]
  BY DEF TypeOK
<1>b. {"recv", "package", "dev_id", "callback", "discon", "remove", "close", "done"}
        \subseteq Receiver
  BY DEF Receiver
<1>0. CASE Wild
  BY <1>0, WildType
<1>1. CASE Recv(k)
  <2>1. rpc' \in [Conns -> Receiver]
    BY <1>1, <1>a, <1>b DEF Recv
  <2>2. /\ rbuf' \in [Conns -> Seq(Received)] /\ up' \in [Conns -> Seq(Package)]
        /\ off' \in [Conns -> 0..(PkgSize - 1)] /\ torn' \subseteq Conns
    <3>1. /\ rbuf \in [Conns -> Seq(Received)] /\ up \in [Conns -> Seq(Package)]
          /\ off \in [Conns -> 0..(PkgSize - 1)] /\ torn \subseteq Conns
      BY DEF TypeOK
    <3>2. CASE UNCHANGED <<up, off, rbuf, torn>>
      BY <3>1, <3>2
    <3>3. CASE ~UNCHANGED <<up, off, rbuf, torn>>
      <4> DEFINE n == Taken(k)
                 b == Cut(k, n)
                 u == SubSeq(up[k], (off[k] + n) \div PkgSize + 1, Len(up[k]))
                 r == (off[k] + n) % PkgSize
      <4>1. /\ rbuf' = [rbuf EXCEPT ![k] = b] /\ up' = [up EXCEPT ![k] = u]
            /\ off' = [off EXCEPT ![k] = r] /\ up[k] # <<>>
            /\ torn' = torn \/ torn' = torn \cup {k}
        BY <1>1, <3>3 DEF Recv
      <4>2. b \in Seq(Received) /\ u \in Seq(Package) /\ r \in 0..(PkgSize - 1)
        BY <4>1, RecvData
      <4> HIDE DEF b, u, r
      <4> QED BY <3>1, <4>1, <4>2
    <3> QED BY <3>2, <3>3
  <2>3. UNCHANGED <<cli, down, seen, unset, srv, fd, listVars, listen, usr,
                    listed, handled, dropped>>
    BY <1>1 DEF Recv
  <2> QED BY <2>1, <2>2, <2>3 DEF TypeOK
<1>2. CASE srv_recv_cb(k) /\ ~Wild
  <2>1. UNCHANGED <<clientVars, srv, fd, writer, listen, usr, listed, handled, torn>>
    BY <1>2 DEF srv_recv_cb
  <2>2. CASE UNCHANGED list
    <3>1. dropped' \subseteq Conns \X Received
      <4>1. \A j \in DOMAIN rbuf[k] : rbuf[k][j] \in Received
        BY DEF TypeOK
      <4>2. dropped' = dropped \/
            dropped' = dropped \cup {<<k, rbuf[k][j]>> : j \in DOMAIN rbuf[k]}
        BY <1>2 DEF srv_recv_cb
      <4> QED BY <4>1, <4>2 DEF TypeOK
    <3>2. rbuf' \in [Conns -> Seq(Received)]
      <4>1. rbuf' = rbuf \/ rbuf' = [rbuf EXCEPT ![k] = <<>>]
        BY <1>2 DEF srv_recv_cb
      <4>2. rbuf \in [Conns -> Seq(Received)] /\ <<>> \in Seq(Received)
        BY DEF TypeOK
      <4> QED BY <4>1, <4>2
    <3>3. rpc' \in [Conns -> Receiver]
      BY <1>2, <1>a, <1>b DEF srv_recv_cb
    <3> QED BY <2>1, <2>2, <3>1, <3>2, <3>3 DEF TypeOK
  <2>3. CASE /\ \E d \in Named(k) : list' = [list EXCEPT ![BySock(fd[k])].dev = IdZero[d]]
             /\ UNCHANGED <<dropped, rbuf>> /\ rpc' = [rpc EXCEPT ![k] = "dev_id"]
    <3>1. \A d \in Named(k) : IdZero[d] \in Devs
      BY NamedDevs, DataBusAssumption
    <3>2. list' \in Seq(Entry)
      <4>1. PICK d \in Devs : list' = [list EXCEPT ![BySock(fd[k])].dev = d]
        BY <2>3, <3>1
      <4> QED BY <4>1, Relabelled DEF TypeOK
    <3>3. rpc' \in [Conns -> Receiver]
      BY <2>3, <1>a, <1>b
    <3> QED BY <2>1, <2>3, <3>2, <3>3 DEF TypeOK
  <2> QED BY <1>2, <2>2, <2>3 DEF srv_recv_cb
<1>3. CASE SetDevId(k)
  <2>1. list' \in Seq(Entry)
    <3>1. Named(k) \subseteq Devs
      BY NamedDevs
    <3>2. \E d \in Named(k) : list' = [list EXCEPT ![BySock(fd[k])].dev = d]
      BY <1>3 DEF SetDevId
    <3>3. list \in Seq(Entry)
      BY DEF TypeOK
    <3>4. PICK d \in Devs : list' = [list EXCEPT ![BySock(fd[k])].dev = d]
      BY <3>1, <3>2
    <3> QED BY <3>3, <3>4, Relabelled
  <2>2. rpc' \in [Conns -> Receiver]
    BY <1>3, <1>a, <1>b DEF SetDevId
  <2> QED BY <1>3, <2>1, <2>2 DEF SetDevId, TypeOK
<1>4. CASE callback(k) /\ ~Wild
  <2>1. rbuf[k] # <<>> /\ rbuf[k] \in Seq(Received)
    BY <1>4 DEF callback, Buffers, Handling, TypeOK
  <2>2. Head(rbuf[k]) \in Received /\ NextPackage(rbuf[k]) \in Seq(Received)
    BY <2>1 DEF NextPackage
  <2>3. handled' \in [Conns -> Seq(Received)] /\ rbuf' \in [Conns -> Seq(Received)]
    <3>1. /\ handled' = [handled EXCEPT ![k] = Append(@, Head(rbuf[k]))]
          /\ rbuf' = [rbuf EXCEPT ![k] = NextPackage(@)]
      BY <1>4 DEF callback
    <3>2. handled \in [Conns -> Seq(Received)] /\ rbuf \in [Conns -> Seq(Received)]
      BY DEF TypeOK
    <3>3. Append(handled[k], Head(rbuf[k])) \in Seq(Received)
      BY <2>2, <3>2
    <3> QED BY <2>2, <3>1, <3>2, <3>3
  <2>4. rpc' \in [Conns -> Receiver]
    BY <1>4, <1>a, <1>b DEF callback
  <2> QED BY <1>4, <2>3, <2>4 DEF callback, TypeOK
<1>5. CASE srv_discon_cb(k) /\ ~Wild
  <2>1. rpc' \in [Conns -> Receiver] /\ writer' \in {k, None}
    BY <1>5, <1>a, <1>b DEF srv_discon_cb
  <2> QED BY <1>5, <2>1 DEF srv_discon_cb, TypeOK
<1>6. CASE Remove(k)
  <2>1. list' \in Seq(Entry)
    <3> DEFINE n == Len(list)  i == BySock(fd[k])
    <3>1. n \in Nat /\ \A j \in 1..n : list[j] \in Entry
      BY DEF TypeOK
    <3>2. list' = [j \in 1..(n - 1) |-> IF j < i THEN list[j] ELSE list[j + 1]]
      BY <1>6 DEF Remove, queue_remove
    <3> HIDE DEF i
    <3>3. \A j \in 1..(n - 1) : list'[j] \in Entry
      BY <3>1, <3>2
    <3>4. CASE n = 0
      <4>1. 1..(n - 1) = {}
        BY <3>4
      <4>2. list' = [j \in {} |-> IF j < i THEN list[j] ELSE list[j + 1]]
        BY <3>2, <4>1
      <4> QED BY <4>2
    <3>5. CASE n # 0
      <4>1. n - 1 \in Nat
        BY <3>1, <3>5
      <4>2. list' = [j \in 1..(n - 1) |-> list'[j]]
        BY <3>2
      <4> HIDE DEF n
      <4> QED BY <3>3, <4>1, <4>2
    <3> QED BY <3>4, <3>5
  <2>2. rpc' \in [Conns -> Receiver] /\ writer' = None
    BY <1>6, <1>a, <1>b DEF Remove
  <2> QED BY <1>6, <2>1, <2>2 DEF Remove, TypeOK
<1>7. CASE Close(k)
  <2>1. rpc' \in [Conns -> Receiver] /\ fd' \in [Conns -> Fds \cup {None}]
    BY <1>7, <1>a, <1>b DEF Close, TypeOK
  <2> QED BY <1>7, <2>1 DEF Close, TypeOK
<1> QED BY <1>0, <1>1, <1>2, <1>3, <1>4, <1>5, <1>6, <1>7 DEF RecvStep

LEMMA SendType ==
  ASSUME TypeOK, SenderOK, SendStep
  PROVE  TypeOK'
<1> USE DEF clientVars, listVars, recvVars, histVars
<1>0. CASE Wild
  BY <1>0, WildType
<1>1. ASSUME NEW d \in Devs, bus_server_send(d), ~Wild PROVE TypeOK'
  <2>1. ById(d) \in DOMAIN list
    BY <1>1, ByIdFacts DEF bus_server_send, TypeOK
  <2>2. list[ById(d)].conn \in Conns
    <3>1. list[ById(d)] \in Entry
      BY <2>1 DEF TypeOK
    <3> QED BY <3>1 DEF Entry
  <2>3. usr.n + 1 \in 0..MaxData
    <3>1. usr.n < MaxData
      BY <1>1 DEF bus_server_send
    <3>2. usr.n \in 0..MaxData
      BY DEF TypeOK, Sender
    <3> QED BY <3>1, <3>2, DataBusAssumption
  <2>4. usr' \in Sender
    <3>1. PICK k \in Conns :
            usr' = [usr EXCEPT !.pc = "found", !.dev = d, !.conn = list[ById(d)].conn,
                          !.for = k, !.half = (rpc[k] = "dev_id"), !.n = @ + 1]
      BY <1>1 DEF bus_server_send
    <3> DEFINE h == (rpc[k] = "dev_id")
    <3>2. h \in BOOLEAN
      OBVIOUS
    <3> HIDE DEF h
    <3> QED BY <2>2, <2>3, <3>1, <3>2 DEF TypeOK, Sender, h
  <2> QED BY <1>1, <2>4 DEF bus_server_send, TypeOK
<1>2. CASE ReadSock /\ ~Wild
  <2>1. usr' \in Sender
    <3>1. PICK i \in DOMAIN list : usr' = [usr EXCEPT !.pc = "send", !.sock = list[i].sock]
      BY <1>2 DEF ReadSock
    <3>2. list[i] \in Entry /\ usr \in Sender
      BY DEF TypeOK
    <3> QED BY <3>1, <3>2 DEF Entry, Sender
  <2> QED BY <1>2, <2>1 DEF ReadSock, TypeOK
<1>3. CASE tcps_send
  <2>1. usr' \in Sender
    BY <1>3 DEF tcps_send, TypeOK, NoSend, Sender
  <2>2. [dev |-> usr.dev, for |-> usr.for, half |-> usr.half] \in Data
    BY <1>3 DEF tcps_send, SenderOK, TypeOK, Sender, Data
  <2>3. down' \in [Conns -> Seq(Data)] /\ srv' \in {"starting", "ready", "wild", "killed"}
    <3> DEFINE p == [dev |-> usr.dev, for |-> usr.for, half |-> usr.half]
    <3>1. /\ down' = down \/ \E k \in Conns : down' = [down EXCEPT ![k] = Append(@, p)]
          /\ srv' = srv \/ srv' = "killed"
      BY <1>3 DEF tcps_send
    <3>2. p \in Data
      BY <2>2
    <3> HIDE DEF p
    <3>3. down \in [Conns -> Seq(Data)] /\ srv \in {"starting", "ready", "wild", "killed"}
      BY DEF TypeOK
    <3>4. \A k \in Conns : Append(down[k], p) \in Seq(Data)
      BY <3>2, <3>3
    <3> QED BY <3>1, <3>3, <3>4
  <2> QED BY <1>3, <2>1, <2>3 DEF tcps_send, TypeOK
<1> QED BY <1>0, <1>1, <1>2, <1>3 DEF SendStep

LEMMA TypeStep ==
  ASSUME IInv, [Next]_vars
  PROVE  TypeOK'
<1>1. CASE \E k \in Conns : ClientStep(k) \/ RecvStep(k)
  BY <1>1, ClientType, RecvType DEF IInv
<1>2. CASE bus_server_create
  BY <1>2 DEF bus_server_create, IInv, TypeOK, clientVars, listVars, recvVars, histVars
<1>3. CASE ListenStep
  BY <1>3, ListenType DEF IInv
<1>4. CASE SendStep
  BY <1>4, SendType DEF IInv
<1>5. CASE UNCHANGED vars
  BY <1>5 DEF vars, clientVars, serverVars, listVars, recvVars, histVars, IInv, TypeOK
<1> QED BY <1>1, <1>2, <1>3, <1>4, <1>5 DEF Next

-----------------------------------------------------------------------------
\* The types the following steps need.
Typed == /\ fd \in [Conns -> Fds \cup {None}] /\ rpc \in [Conns -> Receiver]
         /\ list \in Seq(Entry) /\ listed \subseteq Conns
         /\ down \in [Conns -> Seq(Data)] /\ seen \in [Conns -> Seq(Data)]

LEMMA TypedFacts ==
  ASSUME TypeOK
  PROVE  /\ Typed
         /\ \A i \in DOMAIN list : /\ list[i].conn \in Conns /\ list[i].sock \in Fds
                                  /\ list[i].sock # None /\ i \in Nat
<1>1. Typed
  BY DEF TypeOK, Typed
<1>2. \A i \in DOMAIN list : list[i] \in Entry /\ i \in Nat
  BY <1>1 DEF Typed
<1>3. \A e \in Entry : e.conn \in Conns /\ e.sock \in Fds /\ e.sock # None
  BY DataBusAssumption DEF Entry
<1> QED BY <1>1, <1>2, <1>3

\* No data goes astray as long as connections that ended stay ended.
LEMMA MisdirectedFrame ==
  ASSUME Typed, MisdirectedOnly, UNCHANGED <<down, seen>>, torn \subseteq torn',
         \A j \in Conns : rpc[j] = "done" => rpc'[j] = "done"
  PROVE  MisdirectedOnly'
<1> SUFFICES ASSUME NEW k \in Conns,
                    NEW p \in {down[k][i] : i \in DOMAIN down[k]}
                                \cup {seen[k][i] : i \in DOMAIN seen[k]},
                    Misdirected(p, k), ~p.half
             PROVE  rpc'[p.for] = "done" \/ p.for \in torn'
  BY DEF MisdirectedOnly, Misdirected
<1>1. p \in Data
  BY DEF Typed
<1>2. p.for \in Conns
  BY <1>1 DEF Data
<1>3. rpc[p.for] = "done" \/ p.for \in torn
  BY DEF MisdirectedOnly
<1> QED BY <1>2, <1>3

\* A step of recv_thd between accept and close changes nothing for the other
\* threads, as long as entries keep connection and descriptor.
LEMMA RecvFrame ==
  ASSUME TypeOK, Sockets, ListenOK, SenderOK, MisdirectedOnly, OneEntry,
         NEW k \in Conns, NEW l, l \notin {"none", "done"},
         rpc[k] \notin {"none", "done"}, rpc' = [rpc EXCEPT ![k] = l],
         UNCHANGED <<fd, listen, usr, listed, down, seen>>, torn \subseteq torn',
         \A i \in DOMAIN list' : \E j \in DOMAIN list :
           list'[i].conn = list[j].conn /\ list'[i].sock = list[j].sock
  PROVE  Sockets' /\ ListenOK' /\ SenderOK' /\ MisdirectedOnly'
<1>1. Typed
  BY TypedFacts
<1>2. \A j \in Conns : rpc'[j] = IF j = k THEN l ELSE rpc[j]
  BY <1>1 DEF Typed
<1>3. \A j \in Conns : /\ rpc[j] = "done" <=> rpc'[j] = "done"
                       /\ rpc[j] = "none" <=> rpc'[j] = "none"
  BY <1>2
<1>4. Sockets'
  BY <1>3 DEF Sockets
<1>5. ListenOK'
  BY <1>3 DEF ListenOK
<1>6. SenderOK'
  BY <1>3 DEF SenderOK
<1>7. MisdirectedOnly'
  BY <1>1, <1>3, MisdirectedFrame
<1> QED BY <1>4, <1>5, <1>6, <1>7

\* Steps that leave the list alone and write no label.
LEMMA SameList ==
  ASSUME TypeOK, Sockets, ListOK, NEW k \in Conns, NEW l \in Receiver,
         rpc[k] \in {"recv", "package", "callback", "discon"},
         l \in {"recv", "package", "callback", "discon", "remove", "close"},
         l = "remove" => HasEntry(k), l = "close" => ~HasEntry(k),
         rpc' = [rpc EXCEPT ![k] = l], UNCHANGED <<fd, list, listed>>, torn \subseteq torn'
  PROVE  ListOK'
<1>1. \A j \in Conns : rpc'[j] = IF j = k THEN l ELSE rpc[j]
  BY TypedFacts DEF Typed
<1>2. EntriesAgree'
  BY <1>1 DEF ListOK, EntriesAgree
<1>3. FirstOnly'
  BY DEF ListOK, FirstOnly
<1>4. ClosedClean'
  BY <1>1 DEF ListOK, ClosedClean, HasEntry
<1>5. LabelBegun'
  BY <1>1 DEF ListOK, LabelBegun
<1>6. ListedServed'
  <2>1. \A j \in Conns : HasEntry(j)' = HasEntry(j)
    BY DEF HasEntry
  <2> QED BY <1>1, <2>1 DEF ListOK, ListedServed, Serving
<1>7. OneEntry'
  BY <1>1, TypedFacts DEF ListOK, OneEntry, Typed
<1> QED BY <1>2, <1>3, <1>4, <1>5, <1>6, <1>7 DEF ListOK

\* Writing dev_type (d = IdZero[..], l = "dev_id") or dev_id (l = "callback")
\* into the first entry of k's descriptor, from a package of k unless one was
\* split.
LEMMA LabelList ==
  ASSUME TypeOK, Sockets, ListOK, NEW k \in Conns, NEW l, NEW d \in Devs,
         BySock(fd[k]) # 0,
         \/ /\ rpc[k] = "package" /\ l = "dev_id"
            /\ k \in torn \/ d = IdZero[DevOf[k]]
            /\ list[BySock(fd[k])].dev = INVALID
         \/ rpc[k] = "dev_id" /\ l = "callback" /\ (k \in torn \/ d = DevOf[k]),
         rpc' = [rpc EXCEPT ![k] = l], UNCHANGED <<fd, listed, torn>>,
         list' = [list EXCEPT ![BySock(fd[k])].dev = d]
  PROVE  ListOK'
<1> DEFINE i == BySock(fd[k])
<1>0. Typed
  BY TypedFacts
<1>1. \A j \in Conns : rpc'[j] = IF j = k THEN l ELSE rpc[j]
  BY <1>0 DEF Typed
<1>2. /\ i \in DOMAIN list /\ list[i].sock = fd[k]
      /\ \A j \in DOMAIN list : list[j].sock = fd[k] => i <= j
  BY <1>0, BySockFacts DEF Typed
<1>3. /\ DOMAIN list' = DOMAIN list
      /\ \A j \in DOMAIN list : /\ list'[j].conn = list[j].conn
                                /\ list'[j].sock = list[j].sock
                                /\ list'[j].dev = IF j = i THEN d ELSE list[j].dev
  BY <1>0, Relabelled DEF Typed
<1>4. \A j \in DOMAIN list : j \in Int
  BY TypedFacts
<1> HIDE DEF i
\* All other entries of the descriptor are unlabelled.
<1>5. \A j \in DOMAIN list : list[j].sock = fd[k] /\ j # i => list[j].dev = INVALID
  BY <1>2, <1>4 DEF ListOK, FirstOnly
<1>6. EntriesAgree'
  <2> SUFFICES ASSUME NEW j \in DOMAIN list, list'[j].dev # INVALID
               PROVE  \E m \in Conns :
                        /\ fd[m] = list'[j].sock
                        /\ \/ m \in torn'
                           \/ list'[j].dev = IF rpc'[m] = "dev_id" THEN IdZero[DevOf[m]]
                                                                  ELSE DevOf[m]
    BY <1>3 DEF EntriesAgree
  <2>1. CASE j = i
    BY <1>1, <1>2, <1>3, <2>1
  <2>2. CASE j # i
    <3>1. list[j].dev # INVALID /\ list'[j].dev = list[j].dev /\ list'[j].sock = list[j].sock
      BY <1>3, <2>2
    <3>2. PICK m \in Conns :
            /\ fd[m] = list[j].sock
            /\ \/ m \in torn
               \/ list[j].dev = IF rpc[m] = "dev_id" THEN IdZero[DevOf[m]] ELSE DevOf[m]
      BY <3>1 DEF ListOK, EntriesAgree
    <3>3. m # k
      BY <1>5, <2>2, <3>1, <3>2
    <3> QED BY <1>1, <3>1, <3>2, <3>3
  <2> QED BY <2>1, <2>2
<1>7. FirstOnly'
  <2> SUFFICES ASSUME NEW a \in DOMAIN list, NEW b \in DOMAIN list,
                      a < b, list[a].sock = list[b].sock
               PROVE  list'[b].dev = INVALID
    BY <1>3 DEF FirstOnly
  <2>1. b # i
    BY <1>2, <1>4
  <2> QED BY <1>3, <2>1 DEF ListOK, FirstOnly
<1>8. ClosedClean'
  <2> SUFFICES ASSUME NEW m \in Conns, rpc'[m] = "close",
                      NEW j \in DOMAIN list, list[j].sock = fd[m]
               PROVE  list'[j].dev = INVALID
    BY <1>3 DEF ClosedClean
  <2>1. m # k /\ rpc[m] = "close"
    BY <1>1
  <2>2. j # i
    <3>1. fd[m] # None
      BY <2>1 DEF Sockets
    <3> QED BY <1>2, <2>1, <3>1 DEF Sockets
  <2> QED BY <1>3, <2>1, <2>2 DEF ListOK, ClosedClean
<1>9. LabelBegun'
  <2> SUFFICES ASSUME NEW m \in Conns, rpc'[m] = "dev_id"
               PROVE  \E j \in DOMAIN list : list[j].sock = fd[m] /\ list'[j].dev # INVALID
    BY <1>3 DEF LabelBegun
  <2>1. d # INVALID
    BY DataBusAssumption
  <2>2. CASE m = k
    BY <1>2, <1>3, <2>1, <2>2
  <2>3. CASE m # k
    <3>1. PICK j \in DOMAIN list : list[j].sock = fd[m] /\ list[j].dev # INVALID
      BY <1>1, <2>3 DEF ListOK, LabelBegun
    <3> QED BY <1>3, <2>1, <3>1
  <2> QED BY <2>2, <2>3
<1>10. ListedServed'
  <2>1. \A j \in Conns : HasEntry(j) => HasEntry(j)'
    BY <1>3 DEF HasEntry
  <2> QED BY <1>1, <2>1 DEF ListOK, ListedServed, Serving
<1>11. OneEntry'
  BY <1>0, <1>1, <1>3 DEF ListOK, OneEntry, Typed
<1> QED BY <1>6, <1>7, <1>8, <1>9, <1>10, <1>11 DEF ListOK

\* Removing the first entry of k's descriptor.
LEMMA RemoveList ==
  ASSUME TypeOK, Sockets, ListOK, NEW k \in Conns, Remove(k)
  PROVE  ListOK' /\ \A j \in DOMAIN list' : \E m \in DOMAIN list :
           list'[j].conn = list[m].conn /\ list'[j].sock = list[m].sock
<1> DEFINE i == BySock(fd[k])
           Old(j) == IF j < i THEN j ELSE j + 1
<1>0. Typed /\ UNCHANGED <<fd, listed, torn>> /\ rpc[k] = "remove"
  BY TypedFacts DEF Remove, histVars
<1>1. \A j \in Conns : rpc'[j] = IF j = k THEN "close" ELSE rpc[j]
  BY <1>0 DEF Typed, Remove
<1>2. /\ i \in DOMAIN list /\ list[i].sock = fd[k]
      /\ \A j \in DOMAIN list : list[j].sock = fd[k] => i <= j
  <2>1. HasEntry(k)
    BY <1>0 DEF ListOK, ListedServed
  <2> QED BY <1>0, <2>1, BySockFacts DEF Typed, HasEntry
<1>3. /\ \A j \in DOMAIN list' : Old(j) \in DOMAIN list /\ Old(j) # i
                                 /\ list'[j] = list[Old(j)]
      /\ \A j, m \in DOMAIN list' : j < m => Old(j) < Old(m)
      /\ \A m \in DOMAIN list : m # i => \E j \in DOMAIN list' : Old(j) = m
  <2>1. list' = queue_remove(list, i)
    BY DEF Remove
  <2> QED BY <1>0, <1>2, <2>1, RemoveFacts DEF Typed
<1>4. /\ \A j \in DOMAIN list : j \in Int
      /\ \A j, m \in DOMAIN list' : Old(j) = Old(m) => j = m
  <2>1. list' \in Seq(Entry) /\ i \in Int
    BY <1>0, <1>2, RecvType, RemoveFacts DEF Remove, Typed
  <2> QED BY <1>0, <2>1 DEF Typed
<1> HIDE DEF i, Old
<1>5. \A j \in DOMAIN list : list[j].sock = fd[k] /\ j # i => list[j].dev = INVALID
  BY <1>2, <1>4 DEF ListOK, FirstOnly
<1>6. EntriesAgree'
  <2> SUFFICES ASSUME NEW j \in DOMAIN list', list'[j].dev # INVALID
               PROVE  \E m \in Conns :
                        /\ fd[m] = list'[j].sock
                        /\ \/ m \in torn'
                           \/ list'[j].dev = IF rpc'[m] = "dev_id" THEN IdZero[DevOf[m]]
                                                                  ELSE DevOf[m]
    BY <1>0 DEF EntriesAgree
  <2>1. PICK m \in Conns :
          /\ fd[m] = list'[j].sock
          /\ \/ m \in torn
             \/ list'[j].dev = IF rpc[m] = "dev_id" THEN IdZero[DevOf[m]] ELSE DevOf[m]
    BY <1>3 DEF ListOK, EntriesAgree
  <2>2. m # k
    BY <1>3, <1>5, <2>1
  <2> QED BY <1>0, <1>1, <2>1, <2>2
<1>7. FirstOnly'
  BY <1>3 DEF ListOK, FirstOnly
<1>8. ClosedClean'
  <2> SUFFICES ASSUME NEW m \in Conns, rpc'[m] = "close",
                      NEW j \in DOMAIN list', list'[j].sock = fd[m]
               PROVE  list'[j].dev = INVALID
    BY <1>0 DEF ClosedClean
  <2>1. CASE m = k
    BY <1>3, <1>5, <2>1
  <2>2. CASE m # k
    BY <1>1, <1>3, <2>2 DEF ListOK, ClosedClean
  <2> QED BY <2>1, <2>2
\* The entries of other descriptors stay.
<1>9. \A m \in Conns, a \in DOMAIN list :
        m # k /\ fd[m] # None /\ list[a].sock = fd[m] =>
          \E j \in DOMAIN list' : list'[j] = list[a]
  BY <1>2, <1>3 DEF Sockets
<1>10. \A m \in Conns : rpc'[m] \in Serving => m # k /\ rpc[m] = rpc'[m] /\ fd[m] # None
  BY <1>1 DEF Serving, Sockets
<1>11. LabelBegun'
  <2> SUFFICES ASSUME NEW m \in Conns, rpc'[m] = "dev_id"
               PROVE  \E j \in DOMAIN list' : list'[j].sock = fd[m] /\ list'[j].dev # INVALID
    BY <1>0 DEF LabelBegun
  <2>1. m # k /\ rpc[m] = "dev_id" /\ fd[m] # None
    BY <1>10 DEF Serving
  <2>2. PICK a \in DOMAIN list : list[a].sock = fd[m] /\ list[a].dev # INVALID
    BY <2>1 DEF ListOK, LabelBegun
  <2> QED BY <1>9, <2>1, <2>2
<1>12. ListedServed'
  <2> SUFFICES ASSUME NEW m \in Conns,
                      (m \in listed /\ rpc'[m] \in Serving) \/ rpc'[m] = "remove"
               PROVE  \E j \in DOMAIN list' : list'[j].sock = fd[m]
    BY <1>0 DEF ListedServed, HasEntry
  <2>1. m # k /\ rpc[m] = rpc'[m] /\ fd[m] # None
    BY <1>10 DEF Serving
  <2>2. PICK a \in DOMAIN list : list[a].sock = fd[m]
    BY <2>1 DEF ListOK, ListedServed, HasEntry
  <2> QED BY <1>9, <2>1, <2>2
<1>13. OneEntry'
  BY <1>0, <1>1, <1>3, <1>4 DEF ListOK, OneEntry, Typed
<1>14. \A j \in DOMAIN list' : \E m \in DOMAIN list :
         list'[j].conn = list[m].conn /\ list'[j].sock = list[m].sock
  BY <1>3
<1> QED BY <1>6, <1>7, <1>8, <1>11, <1>12, <1>13, <1>14 DEF ListOK

-----------------------------------------------------------------------------
\* Which steps change what.
LEMMA ClientFrame ==
  ASSUME NEW k \in Conns, ClientStep(k)
  PROVE  /\ UNCHANGED <<serverVars, off>>
         /\ bus_client_send(k) \/ UNCHANGED up
         /\ client_recv_cb(k) \/ UNCHANGED <<down, seen, unset>>
<1> USE DEF serverVars
<1> QED
  BY DEF ClientStep, bus_client_create, ClientReady, bus_client_send,
         client_recv_cb, ClientExit

LEMMA ListenFrame ==
  ASSUME ListenStep \/ bus_server_create
  PROVE  /\ UNCHANGED <<up, off, down, seen, unset, rbuf, usr, handled, dropped, torn>>
         /\ (\E k \in Conns : Accept(k)) \/ UNCHANGED <<cli, fd, rpc>>
         /\ queue_push_tail \/ UNCHANGED list
<1> USE DEF clientVars, listVars, recvVars, histVars
<1>1. ASSUME NEW k \in Conns, Accept(k)
      PROVE  UNCHANGED <<up, off, down, seen, unset, rbuf, usr, handled, dropped, torn, list>>
  BY <1>1 DEF Accept
<1>2. CASE srv_conn_cb
  BY <1>2 DEF srv_conn_cb, Wild
<1>3. CASE queue_push_tail
  BY <1>3 DEF queue_push_tail
<1>4. CASE bus_server_create
  BY <1>4 DEF bus_server_create
<1> QED
  BY <1>1, <1>2, <1>3, <1>4 DEF ListenStep

LEMMA RecvStepFrame ==
  ASSUME NEW k \in Conns, RecvStep(k)
  PROVE  /\ UNCHANGED <<cli, down, seen, unset, usr, listed>>
         /\ Recv(k) \/ UNCHANGED <<up, off, torn>>
         /\ Recv(k) \/ srv_recv_cb(k) \/ callback(k) \/ UNCHANGED rbuf
         /\ srv_recv_cb(k) \/ UNCHANGED dropped
         /\ callback(k) \/ UNCHANGED handled
         /\ srv_recv_cb(k) \/ SetDevId(k) \/ Remove(k) \/ UNCHANGED list
         /\ Close(k) \/ UNCHANGED fd
<1> USE DEF clientVars, listVars, recvVars, histVars
<1>1. CASE Recv(k)
  BY <1>1 DEF Recv
<1>2. CASE srv_recv_cb(k)
  BY <1>2 DEF srv_recv_cb, Wild
<1>3. CASE SetDevId(k)
  BY <1>3 DEF SetDevId
<1>4. CASE callback(k)
  BY <1>4 DEF callback, Wild
<1>5. CASE srv_discon_cb(k)
  BY <1>5 DEF srv_discon_cb, Wild
<1>6. CASE Remove(k)
  BY <1>6 DEF Remove
<1>7. CASE Close(k)
  BY <1>7 DEF Close
<1> QED
  BY <1>1, <1>2, <1>3, <1>4, <1>5, <1>6, <1>7 DEF RecvStep

LEMMA SendFrame ==
  ASSUME SendStep
  PROVE  /\ UNCHANGED <<cli, up, off, seen, unset, fd, list, rpc, rbuf, handled, dropped,
                        torn>>
         /\ tcps_send \/ UNCHANGED down
<1> USE DEF clientVars, listVars, recvVars, histVars
<1>1. ASSUME NEW d \in Devs, bus_server_send(d)
      PROVE  UNCHANGED <<cli, up, off, down, seen, unset, fd, list, rpc, rbuf, handled,
                         dropped, torn>>
  BY <1>1 DEF bus_server_send, Wild
<1>2. CASE ReadSock
  BY <1>2 DEF ReadSock, Wild
<1>3. CASE tcps_send
  BY <1>3 DEF tcps_send
<1> QED
  BY <1>1, <1>2, <1>3 DEF SendStep

-----------------------------------------------------------------------------
\* Every step of a receive thread keeps the invariant.
LEMMA RecvInv ==
  ASSUME IInv, Whole, NEW k \in Conns, RecvStep(k), ~Wild
  PROVE  IInv'
<1> USE DEF clientVars, listVars, recvVars, histVars
<1>0. /\ TypeOK /\ Buffers /\ Sockets /\ ListOK /\ ListenOK /\ SenderOK
      /\ MisdirectedOnly /\ OneEntry /\ Typed /\ TypeOK'
  BY RecvType, TypedFacts DEF IInv, ListOK
<1>1. ASSUME NEW l, rpc' = [rpc EXCEPT ![k] = l], l \in Handling => rbuf'[k] # <<>>,
             \A j \in Conns : j # k => rbuf'[j] = rbuf[j]
      PROVE  Buffers'
  BY <1>0, <1>1 DEF Buffers, Typed
\* Steps that leave the list as it is.
<1>2. ASSUME NEW l, rpc' = [rpc EXCEPT ![k] = l],
             rpc[k] \in {"recv", "package", "callback", "discon"},
             l \in {"recv", "package", "callback", "discon", "remove", "close"},
             l = "remove" => HasEntry(k), l = "close" => ~HasEntry(k),
             UNCHANGED <<fd, list, listed, listen, usr, down, seen>>,
             torn \subseteq torn', Buffers'
      PROVE  IInv'
  <2>1. ListOK'
    <3>1. UNCHANGED <<fd, list, listed>>
      BY <1>2
    <3>2. l \in Receiver
      BY <1>2 DEF Receiver
    <3> QED BY <1>0, <1>2, <3>1, <3>2, SameList
  <2>2. Sockets' /\ ListenOK' /\ SenderOK' /\ MisdirectedOnly'
    BY <1>0, <1>2, RecvFrame
  <2> QED BY <1>0, <1>2, <2>1, <2>2 DEF IInv
<1>3. rbuf \in [Conns -> Seq(Received)] /\ up \in [Conns -> Seq(Package)]
  BY <1>0 DEF TypeOK
<1>4. CASE Recv(k)
  <2>0. /\ rpc[k] = "recv" /\ torn \subseteq torn'
        /\ UNCHANGED <<fd, list, listed, listen, usr, down, seen>>
    BY <1>4 DEF Recv
  <2>1. ASSUME NEW b, rbuf' = [rbuf EXCEPT ![k] = b],
               rpc' = [rpc EXCEPT ![k] = IF b = <<>> THEN "recv" ELSE "package"]
        PROVE  IInv'
    <3>1. Buffers'
      BY <1>1, <1>3, <2>1 DEF Handling
    <3> QED BY <1>2, <2>0, <2>1, <3>1
  <2>2. CASE rpc' = [rpc EXCEPT ![k] = "discon"] /\ UNCHANGED rbuf
    <3>1. Buffers'
      BY <1>1, <2>2 DEF Handling
    <3> QED BY <1>2, <2>0, <2>2, <3>1
  <2> QED BY <1>4, <2>1, <2>2 DEF Recv
<1>5. CASE srv_recv_cb(k)
  <2>0. rpc[k] = "package" /\ UNCHANGED <<fd, listen, usr, listed, torn, down, seen>>
    BY <1>5 DEF srv_recv_cb
  <2>1. CASE rpc' = [rpc EXCEPT ![k] = "recv"] /\ rbuf' = [rbuf EXCEPT ![k] = <<>>]
             /\ UNCHANGED list
    <3>1. Buffers'
      BY <1>1, <1>3, <2>1 DEF Handling
    <3> QED BY <1>2, <2>0, <2>1, <3>1
  <2>2. CASE rpc' = [rpc EXCEPT ![k] = "callback"] /\ UNCHANGED <<list, rbuf>>
    <3>1. Buffers'
      BY <1>0, <1>1, <2>0, <2>2 DEF Buffers, Handling
    <3> QED BY <1>2, <2>0, <2>2, <3>1
  <2>3. ASSUME NEW d \in Named(k), BySock(fd[k]) # 0, list[BySock(fd[k])].dev = INVALID,
               rpc' = [rpc EXCEPT ![k] = "dev_id"], UNCHANGED rbuf,
               list' = [list EXCEPT ![BySock(fd[k])].dev = IdZero[d]]
        PROVE  IInv'
    <3>1. Buffers'
      BY <1>0, <1>1, <2>0, <2>3 DEF Buffers, Handling
    <3>2. IdZero[d] \in Devs /\ (k \in torn \/ d = DevOf[k])
      BY <2>0, <2>3, NamedDevs, NamedOwn, DataBusAssumption DEF IInv, Handling
    <3>3. ListOK'
      BY <1>0, <2>0, <2>3, <3>2, LabelList
    <3>4. \A i \in DOMAIN list' : i \in DOMAIN list /\ list'[i].conn = list[i].conn
                                  /\ list'[i].sock = list[i].sock
      BY <1>0, <2>3, <3>2, Relabelled DEF Typed
    <3>5. Sockets' /\ ListenOK' /\ SenderOK' /\ MisdirectedOnly'
      BY <1>0, <2>0, <2>3, <3>4, RecvFrame
    <3> QED BY <1>0, <3>1, <3>3, <3>5 DEF IInv
  <2> QED BY <1>5, <2>1, <2>2, <2>3 DEF srv_recv_cb
<1>6. CASE SetDevId(k)
  <2>1. /\ rpc[k] = "dev_id" /\ rpc' = [rpc EXCEPT ![k] = "callback"]
        /\ UNCHANGED <<fd, listen, rbuf, usr, listed, torn, down, seen>>
    BY <1>6 DEF SetDevId
  <2>d. PICK d \in Named(k) : list' = [list EXCEPT ![BySock(fd[k])].dev = d]
    BY <1>6 DEF SetDevId
  <2>2. BySock(fd[k]) # 0
    BY <1>0, <2>1, BySockFacts DEF ListOK, LabelBegun, Typed
  <2>3. Buffers'
    BY <1>0, <1>1, <2>1 DEF Buffers, Handling
  <2>4. d \in Devs /\ (k \in torn \/ d = DevOf[k])
    BY <2>1, NamedDevs, NamedOwn DEF IInv, Handling
  <2>5. ListOK'
    BY <1>0, <2>1, <2>d, <2>2, <2>4, LabelList
  <2>6. \A i \in DOMAIN list' : i \in DOMAIN list /\ list'[i].conn = list[i].conn
                                /\ list'[i].sock = list[i].sock
    BY <1>0, <2>d, <2>4, Relabelled DEF Typed
  <2>7. Sockets' /\ ListenOK' /\ SenderOK' /\ MisdirectedOnly'
    BY <1>0, <2>1, <2>6, RecvFrame
  <2> QED BY <1>0, <2>3, <2>5, <2>7 DEF IInv
<1>7. CASE callback(k)
  <2>1. /\ rpc[k] = "callback"
        /\ rpc' = [rpc EXCEPT ![k] = IF Len(rbuf[k]) = 1 THEN "recv" ELSE "package"]
        /\ rbuf' = [rbuf EXCEPT ![k] = Tail(rbuf[k])]
        /\ UNCHANGED <<fd, list, listed, torn, listen, usr, down, seen>>
    BY <1>7 DEF callback, NextPackage
  <2>2. rbuf[k] # <<>> /\ rbuf[k] \in Seq(Received)
    BY <1>0, <1>3, <2>1 DEF Buffers, Handling
  <2>3. Len(rbuf[k]) # 1 => Tail(rbuf[k]) # <<>>
    <3>1. Len(Tail(rbuf[k])) = Len(rbuf[k]) - 1 /\ Len(rbuf[k]) \in Nat \ {0}
      BY <2>2
    <3>2. Len(<<>>) = 0
      OBVIOUS
    <3>3. Len(rbuf[k]) # 1 => Len(Tail(rbuf[k])) # 0
      BY <3>1
    <3> QED BY <3>2, <3>3, Zenon
  <2>4. Buffers'
    BY <1>1, <1>3, <2>1, <2>3 DEF Handling
  <2> QED BY <1>2, <2>1, <2>4
<1>8. CASE srv_discon_cb(k)
  <2>1. /\ rpc[k] = "discon"
        /\ rpc' = [rpc EXCEPT ![k] = IF BySock(fd[k]) # 0 THEN "remove" ELSE "close"]
        /\ UNCHANGED <<fd, list, rbuf, listed, torn, listen, usr, down, seen>>
    BY <1>8 DEF srv_discon_cb
  <2>2. BySock(fd[k]) # 0 <=> HasEntry(k)
    BY <1>0, BySockFacts DEF HasEntry, Typed
  <2>3. Buffers'
    BY <1>1, <2>1 DEF Handling
  <2> QED BY <1>2, <2>1, <2>2, <2>3
<1>9. CASE Remove(k)
  <2>1. /\ rpc[k] = "remove" /\ rpc' = [rpc EXCEPT ![k] = "close"]
        /\ UNCHANGED <<fd, rbuf, listed, torn, listen, usr, down, seen>>
    BY <1>9 DEF Remove
  <2>2. Buffers'
    BY <1>1, <2>1 DEF Handling
  <2>3. ListOK' /\ \A j \in DOMAIN list' : \E m \in DOMAIN list :
           list'[j].conn = list[m].conn /\ list'[j].sock = list[m].sock
    BY <1>0, <1>9, RemoveList
  <2>4. Sockets' /\ ListenOK' /\ SenderOK' /\ MisdirectedOnly'
    BY <1>0, <2>1, <2>3, RecvFrame
  <2> QED BY <1>0, <2>2, <2>3, <2>4 DEF IInv
<1>10. CASE Close(k)
  <2>1. /\ rpc[k] = "close" /\ rpc' = [rpc EXCEPT ![k] = "done"]
        /\ fd' = [fd EXCEPT ![k] = None]
        /\ UNCHANGED <<list, rbuf, listed, torn, listen, usr, down, seen>>
    BY <1>10 DEF Close
  <2>2. \A j \in Conns : /\ rpc'[j] = IF j = k THEN "done" ELSE rpc[j]
                         /\ fd'[j] = IF j = k THEN None ELSE fd[j]
    BY <1>0, <2>1 DEF Typed
  <2>3. \A i \in DOMAIN list : list[i].sock # None
    BY <1>0, TypedFacts
  <2>4. Buffers'
    BY <1>1, <2>1 DEF Handling
  <2>5. Sockets'
    BY <1>0, <2>2 DEF Sockets
  <2>6. EntriesAgree'
    BY <1>0, <2>1, <2>2 DEF ListOK, EntriesAgree, ClosedClean
  <2>7. FirstOnly' /\ OneEntry'
    BY <1>0, <2>1, <2>2 DEF ListOK, FirstOnly, OneEntry, Typed
  <2>8. ClosedClean'
    BY <1>0, <2>1, <2>2 DEF ListOK, ClosedClean
  <2>9. LabelBegun'
    BY <1>0, <2>1, <2>2 DEF ListOK, LabelBegun
  <2>10. ListedServed'
    BY <1>0, <2>1, <2>2 DEF ListOK, ListedServed, HasEntry, Serving
  <2>11. ListenOK'
    BY <1>0, <2>1, <2>2 DEF ListenOK
  <2>12. SenderOK'
    BY <1>0, <2>1, <2>2 DEF SenderOK
  <2>13. MisdirectedOnly'
    BY <1>0, <2>1, <2>2, MisdirectedFrame
  <2> QED BY <1>0, <2>4, <2>5, <2>6, <2>7, <2>8, <2>9, <2>10, <2>11, <2>12, <2>13
          DEF IInv, ListOK
<1> QED BY <1>4, <1>5, <1>6, <1>7, <1>8, <1>9, <1>10 DEF RecvStep

\* So does every step of the listen thread.
LEMMA ListenInv ==
  ASSUME IInv, ListenStep, ~Wild
  PROVE  IInv'
<1> USE DEF clientVars, listVars, recvVars, histVars
<1>0. /\ TypeOK /\ Buffers /\ Sockets /\ ListOK /\ ListenOK /\ SenderOK
      /\ MisdirectedOnly /\ Typed /\ TypeOK'
  BY ListenType, TypedFacts DEF IInv, ListOK
<1>1. ASSUME NEW k \in Conns, Accept(k) PROVE IInv'
  <2>1. PICK f \in Fds, l \in {"recv", "nothread", "leaked"} :
          /\ \A j \in Conns : fd[j] # f
          /\ fd' = [fd EXCEPT ![k] = f] /\ rpc' = [rpc EXCEPT ![k] = l]
          /\ listen' = listen \/ listen' = [pc |-> "connected", conn |-> k, sock |-> f]
    BY <1>1 DEF Accept
  <2>2. rpc[k] = "none" /\ UNCHANGED <<list, rbuf, usr, listed, torn, down, seen>>
    BY <1>1 DEF Accept
  <2>3. \A j \in Conns : /\ rpc'[j] = IF j = k THEN l ELSE rpc[j]
                         /\ fd'[j] = IF j = k THEN f ELSE fd[j]
    BY <1>0, <2>1 DEF Typed
  <2>4. f # None /\ fd[k] = None /\ k \notin listed
    BY <1>0, <2>2, DataBusAssumption DEF Sockets, ListOK, OneEntry
  <2>5. \A i \in DOMAIN list : list[i].sock # None
    BY <1>0, TypedFacts
  <2>6. Buffers'
    BY <1>0, <2>2, <2>3 DEF Buffers, Handling
  <2>7. Sockets'
    BY <1>0, <2>1, <2>3, <2>4 DEF Sockets
  <2>8. EntriesAgree'
    BY <1>0, <2>2, <2>3, <2>4, <2>5 DEF ListOK, EntriesAgree
  <2>9. FirstOnly' /\ OneEntry'
    BY <1>0, <2>2, <2>3 DEF ListOK, FirstOnly, OneEntry, Typed
  <2>10. ClosedClean'
    BY <1>0, <2>2, <2>3 DEF ListOK, ClosedClean
  <2>11. LabelBegun'
    BY <1>0, <2>2, <2>3 DEF ListOK, LabelBegun
  <2>12. ListedServed'
    BY <1>0, <2>2, <2>3, <2>4 DEF ListOK, ListedServed, HasEntry, Serving
  <2>13. ListenOK'
    BY <1>0, <2>1, <2>2, <2>3, <2>4 DEF ListenOK
  <2>14. SenderOK'
    BY <1>0, <2>2, <2>3 DEF SenderOK
  <2>15. MisdirectedOnly'
    BY <1>0, <2>2, <2>3, MisdirectedFrame
  <2> QED BY <1>0, <2>6, <2>7, <2>8, <2>9, <2>10, <2>11, <2>12, <2>13, <2>14, <2>15
          DEF IInv, ListOK
<1>2. CASE srv_conn_cb
  <2>1. /\ listen.pc = "connected" /\ listen' = [listen EXCEPT !.pc = "push"]
        /\ UNCHANGED <<fd, list, rpc, rbuf, usr, listed, torn, down, seen>>
    BY <1>2 DEF srv_conn_cb
  <2>2. ListenOK'
    <3>1. listen \in Listener
      BY <1>0 DEF TypeOK
    <3>2. listen'.conn = listen.conn /\ listen'.sock = listen.sock
      BY <2>1, <3>1 DEF Listener
    <3> QED BY <1>0, <2>1, <3>2 DEF ListenOK
  <2>3. Buffers' /\ Sockets' /\ ListOK' /\ SenderOK' /\ MisdirectedOnly'
    BY <1>0, <2>1 DEF Buffers, Sockets, ListOK, EntriesAgree, FirstOnly, ClosedClean,
         LabelBegun, ListedServed, HasEntry, OneEntry, SenderOK, MisdirectedOnly
  <2> QED BY <1>0, <2>2, <2>3 DEF IInv
<1>3. CASE queue_push_tail
  <2> DEFINE e == NewClient  n == Len(list) + 1
  <2>1. /\ listen.pc = "push" /\ listen'.pc = "accept"
        /\ list' = Append(list, e) /\ listed' = listed \cup {listen.conn}
        /\ UNCHANGED <<fd, rpc, rbuf, usr, torn, down, seen>>
    <3>1. listen' = [listen EXCEPT !.pc = "accept"]
      BY <1>3 DEF queue_push_tail
    <3>2. listen \in Listener
      BY <1>0 DEF TypeOK
    <3>3. listen'.pc = "accept"
      BY <3>1, <3>2 DEF Listener
    <3> QED BY <1>3, <3>3 DEF queue_push_tail
  <2>2. /\ listen.conn \in Conns \ listed /\ rpc[listen.conn] # "none"
        /\ rpc[listen.conn] # "done" => fd[listen.conn] = listen.sock
    BY <1>0, <2>1 DEF ListenOK
  <2>3. e.conn = listen.conn /\ e.sock = listen.sock /\ e.dev = INVALID
    BY DEF NewClient
  <2>4. /\ DOMAIN list' = DOMAIN list \cup {n} /\ n \notin DOMAIN list /\ list'[n] = e
        /\ \A i \in DOMAIN list : list'[i] = list[i] /\ i < n /\ ~(n < i)
    <3>1. list \in Seq(Entry) /\ Len(list) \in Nat
      BY <1>0 DEF Typed
    <3>2. DOMAIN list = 1..Len(list) /\ DOMAIN list' = 1..n
      BY <2>1, <3>1
    <3>3. list'[n] = e /\ \A i \in DOMAIN list : list'[i] = list[i]
      BY <2>1, <3>1
    <3> QED BY <3>1, <3>2, <3>3
  <2> HIDE DEF e, n
  <2>5. EntriesAgree'
    BY <1>0, <2>1, <2>3, <2>4 DEF ListOK, EntriesAgree
  <2>6. FirstOnly'
    BY <1>0, <2>3, <2>4 DEF ListOK, FirstOnly
  <2>7. ClosedClean'
    BY <1>0, <2>1, <2>3, <2>4 DEF ListOK, ClosedClean
  <2>8. LabelBegun'
    BY <1>0, <2>1, <2>4 DEF ListOK, LabelBegun
  <2>9. ListedServed'
    BY <1>0, <2>1, <2>2, <2>3, <2>4 DEF ListOK, ListedServed, HasEntry, Serving
  <2>10. OneEntry'
    BY <1>0, <2>1, <2>2, <2>3, <2>4 DEF ListOK, OneEntry
  <2>11. SenderOK'
    BY <1>0, <2>1, <2>2, <2>3, <2>4 DEF SenderOK
  <2>12. ListenOK' /\ Buffers' /\ Sockets' /\ MisdirectedOnly'
    BY <1>0, <2>1 DEF ListenOK, Buffers, Sockets, MisdirectedOnly
  <2> QED BY <1>0, <2>5, <2>6, <2>7, <2>8, <2>9, <2>10, <2>11, <2>12 DEF IInv, ListOK
<1> QED BY <1>1, <1>2, <1>3 DEF ListenStep

\* And the steps of bus_server_send.
LEMMA SendInv ==
  ASSUME IInv, SendStep, ~Wild
  PROVE  IInv'
<1> USE DEF clientVars, listVars, recvVars, histVars
<1>0. /\ TypeOK /\ Buffers /\ Sockets /\ ListOK /\ ListenOK /\ SenderOK
      /\ MisdirectedOnly /\ Typed /\ usr \in Sender /\ TypeOK'
  BY SendType, TypedFacts DEF IInv, TypeOK
<1>1. ASSUME UNCHANGED <<fd, list, listen, rpc, rbuf, listed, torn>>,
             SenderOK', MisdirectedOnly'
      PROVE  IInv'
  <2>1. Buffers' /\ Sockets' /\ ListOK' /\ ListenOK'
    BY <1>0, <1>1 DEF Buffers, Sockets, ListOK, EntriesAgree, FirstOnly, ClosedClean,
         LabelBegun, ListedServed, HasEntry, OneEntry, ListenOK
  <2> QED BY <1>0, <1>1, <2>1 DEF IInv
<1>2. ASSUME NEW d \in Devs, bus_server_send(d) PROVE IInv'
  <2> DEFINE e == list[ById(d)]
  <2>1. /\ ById(d) # 0
        /\ UNCHANGED <<fd, list, listen, rpc, rbuf, listed, torn, down, seen>>
    BY <1>2 DEF bus_server_send
  <2>2. PICK k \in Conns :
          /\ fd[k] = e.sock
          /\ usr' = [usr EXCEPT !.pc = "found", !.dev = d, !.conn = e.conn,
                       !.for = k, !.half = (rpc[k] = "dev_id"), !.n = @ + 1]
    BY <1>2 DEF bus_server_send
  <2>3. /\ usr'.pc = "found" /\ usr'.dev = d /\ usr'.conn = e.conn /\ usr'.for = k
        /\ usr'.half = (rpc[k] = "dev_id")
    BY <1>0, <2>2 DEF Sender
  <2>4. ById(d) \in DOMAIN list /\ e.dev = d
    BY <1>0, <2>1, ByIdFacts DEF Typed
  <2>5. d # INVALID /\ fd[k] # None
    BY <2>2, <2>4, <1>0, TypedFacts, DataBusAssumption
  \* By EntriesAgree the descriptor is that of a connection of the device.
  <2>6. rpc[k] = "dev_id" \/ d = DevOf[k] \/ k \in torn
    <3>1. PICK m \in Conns :
            /\ fd[m] = e.sock
            /\ \/ m \in torn
               \/ e.dev = IF rpc[m] = "dev_id" THEN IdZero[DevOf[m]] ELSE DevOf[m]
      BY <1>0, <2>4, <2>5 DEF ListOK, EntriesAgree
    <3>2. m = k
      BY <1>0, <2>2, <2>5, <3>1 DEF Sockets
    <3> QED BY <2>4, <3>1, <3>2
  <2>7. rpc[k] # "none" /\ e.conn \in listed
    BY <1>0, <2>4, <2>5 DEF Sockets, ListOK, OneEntry
  <2>8. \A i \in DOMAIN list : list[i].conn = e.conn => list[i].sock = fd[k]
    BY <1>0, <2>2, <2>4 DEF ListOK, OneEntry
  <2>9. SenderOK'
    BY <2>1, <2>3, <2>6, <2>7, <2>8 DEF SenderOK
  <2>10. MisdirectedOnly'
    BY <1>0, <2>1, MisdirectedFrame
  <2> QED BY <1>1, <2>1, <2>9, <2>10
<1>3. CASE ReadSock
  <2>1. PICK i \in DOMAIN list :
          /\ usr.pc = "found" /\ list[i].conn = usr.conn
          /\ usr' = [usr EXCEPT !.pc = "send", !.sock = list[i].sock]
          /\ UNCHANGED <<fd, list, listen, rpc, rbuf, listed, torn, down, seen>>
    BY <1>3 DEF ReadSock
  <2>2. /\ usr'.pc = "send" /\ usr'.sock = list[i].sock /\ usr'.dev = usr.dev
        /\ usr'.conn = usr.conn /\ usr'.for = usr.for /\ usr'.half = usr.half
    BY <1>0, <2>1 DEF Sender
  <2>3. SenderOK'
    BY <1>0, <2>1, <2>2 DEF SenderOK
  <2>4. MisdirectedOnly'
    BY <1>0, <2>1, MisdirectedFrame
  <2> QED BY <1>1, <2>1, <2>3, <2>4
<1>4. CASE tcps_send
  <2> DEFINE p == [dev |-> usr.dev, for |-> usr.for, half |-> usr.half]
  <2>1. /\ usr.pc = "send" /\ usr'.pc = "idle"
        /\ UNCHANGED <<fd, list, listen, rpc, rbuf, listed, torn, seen>>
    BY <1>4 DEF tcps_send, NoSend
  <2>2. SenderOK'
    BY <2>1 DEF SenderOK
  <2>3. CASE UNCHANGED down
    <3>1. MisdirectedOnly'
      BY <1>0, <2>1, <2>3, MisdirectedFrame
    <3> QED BY <1>1, <2>1, <2>2, <3>1
  <2>4. ASSUME NEW k \in Conns, fd[k] = usr.sock,
               down' = [down EXCEPT ![k] = Append(@, p)]
        PROVE  IInv'
    <3>1. Misdirected(p, k) => p.half \/ rpc[p.for] = "done" \/ p.for \in torn
      <4>1. SUFFICES ASSUME rpc[usr.for] # "done", ~usr.half, usr.for \notin torn
                     PROVE  usr.dev = DevOf[k]
        BY DEF Misdirected
      <4>2. usr.for \in Conns /\ usr.sock = fd[usr.for] /\ rpc[usr.for] # "none"
            /\ usr.dev = DevOf[usr.for]
        BY <1>0, <2>1, <4>1 DEF SenderOK
      <4>3. k = usr.for
        BY <1>0, <2>4, <4>1, <4>2 DEF Sockets
      <4> QED BY <4>2, <4>3
    <3> HIDE DEF p
    <3>2. \A j \in Conns : j # k => down'[j] = down[j]
      BY <1>0, <2>4 DEF Typed
    <3>3. \A x \in {down'[k][i] : i \in DOMAIN down'[k]} :
            x = p \/ x \in {down[k][i] : i \in DOMAIN down[k]}
      <4>1. down[k] \in Seq(Data) /\ down'[k] = Append(down[k], p)
        BY <1>0, <2>4 DEF Typed
      <4> QED BY <4>1
    <3>4. MisdirectedOnly'
      <4> SUFFICES ASSUME NEW j \in Conns,
                          NEW x \in {down'[j][i] : i \in DOMAIN down'[j]}
                                      \cup {seen[j][i] : i \in DOMAIN seen[j]},
                          Misdirected(x, j)
                   PROVE  x.half \/ rpc[x.for] = "done" \/ x.for \in torn
        BY <2>1 DEF MisdirectedOnly, Misdirected
      <4>1. CASE j = k /\ x = p
        BY <3>1, <4>1
      <4>2. CASE x \in {down[j][i] : i \in DOMAIN down[j]}
                        \cup {seen[j][i] : i \in DOMAIN seen[j]}
        BY <1>0, <4>2 DEF MisdirectedOnly
      <4> QED BY <3>2, <3>3, <4>1, <4>2
    <3> QED BY <1>1, <2>1, <2>2, <3>4
  <2> QED BY <1>4, <2>3, <2>4 DEF tcps_send
<1> QED BY <1>2, <1>3, <1>4 DEF SendStep

LEMMA ClientInv ==
  ASSUME IInv, NEW k \in Conns, ClientStep(k)
  PROVE  IInv'
<1> USE DEF serverVars, listVars, recvVars, histVars
<1>0. Typed /\ MisdirectedOnly /\ TypeOK'
  BY ClientType, TypedFacts DEF IInv
<1>1. UNCHANGED serverVars
  BY DEF ClientStep, bus_client_create, ClientReady, bus_client_send, client_recv_cb,
         ClientExit
<1>2. Buffers' /\ Sockets' /\ ListOK' /\ ListenOK' /\ SenderOK'
  BY <1>1 DEF IInv, Buffers, Sockets, ListOK, EntriesAgree, FirstOnly, ClosedClean,
       LabelBegun, ListedServed, HasEntry, OneEntry, ListenOK, SenderOK
<1>3. MisdirectedOnly'
  <2>1. CASE UNCHANGED <<down, seen>>
    BY <1>0, <1>1, <2>1, MisdirectedFrame
  <2>2. CASE client_recv_cb(k)
    <3>1. /\ down[k] # <<>> /\ down' = [down EXCEPT ![k] = <<>>]
          /\ seen' = [seen EXCEPT ![k] = Append(@, Head(down[k]))]
      BY <2>2 DEF client_recv_cb
    <3>2. down[k] \in Seq(Data) /\ seen[k] \in Seq(Data)
      BY <1>0 DEF Typed
    <3>3. Head(down[k]) = down[k][1] /\ 1 \in DOMAIN down[k]
      BY <3>1, <3>2
    <3>4. down'[k] = <<>> /\ seen'[k] = Append(seen[k], Head(down[k]))
      BY <1>0, <3>1 DEF Typed
    <3>5. \A x \in {seen'[k][i] : i \in DOMAIN seen'[k]} :
            x = down[k][1] \/ x \in {seen[k][i] : i \in DOMAIN seen[k]}
      BY <3>2, <3>3, <3>4
    <3>6. \A j \in Conns : j # k => down'[j] = down[j] /\ seen'[j] = seen[j]
      BY <1>0, <3>1 DEF Typed
    <3> SUFFICES ASSUME NEW j \in Conns,
                        NEW x \in {down'[j][i] : i \in DOMAIN down'[j]}
                                    \cup {seen'[j][i] : i \in DOMAIN seen'[j]},
                        Misdirected(x, j)
                 PROVE  x.half \/ rpc[x.for] = "done" \/ x.for \in torn
      BY <1>1 DEF MisdirectedOnly, Misdirected
    <3>7. x \in {down[j][i] : i \in DOMAIN down[j]}
                  \cup {seen[j][i] : i \in DOMAIN seen[j]}
      <4>1. CASE j # k
        BY <3>6, <4>1
      <4>2. CASE j = k
        <5>1. {down'[k][i] : i \in DOMAIN down'[k]} = {}
          BY <3>4
        <5>2. x \in {seen'[k][i] : i \in DOMAIN seen'[k]}
          BY <4>2, <5>1
        <5>3. CASE x = down[k][1]
          BY <3>3, <4>2, <5>3
        <5>4. CASE x \in {seen[k][i] : i \in DOMAIN seen[k]}
          BY <4>2, <5>4
        <5> QED BY <3>5, <5>2, <5>3, <5>4
      <4> QED BY <4>1, <4>2
    <3> QED BY <1>0, <3>7 DEF MisdirectedOnly
  <2> QED BY <2>1, <2>2
          DEF ClientStep, bus_client_create, ClientReady, bus_client_send, ClientExit
<1> QED BY <1>0, <1>2, <1>3 DEF IInv

\* Undefined behaviour ends the run, bus_server_create only sets the callback.
LEMMA OtherInv ==
  ASSUME IInv, TypeOK', UNCHANGED <<clientVars, fd, listVars, listen, recvVars, usr, histVars>>
  PROVE  IInv'
<1> USE DEF clientVars, listVars, recvVars, histVars
<1>1. Buffers' /\ Sockets' /\ ListOK' /\ ListenOK' /\ SenderOK'
  BY DEF IInv, Buffers, Sockets, ListOK, EntriesAgree, FirstOnly, ClosedClean,
       LabelBegun, ListedServed, HasEntry, OneEntry, ListenOK, SenderOK
<1>2. MisdirectedOnly'
  BY TypedFacts, MisdirectedFrame DEF IInv
<1> QED BY <1>1, <1>2 DEF IInv

\* Only a recv that leaves a part of a package spoils the next ones.
LEMMA WholeStep ==
  ASSUME IInv, Whole, [Next]_vars
  PROVE  Whole'
<1>0. /\ TypeOK /\ rbuf \in [Conns -> Seq(Received)]
      /\ off \in [Conns -> 0..(PkgSize - 1)]
  BY DEF IInv, TypeOK
<1>1. CASE UNCHANGED <<off, rbuf, torn>>
  BY <1>1 DEF Whole
<1>2. ASSUME NEW k \in Conns, Recv(k) PROVE Whole'
  <2>1. CASE UNCHANGED <<up, off, rbuf, torn>>
    BY <1>1, <2>1
  <2>2. CASE ~UNCHANGED <<up, off, rbuf, torn>>
    <3> DEFINE b == Cut(k, Taken(k))
               r == (off[k] + Taken(k)) % PkgSize
    <3>1. /\ rbuf' = [rbuf EXCEPT ![k] = b] /\ off' = [off EXCEPT ![k] = r]
          /\ torn' = (IF r = 0 THEN torn ELSE torn \cup {k}) /\ up[k] # <<>>
      BY <1>2, <2>2 DEF Recv
    <3>2. off[k] = 0 => \A i \in DOMAIN b : b[i] # Garbled
      <4>1. off[k] = 0 => b \in Seq(Package)
        BY <1>0, <3>1, RecvData
      <4> HIDE DEF b
      <4>2. off[k] = 0 => \A i \in DOMAIN b : b[i] \in Package
        BY <4>1
      <4> QED BY <4>2 DEF Package, Garbled
    <3> HIDE DEF b, r
    <3>3. \A j \in Conns : j # k => off'[j] = off[j] /\ rbuf'[j] = rbuf[j]
      BY <1>0, <3>1
    <3>4. off'[k] = r /\ rbuf'[k] = b
      BY <1>0, <3>1
    <3> SUFFICES ASSUME NEW j \in Conns, j \notin torn'
                 PROVE  off'[j] = 0 /\ \A i \in DOMAIN rbuf'[j] : rbuf'[j][i] # Garbled
      BY DEF Whole
    <3>5. j \notin torn /\ (j = k => r = 0)
      BY <3>1
    <3>6. CASE j = k
      <4>1. off[k] = 0
        BY <3>5, <3>6 DEF Whole
      <4> QED BY <3>2, <3>4, <3>5, <3>6, <4>1
    <3>7. CASE j # k
      BY <3>3, <3>5, <3>7 DEF Whole
    <3> QED BY <3>6, <3>7
  <2> QED BY <2>1, <2>2
<1>3. ASSUME NEW k \in Conns, srv_recv_cb(k) \/ callback(k) PROVE Whole'
  <2>1. UNCHANGED <<off, torn>>
    BY <1>3 DEF srv_recv_cb, callback, Wild, clientVars, histVars
  <2>2. \/ rbuf' = rbuf
        \/ rbuf' = [rbuf EXCEPT ![k] = <<>>]
        \/ rbuf' = [rbuf EXCEPT ![k] = Tail(@)] /\ rbuf[k] # <<>>
    BY <1>3 DEF srv_recv_cb, callback, NextPackage, Wild, recvVars, IInv, Buffers, Handling
  <2>3. \A j \in Conns : \A i \in DOMAIN rbuf'[j] :
          \E m \in DOMAIN rbuf[j] : rbuf'[j][i] = rbuf[j][m]
    <3>1. \A s \in Seq(Received) : s # <<>> =>
            \A i \in DOMAIN Tail(s) : i + 1 \in DOMAIN s /\ Tail(s)[i] = s[i + 1]
      OBVIOUS
    <3> SUFFICES ASSUME NEW j \in Conns, NEW i \in DOMAIN rbuf'[j]
                 PROVE  \E m \in DOMAIN rbuf[j] : rbuf'[j][i] = rbuf[j][m]
      OBVIOUS
    <3>2. CASE rbuf'[j] = rbuf[j]
      BY <3>2
    <3>3. CASE rbuf'[j] = <<>>
      BY <3>3
    <3>4. CASE rbuf'[j] = Tail(rbuf[j]) /\ rbuf[j] # <<>>
      BY <1>0, <3>1, <3>4
    <3>5. \/ rbuf'[j] = rbuf[j] \/ rbuf'[j] = <<>>
          \/ rbuf'[j] = Tail(rbuf[j]) /\ rbuf[j] # <<>>
      BY <1>0, <2>2
    <3> QED BY <3>2, <3>3, <3>4, <3>5
  <2> QED BY <2>1, <2>3 DEF Whole
<1>4. ASSUME NEW k \in Conns, RecvStep(k), ~Recv(k), ~srv_recv_cb(k), ~callback(k)
      PROVE  Whole'
  BY <1>1, <1>4, RecvStepFrame
<1>5. ASSUME NEW k \in Conns, ClientStep(k) PROVE Whole'
  BY <1>1, <1>5, ClientFrame DEF serverVars, recvVars, histVars
<1>6. CASE ListenStep \/ bus_server_create \/ SendStep
  BY <1>1, <1>6, ListenFrame, SendFrame
<1>7. CASE UNCHANGED vars
  BY <1>1, <1>7 DEF vars, clientVars, serverVars, recvVars, histVars
<1> QED BY <1>2, <1>3, <1>4, <1>5, <1>6, <1>7 DEF Next

LEMMA StepInv == IInv /\ Whole /\ [Next]_vars => IInv' /\ Whole'
<1> SUFFICES ASSUME IInv, Whole, [Next]_vars PROVE IInv'
  BY WholeStep
<1>1. TypeOK'
  BY TypeStep
<1>2. CASE Wild \/ bus_server_create \/ UNCHANGED vars
  BY <1>1, <1>2, OtherInv DEF Wild, bus_server_create, vars, serverVars
<1>3. CASE ~Wild /\ ListenStep
  BY <1>3, ListenInv
<1>4. CASE ~Wild /\ SendStep
  BY <1>4, SendInv
<1>5. ASSUME NEW k \in Conns, ~Wild, RecvStep(k) PROVE IInv'
  BY <1>5, RecvInv
<1>6. ASSUME NEW k \in Conns, ClientStep(k) PROVE IInv'
  BY <1>6, ClientInv
<1> QED BY <1>2, <1>3, <1>4, <1>5, <1>6 DEF Next

LEMMA InvAlways == Spec => [](IInv /\ Whole)
<1>1. Init => Whole
  <2> SUFFICES ASSUME Init, NEW k \in Conns
               PROVE  off[k] = 0 /\ \A i \in DOMAIN rbuf[k] : rbuf[k][i] # Garbled
    BY DEF Whole
  <2>1. off[k] = 0 /\ rbuf[k] = <<>>
    BY DEF Init
  <2> QED BY <2>1
<1> QED BY <1>1, InitInv, StepInv, PTL DEF Spec

-----------------------------------------------------------------------------
\* The data bus keeps its types.
THEOREM TypeCorrect == Spec => []TypeOK
<1>1. IInv => TypeOK
  BY DEF IInv
<1> QED BY <1>1, InvAlways, PTL

\* However accept, the first package, the end of a connection and the reuse of
\* its descriptor interleave, a labelled entry of client_list leads to an open
\* connection of its device, or to one whose packages recv_thd has split.
THEOREM EntriesCorrect == Spec => []EntriesAgree
<1>1. IInv => EntriesAgree
  BY DEF IInv, ListOK
<1> QED BY <1>1, InvAlways, PTL

\* tcps_send reaches a client of another device only if the connection that
\* bus_server_send looked up has ended since, was being labelled, or is one
\* whose packages recv_thd has split.
THEOREM DataToDevice == Spec => []MisdirectedOnly
<1>1. IInv => MisdirectedOnly
  BY DEF IInv
<1> QED BY <1>1, InvAlways, PTL

\* srv_recv_cb drops packages as "socket missing" only before connected_cb of
\* their connection has returned.
THEOREM DropsEarly == Spec => DropsOnlyEarly
<1>1. ASSUME IInv, [Next]_vars
      PROVE  [\A p \in dropped' \ dropped : p[1] \notin listed]_vars
  <2> SUFFICES ASSUME NEW p \in dropped' \ dropped
               PROVE  p[1] \notin listed
    OBVIOUS
  <2> USE DEF serverVars, listVars, recvVars, histVars
  <2>1. PICK m \in Conns : srv_recv_cb(m) /\ ~Wild
    <3>1. dropped' # dropped
      OBVIOUS
    <3>2. ASSUME NEW j \in Conns, ClientStep(j) PROVE FALSE
      BY <3>1, <3>2 DEF ClientStep, bus_client_create, ClientReady, bus_client_send,
             client_recv_cb, ClientExit
    <3>3. ASSUME ListenStep \/ bus_server_create \/ SendStep \/ Wild PROVE FALSE
      BY <3>1, <3>3 DEF ListenStep, Accept, srv_conn_cb, queue_push_tail, Wild,
             bus_server_create, SendStep, bus_server_send, ReadSock, tcps_send
    <3>4. ASSUME NEW j \in Conns, RecvStep(j), ~Wild PROVE srv_recv_cb(j)
      BY <3>1, <3>4 DEF RecvStep, Recv, SetDevId, callback, srv_discon_cb, Remove, Close
    <3>5. ~UNCHANGED vars
      BY <3>1 DEF vars
    <3>6. ~(ListenStep \/ bus_server_create \/ SendStep \/ Wild)
      BY <3>3
    <3>7. \E j \in Conns : RecvStep(j)
      BY <1>1, <3>2, <3>5, <3>6 DEF Next
    <3> QED BY <3>4, <3>6, <3>7
  <2>2. /\ rpc[m] = "package" /\ BySock(fd[m]) = 0
        /\ dropped' = dropped \cup {<<m, rbuf[m][j]>> : j \in DOMAIN rbuf[m]}
    BY <2>1 DEF srv_recv_cb
  <2>3. p[1] = m
    BY <2>2
  <2>4. ~HasEntry(m)
    <3>1. list \in Seq(Entry)
      BY <1>1, TypedFacts DEF IInv, Typed
    <3> QED BY <2>2, <3>1, BySockFacts DEF HasEntry
  <2>5. m \in listed /\ rpc[m] \in Serving => HasEntry(m)
    BY <1>1 DEF IInv, ListOK, ListedServed
  <2> QED BY <2>2, <2>3, <2>4, <2>5 DEF Serving
<1> QED BY <1>1, InvAlways, PTL DEF Spec, DropsOnlyEarly

-----------------------------------------------------------------------------
\* What the clients have said.  A client sends only after bus_client_create
\* has set its callback, and the server knows of a client only what its
\* packages say: a labelled entry leads to a client that has sent something.
Known(k) == cli[k].sent > 0

\* A client that is not ready has sent nothing.
Spoken ==
  \A k \in Conns :
    /\ cli[k].st \in {"none", "starting"} => ~Known(k)
    /\ up[k] # <<>> \/ rbuf[k] # <<>> => Known(k)

LabelKnown ==
  \A i \in DOMAIN list, k \in Conns :
    list[i].dev # INVALID /\ fd[k] = list[i].sock => Known(k)

\* bus_server_send looks up clients that have sent something ...
LookedUp == usr.pc # "idle" => Known(usr.for)

\* ... and so does all that it sends.
DataKnown ==
  \A k \in Conns :
    /\ \A i \in DOMAIN down[k] : Known(down[k][i].for)
    /\ \A i \in DOMAIN seen[k] : Known(seen[k][i].for)

KnownInv == Spoken /\ LabelKnown /\ LookedUp /\ DataKnown /\ CallbackReady

\* A client that has sent something stays one that has, and one that is not
\* ready was not ready before.
LEMMA ClientKept ==
  ASSUME TypeOK, [Next]_vars, NEW j \in Conns
  PROVE  /\ Known(j) => Known(j)'
         /\ cli'[j].st \in {"none", "starting"} =>
              cli[j].st \in {"none", "starting"} /\ cli'[j].sent = cli[j].sent
<1>0. cli \in [Conns -> Client] /\ \A c \in Client : c.sent \in Nat
  BY DataBusAssumption DEF TypeOK, Client
<1>1. ASSUME NEW k \in Conns, ClientStep(k) \/ Accept(k)
      PROVE  \/ cli' = cli
             \/ cli[k].st = "ready" /\ cli' = [cli EXCEPT ![k].sent = @ + 1]
             \/ cli[k].st = "none" /\ cli' = [cli EXCEPT ![k].st = "starting"]
             \/ cli' = [cli EXCEPT ![k].st = "ready"]
             \/ cli' = [cli EXCEPT ![k].st = "closed"]
  <2>1. CASE Accept(k)
    BY <2>1 DEF Accept
  <2>2. CASE ClientStep(k)
    BY <2>2 DEF ClientStep, bus_client_create, ClientReady, bus_client_send,
           client_recv_cb, ClientExit
  <2> QED BY <1>1, <2>1, <2>2
<1>2. CASE cli' = cli
  BY <1>2 DEF Known
<1>3. ASSUME NEW k \in Conns, ClientStep(k) \/ Accept(k), cli' # cli
      PROVE  /\ Known(j) => Known(j)'
             /\ cli'[j].st \in {"none", "starting"} =>
                  cli[j].st \in {"none", "starting"} /\ cli'[j].sent = cli[j].sent
  <2>1. /\ cli[j] \in Client /\ cli[k] \in Client
        /\ j # k => cli'[j] = cli[j]
    BY <1>0, <1>1, <1>3
  <2>2. CASE cli[k].st = "ready" /\ cli' = [cli EXCEPT ![k].sent = @ + 1]
    BY <1>0, <2>1, <2>2 DEF Known, Client
  <2>3. CASE cli[k].st = "none" /\ cli' = [cli EXCEPT ![k].st = "starting"]
    BY <1>0, <2>1, <2>3 DEF Known, Client
  <2>4. CASE cli' = [cli EXCEPT ![k].st = "ready"] \/ cli' = [cli EXCEPT ![k].st = "closed"]
    BY <1>0, <2>1, <2>4 DEF Known, Client
  <2> QED BY <1>1, <1>3, <2>2, <2>3, <2>4
<1>4. cli' = cli \/ \E k \in Conns : ClientStep(k) \/ Accept(k)
  <2>1. CASE \E k \in Conns : RecvStep(k)
    BY <2>1, RecvStepFrame
  <2>2. CASE SendStep
    BY <2>2, SendFrame
  <2>3. CASE ListenStep \/ bus_server_create
    BY <2>3, ListenFrame
  <2>4. CASE UNCHANGED vars
    BY <2>4 DEF vars, clientVars
  <2> QED BY <2>1, <2>2, <2>3, <2>4 DEF Next
<1> QED BY <1>2, <1>3, <1>4

\* What is on its way from a client, it has sent.
LEMMA SpokenStep ==
  ASSUME IInv, Spoken, [Next]_vars
  PROVE  Spoken'
<1>1. \A k \in Conns : cli'[k].st \in {"none", "starting"} => ~Known(k)'
  BY ClientKept DEF IInv, Spoken, Known
<1>2. ASSUME NEW k \in Conns, up'[k] # <<>> \/ rbuf'[k] # <<>>
      PROVE  Known(k)'
  <2>1. CASE up[k] # <<>> \/ rbuf[k] # <<>>
    BY <2>1, ClientKept DEF IInv, Spoken
  <2>2. CASE up[k] = <<>> /\ rbuf[k] = <<>>
    <3>0. up \in [Conns -> Seq(Package)] /\ rbuf \in [Conns -> Seq(Received)]
          /\ cli \in [Conns -> Client]
      BY DEF IInv, TypeOK
    <3>1. ASSUME NEW j \in Conns, ClientStep(j) PROVE bus_client_send(k)
      <4>1. rbuf' = rbuf
        BY <3>1, ClientFrame DEF serverVars, recvVars
      <4>2. bus_client_send(j)
        BY <1>2, <2>2, <3>1, <4>1, ClientFrame
      <4>3. j = k
        BY <1>2, <2>2, <3>0, <4>1, <4>2 DEF bus_client_send
      <4> QED BY <4>2, <4>3
    <3>2. ASSUME NEW j \in Conns, RecvStep(j) PROVE FALSE
      <4>1. CASE Recv(j)
        <5>1. up[j] = <<>> => UNCHANGED <<up, rbuf>>
          BY <4>1 DEF Recv
        <5>2. j # k => up'[k] = up[k] /\ rbuf'[k] = rbuf[k]
          BY <3>0, <4>1 DEF Recv
        <5> QED BY <1>2, <2>2, <5>1, <5>2
      <4>2. CASE srv_recv_cb(j)
        BY <1>2, <2>2, <3>0, <4>2 DEF srv_recv_cb, Wild, clientVars, recvVars
      <4>3. CASE callback(j)
        <5>1. /\ rpc[j] = "callback" /\ up' = up
              /\ rbuf' = rbuf \/ rbuf' = [rbuf EXCEPT ![j] = NextPackage(@)]
          BY <4>3 DEF callback, Wild, clientVars, recvVars
        <5>2. j # k
          BY <2>2, <5>1 DEF IInv, Buffers, Handling
        <5> QED BY <1>2, <2>2, <3>0, <5>1, <5>2
      <4> QED BY <1>2, <2>2, <3>2, <4>1, <4>2, <4>3, RecvStepFrame
    <3>3. ~SendStep
      BY <1>2, <2>2, SendFrame
    <3>4. ~(ListenStep \/ bus_server_create)
      BY <1>2, <2>2, ListenFrame
    <3>5. bus_client_send(k)
      BY <1>2, <2>2, <3>1, <3>2, <3>3, <3>4 DEF Next, vars, clientVars, serverVars, recvVars
    <3> QED
      <4>1. cli[k] \in Client /\ cli'[k] = [cli[k] EXCEPT !.sent = @ + 1]
        BY <3>0, <3>5 DEF bus_client_send
      <4> QED BY <4>1, DataBusAssumption DEF Known, Client
  <2> QED BY <2>1, <2>2
<1> QED BY <1>1, <1>2 DEF Spoken

\* An entry is labelled by a package of the connection that has its descriptor,
\* and the label goes before the descriptor does.
LEMMA LabelKnownStep ==
  ASSUME IInv, Spoken, LabelKnown, [Next]_vars
  PROVE  LabelKnown'
<1>0. /\ Typed /\ TypeOK /\ Sockets /\ EntriesAgree
      /\ \A i \in DOMAIN list : list[i].sock # None
  BY TypedFacts DEF IInv, ListOK
<1>1. \A k \in Conns : Known(k) => Known(k)'
  BY <1>0, ClientKept
<1>2. CASE UNCHANGED <<list, fd>>
  BY <1>1, <1>2 DEF LabelKnown
<1>3. CASE queue_push_tail
  <2>1. list' = Append(list, NewClient) /\ fd' = fd /\ NewClient.dev = INVALID
    BY <1>3 DEF queue_push_tail, NewClient
  <2>2. \A i \in DOMAIN list' : list'[i].dev # INVALID => i \in DOMAIN list /\ list'[i] = list[i]
    BY <1>0, <2>1 DEF Typed
  <2> QED BY <1>1, <2>1, <2>2 DEF LabelKnown
<1>4. ASSUME NEW k \in Conns, Accept(k), list' = list PROVE LabelKnown'
  <2>1. PICK f \in Fds : (\A j \in Conns : fd[j] # f) /\ fd' = [fd EXCEPT ![k] = f]
    BY <1>4 DEF Accept
  <2>2. \A i \in DOMAIN list : list[i].dev # INVALID => list[i].sock # f
    BY <1>0, <2>1 DEF EntriesAgree
  <2> QED BY <1>0, <1>1, <1>4, <2>1, <2>2 DEF LabelKnown, Typed
<1>5. ASSUME NEW k \in Conns, NEW d \in Devs, rpc[k] \in {"package", "dev_id"},
             BySock(fd[k]) # 0, fd' = fd, list' = [list EXCEPT ![BySock(fd[k])].dev = d]
      PROVE  LabelKnown'
  <2>1. Known(k)
    BY <1>5 DEF IInv, Buffers, Handling, Spoken
  <2>2. BySock(fd[k]) \in DOMAIN list /\ list[BySock(fd[k])].sock = fd[k]
    BY <1>0, <1>5, BySockFacts DEF Typed
  <2>3. /\ DOMAIN list' = DOMAIN list
        /\ \A i \in DOMAIN list : /\ list'[i].sock = list[i].sock
                                  /\ i # BySock(fd[k]) => list'[i].dev = list[i].dev
    BY <1>0, <1>5, Relabelled DEF Typed
  <2>4. fd[k] # None
    BY <1>0, <2>2
  <2>5. \A j \in Conns : fd[j] = fd[k] => j = k
    BY <1>0, <2>4 DEF Sockets
  <2> QED BY <1>1, <1>5, <2>1, <2>2, <2>3, <2>5 DEF LabelKnown
<1>6. ASSUME NEW k \in Conns, srv_recv_cb(k), list' # list PROVE LabelKnown'
  <2>1. /\ rpc[k] = "package" /\ BySock(fd[k]) # 0 /\ fd' = fd
        /\ \E d \in Named(k) : list' = [list EXCEPT ![BySock(fd[k])].dev = IdZero[d]]
    BY <1>6 DEF srv_recv_cb, Wild, listVars
  <2>2. \A d \in Named(k) : IdZero[d] \in Devs
    BY NamedDevs, DataBusAssumption
  <2> QED BY <1>5, <2>1, <2>2
<1>7. ASSUME NEW k \in Conns, SetDevId(k) PROVE LabelKnown'
  <2>1. /\ rpc[k] = "dev_id" /\ fd' = fd
        /\ \E d \in Named(k) : list' = [list EXCEPT ![BySock(fd[k])].dev = d]
    BY <1>7 DEF SetDevId
  <2>2. BySock(fd[k]) # 0
    <3>1. HasEntry(k) /\ list \in Seq(Entry)
      BY <1>0, <2>1 DEF IInv, ListOK, LabelBegun, HasEntry, Typed
    <3> QED BY <3>1, BySockFacts DEF HasEntry
  <2>3. Named(k) \subseteq Devs
    BY NamedDevs
  <2> QED BY <1>5, <2>1, <2>2, <2>3
<1>8. ASSUME NEW k \in Conns, Remove(k) PROVE LabelKnown'
  <2>1. rpc[k] = "remove" /\ fd' = fd /\ list' = queue_remove(list, BySock(fd[k]))
    BY <1>8 DEF Remove
  <2>2. BySock(fd[k]) \in DOMAIN list
    BY <1>0, <2>1, BySockFacts DEF IInv, ListOK, ListedServed, HasEntry, Typed
  <2>3. \A i \in DOMAIN list' : \E m \in DOMAIN list : list'[i] = list[m]
    BY <1>0, <2>1, <2>2, RemoveFacts DEF Typed
  <2> QED BY <1>1, <2>1, <2>3 DEF LabelKnown
<1>9. ASSUME NEW k \in Conns, Close(k) PROVE LabelKnown'
  <2>1. fd' = [fd EXCEPT ![k] = None] /\ list' = list
    BY <1>9 DEF Close, listVars
  <2> QED BY <1>0, <1>1, <2>1 DEF LabelKnown, Typed
<1>10. ASSUME NEW k \in Conns, RecvStep(k) PROVE LabelKnown'
  <2>1. CASE list' = list /\ fd' = fd
    BY <1>2, <2>1
  <2>2. CASE list' # list \/ fd' # fd
    <3>1. Close(k) \/ fd' = fd
      BY <1>10, RecvStepFrame
    <3>2. srv_recv_cb(k) \/ SetDevId(k) \/ Remove(k) \/ list' = list
      BY <1>10, RecvStepFrame
    <3> QED BY <1>6, <1>7, <1>8, <1>9, <2>2, <3>1, <3>2
  <2> QED BY <2>1, <2>2
<1>11. CASE ListenStep \/ bus_server_create
  <2>1. (\E k \in Conns : Accept(k)) \/ UNCHANGED fd
    BY <1>11, ListenFrame
  <2>2. queue_push_tail \/ UNCHANGED list
    BY <1>11, ListenFrame
  <2> QED BY <1>2, <1>3, <1>4, <2>1, <2>2
<1>12. CASE SendStep
  BY <1>2, <1>12, SendFrame
<1>13. ASSUME NEW k \in Conns, ClientStep(k) PROVE LabelKnown'
  BY <1>2, <1>13, ClientFrame DEF serverVars, listVars
<1>14. CASE UNCHANGED vars
  BY <1>2, <1>14 DEF vars, serverVars, listVars
<1> QED BY <1>10, <1>11, <1>12, <1>13, <1>14 DEF Next

\* bus_server_send takes the connection from a labelled entry.
LEMMA LookedUpStep ==
  ASSUME IInv, LabelKnown, LookedUp, [Next]_vars
  PROVE  LookedUp'
<1>0. TypeOK /\ usr \in Sender /\ \A s \in Sender : s.for \in Conns \cup {None}
  BY DEF IInv, TypeOK, Sender
<1>1. \A k \in Conns : Known(k) => Known(k)'
  BY <1>0, ClientKept
<1>2. ASSUME \/ UNCHANGED usr
             \/ usr'.pc = "idle"
             \/ usr.pc # "idle" /\ usr'.for = usr.for
      PROVE  LookedUp'
  <2>1. usr.pc # "idle" => usr.for \in Conns
    BY DEF IInv, SenderOK
  <2> QED BY <1>1, <1>2, <2>1 DEF LookedUp, Known
<1>3. ASSUME NEW d \in Devs, bus_server_send(d) PROVE LookedUp'
  <2>1. CASE Wild
    BY <1>2, <2>1 DEF Wild
  <2>2. CASE ~Wild
    <3>1. ById(d) # 0
      BY <1>3, <2>2 DEF bus_server_send
    <3>2. PICK k \in Conns :
            /\ fd[k] = list[ById(d)].sock
            /\ usr' = [usr EXCEPT !.pc = "found", !.dev = d, !.conn = list[ById(d)].conn,
                         !.for = k, !.half = (rpc[k] = "dev_id"), !.n = @ + 1]
      BY <1>3, <2>2 DEF bus_server_send
    <3>3. ById(d) \in DOMAIN list /\ list[ById(d)].dev = d
      BY <1>0, <3>1, ByIdFacts DEF TypeOK
    <3>4. d # INVALID
      BY DataBusAssumption
    <3>5. Known(k)
      BY <3>2, <3>3, <3>4 DEF LabelKnown
    <3>6. usr'.for = k
      BY <1>0, <3>2 DEF Sender
    <3> QED BY <1>1, <3>5, <3>6 DEF LookedUp, Known
  <2> QED BY <2>1, <2>2
<1>4. CASE ReadSock
  <2>1. CASE Wild
    BY <1>2, <2>1 DEF Wild
  <2>2. CASE ~Wild
    <3>1. PICK x : usr' = [usr EXCEPT !.pc = "send", !.sock = x]
      BY <1>4, <2>2 DEF ReadSock
    <3>2. usr.pc = "found" /\ usr'.for = usr.for
      BY <1>0, <1>4, <3>1 DEF ReadSock, Sender
    <3> QED BY <1>2, <3>2
  <2> QED BY <2>1, <2>2
<1>5. CASE tcps_send
  <2>1. usr'.pc = "idle"
    BY <1>5 DEF tcps_send, NoSend
  <2> QED BY <1>2, <2>1
<1>6. ASSUME NEW k \in Conns, ClientStep(k) \/ RecvStep(k) PROVE LookedUp'
  BY <1>2, <1>6, ClientFrame, RecvStepFrame DEF serverVars
<1>7. CASE ListenStep \/ bus_server_create
  BY <1>2, <1>7, ListenFrame
<1>8. CASE UNCHANGED vars
  BY <1>2, <1>8 DEF vars, serverVars
<1> QED BY <1>3, <1>4, <1>5, <1>6, <1>7, <1>8 DEF Next, SendStep

\* What client_recv_cb moves from the socket to the callback.
LEMMA CalledBack ==
  ASSUME TypeOK, NEW k \in Conns, client_recv_cb(k)
  PROVE  /\ 1 \in DOMAIN down[k] /\ down'[k] = <<>>
         /\ DOMAIN seen[k] = 1..Len(seen[k]) /\ Len(seen[k]) \in Nat
         /\ DOMAIN seen'[k] = 1..(Len(seen[k]) + 1)
         /\ seen'[k][Len(seen[k]) + 1] = down[k][1]
         /\ \A i \in DOMAIN seen[k] : seen'[k][i] = seen[k][i]
         /\ \A j \in Conns \ {k} : down'[j] = down[j] /\ seen'[j] = seen[j]
<1>1. down \in [Conns -> Seq(Data)] /\ seen \in [Conns -> Seq(Data)]
  BY DEF TypeOK
<1>2. /\ down[k] # <<>> /\ down' = [down EXCEPT ![k] = <<>>]
      /\ seen' = [seen EXCEPT ![k] = Append(@, Head(down[k]))]
  BY DEF client_recv_cb
<1>3. 1 \in DOMAIN down[k] /\ Head(down[k]) = down[k][1]
  BY <1>1, <1>2
<1>4. seen'[k] = Append(seen[k], down[k][1])
  BY <1>1, <1>2, <1>3
<1>5. /\ DOMAIN seen[k] = 1..Len(seen[k]) /\ Len(seen[k]) \in Nat
      /\ DOMAIN seen'[k] = 1..(Len(seen[k]) + 1)
      /\ seen'[k][Len(seen[k]) + 1] = down[k][1]
      /\ \A i \in DOMAIN seen[k] : seen'[k][i] = seen[k][i]
  BY <1>1, <1>4
<1> QED BY <1>1, <1>2, <1>3, <1>5

\* What is sent to a client, or was given to it, is for one that has sent.
LEMMA DataKnownStep ==
  ASSUME IInv, LookedUp, DataKnown, [Next]_vars
  PROVE  DataKnown'
<1>0. TypeOK /\ Typed
  BY TypedFacts DEF IInv
<1>1. \A k \in Conns : Known(k) => cli'[k].sent > 0
  BY <1>0, ClientKept DEF Known
<1>2. \A k \in Conns : /\ \A i \in DOMAIN down[k] : down[k][i].for \in Conns
                       /\ \A i \in DOMAIN seen[k] : seen[k][i].for \in Conns
  <2>1. \A p \in Data : p.for \in Conns
    BY DEF Data
  <2> QED BY <1>0, <2>1 DEF Typed
<1>3. \A k \in Conns :
        /\ \A i \in DOMAIN down[k] : cli'[down[k][i].for].sent > 0
        /\ \A i \in DOMAIN seen[k] : cli'[seen[k][i].for].sent > 0
  BY <1>1, <1>2 DEF DataKnown
<1>4. CASE UNCHANGED <<down, seen>>
  BY <1>3, <1>4 DEF DataKnown, Known
<1>5. ASSUME NEW k \in Conns, client_recv_cb(k) PROVE DataKnown'
  <2>1. \A i \in DOMAIN down'[k] : cli'[down'[k][i].for].sent > 0
    BY <1>0, <1>5, CalledBack
  <2>2. \A i \in DOMAIN seen'[k] : cli'[seen'[k][i].for].sent > 0
    BY <1>0, <1>3, <1>5, CalledBack
  <2>3. \A j \in Conns \ {k} : down'[j] = down[j] /\ seen'[j] = seen[j]
    BY <1>0, <1>5, CalledBack
  <2> QED BY <1>3, <2>1, <2>2, <2>3 DEF DataKnown, Known
<1>6. CASE tcps_send
  <2>1. CASE UNCHANGED down
    BY <1>4, <1>6, <2>1 DEF tcps_send
  <2>2. ASSUME NEW k \in Conns,
               down' = [down EXCEPT ![k] =
                          Append(@, [dev |-> usr.dev, for |-> usr.for, half |-> usr.half])]
        PROVE  DataKnown'
    <3>1. cli'[usr.for].sent > 0
      <4>1. usr.pc = "send" /\ usr.for \in Conns
        BY <1>6 DEF tcps_send, IInv, SenderOK
      <4> QED BY <1>1, <4>1 DEF LookedUp
    <3>2. \A i \in DOMAIN down'[k] :
            \/ i \in DOMAIN down[k] /\ down'[k][i] = down[k][i]
            \/ down'[k][i].for = usr.for
      BY <1>0, <2>2 DEF Typed
    <3>3. seen' = seen /\ \A j \in Conns \ {k} : down'[j] = down[j]
      BY <1>0, <1>6, <2>2 DEF tcps_send, Typed
    <3> QED BY <1>3, <3>1, <3>2, <3>3 DEF DataKnown, Known
  <2> QED BY <1>6, <2>1, <2>2 DEF tcps_send
<1>7. ASSUME NEW k \in Conns, ClientStep(k) \/ RecvStep(k) PROVE DataKnown'
  BY <1>4, <1>5, <1>7, ClientFrame, RecvStepFrame
<1>8. CASE SendStep
  BY <1>4, <1>6, <1>8, SendFrame
<1>9. CASE ListenStep \/ bus_server_create
  BY <1>4, <1>9, ListenFrame
<1>10. CASE UNCHANGED vars
  BY <1>4, <1>10 DEF vars, clientVars
<1> QED BY <1>7, <1>8, <1>9, <1>10 DEF Next

\* The package that calls an unset callback is for another client: this one
\* has sent nothing.
LEMMA CallbackStep ==
  ASSUME IInv, Spoken, DataKnown, CallbackReady, [Next]_vars
  PROVE  CallbackReady'
<1>0. TypeOK
  BY DEF IInv
<1>1. CASE UNCHANGED <<seen, unset>>
  BY <1>1 DEF CallbackReady
<1>2. ASSUME NEW k \in Conns, client_recv_cb(k) PROVE CallbackReady'
  <2>1. CASE unset' = unset
    <3>1. \A i \in DOMAIN seen[k] : i \in DOMAIN seen'[k] /\ seen'[k][i] = seen[k][i]
      BY <1>0, <1>2, CalledBack
    <3>2. \A j \in Conns \ {k} : seen'[j] = seen[j]
      BY <1>0, <1>2, CalledBack
    <3> QED BY <1>0, <2>1, <3>1, <3>2 DEF CallbackReady, TypeOK
  <2>2. CASE unset' # unset
    <3>1. cli[k].st = "starting" /\ unset' = unset \cup {k}
      BY <1>2, <2>2 DEF client_recv_cb
    <3>2. ~Known(k)
      BY <3>1 DEF Spoken
    <3>3. down[k][1].for # k
      BY <1>0, <1>2, <3>2, CalledBack DEF DataKnown
    <3>4. \E i \in DOMAIN seen'[k] : seen'[k][i].for # k
      BY <1>0, <1>2, <3>3, CalledBack
    <3>5. \A j \in Conns \ {k} : seen'[j] = seen[j]
      BY <1>0, <1>2, CalledBack
    <3>6. unset \subseteq Conns /\ CallbackReady
      BY <1>0 DEF TypeOK
    <3> QED BY ONLY <3>1, <3>4, <3>5, <3>6 DEF CallbackReady
  <2> QED BY <2>1, <2>2
<1>3. ASSUME NEW k \in Conns, ClientStep(k) \/ RecvStep(k) PROVE CallbackReady'
  BY <1>1, <1>2, <1>3, ClientFrame, RecvStepFrame
<1>4. CASE SendStep \/ ListenStep \/ bus_server_create
  BY <1>1, <1>4, SendFrame, ListenFrame
<1>5. CASE UNCHANGED vars
  BY <1>1, <1>5 DEF vars, clientVars
<1> QED BY <1>3, <1>4, <1>5 DEF Next

LEMMA KnownAlways == Spec => []KnownInv
<1>1. Init => KnownInv
  BY DEF Init, KnownInv, Spoken, Known, LabelKnown, LookedUp, NoSend, DataKnown,
         CallbackReady
<1>2. IInv /\ KnownInv /\ [Next]_vars => KnownInv'
  BY SpokenStep, LabelKnownStep, LookedUpStep, DataKnownStep, CallbackStep
     DEF KnownInv
<1> QED BY <1>1, <1>2, InvAlways, PTL DEF Spec

\* However lookup, label, close and reuse of the descriptor interleave, the
\* server calls back a client that has not set its callback only with a package
\* looked up for another connection.
THEOREM CallbackSet == Spec => []CallbackReady
<1>1. KnownInv => CallbackReady
  BY DEF KnownInv
<1> QED BY <1>1, KnownAlways, PTL

-----------------------------------------------------------------------------
\* The packages of a client, in the order of sending.  They pass from the
\* socket through the buffer of recv_thd to the callback; the buffer is empty
\* when recv_thd calls recv, so nothing is overwritten.
Stream(k) == handled[k] \o rbuf[k] \o up[k]
Gone(k) == {p[2] : p \in {q \in dropped : q[1] = k}}
Rising(s) == \A i, j \in DOMAIN s : i < j => s[i] < s[j]
In(s) == {s[i] : i \in DOMAIN s}

\* The packages of s are in order, and they and those of g are 1 to n.
Kept(s, g, n) == Rising(s) /\ In(s) \cap g = {} /\ In(s) \cup g = 1..n

\* What is whole is in order and was sent.
Ordered(s, n) == /\ \A i, j \in DOMAIN s : i < j => s[i] < s[j] \/ s[j] = Garbled
                 /\ In(s) \subseteq 0..n

Emptied == \A k \in Conns : rpc[k] \notin Handling => rbuf[k] = <<>>

\* All is accounted for until recv splits a package; the order is kept always.
Flow(k, s, g, n) == Ordered(s, n) /\ (k \notin torn => Kept(s, g, n))

FlowInv == Emptied /\ \A k \in Conns : Flow(k, Stream(k), Gone(k), cli[k].sent)

LEMMA FlowMeans == FlowInv => PackagesKept
  BY DEF FlowInv, Flow, Ordered, PackagesKept, Kept, In, Stream, Gone

\* A sequence whose whole packages are taken, in order, from an ordered one.
LEMMA OrderedThin ==
  ASSUME NEW s \in Seq(Nat), NEW t \in Seq(Nat), NEW n \in Nat, Ordered(s, n),
         NEW f,
         \A i \in DOMAIN t : t[i] = Garbled \/ (f[i] \in DOMAIN s /\ t[i] = s[f[i]]),
         \A i, j \in DOMAIN t : i < j /\ t[i] # Garbled /\ t[j] # Garbled => f[i] < f[j]
  PROVE  Ordered(t, n)
<1>1. \A i \in DOMAIN t : t[i] \in Nat
  OBVIOUS
<1>2. ASSUME NEW i \in DOMAIN t, NEW j \in DOMAIN t, i < j, t[j] # Garbled
      PROVE  t[i] < t[j]
  <2>1. CASE t[i] = Garbled
    BY <1>1, <1>2, <2>1 DEF Garbled
  <2>2. CASE t[i] # Garbled
    <3>1. /\ f[i] \in DOMAIN s /\ f[j] \in DOMAIN s /\ f[i] < f[j]
          /\ t[i] = s[f[i]] /\ t[j] = s[f[j]]
      BY <1>2, <2>2
    <3> QED BY <1>2, <3>1 DEF Ordered
  <2> QED BY <2>1, <2>2
<1>3. \A i \in DOMAIN t : t[i] \in 0..n
  <2>1. \A i \in DOMAIN s : s[i] \in 0..n
    BY DEF Ordered, In
  <2>2. Garbled \in 0..n
    BY DEF Garbled
  <2> QED BY <2>1, <2>2
<1> QED BY <1>2, <1>3 DEF Ordered, In

\* One more package.
LEMMA OrderedAppend ==
  ASSUME NEW s \in Seq(Nat), NEW n \in Nat, Ordered(s, n)
  PROVE  Ordered(Append(s, n + 1), n + 1)
<1> DEFINE t == Append(s, n + 1)
<1>1. /\ Len(s) \in Nat /\ DOMAIN s = 1..Len(s) /\ DOMAIN t = 1..(Len(s) + 1)
      /\ \A i \in DOMAIN s : t[i] = s[i] /\ s[i] \in Nat
      /\ t[Len(s) + 1] = n + 1
  OBVIOUS
<1> HIDE DEF t
<1>2. \A i \in DOMAIN s : s[i] \in 0..n
  BY DEF Ordered, In
<1>3. \A i, j \in DOMAIN t : i < j => t[i] < t[j] \/ t[j] = Garbled
  BY <1>1, <1>2 DEF Ordered
<1>4. \A i \in DOMAIN t : t[i] \in 0..(n + 1)
  BY <1>1, <1>2
<1> QED BY <1>3, <1>4 DEF Ordered, In, t

\* The packages b in the middle are dropped.
LEMMA OrderedDrop ==
  ASSUME NEW h \in Seq(Nat), NEW b \in Seq(Nat), NEW u \in Seq(Nat),
         NEW n \in Nat, Ordered(h \o b \o u, n)
  PROVE  Ordered(h \o u, n)
<1> DEFINE s == h \o b \o u
           t == h \o u
           H == Len(h)
           B == Len(b)
           U == Len(u)
           f == [i \in 1..(H + U) |-> IF i <= H THEN i ELSE i + B]
<1>1. /\ H \in Nat /\ B \in Nat /\ U \in Nat /\ s \in Seq(Nat) /\ t \in Seq(Nat)
      /\ DOMAIN s = 1..(H + B + U) /\ DOMAIN t = 1..(H + U)
  OBVIOUS
<1>2. /\ \A i \in 1..H : s[i] = h[i] /\ t[i] = h[i]
      /\ \A i \in (H + 1)..(H + U) : t[i] = u[i - H]
  OBVIOUS
<1>3. \A i \in (H + B + 1)..(H + B + U) : s[i] = u[i - H - B]
  OBVIOUS
<1>4. Ordered(s, n)
  OBVIOUS
<1> HIDE DEF s, t, H, B, U
<1>5. ASSUME NEW i \in 1..(H + U) PROVE f[i] \in DOMAIN s /\ t[i] = s[f[i]]
  <2>1. CASE i <= H
    BY <1>1, <1>2, <2>1
  <2>2. CASE ~(i <= H)
    <3>1. i \in (H + 1)..(H + U)
      BY <1>1, <2>2
    <3>2. PICK x \in (H + B + 1)..(H + B + U) : x = i + B /\ x - H - B = i - H
      BY <1>1, <3>1
    <3>3. t[i] = u[i - H] /\ s[x] = u[i - H]
      BY <1>2, <1>3, <3>1, <3>2
    <3>4. f[i] = x
      BY <2>2, <3>2
    <3> QED BY <1>1, <3>2, <3>3, <3>4
  <2>3. i <= H \/ ~(i <= H)
    OBVIOUS
  <2> QED BY <2>1, <2>2, <2>3, Zenon
<1>6. \A i, j \in 1..(H + U) : i < j => f[i] < f[j]
  BY <1>1
<1> HIDE DEF f
<1>7. /\ s \in Seq(Nat) /\ t \in Seq(Nat) /\ Ordered(s, n)
      /\ \A i \in DOMAIN t : t[i] = Garbled \/ (f[i] \in DOMAIN s /\ t[i] = s[f[i]])
      /\ \A i, j \in DOMAIN t : i < j /\ t[i] # Garbled /\ t[j] # Garbled => f[i] < f[j]
  <2>1. \A i \in DOMAIN t : f[i] \in DOMAIN s /\ t[i] = s[f[i]]
    BY <1>1, <1>5
  <2>2. \A i, j \in DOMAIN t : i < j => f[i] < f[j]
    BY <1>1, <1>6
  <2> QED BY <1>1, <1>4, <2>1, <2>2
<1>8. Ordered(t, n)
  BY ONLY <1>7, n \in Nat, OrderedThin
<1> QED BY <1>8 DEF t

\* The first packages of u become garbled ones.
LEMMA OrderedGarble ==
  ASSUME NEW h \in Seq(Nat), NEW b \in Seq(Nat), NEW u \in Seq(Nat),
         NEW n \in Nat, Ordered(h \o u, n), NEW m \in 0..Len(u),
         \A i \in DOMAIN b : b[i] = Garbled
  PROVE  Ordered(h \o b \o SubSeq(u, m + 1, Len(u)), n)
<1> DEFINE v == SubSeq(u, m + 1, Len(u))
           s == h \o u
           t == h \o b \o v
           H == Len(h)
           B == Len(b)
           U == Len(u)
           V == U - m
           f == [i \in 1..(H + B + V) |-> IF i <= H THEN i ELSE i - B + m]
<1>1. /\ H \in Nat /\ B \in Nat /\ U \in Nat /\ m \in Nat /\ V \in Nat
      /\ s \in Seq(Nat) /\ DOMAIN s = 1..(H + U)
  OBVIOUS
<1>2. v \in Seq(Nat) /\ Len(v) = V /\ \A i \in 1..V : v[i] = u[m + i]
  OBVIOUS
<1>3. /\ \A i \in 1..H : s[i] = h[i]
      /\ \A i \in (H + 1)..(H + U) : s[i] = u[i - H]
  OBVIOUS
<1> HIDE DEF v, V
<1>4. t \in Seq(Nat) /\ DOMAIN t = 1..(H + B + V)
  <2>1. h \o b \in Seq(Nat) /\ Len(h \o b) = H + B
    OBVIOUS
  <2>2. t \in Seq(Nat) /\ Len(t) = Len(h \o b) + Len(v)
    BY <1>2, <2>1, ConcatProperties
  <2> HIDE DEF t
  <2>3. DOMAIN t = 1..Len(t)
    BY <2>2
  <2> QED BY <1>2, <2>1, <2>2, <2>3
<1>5. \A i \in 1..H : t[i] = h[i]
  BY <1>1, <1>2
<1>6. \A i \in (H + 1)..(H + B) : t[i] = Garbled
  BY <1>1, <1>2
<1>7. \A i \in (H + B + 1)..(H + B + V) : t[i] = v[i - H - B]
  BY <1>1, <1>2
<1>8. Ordered(s, n)
  OBVIOUS
<1> HIDE DEF s, t, H, B, U
<1>9. H + U = H + V + m
  BY <1>1 DEF V
<1>10. ASSUME NEW i \in 1..(H + B + V), t[i] # Garbled
       PROVE  i <= H \/ i \in (H + B + 1)..(H + B + V)
  BY <1>1, <1>6, <1>10
<1>11. ASSUME NEW i \in 1..(H + B + V), t[i] # Garbled
       PROVE  f[i] \in DOMAIN s /\ t[i] = s[f[i]]
  <2>1. CASE i <= H
    <3>1. i \in 1..H /\ i \in 1..(H + U)
      BY <1>1, <2>1
    <3>2. f[i] = i
      BY <2>1
    <3> QED BY <1>1, <1>3, <1>5, <3>1, <3>2
  <2>2. CASE i \in (H + B + 1)..(H + B + V)
    <3>1. PICK x \in 1..V : x = i - H - B
      BY <1>1, <2>2
    <3>2. PICK y \in (H + 1)..(H + U) : y = i - B + m /\ y - H = m + x
      BY <1>1, <1>9, <2>2, <3>1
    <3>3. t[i] = u[m + x] /\ s[y] = u[m + x]
      BY <1>2, <1>3, <1>7, <2>2, <3>1, <3>2
    <3>4. f[i] = y
      BY <1>1, <2>2, <3>2
    <3> QED BY <1>1, <3>2, <3>3, <3>4
  <2> QED BY <1>10, <1>11, <2>1, <2>2
<1>12. ASSUME NEW i \in 1..(H + B + V), NEW j \in 1..(H + B + V), i < j,
              t[i] # Garbled, t[j] # Garbled
       PROVE  f[i] < f[j]
  <2>1. i <= H \/ i \in (H + B + 1)..(H + B + V)
    BY <1>10, <1>12
  <2>2. j <= H \/ j \in (H + B + 1)..(H + B + V)
    BY <1>10, <1>12
  <2> QED BY <1>1, <1>12, <2>1, <2>2
<1> HIDE DEF f
<1>13. /\ s \in Seq(Nat) /\ t \in Seq(Nat) /\ Ordered(s, n)
       /\ \A i \in DOMAIN t : t[i] = Garbled \/ (f[i] \in DOMAIN s /\ t[i] = s[f[i]])
       /\ \A i, j \in DOMAIN t : i < j /\ t[i] # Garbled /\ t[j] # Garbled => f[i] < f[j]
  BY <1>1, <1>4, <1>8, <1>11, <1>12
<1>14. Ordered(t, n)
  BY ONLY <1>13, n \in Nat, OrderedThin
<1> QED BY <1>14 DEF t, v

\* One more package.
LEMMA KeptAppend ==
  ASSUME NEW s \in Seq(Nat), NEW g, NEW n \in Nat, Kept(s, g, n)
  PROVE  Kept(Append(s, n + 1), g, n + 1)
<1> DEFINE t == Append(s, n + 1)
<1>1. /\ Len(s) \in Nat /\ DOMAIN s = 1..Len(s) /\ DOMAIN t = 1..(Len(s) + 1)
      /\ \A i \in DOMAIN s : t[i] = s[i] /\ s[i] \in Nat
      /\ t[Len(s) + 1] = n + 1
  OBVIOUS
<1> HIDE DEF t
<1>2. \A i \in DOMAIN s : s[i] \in 1..n
  BY DEF Kept, In
<1>3. Rising(t)
  BY <1>1, <1>2 DEF Kept, Rising
<1>4. In(t) = In(s) \cup {n + 1}
  BY <1>1 DEF In
<1>5. g \subseteq 1..n
  BY DEF Kept
<1>6. n + 1 \notin g
  BY <1>5
<1>7. 1..(n + 1) = (1..n) \cup {n + 1}
  OBVIOUS
<1> QED BY <1>3, <1>4, <1>6, <1>7 DEF Kept, t

\* The packages b in the middle are dropped.
LEMMA KeptDrop ==
  ASSUME NEW h \in Seq(Nat), NEW b \in Seq(Nat), NEW u \in Seq(Nat), NEW g,
         NEW n \in Nat, Kept(h \o b \o u, g, n)
  PROVE  Kept(h \o u, g \cup In(b), n)
<1> DEFINE s == h \o b \o u
           t == h \o u
           H == Len(h)
           B == Len(b)
           U == Len(u)
           Old(i) == IF i <= H THEN i ELSE i + B
<1>1. /\ H \in Nat /\ B \in Nat /\ U \in Nat
      /\ DOMAIN s = 1..(H + B + U) /\ DOMAIN t = 1..(H + U)
  OBVIOUS
<1>2. /\ \A i \in 1..H : s[i] = h[i]
      /\ \A i \in (H + 1)..(H + B) : s[i] = b[i - H]
      /\ \A i \in (H + B + 1)..(H + B + U) : s[i] = u[i - H - B]
      /\ \A i \in DOMAIN s : s[i] \in Nat
  <2>1. \A i \in 1..H : s[i] = h[i]
    OBVIOUS
  <2>2. \A i \in (H + 1)..(H + B) : s[i] = b[i - H]
    OBVIOUS
  <2>3. \A i \in (H + B + 1)..(H + B + U) : s[i] = u[i - H - B]
    OBVIOUS
  <2>4. \A i \in DOMAIN s : s[i] \in Nat
    OBVIOUS
  <2> QED BY <2>1, <2>2, <2>3, <2>4
<1>3. /\ \A i \in 1..H : t[i] = h[i]
      /\ \A i \in (H + 1)..(H + U) : t[i] = u[i - H]
  OBVIOUS
<1>4. Rising(s) /\ In(s) \cap g = {} /\ In(s) \cup g = 1..n
  BY DEF Kept
<1>5. t = h \o u
  OBVIOUS
<1> HIDE DEF s, t, H, B, U
<1>6. \A i \in 1..(H + U) : Old(i) \in DOMAIN s /\ t[i] = s[Old(i)]
  <2> TAKE i \in 1..(H + U)
  <2>1. CASE i <= H
    BY <1>1, <1>2, <1>3, <2>1
  <2>2. CASE ~(i <= H)
    <3>1. i \in (H + 1)..(H + U) /\ i + B \in (H + B + 1)..(H + B + U)
      BY <1>1, <2>2
    <3>2. PICK x \in (H + B + 1)..(H + B + U) : x = i + B /\ x - H - B = i - H
      BY <1>1, <3>1
    <3>3. t[i] = u[i - H] /\ s[x] = u[i - H]
      BY <1>2, <1>3, <3>1, <3>2
    <3> QED BY <1>1, <2>2, <3>2, <3>3
  <2> QED BY <2>1, <2>2
<1>7. Rising(t)
  <2>1. \A i, j \in 1..(H + U) : i < j => Old(i) < Old(j)
    BY <1>1
  <2> HIDE DEF Old
  <2> QED BY <1>1, <1>4, <1>6, <2>1 DEF Rising
<1>8. In(t) \subseteq In(s)
  BY <1>1, <1>6 DEF In
<1>9. In(b) \subseteq In(s)
  <2> SUFFICES ASSUME NEW m \in DOMAIN b PROVE b[m] \in In(s)
    BY DEF In
  <2> DEFINE x == H + m
  <2>1. m \in 1..B
    BY <1>1 DEF B
  <2>2. x \in (H + 1)..(H + B) /\ x \in DOMAIN s /\ x - H = m
    BY <1>1, <2>1
  <2> HIDE DEF x
  <2>3. s[x] = b[m]
    BY <1>2, <2>2
  <2> QED BY <2>2, <2>3 DEF In
<1>10. In(s) \subseteq In(t) \cup In(b)
  <2> SUFFICES ASSUME NEW i \in DOMAIN s PROVE s[i] \in In(t) \cup In(b)
    BY DEF In
  <2>1. CASE i <= H
    <3>1. i \in DOMAIN t /\ t[i] = s[i]
      BY <1>1, <1>2, <1>3, <2>1
    <3> QED BY <3>1 DEF In
  <2>2. CASE i \in (H + 1)..(H + B)
    <3>1. i - H \in DOMAIN b
      BY <1>1, <2>2 DEF B
    <3> QED BY <1>2, <2>2, <3>1 DEF In
  <2>3. CASE i \in (H + B + 1)..(H + B + U)
    <3>1. i - B \in (H + 1)..(H + U) /\ i - B - H = i - H - B /\ i - B \in DOMAIN t
      BY <1>1, <2>3
    <3>2. PICK x \in (H + 1)..(H + U) : x \in DOMAIN t /\ x - H = i - H - B
      BY <3>1
    <3>3. t[x] = s[i]
      BY <1>2, <1>3, <2>3, <3>2
    <3> QED BY <3>2, <3>3 DEF In
  <2> QED BY <1>1, <2>1, <2>2, <2>3
<1>11. \A x \in In(t) : x \notin In(b)
  <2> SUFFICES ASSUME NEW i \in DOMAIN t, NEW m \in DOMAIN b, t[i] = b[m]
               PROVE  FALSE
    BY DEF In
  <2> DEFINE x == H + m
  <2>1. m \in 1..B
    BY <1>1 DEF B
  <2>2. x \in (H + 1)..(H + B) /\ x \in DOMAIN s /\ x - H = m
    BY <1>1, <2>1
  <2> HIDE DEF x
  <2>3. s[x] = b[m]
    BY <1>2, <2>2
  <2>4. Old(i) \in DOMAIN s /\ Old(i) # x
    BY <1>1, <1>6, <2>2
  <2>5. s[Old(i)] = s[x]
    BY <1>1, <1>6, <2>3
  <2>6. \A y, z \in DOMAIN s : s[y] = s[z] => y = z
    <3> SUFFICES ASSUME NEW y \in DOMAIN s, NEW z \in DOMAIN s, y < z
                 PROVE  s[y] # s[z]
      BY <1>1
    <3>1. s[y] < s[z] /\ s[y] \in Nat
      BY <1>2, <1>4 DEF Rising
    <3> QED BY <3>1
  <2> QED BY <2>2, <2>4, <2>5, <2>6
<1> QED BY <1>4, <1>5, <1>7, <1>8, <1>9, <1>10, <1>11 DEF Kept

\* recv_thd leaves its buffer empty when it is done with it.
LEMMA EmptiedStep ==
  ASSUME IInv, Emptied, [Next]_vars
  PROVE  Emptied'
<1>0. rpc \in [Conns -> Receiver] /\ rbuf \in [Conns -> Seq(Received)]
  BY DEF IInv, TypeOK
<1> USE DEF Emptied, Handling, clientVars, listVars, recvVars, histVars
<1>1. CASE UNCHANGED <<rpc, rbuf>>
  BY <1>1
<1>2. ASSUME NEW k \in Conns, Recv(k) PROVE Emptied'
  <2>1. CASE UNCHANGED rbuf /\ rpc[k] = "recv"
    BY <1>0, <1>2, <2>1 DEF Recv
  <2>2. ASSUME NEW b, rbuf' = [rbuf EXCEPT ![k] = b],
               rpc' = [rpc EXCEPT ![k] = IF b = <<>> THEN "recv" ELSE "package"]
        PROVE  Emptied'
    BY <1>0, <2>2
  <2> QED BY <1>2, <2>1, <2>2 DEF Recv
<1>3. ASSUME NEW k \in Conns, srv_recv_cb(k) PROVE Emptied'
  BY <1>0, <1>3 DEF srv_recv_cb, Wild
<1>4. ASSUME NEW k \in Conns, SetDevId(k) PROVE Emptied'
  BY <1>0, <1>4 DEF SetDevId
<1>5. ASSUME NEW k \in Conns, callback(k) PROVE Emptied'
  <2>1. CASE Wild
    BY <1>1, <2>1 DEF Wild
  <2>2. CASE ~Wild
    <3>1. /\ rbuf' = [rbuf EXCEPT ![k] = Tail(@)]
          /\ rpc' = [rpc EXCEPT ![k] = IF Len(rbuf[k]) = 1 THEN "recv" ELSE "package"]
      BY <1>5, <2>2 DEF callback, NextPackage
    <3>2. Len(rbuf[k]) = 1 => Tail(rbuf[k]) = <<>>
      <4>1. rbuf[k] \in Seq(Received)
        BY <1>0
      <4>2. Len(rbuf[k]) = 1 => Tail(rbuf[k]) \in Seq(Received) /\ Len(Tail(rbuf[k])) = 0
        <5>1. rbuf[k] # <<>> => /\ Tail(rbuf[k]) \in Seq(Received)
                                /\ Len(Tail(rbuf[k])) = Len(rbuf[k]) - 1
          BY <4>1, HeadTailProperties
        <5>2. Len(<<>>) = 0
          OBVIOUS
        <5> QED BY <5>1, <5>2
      <4> QED BY <4>2, EmptySeq
    <3> QED BY <1>0, <3>1, <3>2
  <2> QED BY <2>1, <2>2
<1>6. ASSUME NEW k \in Conns, srv_discon_cb(k) PROVE Emptied'
  BY <1>0, <1>6 DEF srv_discon_cb, Wild
<1>7. ASSUME NEW k \in Conns, Remove(k) \/ Close(k) PROVE Emptied'
  BY <1>0, <1>7 DEF Remove, Close
<1>8. ASSUME NEW k \in Conns, Accept(k) PROVE Emptied'
  BY <1>0, <1>8 DEF Accept
<1>9. CASE srv_conn_cb \/ queue_push_tail \/ bus_server_create
  BY <1>1, <1>9 DEF srv_conn_cb, queue_push_tail, bus_server_create, Wild
<1>10. CASE SendStep
  BY <1>1, <1>10, SendFrame
<1>11. ASSUME NEW k \in Conns, ClientStep(k) PROVE Emptied'
  BY <1>1, <1>11, ClientFrame DEF serverVars
<1>12. CASE UNCHANGED vars
  BY <1>1, <1>12 DEF vars, serverVars
<1> QED
  BY <1>2, <1>3, <1>4, <1>5, <1>6, <1>7, <1>8, <1>9, <1>10, <1>11, <1>12
     DEF Next, RecvStep, ListenStep

\* Facts about sequences.
LEMMA ConcatAppend ==
  ASSUME NEW S, NEW h \in Seq(S), NEW u \in Seq(S), NEW x \in S
  PROVE  h \o Append(u, x) = Append(h \o u, x)
<1> DEFINE a == h \o Append(u, x)
           b == Append(h \o u, x)
<1>1. a \in Seq(S) /\ b \in Seq(S) /\ Len(a) = Len(b)
  OBVIOUS
<1>2. \A i \in 1..Len(a) : a[i] = b[i]
  OBVIOUS
<1> HIDE DEF a, b
<1>3. a = b
  BY <1>1, <1>2, SeqEqual
<1> QED BY <1>3 DEF a, b

LEMMA ConcatEmpty ==
  ASSUME NEW S, NEW h \in Seq(S)
  PROVE  h \o <<>> = h /\ <<>> \o h = h
  OBVIOUS

LEMMA HeadMoves ==
  ASSUME NEW S, NEW h \in Seq(S), NEW r \in Seq(S), r # <<>>
  PROVE  Append(h, Head(r)) \o Tail(r) = h \o r
  OBVIOUS

\* The first m packages of the socket become the garbled ones of b.
Garbles(k, b, m) ==
  /\ k \in torn /\ rbuf[k] = <<>> /\ b \in Seq(Received) /\ m \in 0..Len(up[k])
  /\ \A i \in DOMAIN b : b[i] = Garbled
  /\ Stream(k)' = handled[k] \o b \o SubSeq(up[k], m + 1, Len(up[k]))
  /\ cli'[k].sent = cli[k].sent

\* Numbers of packages are numbers.
LEMMA StreamNat ==
  ASSUME NEW s, s \in Seq(Received) \/ s \in Seq(Package)
  PROVE  s \in Seq(Nat)
<1>1. Received \subseteq Nat /\ Package \subseteq Nat
  BY DEF Received, Package, Garbled
<1> QED BY <1>1, SeqMonotonic

\* A stream once split counts as split for ever.
LEMMA TornKept == [Next]_vars => torn \subseteq torn'
<1> SUFFICES ASSUME [Next]_vars PROVE torn \subseteq torn'
  OBVIOUS
<1>1. ASSUME NEW k \in Conns, RecvStep(k) PROVE torn \subseteq torn'
  BY <1>1, RecvStepFrame DEF Recv
<1>2. ASSUME NEW k \in Conns, ClientStep(k) PROVE torn \subseteq torn'
  BY <1>2, ClientFrame DEF serverVars, histVars
<1>3. CASE ListenStep \/ bus_server_create \/ SendStep
  BY <1>3, ListenFrame, SendFrame
<1>4. CASE UNCHANGED vars
  BY <1>4 DEF vars, serverVars, histVars
<1> QED BY <1>1, <1>2, <1>3, <1>4 DEF Next

\* What a step does to the packages of one client: nothing, one more, those
\* in the buffer are dropped, or some are garbled.
Moves(k) ==
  \/ Stream(k)' = Stream(k) /\ Gone(k)' = Gone(k) /\ cli'[k].sent = cli[k].sent
  \/ /\ Stream(k)' = Append(Stream(k), cli[k].sent + 1) /\ Gone(k)' = Gone(k)
     /\ cli'[k].sent = cli[k].sent + 1
  \/ /\ Stream(k)' = handled[k] \o up[k] /\ Gone(k)' = Gone(k) \cup In(rbuf[k])
     /\ cli'[k].sent = cli[k].sent
  \/ \E b, m : Garbles(k, b, m)

\* A client that changes its state keeps its number of packages.
LEMMA StateOnly ==
  ASSUME cli \in [Conns -> Client], NEW k \in Conns,
         cli' = cli \/ \E j \in Conns : \E t : cli' = [cli EXCEPT ![j].st = t]
  PROVE  cli'[k].sent = cli[k].sent
<1>1. CASE cli' = cli
  BY <1>1
<1>2. ASSUME NEW j \in Conns, NEW t, cli' = [cli EXCEPT ![j].st = t]
      PROVE  cli'[k].sent = cli[k].sent
  <2>1. cli'[k] = IF k = j THEN [cli[k] EXCEPT !.st = t] ELSE cli[k]
    BY <1>2
  <2>2. cli[k] \in Client
    OBVIOUS
  <2> QED BY <2>1, <2>2 DEF Client
<1> QED BY <1>1, <1>2

LEMMA StreamStep ==
  ASSUME IInv, Whole, Emptied, [Next]_vars, NEW k \in Conns
  PROVE  Moves(k)
<1>0. /\ handled \in [Conns -> Seq(Received)] /\ rbuf \in [Conns -> Seq(Received)]
      /\ up \in [Conns -> Seq(Package)] /\ cli \in [Conns -> Client]
  BY DEF IInv, TypeOK
<1>a. handled[k] \in Seq(Nat) /\ rbuf[k] \in Seq(Nat) /\ up[k] \in Seq(Nat)
  BY <1>0, StreamNat
<1>1. ASSUME handled'[k] = handled[k], rbuf'[k] = rbuf[k], up'[k] = up[k],
             Gone(k)' = Gone(k), cli'[k].sent = cli[k].sent
      PROVE  Moves(k)
  BY <1>1 DEF Moves, Stream
<1>2. ASSUME NEW j \in Conns, bus_client_send(j) PROVE Moves(k)
  <2>1. UNCHANGED <<handled, rbuf, dropped>>
    BY <1>2 DEF bus_client_send, serverVars, recvVars, histVars
  <2>2. CASE j # k
    BY <1>0, <1>1, <1>2, <2>1, <2>2 DEF bus_client_send, Gone
  <2>3. CASE j = k
    <3>1. /\ up'[k] = Append(up[k], cli[k].sent + 1)
          /\ cli'[k] = [cli[k] EXCEPT !.sent = @ + 1]
      BY <1>0, <1>2, <2>3 DEF bus_client_send
    <3>2. cli'[k].sent = cli[k].sent + 1
      <4>1. cli[k] \in Client
        BY <1>0
      <4> QED BY <3>1, <4>1 DEF Client
    <3>3. Stream(k)' = Append(Stream(k), cli[k].sent + 1)
      <4>1. \A h, r, u \in Seq(Nat) : \A x \in Nat :
              h \o r \o Append(u, x) = Append(h \o r \o u, x)
        BY ConcatAppend
      <4>2. cli[k].sent + 1 \in Nat
        <5>1. cli[k] \in Client
          BY <1>0
        <5> QED BY <5>1 DEF Client
      <4>3. handled[k] \o rbuf[k] \o Append(up[k], cli[k].sent + 1)
              = Append(handled[k] \o rbuf[k] \o up[k], cli[k].sent + 1)
        BY <1>a, <4>1, <4>2
      <4> QED BY <2>1, <3>1, <4>3 DEF Stream
    <3> QED BY <2>1, <3>2, <3>3 DEF Moves, Gone
  <2> QED BY <2>2, <2>3
<1>3. ASSUME NEW j \in Conns, ClientStep(j), ~bus_client_send(j) PROVE Moves(k)
  <2>1. UNCHANGED <<handled, rbuf, dropped, up>>
    BY <1>3, ClientFrame DEF serverVars, recvVars, histVars
  <2>2. cli'[k].sent = cli[k].sent
    <3>1. cli' = cli \/ \E t : cli' = [cli EXCEPT ![j].st = t]
      BY <1>3 DEF ClientStep, bus_client_create, ClientReady, client_recv_cb, ClientExit
    <3> QED BY <1>0, <3>1, StateOnly
  <2> QED BY <1>1, <2>1, <2>2 DEF Gone
<1>4. ASSUME NEW j \in Conns, Recv(j) PROVE Moves(k)
  <2>1. UNCHANGED <<cli, handled, dropped>>
    BY <1>4 DEF Recv, histVars
  <2>2. CASE j # k \/ UNCHANGED <<up, rbuf>>
    BY <1>0, <1>1, <1>4, <2>1, <2>2 DEF Recv, Gone
  <2>3. CASE j = k /\ ~UNCHANGED <<up, rbuf>>
    <3> DEFINE n == Taken(k)
               b == Cut(k, n)
               m == (off[k] + n) \div PkgSize
               u == SubSeq(up[k], m + 1, Len(up[k]))
    <3>1. rpc[k] = "recv" /\ rbuf'[k] = b /\ up'[k] = u /\ up[k] # <<>>
      BY <1>0, <1>4, <2>3 DEF Recv
    <3>2. rbuf[k] = <<>>
      BY <3>1 DEF Emptied, Handling
    <3>3. /\ m \in 0..Len(up[k]) /\ b \in Seq(Received) /\ u \in Seq(Package)
          /\ off[k] = 0 => b \o u = up[k]
          /\ off[k] # 0 => \A i \in DOMAIN b : b[i] = Garbled
      BY <3>1, RecvData DEF IInv
    <3>4. Stream(k)' = handled[k] \o b \o u
      BY <2>1, <3>1 DEF Stream
    <3> HIDE DEF b, m
    <3>5. CASE off[k] # 0
      <4>1. k \in torn
        BY <3>5 DEF Whole
      <4>2. Garbles(k, b, m)
        BY <2>1, <3>2, <3>3, <3>4, <3>5, <4>1 DEF Garbles
      <4> QED BY <4>2 DEF Moves
    <3> HIDE DEF u
    <3>6. CASE off[k] = 0
      <4>1. b \in Seq(Nat) /\ u \in Seq(Nat)
        BY <3>3, StreamNat
      <4>2. \A x, y, z \in Seq(Nat) : (x \o y) \o z = x \o (y \o z)
        BY ConcatAssociative
      <4>3. handled[k] \o b \o u = handled[k] \o (b \o u)
        BY <1>a, <4>1, <4>2
      <4>4. Stream(k) = handled[k] \o up[k]
        BY <1>a, <3>2, ConcatEmpty DEF Stream
      <4> QED BY <2>1, <3>3, <3>4, <3>6, <4>3, <4>4 DEF Moves, Gone
    <3> QED BY <3>5, <3>6
  <2> QED BY <2>2, <2>3
<1>5. ASSUME NEW j \in Conns, srv_recv_cb(j) PROVE Moves(k)
  <2>1. UNCHANGED <<cli, up, handled>>
    BY <1>5 DEF srv_recv_cb, Wild, clientVars, histVars
  <2>2. CASE UNCHANGED <<rbuf, dropped>>
    BY <1>1, <2>1, <2>2 DEF Gone
  <2>3. CASE ~UNCHANGED <<rbuf, dropped>>
    <3>1. /\ rbuf' = [rbuf EXCEPT ![j] = <<>>]
          /\ dropped' = dropped \cup {<<j, rbuf[j][i]>> : i \in DOMAIN rbuf[j]}
      BY <1>5, <2>3 DEF srv_recv_cb, Wild, recvVars, histVars
    <3>2. CASE j # k
      <4>1. Gone(k)' = Gone(k)
        BY <3>1, <3>2 DEF Gone
      <4> QED BY <1>0, <1>1, <2>1, <3>1, <3>2, <4>1
    <3>3. CASE j = k
      <4>1. rbuf'[k] = <<>>
        BY <1>0, <3>1, <3>3
      <4>2. Gone(k)' = Gone(k) \cup In(rbuf[k])
        <5> DEFINE D == {<<k, rbuf[k][i]>> : i \in DOMAIN rbuf[k]}
        <5>1. dropped' = dropped \cup D
          BY <3>1, <3>3
        <5>2. \A p \in D : p[1] = k /\ p[2] \in In(rbuf[k])
          BY DEF In
        <5>3. \A n \in In(rbuf[k]) : \E p \in D : p[1] = k /\ p[2] = n
          <6>1. \A i \in DOMAIN rbuf[k] :
                  /\ <<k, rbuf[k][i]>> \in D /\ <<k, rbuf[k][i]>>[1] = k
                  /\ <<k, rbuf[k][i]>>[2] = rbuf[k][i]
            OBVIOUS
          <6> HIDE DEF D
          <6> QED BY <6>1 DEF In
        <5> HIDE DEF D
        <5> QED BY <5>1, <5>2, <5>3 DEF Gone
      <4>3. \A h, u \in Seq(Nat) : h \o <<>> \o u = h \o u
        BY ConcatEmpty
      <4> QED BY <1>a, <2>1, <4>1, <4>2, <4>3 DEF Moves, Stream
    <3> QED BY <3>2, <3>3
  <2> QED BY <2>2, <2>3
<1>6. ASSUME NEW j \in Conns, callback(j) PROVE Moves(k)
  <2>1. UNCHANGED <<cli, up, dropped>>
    BY <1>6 DEF callback, Wild, clientVars, histVars
  <2>2. CASE UNCHANGED <<rbuf, handled>>
    BY <1>1, <2>1, <2>2 DEF Gone
  <2>3. CASE ~UNCHANGED <<rbuf, handled>>
    <3>1. /\ handled' = [handled EXCEPT ![j] = Append(@, Head(rbuf[j]))]
          /\ rbuf' = [rbuf EXCEPT ![j] = Tail(@)] /\ rpc[j] = "callback"
      BY <1>6, <2>3 DEF callback, NextPackage, Wild, recvVars, histVars
    <3>2. CASE j # k
      BY <1>0, <1>1, <2>1, <3>1, <3>2 DEF Gone
    <3>3. CASE j = k
      <4>1. handled'[k] = Append(handled[k], Head(rbuf[k])) /\ rbuf'[k] = Tail(rbuf[k])
        BY <1>0, <3>1, <3>3
      <4>2. rbuf[k] # <<>>
        BY <3>1, <3>3 DEF IInv, Buffers, Handling
      <4>3. \A h, r \in Seq(Received) : r # <<>> => Append(h, Head(r)) \o Tail(r) = h \o r
        BY HeadMoves
      <4>4. handled'[k] \o rbuf'[k] = handled[k] \o rbuf[k]
        BY <1>0, <4>1, <4>2, <4>3
      <4>5. Stream(k)' = Stream(k)
        BY <2>1, <4>4 DEF Stream
      <4> QED BY <2>1, <4>5 DEF Moves, Gone
    <3> QED BY <3>2, <3>3
  <2> QED BY <2>2, <2>3
<1>7. ASSUME NEW j \in Conns, RecvStep(j), ~Recv(j), ~srv_recv_cb(j), ~callback(j)
      PROVE  Moves(k)
  BY <1>1, <1>7, RecvStepFrame DEF Gone
<1>8. CASE SendStep
  BY <1>1, <1>8, SendFrame DEF Gone
<1>9. CASE ListenStep \/ bus_server_create
  <2>1. UNCHANGED <<handled, rbuf, up, dropped>>
    BY <1>9, ListenFrame
  <2>2. cli' = cli \/ \E j \in Conns : cli' = [cli EXCEPT ![j].st = "closed"]
    BY <1>9, ListenFrame DEF Accept
  <2>3. cli'[k].sent = cli[k].sent
    BY <1>0, <2>2, StateOnly
  <2> QED BY <1>1, <2>1, <2>3 DEF Gone
<1>10. CASE UNCHANGED vars
  BY <1>1, <1>10 DEF vars, clientVars, serverVars, recvVars, histVars, Gone
<1> QED BY <1>2, <1>3, <1>4, <1>5, <1>6, <1>7, <1>8, <1>9, <1>10 DEF Next

LEMMA FlowAlways == Spec => []FlowInv
<1>1. Init => FlowInv
  <2> SUFFICES ASSUME Init PROVE FlowInv
    OBVIOUS
  <2>1. Emptied
    BY DEF Init, Emptied
  <2>2. \A k \in Conns : Stream(k) = <<>> /\ Gone(k) = {} /\ cli[k].sent = 0
    <3>1. <<>> \o <<>> \o <<>> = <<>>
      BY EmptySeq, ConcatEmpty
    <3> QED BY <3>1 DEF Init, Stream, Gone
  <2>3. Kept(<<>>, {}, 0) /\ Ordered(<<>>, 0)
    BY DEF Kept, Rising, In, Ordered
  <2> QED BY <2>1, <2>2, <2>3 DEF FlowInv, Flow
<1>2. IInv /\ Whole /\ FlowInv /\ [Next]_vars => FlowInv'
  <2> SUFFICES ASSUME IInv, Whole, FlowInv, [Next]_vars PROVE FlowInv'
    OBVIOUS
  <2>1. Emptied'
    BY EmptiedStep DEF FlowInv
  <2>2. ASSUME NEW k \in Conns
        PROVE  /\ Ordered(Stream(k)', cli'[k].sent)
               /\ k \notin torn' => Kept(Stream(k)', Gone(k)', cli'[k].sent)
    <3> DEFINE n == cli[k].sent
    <3>1. /\ handled[k] \in Seq(Nat) /\ rbuf[k] \in Seq(Nat) /\ up[k] \in Seq(Nat)
          /\ n \in Nat
      <4>1. /\ handled[k] \in Seq(Received) /\ rbuf[k] \in Seq(Received)
            /\ up[k] \in Seq(Package) /\ cli[k] \in Client
        BY DEF IInv, TypeOK
      <4>2. n \in Nat
        BY <4>1 DEF Client
      <4> QED BY <4>1, <4>2, StreamNat
    <3>2. Ordered(Stream(k), n) /\ (k \notin torn => Kept(Stream(k), Gone(k), n))
      BY DEF FlowInv, Flow
    <3>3. Stream(k) \in Seq(Nat)
      BY <3>1 DEF Stream
    <3>4. Moves(k) /\ torn \subseteq torn'
      BY StreamStep, TornKept DEF FlowInv
    <3> HIDE DEF n
    <3>5. CASE Stream(k)' = Stream(k) /\ Gone(k)' = Gone(k) /\ cli'[k].sent = n
      BY <3>2, <3>4, <3>5
    <3>6. CASE /\ Stream(k)' = Append(Stream(k), n + 1) /\ Gone(k)' = Gone(k)
               /\ cli'[k].sent = n + 1
      BY <3>1, <3>2, <3>3, <3>4, <3>6, KeptAppend, OrderedAppend
    <3>7. CASE /\ Stream(k)' = handled[k] \o up[k] /\ Gone(k)' = Gone(k) \cup In(rbuf[k])
               /\ cli'[k].sent = n
      <4>1. Ordered(handled[k] \o up[k], n)
        BY <3>1, <3>2, OrderedDrop DEF Stream
      <4>2. k \notin torn => Kept(handled[k] \o up[k], Gone(k) \cup In(rbuf[k]), n)
        BY <3>1, <3>2, KeptDrop DEF Stream
      <4> QED BY <3>4, <3>7, <4>1, <4>2
    <3>8. ASSUME NEW b, NEW m, Garbles(k, b, m)
          PROVE  Ordered(Stream(k)', n) /\ k \in torn /\ cli'[k].sent = n
      <4>1. Stream(k) = handled[k] \o up[k]
        BY <3>1, <3>8, ConcatEmpty DEF Stream, Garbles
      <4>2. b \in Seq(Nat) /\ m \in 0..Len(up[k]) /\ \A i \in DOMAIN b : b[i] = Garbled
        BY <3>8, StreamNat DEF Garbles
      <4>3. Ordered(handled[k] \o b \o SubSeq(up[k], m + 1, Len(up[k])), n)
        BY <3>1, <3>2, <4>1, <4>2, OrderedGarble
      <4> QED BY <3>8, <4>3 DEF Garbles, n
    <3> QED BY <3>4, <3>5, <3>6, <3>7, <3>8 DEF Moves, n
  <2> QED BY <2>1, <2>2 DEF FlowInv, Flow, Kept, Rising, In, Ordered
<1> QED BY <1>1, <1>2, InvAlways, PTL DEF Spec

\* However recv and the client's sends interleave: until a recv of recv_thd has
\* split a package, nothing a client sends is lost, doubled or reordered between
\* its socket and the callback, and what is not with the callback, in the buffer
\* of recv_thd or in the socket was dropped by srv_recv_cb.  Afterwards packages
\* are garbled, but the whole ones among them come once and in order.
THEOREM PackagesAccounted == Spec => []PackagesKept
  BY FlowMeans, FlowAlways, PTL
=============================================================================
