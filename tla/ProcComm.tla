----------------------------- MODULE ProcComm -----------------------------
(***************************************************************************)
(* The bus of mem_share (src/proc_comm.c with the address predicates of    *)
(* src/wi_bus.c): a server process with a registry of clients, and client  *)
(* processes that register, look each other up, send to one another over   *)
(* the receiver's own channel, broadcast through the server, and close.    *)
(* An exchange on a channel is what RpcChannel promises: the caller takes  *)
(* the channel and posts its request, the receiver's callback serves it,   *)
(* the caller returns; it fails once the channel is removed.               *)
(***************************************************************************)
EXTENDS Naturals, Sequences, SequencesExt

CONSTANTS Clients,       \* client processes, each with one sending thread
          Ids,           \* addresses a client may register
          Group,         \* Group[i]: the first two bytes of address i
          Wild,          \* the broadcast address, FF in every byte
          ViaServer,     \* addresses a client's own predicate takes for a
                         \* broadcast and the server's does not
          CharIsSigned,  \* char is signed on the target
          MaxChan,       \* bound: channels the server creates
          MaxSends,      \* bound: pc_c_send calls of all clients
          Faults,        \* which of FaultKinds this instance allows
          NoOne          \* no process

\* stop: SIGINT while the server waits for a request.  interrupt: SIGINT while
\* the server relays a message.  crash: a client process ends without closing.
FaultKinds == {"stop", "interrupt", "crash"}

ASSUME ProcCommAssumption ==
  /\ Faults \subseteq FaultKinds
  /\ MaxChan \in Nat /\ MaxSends \in Nat
  /\ CharIsSigned \in BOOLEAN
  /\ NoOne \notin Clients /\ "server" \notin Clients /\ NoOne # "server"
  /\ Ids # {} /\ ViaServer \subseteq Ids

Groups == {Group[i] : i \in Ids}
Dest == Ids \cup Groups \cup {Wild}
Srv == 0             \* the server's own channel
Chan == 0..MaxChan   \* 0 as an entry of dev_list: none

VARIABLES
  up,       \* the server process runs
  reg,      \* client_list: sequence of [id, ch]
  chan,     \* the channels: address, removed, who exchanges, how far, buffer
  nchan,    \* channels created so far
  serving,  \* the client whose message the server sends on
  todo,     \* the entries of client_list it has not come to with that message
  posted,   \* the server has posted it on the first of them and waits
  reply,    \* what the server wrote in answer: state and channel
  cl,       \* the clients, see Client below
  nsent,    \* calls of pc_c_send so far
  dlv       \* history: what recv_cb got on each channel, in order

srvVars == <<up, reg, nchan, serving, todo, posted, reply>>
vars == <<srvVars, chan, cl, nsent, dlv>>

NoMsg == [from |-> NoOne]
Message == [from : Clients, n : 1..MaxSends, to : Dest]

Channel ==
  [id : Ids \cup {NoOne}, owner : Clients \cup {NoOne}, gone : BOOLEAN,
   lock : Clients \cup {NoOne, "server"}, slot : {"free", "posted", "served"},
   buf : Message \cup {NoMsg}]

Pending == {"create", "get", "p2p", "bcast", "close"}

Client ==
  [op : Pending \cup {"none", "attach", "idle", "dead"},
   tgt : Chan,              \* channel of the exchange in progress
   dst : Dest,              \* address it registers or sends to
   id : Ids, ch : Chan,     \* its own address and channel (cmd_l)
   cache : [Ids -> Chan],   \* dev_list
   cached : BOOLEAN,        \* this send found its channel in dev_list
   n : 0..MaxSends,         \* number of this send
   status : {"none", "ok", "fail"},   \* what ret_cb was called with
   result : {"none", "ok", "fail"}]   \* what pc_c_send returned

\* There is no struct pc_c_client (any address stands for the absent ones).
NoClient ==
  LET any == CHOOSE i \in Ids : TRUE
  IN [op |-> "none", tgt |-> 0, dst |-> any, id |-> any, ch |-> 0,
      cache |-> [j \in Ids |-> 0], cached |-> FALSE, n |-> 0,
      status |-> "none", result |-> "none"]

Init ==
  /\ up = TRUE
  /\ reg = <<>>
  /\ chan = [k \in Chan |->
               [id |-> NoOne, owner |-> NoOne, gone |-> FALSE,
                lock |-> NoOne, slot |-> "free", buf |-> NoMsg]]
  /\ nchan = 0
  /\ serving = NoOne
  /\ todo = <<>>
  /\ posted = FALSE
  /\ reply = [ok |-> FALSE, ch |-> 0]
  /\ cl = [c \in Clients |-> NoClient]
  /\ nsent = 0
  /\ dlv = [k \in Chan |-> <<>>]

-----------------------------------------------------------------------------
is_broadcast_cb(d) == d \in Groups \cup {Wild}
clientBroadcast(d) == is_broadcast_cb(d) \/ d \in ViaServer

\* 0xff never equals a signed char: the wildcard then matches nobody.
is_bc_match_cb(bc, i) == Group[i] = bc \/ (bc = Wild /\ ~CharIsSigned)

\* The channel registered for an address, 0 if there is none.
find_client(i) ==
  IF \E k \in DOMAIN reg : reg[k].id = i
  THEN reg[CHOOSE k \in DOMAIN reg :
             /\ reg[k].id = i
             /\ \A j \in DOMAIN reg : reg[j].id = i => k <= j].ch
  ELSE 0

add_client(i, ch) == Append(reg, [id |-> i, ch |-> ch])
remove_client(ch) == RemoveAt(reg, CHOOSE k \in DOMAIN reg : reg[k].ch = ch)

\* A broadcast goes to every matching client but its sender.
broadcast_send_cb(e) ==
  e.ch # find_client(cl[serving].id) /\ is_bc_match_cb(cl[serving].dst, e.id)

\* pc_c_send returns res after ret_cb(st), or after no ret_cb at all.
Sent(c, st, res) == [cl[c] EXCEPT !.op = "idle", !.tgt = 0, !.cached = FALSE,
                                  !.status = st, !.result = res]

TheMessage(c) == [from |-> c, n |-> cl[c].n, to |-> cl[c].dst]

-----------------------------------------------------------------------------
\* Calls a client's application makes.

pc_req_create_client(c, i) ==
  /\ cl[c].op = "none"
  /\ up                 \* otherwise no channel is found under the key: NULL
  /\ cl' = [cl EXCEPT ![c].op = "create", ![c].tgt = Srv, ![c].dst = i]
  /\ UNCHANGED <<srvVars, chan, nsent, dlv>>

pc_c_send(c, d) ==
  /\ cl[c].op = "idle"
  /\ nsent < MaxSends
  /\ nsent' = nsent + 1
  /\ LET known == IF clientBroadcast(d) THEN 0 ELSE cl[c].cache[d]
     IN cl' = [cl EXCEPT
                 ![c].op = IF clientBroadcast(d) THEN "bcast"
                           ELSE IF known # 0 THEN "p2p" ELSE "get",
                 ![c].tgt = known,
                 ![c].cached = known # 0,
                 ![c].dst = d,
                 ![c].n = nsent',
                 ![c].status = "none",
                 ![c].result = "none"]
  /\ UNCHANGED <<srvVars, chan, dlv>>

pc_req_destroy_client(c) ==
  /\ cl[c].op = "idle"
  /\ cl' = [cl EXCEPT ![c].op = "close", ![c].tgt = Srv]
  /\ UNCHANGED <<srvVars, chan, nsent, dlv>>

-----------------------------------------------------------------------------
\* ipc_send_cmd by a client on the channel tgt.

\* SEND taken, request written and posted.
Post(c) ==
  /\ cl[c].op \in Pending
  /\ ~chan[cl[c].tgt].gone
  /\ chan[cl[c].tgt].lock = NoOne
  /\ chan' = [chan EXCEPT ![cl[c].tgt].lock = c,
                          ![cl[c].tgt].slot = "posted",
                          ![cl[c].tgt].buf = IF cl[c].op \in {"p2p", "bcast"}
                                             THEN TheMessage(c) ELSE NoMsg]
  /\ UNCHANGED <<srvVars, cl, nsent, dlv>>

\* The client leaves ipc_send_cmd; if it had SEND its exchange is over.
Leave(c) ==
  chan' = IF chan[cl[c].tgt].lock = c
          THEN [chan EXCEPT ![cl[c].tgt].lock = NoOne,
                            ![cl[c].tgt].slot = "free",
                            ![cl[c].tgt].buf = NoMsg]
          ELSE chan

\* What the client does when ipc_send_cmd failed: creation gives up, closing
\* ignores it, a send to a peer forgets the peer's channel.  The response
\* callback has been called with state st and has put channel ch, if it is not
\* 0, into dev_list, if that was before the failure.
Failed(c, st, ch) ==
  CASE cl[c].op \in {"create", "close"} -> NoClient
    [] cl[c].op = "p2p" -> [Sent(c, st, "fail") EXCEPT !.cache[cl[c].dst] = 0]
    [] cl[c].op = "get" -> IF ch = 0 THEN Sent(c, st, "fail")
                           ELSE [Sent(c, st, "fail") EXCEPT
                                   !.cache[cl[c].dst] = ch]
    [] cl[c].op = "bcast" -> Sent(c, st, "fail")

\* The channel was removed before P(C_READ) returned.
Fail(c) ==
  /\ cl[c].op \in Pending
  /\ chan[cl[c].tgt].gone
  /\ Leave(c)
  /\ cl' = [cl EXCEPT ![c] = Failed(c, "none", 0)]
  /\ UNCHANGED <<srvVars, nsent, dlv>>

\* What response_cb calls ret_cb with, and the channel it puts into dev_list.
Status(c) == CASE cl[c].op = "p2p" -> "ok"
               [] cl[c].op = "bcast" -> IF reply.ok THEN "ok" ELSE "fail"
               [] OTHER -> "none"
NewPeer(c) == IF cl[c].op = "get" /\ reply.ok THEN reply.ch ELSE 0

\* The channel was removed between P(C_READ) and V(SEND): response_cb has run,
\* and ipc_send_cmd fails all the same.
FailRelease(c) ==
  /\ cl[c].op \in Pending
  /\ chan[cl[c].tgt].gone
  /\ chan[cl[c].tgt].lock = c
  /\ chan[cl[c].tgt].slot = "served"
  /\ Leave(c)
  /\ cl' = [cl EXCEPT ![c] = Failed(c, Status(c), NewPeer(c))]
  /\ UNCHANGED <<srvVars, nsent, dlv>>

\* The response is there; response_cb reads it and SEND is given back.
Answered(c) ==
  /\ ~chan[cl[c].tgt].gone
  /\ chan[cl[c].tgt].lock = c
  /\ chan[cl[c].tgt].slot = "served"
  /\ Leave(c)

ReturnCreate(c) ==
  /\ cl[c].op = "create"
  /\ Answered(c)
  /\ cl' = [cl EXCEPT ![c] =
              IF reply.ok THEN [@ EXCEPT !.op = "attach", !.id = cl[c].dst,
                                         !.ch = reply.ch]
                          ELSE NoClient]
  /\ UNCHANGED <<srvVars, nsent, dlv>>

\* ipc_cmd_remote_init(cmd_l).  If the server has stopped since, shmat fails
\* but the test buf < 0 is never true of a pointer: the client starts anyway
\* and its first semop fails.  (Its test semid > 0 and shmid > 0 holds: the
\* kernel gives identifier 0 to the first object it ever creates, and the
\* server's own were created before.)  Then pc_client_run starts in a thread.
Attach(c) ==
  /\ cl[c].op = "attach"
  /\ cl' = [cl EXCEPT ![c].op = "idle"]
  /\ UNCHANGED <<srvVars, chan, nsent, dlv>>

\* pc_c_get_client_rsp_cb caches the channel; pc_c_send goes on to use it.
ReturnGet(c) ==
  /\ cl[c].op = "get"
  /\ Answered(c)
  /\ cl' = [cl EXCEPT ![c] =
              IF reply.ok THEN [@ EXCEPT !.op = "p2p", !.tgt = reply.ch,
                                         !.cache[cl[c].dst] = reply.ch]
                          ELSE Sent(c, "none", "fail")]
  /\ UNCHANGED <<srvVars, nsent, dlv>>

\* pc_client_recv_cb always answers CMD_SUCCESS to ret_cb.  pc_c_send then
\* returns data.err, which nothing has set when the channel was cached.
ReturnP2p(c) ==
  /\ cl[c].op = "p2p"
  /\ Answered(c)
  /\ \E res \in IF cl[c].cached THEN {"ok", "fail"} ELSE {"ok"} :
       cl' = [cl EXCEPT ![c] = Sent(c, "ok", res)]
  /\ UNCHANGED <<srvVars, nsent, dlv>>

\* wi_send returns the status that the server reported.
ReturnBcast(c) ==
  /\ cl[c].op = "bcast"
  /\ Answered(c)
  /\ cl' = [cl EXCEPT ![c] = Sent(c, Status(c), Status(c))]
  /\ UNCHANGED <<srvVars, nsent, dlv>>

ReturnClose(c) ==
  /\ cl[c].op = "close"
  /\ Answered(c)
  /\ cl' = [cl EXCEPT ![c] = NoClient]
  /\ UNCHANGED <<srvVars, nsent, dlv>>

-----------------------------------------------------------------------------
\* The server: pc_server_recv_cb on the request of client c.

Request(c, o) ==
  /\ up /\ serving = NoOne
  /\ chan[Srv].lock = c /\ chan[Srv].slot = "posted"
  /\ cl[c].op = o

\* Mutant: the address is not looked up before a client is added.
create_remote_server_NoLookup(c) ==
  /\ Request(c, "create")
  /\ nchan < MaxChan
  /\ nchan' = nchan + 1
  /\ reg' = add_client(cl[c].dst, nchan')
  /\ reply' = [ok |-> TRUE, ch |-> nchan']
  /\ chan' = [chan EXCEPT ![Srv].slot = "served",
                          ![nchan'].id = cl[c].dst,
                          ![nchan'].owner = c]
  /\ UNCHANGED <<up, serving, todo, posted, cl, nsent, dlv>>

\* CMD_GET_SERVER_REQ.  The kernel runs out of semaphore sets at MaxChan.
create_remote_server(c) ==
  /\ Request(c, "create")
  /\ \/ /\ find_client(cl[c].dst) # 0 \/ nchan = MaxChan
        /\ reply' = [ok |-> FALSE, ch |-> 0]
        /\ chan' = [chan EXCEPT ![Srv].slot = "served"]
        /\ UNCHANGED <<reg, nchan>>
     \/ /\ find_client(cl[c].dst) = 0
        /\ nchan < MaxChan
        /\ nchan' = nchan + 1
        /\ reg' = add_client(cl[c].dst, nchan')
        /\ reply' = [ok |-> TRUE, ch |-> nchan']
        /\ chan' = [chan EXCEPT ![Srv].slot = "served",
                                ![nchan'].id = cl[c].dst,
                                ![nchan'].owner = c]
  /\ UNCHANGED <<up, serving, todo, posted, cl, nsent, dlv>>

\* Mutant: the client is taken off the list but its channel is not removed.
destroy_remote_server_Leak(c) ==
  /\ Request(c, "close")
  /\ LET ch == find_client(cl[c].id) IN
       /\ reply' = [ok |-> ch # 0, ch |-> 0]
       /\ reg' = IF ch # 0 THEN remove_client(ch) ELSE reg
       /\ chan' = [chan EXCEPT ![Srv].slot = "served"]
  /\ UNCHANGED <<up, nchan, serving, todo, posted, cl, nsent, dlv>>

\* CMD_CLOSE_SERVER_REQ
destroy_remote_server(c) ==
  /\ Request(c, "close")
  /\ LET ch == find_client(cl[c].id) IN
       /\ reply' = [ok |-> ch # 0, ch |-> 0]
       /\ reg' = IF ch # 0 THEN remove_client(ch) ELSE reg
       /\ chan' = [k \in Chan |->
                     IF k = Srv THEN [chan[k] EXCEPT !.slot = "served"]
                     ELSE IF k = ch THEN [chan[k] EXCEPT !.gone = TRUE]
                     ELSE chan[k]]
  /\ UNCHANGED <<up, nchan, serving, todo, posted, cl, nsent, dlv>>

\* CMD_GET_CLIENT_REQ
get_client(c) ==
  /\ Request(c, "get")
  /\ reply' = [ok |-> find_client(cl[c].dst) # 0, ch |-> find_client(cl[c].dst)]
  /\ chan' = [chan EXCEPT ![Srv].slot = "served"]
  /\ UNCHANGED <<up, reg, nchan, serving, todo, posted, cl, nsent, dlv>>

\* Mutant: the addressee of a relay is not checked to be registered.
data_send_NotFound(c) ==
  /\ Request(c, "bcast")
  /\ LET d == cl[c].dst
     IN todo' = IF is_broadcast_cb(d) THEN reg
                ELSE <<[id |-> d, ch |-> find_client(d)]>>
  /\ reply' = [ok |-> is_broadcast_cb(cl[c].dst), ch |-> 0]
  /\ serving' = c
  /\ UNCHANGED <<up, reg, nchan, posted, chan, cl, nsent, dlv>>

\* CMD_DATA_SEND_REQ: a broadcast goes through the whole list, another message
\* to the one addressed.  data_send.err is what the last pc_s_send left.
data_send(c) ==
  /\ Request(c, "bcast")
  /\ LET d == cl[c].dst
     IN todo' = IF is_broadcast_cb(d) THEN reg
                ELSE IF find_client(d) = 0 THEN <<>>
                ELSE <<[id |-> d, ch |-> find_client(d)]>>
  /\ reply' = [ok |-> is_broadcast_cb(cl[c].dst), ch |-> 0]
  /\ serving' = c
  /\ UNCHANGED <<up, reg, nchan, posted, chan, cl, nsent, dlv>>

\* queue_foreach in broadcast_send passes over a client.
RelaySkip ==
  /\ serving # NoOne /\ todo # <<>> /\ ~posted
  /\ is_broadcast_cb(cl[serving].dst) /\ ~broadcast_send_cb(Head(todo))
  /\ todo' = Tail(todo)
  /\ UNCHANGED <<up, reg, nchan, serving, posted, reply, chan, cl, nsent, dlv>>

\* The next client gets the message.
ToSend ==
  /\ serving # NoOne /\ todo # <<>>
  /\ is_broadcast_cb(cl[serving].dst) => broadcast_send_cb(Head(todo))

\* pc_s_send to the next client: SEND taken and the message posted ...
RelayPost ==
  /\ ToSend /\ ~posted
  /\ chan[Head(todo).ch].lock = NoOne
  /\ posted' = TRUE
  /\ chan' = [chan EXCEPT ![Head(todo).ch].lock = "server",
                          ![Head(todo).ch].slot = "posted",
                          ![Head(todo).ch].buf = chan[Srv].buf]
  /\ UNCHANGED <<up, reg, nchan, serving, todo, reply, cl, nsent, dlv>>

\* Mutant: the walk over the clients ends after the first.
RelayReturn_First ==
  /\ posted /\ chan[Head(todo).ch].slot = "served"
  /\ posted' = FALSE
  /\ chan' = [chan EXCEPT ![Head(todo).ch].lock = NoOne,
                          ![Head(todo).ch].slot = "free",
                          ![Head(todo).ch].buf = NoMsg]
  /\ todo' = <<>>
  /\ reply' = [ok |-> TRUE, ch |-> 0]
  /\ UNCHANGED <<up, reg, nchan, serving, cl, nsent, dlv>>

\* ... and the client's answer taken.
RelayReturn ==
  /\ posted /\ chan[Head(todo).ch].slot = "served"
  /\ posted' = FALSE
  /\ chan' = [chan EXCEPT ![Head(todo).ch].lock = NoOne,
                          ![Head(todo).ch].slot = "free",
                          ![Head(todo).ch].buf = NoMsg]
  /\ todo' = Tail(todo)
  /\ reply' = [ok |-> TRUE, ch |-> 0]
  /\ UNCHANGED <<up, reg, nchan, serving, cl, nsent, dlv>>

\* Mutant: the failure of pc_s_send is not put into data_send.err.
RelayInterrupted_NoErr ==
  /\ "interrupt" \in Faults
  /\ ToSend
  /\ \/ ~posted /\ chan[Head(todo).ch].lock # NoOne
     \/ posted /\ chan[Head(todo).ch].slot # "served"
  /\ posted' = FALSE
  /\ todo' = Tail(todo)
  /\ reply' = [ok |-> TRUE, ch |-> 0]
  /\ UNCHANGED <<up, reg, nchan, serving, chan, cl, nsent, dlv>>

\* Mutant: an interrupted relay is tried again with the message still posted.
RelayInterrupted_Retry ==
  /\ "interrupt" \in Faults
  /\ ToSend /\ posted
  /\ posted' = FALSE
  /\ chan' = [chan EXCEPT ![Head(todo).ch].lock = NoOne]
  /\ UNCHANGED <<up, reg, nchan, serving, todo, reply, cl, nsent, dlv>>

\* SIGINT interrupts the P in pc_s_send: ipc_send_cmd fails, keeping SEND if
\* it has it, and the server goes on with its request.
RelayInterrupted ==
  /\ "interrupt" \in Faults
  /\ ToSend
  /\ \/ ~posted /\ chan[Head(todo).ch].lock # NoOne
     \/ posted /\ chan[Head(todo).ch].slot # "served"
  /\ posted' = FALSE
  /\ todo' = Tail(todo)
  /\ reply' = [ok |-> is_broadcast_cb(cl[serving].dst), ch |-> 0]
  /\ UNCHANGED <<up, reg, nchan, serving, chan, cl, nsent, dlv>>

RelayDone ==
  /\ serving # NoOne /\ todo = <<>>
  /\ serving' = NoOne
  /\ chan' = [chan EXCEPT ![Srv].slot = "served"]
  /\ UNCHANGED <<up, reg, nchan, todo, posted, reply, cl, nsent, dlv>>

\* SIGINT ends pc_server_run; pc_destroy_server removes the server's channel,
pc_destroy_server ==
  /\ "stop" \in Faults
  /\ up /\ serving = NoOne /\ chan[Srv].slot # "posted"
  /\ up' = FALSE
  /\ chan' = [chan EXCEPT ![Srv].gone = TRUE]
  /\ UNCHANGED <<reg, nchan, serving, todo, posted, reply, cl, nsent, dlv>>

\* and then those of the clients, one after the other.
client_list_destroy_cb ==
  /\ ~up /\ reg # <<>>
  /\ chan' = [chan EXCEPT ![Head(reg).ch].gone = TRUE]
  /\ reg' = Tail(reg)
  /\ UNCHANGED <<up, nchan, serving, todo, posted, reply, cl, nsent, dlv>>

-----------------------------------------------------------------------------
\* The receive loop of a client (pc_client_run) on its own channel.

Registered == {"idle", "get", "p2p", "bcast", "close"}

pc_client_recv_cb(k) ==
  /\ ~chan[k].gone
  /\ chan[k].slot = "posted"
  /\ chan[k].owner # NoOne
  /\ cl[chan[k].owner].op \in Registered
  /\ cl[chan[k].owner].ch = k
  /\ dlv' = [dlv EXCEPT ![k] = Append(@, chan[k].buf)]
  /\ chan' = [chan EXCEPT ![k].slot = "served"]
  /\ UNCHANGED <<srvVars, cl, nsent>>

\* The process ends between two calls; its registration stays.
Crash(c) ==
  /\ "crash" \in Faults
  /\ cl[c].op = "idle"
  /\ cl' = [cl EXCEPT ![c].op = "dead"]
  /\ UNCHANGED <<srvVars, chan, nsent, dlv>>

-----------------------------------------------------------------------------
CallerStep(c) ==
  \/ Post(c) \/ Fail(c) \/ FailRelease(c)
  \/ ReturnCreate(c) \/ Attach(c) \/ ReturnGet(c) \/ ReturnP2p(c) \/ ReturnBcast(c)
  \/ ReturnClose(c)

ServerStep ==
  \/ \E c \in Clients : \/ create_remote_server(c) \/ destroy_remote_server(c)
                        \/ get_client(c) \/ data_send(c)
  \/ RelaySkip \/ RelayPost \/ RelayReturn \/ RelayDone
  \/ client_list_destroy_cb

Next ==
  \/ \E c \in Clients :
       \/ \E i \in Ids : pc_req_create_client(c, i)
       \/ \E d \in Dest : pc_c_send(c, d)
       \/ pc_req_destroy_client(c)
       \/ CallerStep(c)
       \/ Crash(c)
  \/ ServerStep \/ RelayInterrupted \/ pc_destroy_server
  \/ \E k \in Chan : pc_client_recv_cb(k)

Spec == Init /\ [][Next]_vars

\* Processes keep running; a waiter for a channel is queued by the kernel and
\* not passed over for ever, hence the strong fairness of the two Posts.
Fairness ==
  /\ \A c \in Clients : WF_vars(CallerStep(c)) /\ SF_vars(Post(c))
  /\ WF_vars(ServerStep) /\ SF_vars(RelayPost)
  /\ \A k \in Chan : WF_vars(pc_client_recv_cb(k))

FairSpec == Spec /\ Fairness

-----------------------------------------------------------------------------
TypeOK ==
  /\ up \in BOOLEAN
  /\ reg \in Seq([id : Ids, ch : Chan \ {Srv}])
  /\ chan \in [Chan -> Channel]
  /\ nchan \in Chan
  /\ serving \in Clients \cup {NoOne}
  /\ todo \in Seq([id : Ids, ch : Chan \ {Srv}])
  /\ posted \in BOOLEAN
  /\ reply \in [ok : BOOLEAN, ch : Chan]
  /\ cl \in [Clients -> Client]
  /\ nsent \in 0..MaxSends
  /\ dlv \in [Chan -> Seq(Message)]

\* An address belongs to one client at a time, and while the server runs the
\* registry, the channel and what the client believes agree: a client that
\* finished pc_req_create_client and did not ask to close is listed, under its
\* address, with its own channel, and that channel exists.
RegistryAgrees ==
  /\ \A j, k \in DOMAIN reg : reg[j].id = reg[k].id => j = k
  /\ \A k \in DOMAIN reg : LET e == reg[k] IN
       chan[e.ch].id = e.id /\ ~chan[e.ch].gone
  /\ \A c \in Clients :
       up /\ cl[c].op \in {"attach", "idle", "get", "p2p", "bcast", "dead"} =>
         /\ find_client(cl[c].id) = cl[c].ch
         /\ chan[cl[c].ch].owner = c

\* Whatever is cached, closed and registered again meanwhile, a message is
\* handed only to a client it is addressed to, never to its own sender by
\* broadcast, and never twice.
RightRecipient ==
  \A k \in Chan : \A x \in DOMAIN dlv[k] : LET m == dlv[k][x] IN
    /\ \/ m.to = chan[k].id
       \/ is_broadcast_cb(m.to) /\ is_bc_match_cb(m.to, chan[k].id)
    /\ is_broadcast_cb(m.to) => m.from # chan[k].owner
    /\ \A y \in DOMAIN dlv[k] : dlv[k][y] = m => x = y

\* When the server has answered a broadcast, every client registered under a
\* matching address, the sender excepted, has received it (unless a signal
\* interrupted the server).
BroadcastComplete ==
  \A c \in Clients :
    /\ "interrupt" \notin Faults
    /\ up /\ serving = NoOne
    /\ cl[c].op = "bcast" /\ is_broadcast_cb(cl[c].dst)
    /\ chan[Srv].lock = c /\ chan[Srv].slot = "served"
    => \A k \in DOMAIN reg :
         reg[k].ch # cl[c].ch /\ is_bc_match_cb(cl[c].dst, reg[k].id)
           => TheMessage(c) \in Range(dlv[reg[k].ch])

\* ret_cb(CMD_SUCCESS) for a message to one address means that recv_cb of a
\* client with that address has had the message.
AcknowledgedMeansDelivered ==
  \A c \in Clients :
    cl[c].op = "idle" /\ cl[c].status = "ok" /\ ~is_broadcast_cb(cl[c].dst) =>
      \E k \in Chan : chan[k].id = cl[c].dst /\ TheMessage(c) \in Range(dlv[k])

\* Every call to the bus returns, whether the server goes on or is stopped, as
\* long as no registered process dies and no signal hits a relaying server.
CallReturns ==
  \A c \in Clients :
    cl[c].op \in Pending ~> cl[c].op \notin Pending \cup {"attach"}

\* main.c:52 gives up its series of messages when wi_send is negative: a send
\* that the receiver has acknowledged must not be reported as failed.  (If the
\* channel was removed at that moment it may; dev_list has then lost it.)
ResultTruthful ==
  \A c \in Clients :
    /\ cl[c].op = "idle" /\ cl[c].status = "ok"
    /\ cl[c].dst \in Ids => cl[c].cache[cl[c].dst] # 0
    => cl[c].result = "ok"
============================================================================
