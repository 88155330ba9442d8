# Formal models of the inter-process communication code

The repository is a collection of small C programs. Its most substantial piece
of original code is `c_code/linux/user/mem_share`, a message bus between
processes built on System V semaphores and shared memory, together with
`c_code/linux/user/msg_handle`, a message loop in a thread,
`c_code/linux/user/socket/af_unix_cs`, a data bus between processes over AF_UNIX
sockets, and `c_code/linux/user/x1000_ota`, the client side of a firmware update
protocol over UDP. These modules model that code. The file names below are
relative to `src/c_code/linux/user/`.

## 1. The system

| component | source | state | operations |
|---|---|---|---|
| channel | `mem_share/src/ipc_cmd.c`, `ipc_sem.c` | a set of three semaphores (`SEND`, `C_READ`, `S_READ`), a shared buffer | `ipc_send_cmd`, `ipc_recv_cmd` |
| start-up and tear-down | `ipc_cmd.c`, `ipc_sem.c`, `ipc_shm.c` | keyed kernel objects, each process's handles | `ipc_create_cmd`, `ipc_cmd_remote_init`, `ipc_destroy_local_cmd` |
| bus | `proc_comm.c`, predicates of `wi_bus.c` | the server's `client_list`; each client's own channel and its cache `dev_list` | register, look up, send, broadcast or relay, close, stop the server |
| receive path | `wi_bus.c`, `common/queue.c`, `wi_sem.c`, `wi_mutex.c` | `recv_list`, its mutex and semaphore | `wi_bus_recv_cb` (run thread), `wi_bus_client_read` (read thread) |
| message handler | `msg_handle/msg_handle.c` | queue, mutex, semaphore, worker thread | `msg_send`, `msg_handle_destory`, the worker loop |
| data bus | `socket/af_unix_cs/af_server.c`, `af_client.c`, `data_bus/data_bus.c`, `data_bus/queue.c` | descriptors, `client_list`, a listen thread and a receive thread per connection | accept, receive, disconnect, `bus_server_send`; on the other side `bus_client_create`, `bus_client_send`, the receive callback |
| update client | `x1000_ota/main.c`, `init_enc.c`, `activity.c`, `chk_version.c`, `protocol/protocol.c`, `socket/*.c` | the socket with its destination, the clock offset, where the round is | one request each for an encrypted connection, activation and the version, polling, parsing |

How they interact: a *channel* belongs to one receiving process, which loops in
`ipc_recv_cmd`; any process that knows the channel may call `ipc_send_cmd` on
it. The bus *server* owns one channel under a fixed key. A *client* looks that
channel up, asks the server to create a channel for the client itself, and from
then on receives on its own channel in a thread. To send to a peer it asks the
server for the peer's channel, caches it, and calls the peer directly.
Broadcasts go to the server, which calls each matching client in turn. A
received message is acknowledged to the sender as soon as it is queued in
`recv_list`; the user's callback runs later in the read thread.

The data bus and the update client are programs of their own. In the data bus
the three callbacks of the socket server (connected, received, disconnected) run
in the listen thread and in the receive threads, and all work on `client_list`;
`bus_server_send` is called by the user from another thread. A client is known
by the device written in its first package. The update client runs a round
again and again; within a round each request must have been answered before the
next is made.

What is hard here:

* three semaphores alone keep request, callback and response of several
  processes apart in one buffer, while processes may die (`SEM_UNDO` returns
  `SEND`, but not what was posted) and a signal may interrupt any wait, which
  the code reports but does not restart;
* lookup by key is done by *creating* the object and removing it again, and
  semaphores are set one after the other after they have become visible;
* caches of channels outlive the registration they came from;
* the server is at once called by its clients and a caller of them;
* in both thread hand-overs the semaphore is posted after the mutex has been
  released, so counter and list are never updated together;
* several results are not looked at (`shmat`, the push into a queue, `sem_wait`);
* in the data bus nothing locks `client_list`, threads start before what they
  use has been set up, and a descriptor number looked up a moment ago may have
  been closed and given to another connection; packages are cut from a stream of
  bytes by counting from the start of each `recv`;
* the update client takes the first datagram it gets for the answer, whoever
  sent it and when, and makes its sender the destination of what follows.

`PROJECT.json` lists the hazards one by one with their lines and the properties
aimed at them, and all components, including those that are not modelled.

## 2. Modules

| module | models | based on |
|---|---|---|
| `RpcChannel` | abstract: what a channel promises its callers | |
| `IpcCmd` | one channel, semop by semop, with faults | implements `RpcChannel` |
| `IpcCmdProofs` | theorems about `IpcCmd` | `IpcCmd` |
| `IpcStartup` | creation, lookup and removal of the objects under a key | |
| `IpcStartupProofs` | theorems about `IpcStartup` | `IpcStartup` |
| `ProcComm` | the bus; an exchange on a channel is what `RpcChannel` promises | |
| `ProcCommProofs` | theorems about `ProcComm` | `ProcComm` |
| `WiBusRecv` | the receive path of a client | |
| `WiBusRecvProofs` | theorems about `WiBusRecv` | `WiBusRecv` |
| `MsgHandle` | the message handler | |
| `MsgHandleProofs` | theorems about `MsgHandle` | `MsgHandle` |
| `DataBus` | server and clients of the data bus | |
| `DataBusProofs` | theorems about `DataBus` | `DataBus` |
| `X1000Ota` | the update client, its server and the network between them | |
| `X1000OtaProofs` | theorems about `X1000Ota` | `X1000Ota` |
| `MC*` | instances for TLC | |

Definitions have the name of the C function they translate, where there is one.
A definition `X_Something` marked *Mutant* is a faulty variant of `X`, kept to
show that the properties notice that kind of mistake.

### IpcCmd

A sender's `pc` walks through the statements of `ipc_send_cmd`: `p_send`
(P(SEND) with undo), `request` (the callback writes the buffer), `v_sread`,
`p_cread`, `response`, `v_send`. `semadj` is the kernel's undo adjustment. The
receiver's callback is split in two, reading the buffer and overwriting it,
because another process may write in between if the protocol fails. Messages
are abstracted to who sent them and which call they belong to: that is all that
"its own answer" needs. What the callback answers to something that is not a
request is either the message itself (the server's callback) or CMD_FAILED (a
client's, `Failed`). `lost` counts posted requests whose caller has gone.
Faults: `exit` (a sender's process ends anywhere), `eintr` (a signal interrupts
a sender that is blocked), `sigint` (the receiver is stopped), `destroy` (the
channel is removed while the receiver runs).

### IpcStartup

The kernel is `semKey`/`shmKey` (what a key leads to) and `semLive`/`shmLive`
(what exists). Each `semget`, `shmget`, `shmat`, `SETVAL` and `IPC_RMID` is one
step. Any process may start a server at any time. A server that stops removes its
set and then its segment; between the two (`closing` is that segment) the next
one may create its set, so two servers overlap there, and nowhere else, since a
server whose set exists makes every other start fail. The history variable `left`
holds the objects nobody is going to remove: what a killed server, a killed
lookup (`KillLookup`) or a server killed while it stops (`KillClosing`) leaves,
and what the second `semget` or `shmget` of a lookup creates. `lost` are the
clients whose posted request the server's `SETVAL` of `S_READ` has wiped out.

### ProcComm

A channel has a `lock` (who exchanges on it), a `slot` (`free`, `posted`,
`served`) and a buffer. A caller's `Post`, the receiver's callback and the
caller's `Return...` are separate steps, so all calls interleave. The server is
one process: while it relays (`serving`, `todo`, `posted`) it answers nobody.
`todo` is the part of `client_list` that `queue_foreach` has not come to, or the
one entry a relay to a single address is for; the list cannot change meanwhile.
`RelaySkip` passes over an entry that `broadcast_send_cb` sends nothing to.
P(SEND), the request and V(S_READ) are one step, and so are P(C_READ),
`response_cb` and V(SEND), except that the channel may be removed before the last
of these: then `response_cb` has run (the answer's code is stored, `dev_list` has
the channel) and the call fails none the less (`FailRelease`).
Addresses are values with a group (the first two bytes); `ViaServer` are
addresses which the client's broadcast predicate sends to the server and the
server's own predicate takes for a single client, which the code allows
because the two predicates are configured separately; in this repository both
are `is_broadcast_cb`, so nobody takes that path. An identifier 0, which
`ipc_cmd.c:63` takes for none, is given by the kernel only to the first object of
all, and the server's own objects are older than any client's. `CharIsSigned` is the
signedness of `char`, on which the wildcard comparison depends. An
uninitialised `data.err` is a free choice between success and failure.

### WiBusRecv, MsgHandle

Two threads (or several senders and a worker), each statement that touches
shared state a step. In `WiBusRecv` an operation under the mutex and the unlock
that follows it are one step, since nothing another thread does in between can
be told apart; taking the mutex, the `sem_post` after the unlock, and the user's
callback are steps of their own. The queue is a sequence. In `MsgHandle` no
`msg_send` is begun by another thread once the owner has begun to destroy the
handler and the owner begins when the others' calls have returned: the
interface cannot be used in any other way, because the handle is freed.

### DataBus

`up` and `down` are what is in the sockets of a connection, `fd` the server's
descriptor of it; `Accept` takes any number that is not open, so numbers are
used again. A package is a number: the n-th of its client. The sockets carry
bytes, and `bus_client_send` does not wait for the server: `Recv` takes what is
there, at most `BufSize` bytes (`MAX_BUF_SIZE`, 4096), and `Cut` is what
`srv_recv_cb` makes of them, packages of `PkgSize` bytes (524). When the last one
is split, its first part is thrown away and the next `recv` begins `off` bytes
into it: what is read then is `Garbled`, may name any device, and the connection
is in `torn` from there on. A `recv` that empties the socket brings the two back
into step.

`rpc` is where the receive thread of a connection is: `recv`, then for
each package `package` (the lookup), `dev_id` (dev_type has been written, dev_id
not yet), `callback`; at the end of file `discon`, `remove`, `close`. Without
memory `listen_thd` shuts the connection down and keeps its descriptor
(`leaked`). A `pthread_create` that fails is not noticed (`res < 0` is never
true, `af_server.c:107`): the connection is listed, nobody reads from it and
nobody closes it (`nothread`). The push
and the removal are two steps each, entering and leaving (`writer`); a thread
that accesses the list in between has met undefined behaviour, which ends the
run (`srv = "wild"`), as does the use of a freed entry, of a `calloc` that
failed in `srv_conn_cb` or of a callback that has not been set. A send to a
client that is gone kills the server by `SIGPIPE`. An
entry remembers in `conn` which connection it was made for, and a package of
`bus_server_send` in `for` whose descriptor was looked up; both are used by the
properties and, for `conn`, to tell whether an entry still exists.

`IdZero` stands for a half-written entry: the device of the same type with
`dev_id` 0, which is what `calloc` left there. Clients follow the comment "A
pair of dev_type and dev_id can only create one client" (`data_bus/data_bus.h`).

### X1000Ota

One `phase` per request: `enc`, `act`, `ver`; `waiting` says that it has been
sent. `Receive` is the whole of the polling loop's reaction to a datagram:
`recvfrom` (which overwrites the destination), `parse_package` (which sets the
offset) and the test for the answer asked for. Datagrams are records with the
port they go to, their sender, the command, the server's stamp and the part of
the data the code looks at. Their `kind` is what `parse_package` makes of them:
`package` is accepted, `refused` is not (a damaged one, or no package at all),
and `short` passes all tests although its length leaves no room for stamp,
command and checksum, so that `memcpy` gets a negative length
(`protocol.c:288`): undefined, `phase = "wild"`.

`parse_package` authenticates nobody. Other hosts may therefore send any
well-formed package to the port at any time (`Stray`), with a stamp of their
own, and the code accepts it as it does the server's; `foreign` remembers that
the round has done so. They may also send what is refused, too short or empty.
The kernel chooses the port of each round's socket: a new one or one that an
earlier round had (`used`), to which late answers may still be under way.

Polling has no clock of its own: `Timeout` may come whenever a request is being
waited for, late or early answers included. The server answers each request it
gets, once per copy. `Close` ends the round; the next has a new socket and a new
`protocol`, hence the server's address and no offset.

## 3. Runs

| run | instance | checks |
|---|---|---|
| `ipc_cmd_faults` | 2 senders, 3 calls each, all faults | `SendLock`, `TokensConserved`, `CallbacksExclusive`, `OwnAnswer`, `CallReturns` |
| `ipc_cmd_refines` | 3 senders, 2 calls each, receiver stopped, channel removed | `ImplementsRpc` |
| `proc_comm_bus` | 2 clients, 2 addresses, 3 channels, 2 sends; stop, interrupt, crash | `RegistryAgrees`, `RightRecipient`, `AcknowledgedMeansDelivered` |
| `proc_comm_three` | 3 clients in 2 groups, 1 send | `BroadcastComplete` |
| `proc_comm_live` | 2 clients, 2 channels, 2 sends; stop | `CallReturns` |
| `proc_comm_result` | 2 clients, no fault | `ResultTruthful` is violated |
| `ipc_startup_race` | 2 clients with 2 lookups each, 2 starts that may overlap; stop, kill of servers and lookups | `NoLeaks`, `RequestKept`, `OneExchange`, `NoWildServer`, `LookupServed` |
| `ipc_startup_wild` | the same without faults | `NoWildAccess` is violated |
| `msg_handle` | the owner and one thread, 3 messages each; no memory, interrupt | `InOrder`, `NoUseAfterFree`, `Flushed`, `DestroyReturns` |
| `wi_bus_recv` | 4 messages of either priority; no memory, interrupt | `NoLostWakeup`, `PriorityOrder`, `LowInOrder`, `EachOnce`, `NoUseAfterFree`, `AllDelivered` |
| `data_bus` | 2 connections of 2 devices, 2 descriptors, 1 and 4 packages, 1 package from the server; no memory, no thread | `EntriesAgree`, `MisdirectedOnly`, `CallbackReady`, `PackagesKept`, `DropsOnlyEarly`, `DescriptorReleased` |
| `x1000_ota` | 2 rounds, a clock of 2 values, 2 datagrams on their way, other hosts with a stamp of their own; all faults | `FreshAnswers`, `ClockTracked`, `RedirectContained`, `RoundEnds` |

The type invariants of the channel, of start-up, of the bus and of the data bus
are checked by the first run of each; those of all seven models are proved
(section 6).

Why the bounds are enough for the cases of interest. Two senders with three
calls let one die or be interrupted in any state while the other waits, then
find the lock returned and the abandoned answer in its way, and call again.
Three channels for two clients allow one of them to close and register again
while the other's cache still has the old channel. Three clients in two groups
let a broadcast reach one client, spare the sender and leave out a third.
Two lookups of two clients and two starts bring a lookup between any two steps
of creation, of removal and of the other lookup, and the second start between
the two removals of the first server; six objects of each kind are all
that two starts and four lookups can create. Four messages give every order of two high and two
low ones. Two connections suffice for the second to get the descriptor of the
first between any two steps of the first's threads or of `bus_server_send`; two
packages may come with one `recv` or with two. With packages of 2 bytes and a
buffer of 5 the third package that is waiting is split, as the eighth is in the
program (524 and 4096), and a fourth follows it. Two rounds let an answer, or a
copy of it, arrive in a later one, on a port of its own or on the same; one tick of the clock may fall anywhere, so a
round's length is 0 or 1; with a skew of 5 a wrong sign is noticed, and the
stamp 9 of other hosts is none the server ever writes. The
number of processes, calls, messages and faults is not bounded in
what section 6 proves, and that is every invariant of the runs that pass.

The clients are interchangeable in `proc_comm_bus` and `proc_comm_three`
(safety only); no other run uses symmetry.

Deadlock is not checked where a system may rightly stop: when every sender has
made its calls or died, or the server has stopped. `wi_bus_recv` checks it.

### What the runs say

* `SEND` is a lock that survives its holder's death. What does not survive is
  the exchange: after a sender has died or been interrupted between posting and
  being answered, its request or answer stays on the channel, and the next
  sender takes it for its own. `CallbacksExclusive` and `OwnAnswer` hold exactly
  as long as no request has been abandoned, `TokensConserved` holds always and
  counts the abandoned ones.
* `CallReturns` of the channel has one exception. A process interrupted while
  it waits for its answer returns from `ipc_send_cmd` with `SEND` held; until
  it exits, nobody can use the channel, itself included.
* `CallReturns` of the bus holds although the server waits for clients which
  wait for the server, because each client answers in a thread of its own. It
  is checked without crashes: a client that crashed stays registered, and the
  next broadcast that matches it leaves the server waiting for ever.
* `RightRecipient` holds in spite of stale caches, since a channel is removed
  when its client closes and its identifier is not used again in the model.
* `NoLeaks` names the ways in which an object stays behind under the key and
  keeps every later server from starting: a server killed, a lookup killed
  between its probe and the removal of what that created, and a lookup that
  found the object with its first `semget` or `shmget` and not with its second,
  which then creates it. It does not say that nothing leaks; it says that
  nothing leaks in any other way.
* `RequestKept` and `LookupServed` except a client that took `SEND` after the
  first of the server's `SETVAL`s and posted before the last: its request is
  wiped out, it waits for ever and keeps `SEND`. A request posted at any other
  time is kept.
* `NoWildServer` is what is left of `NoWildAccess` (section 4). With servers that
  overlap, a client may find the set of the new server and the segment of the old
  one; it then gets `SEND` and writes through a pointer that is not mapped. The
  property is about clients that found the segment of the last server.
* `NoUseAfterFree` of the message handler rests on the count of tokens: the
  worker takes one message per token, so it cannot reach DESTORY before the
  owner's `sem_post`, though DESTORY is visible earlier. A message dropped for
  lack of memory leaves its token behind and ends that argument.
* `PackagesKept` holds in full while no package of the connection has been split.
  After that packages are lost and garbled ones reach the callback, as the warning
  at `data_bus.c:62` says; what still arrives whole is in order and comes once.
  The pause of 50 ms in `bus_client_send` makes a split unlikely, nothing rules
  it out.
* `DropsOnlyEarly` and `EntriesAgree` say what the missing order between
  `connected_cb` and the receive thread costs: packages that arrive before the
  entry exists are dropped, and a connection that ends before it leaves an entry
  behind. The entry does no harm: it carries no device, and when its
  descriptor is used again it becomes the first entry of that descriptor and is
  labelled and removed in place of the new one. A garbled package may label an
  entry with any device.
* `MisdirectedOnly` names the three ways in which the data bus delivers to a wrong
  device: the looked-up connection ended and its descriptor was used again, the
  lookup fell between the writes of `dev_type` and `dev_id`, or a garbled package
  had labelled the entry.
* `CallbackReady` holds because the server knows a client only by its first
  package, which it sends after its callback was set; a misdirected package is
  the exception.
* `DescriptorReleased` has two exceptions that the code really has: without memory
  `shutdown` ends the connection and nothing closes its descriptor
  (`af_server.c:101`), and without a thread nobody ever reads the end of file
  (`af_server.c:107`).
* `FreshAnswers` says that the network alone, however it loses, delays, doubles or
  damages datagrams, never takes a round on. The exceptions are what the code
  cannot tell apart: a package of another host, a late answer on a port that was
  used before, and a round whose first `socket_send` failed, which
  `req_enc_conn` calls a success (`init_enc.c:12`). A duplicate of the answer
  to one request ends the next one with an error, so a round may fail although
  nothing was lost.
* `ClockTracked` holds also in a round that has accepted a package of another
  host, as soon as a request goes to the server again: the package that made the
  server the destination has set the offset, too.
* `RedirectContained`: `udp_recv` makes the sender of every datagram the
  destination of the next request (`socket_udp.c:64`). A request does go to
  another host when the round has accepted a package of one. That is the only
  way: a datagram that is refused ends the round, an empty one is followed by one
  that is not or by the time-out, and the next round has a new socket.
* `check_version` returns `CHK_VERSION_NO_NEW` when there is a new version and
  `CHK_VERSION_HAVE_NEW` otherwise (`chk_version.c:39` and `:42`). It has no
  effect yet, as the branch of `main` that compares with `CHK_VERSION_HAVE_NEW`
  is empty; the model does not carry the result.

## 4. Findings

1. `pc_c_send` returns `data.err` (`mem_share/src/proc_comm.c:868`), which is
   set only when the peer was looked up in this call. With a cached peer it is
   uninitialised, and a message that was delivered and acknowledged may be
   reported as failed; `main.c:52` gives up its series of messages then
   (`proc_comm_result`).
2. `ipc_shm.c:63` tests `shm->buf < 0` after `shmat`. The failure value
   `(void *)-1` never satisfies it. When two lookups race with the start of the
   server, one opens the segment the other has created as a probe, the other
   removes it, the attach fails unnoticed, and `request_cb` writes through the
   pointer (`ipc_startup_wild`). `NoWildServer` shows how far the code is safe
   none the less: the server removes the set before the segment, so whoever
   attached too late to the segment of the last server fails in `P(SEND)`. It
   does not cover a client that found the segment of the server before the last,
   which was on its way out, or the probe of another lookup.

## 5. Fairness

* A process or thread that can take a step takes it in the end: weak fairness.
  Beginning a call, faults, signals and the stopping of the server are never
  forced.
* Waiters of a System V semaphore are queued by the kernel: a sender that waits
  for `SEND` or `C_READ` is not passed over for ever, hence strong fairness of
  those two operations. The same is assumed of a pthread mutex.
* `DataBus`: the listen thread and each receive thread run as long as the server
  does. Clients and the caller of `bus_server_send` are never forced.
* `X1000Ota`: the device goes on, since `recvfrom` is called with
  `MSG_DONTWAIT` and no other call blocks. Network, server, other hosts and clock
  are not counted on: `RoundEnds` holds when nothing ever arrives.
* The process whose receive loop ended goes on to destroy its channel, as the
  callers of `pc_server_run` do. At start-up the removal of its segment has a
  fairness of its own, since the next server may be running by then.

## 6. Proofs

`IpcCmdProofs` proves, for any set of senders, any number of calls and any set
of faults, `TypeOK`, `SendLock`, `TokensConserved`, `CallbacksExclusive` and
`OwnAnswer`, and, for senders that neither die nor are interrupted
(`ReliableSenders`), that a channel implements `RpcChannel`. The assumptions are
`MaxCalls \in Nat` and `Faults \subseteq FaultKinds`.

The inductive invariant is

    IInv == TypeOK /\ SendLock /\ TokensConserved /\ OneSection
              /\ BusyOnlyFor /\ BufferContents /\ LostOnlyByFault

`SendLock` is inductive with the types alone and gives that only one sender is
between P(SEND) and V(SEND). It says nothing once the set has been removed, but
the sender in the section may still run its callback then: `OneSection` keeps
that part. The one sender in the section makes `TokensConserved` inductive: each
semop moves a token from one summand to another. With nothing abandoned the
tokens then say who may use the buffer: while a sender is in `request`,
`v_sread`, `response` or `v_send` there is no token, so the receiver is not busy
(`BusyOnlyFor`), and while it is in `p_cread` there is exactly one, whose place
determines what is in the buffer (`BufferContents`). The properties follow.
`LostOnlyByFault` lets the refinement start from `lost = 0`.

In the refinement a request has been served when its answer is in the buffer;
`RecvReply` is the step that maps to `Serve`, and that needs `BufferContents`.

`IpcStartupProofs` proves for any number of clients, lookups, starts and objects
and any faults `TypeOK`, `NoLeaks`, `OneExchange`, `RequestKept` and
`NoWildServer`. The invariant is

    IInv == TypeOK /\ SemOwner /\ ShmOwner /\ Fresh /\ OneHolder /\ Quiet
              /\ Early /\ RequestKept /\ FailedAttach

All objects are created under one key, so at most one set and one segment exist
at a time. `SemOwner` and `ShmOwner` say who is going to remove the one there is:
the server, one that is stopping, exactly one lookup that created it as a probe,
or nobody (`left`); only that one removes it, so the running server's objects
stay. `Fresh` makes `SEND` of a new set 0, `OneHolder` follows it through the
three `SETVAL`s: one client at most has it. `Early` says that a request that came
before the `SETVAL` of `S_READ` is posted until then, so that this `SETVAL` is the
only place where one is lost, and puts its sender into `lost`. `NoWildServer` is
the hardest: a client whose `shmat` failed on the server's segment must not get
`SEND`. It is not inductive, since such a client may hold the number of a set
created after the server went; `Quiet` says that while the last server's segment
is gone, or waits to be removed (`closing`), every set in the kernel has `SEND` =
0 and nobody is in an exchange on it, because only a server raises it and a
server has its own segment by then.

`ProcCommProofs` proves for any clients, addresses, groups, bounds and faults
`TypeOK`, `RegistryAgrees`, `RightRecipient`, `AcknowledgedMeansDelivered` and
`BroadcastComplete`. The assumptions are `ProcCommAssumption`: the bounds are
numbers, there is an address, `NoOne` and the server are not clients. Nothing is
assumed of `Group`, nor that a group differs from an address. The invariant is

    IInv == TypeOK /\ FreshChannels /\ UniqueIds /\ ListedChannels /\ Members
              /\ Calls /\ Caches /\ Locks /\ Relay /\ Carried /\ Delivered
              /\ Fresh /\ Acked /\ Broadcasts

`RegistryAgrees` is not inductive because the server changes `client_list` one
step before the client learns of it: `Members` says that the list holds the
channels of exactly those clients that are registered *or whose answer is under
way*, and `Served` (the answer is in the server's channel, its caller has not
come back) connects the two, after the server has stopped as well. `Locks` says
that whoever has `SEND` of a channel, removed or not, is in an exchange on it with
its own message in the buffer. A channel
keeps its address for ever, so a cached one, removed or not, is a channel of the
address it was cached under (`Caches`), and what is posted on it is for its owner
(`Carried`). That no message arrives twice needs that the one to be posted next
has not been seen by the channel before: `Fresh` says so of a message before its
first post and, for a relay, of every channel the walk has still to come to, which
are distinct (`Relay`). `Acked` and `Broadcasts` are `AcknowledgedMeansDelivered`
and `BroadcastComplete` stated from the moment the server takes the request up:
a matching client that is listed has the message or is still `Due`.

`WiBusRecvProofs` proves for any number of messages and any faults `TypeOK`,
`MutexHeld`, `NoLostWakeup`, `PriorityOrder`, `LowInOrder`, `EachOnce` and
`NoUseAfterFree`. The invariant for the first four is

    IInv == TypeOK /\ MutexHeld /\ NoLostWakeup /\ Newest /\ Popped /\ PriorityOrder

`PriorityOrder` is not inductive alone: a message pushed at either end keeps the
order only because it is newer than all in the list, which is `Newest`.
`Popped` says that the read thread has a message whenever it is going to use one.
`PushHead` and `PushTail` are the facts about the two queue operations that the
steps rest on.

The other three follow from a second invariant, inductive relative to `IInv`:

    JInv == Apart /\ NoTwice /\ NoUseAfterFree /\ Numbered /\ LowAhead /\ LowInOrder

`Apart` and `NoTwice` say that a message is in one place and there once, and that
the message the read thread holds has been delivered exactly when `recv_cb` has
returned: that is why freeing it loses nothing. `Numbered` makes the message
that arrives different from all others. `LowAhead` carries `LowInOrder` through
the hand-over: what was delivered or popped is older than every low message
still in the list, which `PriorityOrder` gives for the one that is popped.

`MsgHandleProofs` proves for any set of threads and any number of messages
`TypeOK`, `MutexHeld`, `InOrder`, `Flushed` and `NoUseAfterFree`. The invariant is

    IInv == TypeOK /\ MutexHeld /\ InOrder /\ Counted /\ Ending
              /\ DestoryLast /\ AtEnd

`NoUseAfterFree` is about a thread that still has to unlock or to post when the
worker frees the handler. `Counted` excludes it: as long as no message was
dropped, the queue is as long as the tokens of the semaphore, the threads between
their push and their `sem_post` and the worker's own token together. `Ending` says
that the owner is the only thread left when it sends DESTORY, `DestoryLast` that
nothing is queued behind it; so when the worker pops DESTORY the queue is empty,
every summand is zero and nobody is before a `sem_post`. `AtEnd` carries that to
the end. The count needs that the set of posting threads is finite, which it is
without any assumption on the set of threads: it grows by one thread at a time.

`DataBusProofs` proves for any connections, devices, descriptors and bounds
`TypeOK`, `EntriesAgree`, `MisdirectedOnly`, `DropsOnlyEarly`, `CallbackReady` and
`PackagesKept`. `DataBusAssumption` says of the sizes only that a package fits
into the buffer. The invariant for the first four is

    IInv == TypeOK /\ Buffers /\ Sockets /\ ListOK /\ ListenOK /\ SenderOK
              /\ MisdirectedOnly
    ListOK == EntriesAgree /\ FirstOnly /\ ClosedClean /\ LabelBegun
              /\ ListedServed /\ OneEntry

`Sockets`: open descriptors are distinct. `EntriesAgree` alone does not survive
`close`, since several entries may have the same descriptor: `FirstOnly` says
that of those only the first can be labelled, because `queue_find` takes the
first one for labelling and for removal alike, and `ClosedClean` that after the
removal none is. `ListedServed` (a connection that is being served and whose
`connected_cb` has returned has an entry) gives `DropsOnlyEarly`, `SenderOK` is
`MisdirectedOnly` for the package that `bus_server_send` has in hand.
`BySockFacts` and `RemoveFacts` state what `queue_find` and `queue_remove` do.
`Whole`, inductive with `IInv`, says that only a connection in `torn` is read at a
wrong offset or has garbled packages in its buffer: that is why all other
connections are labelled with their own device.

`CallbackReady` is inductive relative to `IInv` together with four facts of the
form "the client has spoken" (`KnownInv`): a client whose callback is not set has
sent nothing (`Spoken`), so no entry with its descriptor has a device
(`LabelKnown`), no lookup has found it (`LookedUp`), and no package in a socket was
meant for it (`DataKnown`).

`PackagesKept` needs that the receive buffer is empty when `recv` is called
(`Emptied`) and is otherwise an argument about sequences (`Flow`): `Kept`, a
rising sequence that, with what was dropped, makes up 1 to n, as long as no
package was split, and `Ordered` always. `KeptAppend` and `KeptDrop` say what
sending one more and dropping the buffer do to the one, `OrderedAppend`,
`OrderedDrop` and `OrderedGarble` what these and a `recv` at a wrong offset do to
the other. `RecvData` has the arithmetic of `recv`: how many packages are cut,
how many leave the socket and when the last one is split.

`X1000OtaProofs` proves for any bounds, any skew, any stamps of other hosts and
any faults `TypeOK`, `FreshAnswers`, `ClockTracked` and `RedirectContained`. The
invariant is

    IInv == TypeOK /\ InRound /\ RequestOrigin /\ AnswerOrigin /\ NewSocket
              /\ FreshAnswers /\ ClockTracked /\ RedirectContained

`AnswerOrigin` says of every package of the server that, if it goes to the port of
this round and that port is new, it answers a request of this round and was
stamped since the round began; it follows from what `RequestOrigin` says of the
requests. `NewSocket` gives `RedirectContained` its start: before the first request
of a round the destination is the server. From there on a datagram that leaves the
round in the next phase has been accepted, and it has set destination, offset and
`foreign` in one step.

Only model-checked: the liveness properties (`CallReturns` of the channel and of
the bus, `LookupServed`, `DestroyReturns`, `AllDelivered`, `DescriptorReleased`,
`RoundEnds`), since the prover does not reason about fairness; `ImplementsRpc`
with faults other than those of `ReliableSenders`, for which it does not hold; and
the two violations of section 4, which are counterexamples.

## 7. Not modelled

* Formatting of the messages, logging, sizes of buffers.
* Failing `malloc` in the bus and at start-up, and failing `semget`/`shmget` for
  reasons other than existence and the limit of the kernel.
* Crashes of a client inside a call to the bus (inside a call to a channel they
  are `IpcCmd`'s), and several sending threads in one client.
* Reuse of the identifier of a removed semaphore set by the kernel, and the
  identifier 0 (section 2).
* `wi_bus_list`, `wi_unregister` and the disconnect callback of `wi_bus.c`. A
  call of `wi_unregister` frees what the read thread sleeps on, so with that
  thread alive it is undefined whatever the order of steps; its only callers
  pass NULL and return before anything is freed.
* The pointers of the linked lists: `queue.c` is adapted from BlueZ.
* In the data bus: `tcps_close` and `tcpc_close`, which nobody calls; a `send` that
  writes a part of a package; several threads in `bus_server_send`.
* In the update client: encoding, digest and encryption of the packages (a
  damaged one is a package that `parse_package` refuses); `req_new_aes_key`,
  which nobody calls; what the server makes of the stamp in a request; a host that
  sends with the server's address; the result of `check_version`; a device that
  is activated already, which `read_ota_para` never reports.
* `uart_test` (its table of event handlers is empty, so it has no protocol
  state) and `rb_tree` (sequential, adapted from a published implementation).
* The other programs of the repository: demonstrations, device tools, exercises,
  kernel templates, Android applications and third-party code. They make up
  nearly all of its lines: libjpeg, BlueZ, the Broadcom BSA headers, HTTPClient,
  lodepng and minimp3 alone are most of them. `PROJECT.json` lists them with
  the reason.

## 8. Plan

Done, in this order: the channel with its abstract specification and proofs;
the bus on top of it; start-up; the receive path with proofs; the message
handler with proofs; the data bus with proofs; the update client with proofs;
proofs about start-up, the rest of the data bus and the bus.

Left: action properties that the invariants imply and no run states (an entry
once labelled keeps its device, a channel once gone stays gone), and the safety
half of the liveness properties (what a stuck call would have to wait for).

