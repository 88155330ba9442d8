-------------------------- MODULE ProcCommProofs --------------------------
(***************************************************************************)
(* Proofs about ProcComm for any clients, addresses, groups, bounds and    *)
(* faults.  One inductive invariant, IInv, serves all five theorems:       *)
(*  - who is registered (Members) is said of a client together with the    *)
(*    answer that is on its way to it, because client_list and the client  *)
(*    change at different steps of an exchange;                            *)
(*  - what a channel carries (Carried, Delivered) is for its owner, because*)
(*    a channel keeps its address for ever (Caches) even when it is gone;  *)
(*  - nothing arrives twice because a message that is still to be posted   *)
(*    has been seen nowhere it may go (Fresh);                             *)
(*  - Acked and Broadcasts follow an acknowledgement from recv_cb through  *)
(*    the walk of broadcast_send and the server's answer to ret_cb.        *)
(* Each action has a lemma of its own; what groups of actions leave alone  *)
(* is said once, in the lemmas named ...Frame.                             *)
(***************************************************************************)
EXTENDS ProcComm, SequenceTheorems, TLAPS

-----------------------------------------------------------------------------
\* The inductive invariant.

Entry == [id : Ids, ch : Chan \ {Srv}]

\* The server has answered p, who has not come back from ipc_send_cmd yet.
Served(p) == chan[Srv].lock = p /\ chan[Srv].slot = "served"

\* Client p is registered with address i and channel k, as it knows or as the
\* answer to pc_req_create_client, which is there, will tell it.
Has(p, i, k) ==
  \/ /\ \/ cl[p].op \in {"attach", "idle", "get", "p2p", "bcast", "dead"}
        \/ cl[p].op = "close" /\ ~Served(p)
     /\ cl[p].id = i /\ cl[p].ch = k
  \/ /\ cl[p].op = "create" /\ Served(p) /\ reply.ok
     /\ cl[p].dst = i /\ reply.ch = k

Listed(i, k) == \E j \in DOMAIN reg : reg[j].id = i /\ reg[j].ch = k

\* Nothing has happened on a channel that has not been created.
FreshChannels ==
  /\ chan[Srv].owner = NoOne
  /\ \A k \in Chan : k > nchan =>
       /\ chan[k].owner = NoOne /\ chan[k].lock = NoOne /\ chan[k].slot = "free"
       /\ chan[k].buf = NoMsg /\ ~chan[k].gone /\ dlv[k] = <<>>

\* Addresses are listed once, with their own channel, which exists.
UniqueIds == \A j, k \in DOMAIN reg : reg[j].id = reg[k].id => j = k

ListedChannels ==
  \A i \in Ids, k \in Chan : Listed(i, k) =>
    k # Srv /\ k <= nchan /\ chan[k].id = i /\ ~chan[k].gone

\* While the server runs, the list holds the members' channels and no others.
Members ==
  up =>
    /\ \A p \in Clients, i \in Ids, k \in Chan :
         Has(p, i, k) => Listed(i, k) /\ chan[k].owner = p
    /\ \A i \in Ids, k \in Chan : Listed(i, k) =>
         \E p \in Clients : Has(p, i, k)

\* How far a call has come decides what its target and its destination are.
Call(p) ==
  /\ cl[p].op \in {"create", "get", "bcast", "close"} => cl[p].tgt = Srv
  /\ cl[p].op = "create" => cl[p].dst \in Ids
  /\ cl[p].op \in {"get", "p2p"} => cl[p].dst \in Ids /\ ~is_broadcast_cb(cl[p].dst)
  /\ cl[p].op = "bcast" => is_broadcast_cb(cl[p].dst) \/ cl[p].dst \in Ids
  /\ cl[p].op \in {"get", "p2p", "bcast"} => cl[p].n > 0
  /\ cl[p].op \in {"none", "create", "attach", "get", "p2p", "bcast"} =>
       cl[p].status = "none"
  /\ cl[p].op = "p2p" =>
       cl[p].tgt # Srv /\ cl[p].tgt <= nchan /\ chan[cl[p].tgt].id = cl[p].dst
  /\ cl[p].op = "get" /\ Served(p) /\ reply.ok =>
       reply.ch # Srv /\ reply.ch <= nchan /\ chan[reply.ch].id = cl[p].dst
  /\ cl[p].n <= nsent

Calls == \A p \in Clients : Call(p)

\* A channel in dev_list, be it removed by now, is one of that address.
Caches ==
  \A p \in Clients, i \in Ids : cl[p].cache[i] # 0 =>
    cl[p].cache[i] <= nchan /\ chan[cl[p].cache[i]].id = i

\* Who holds SEND of a channel, removed or not, is in an exchange on it.
Locks ==
  /\ up <=> ~chan[Srv].gone
  /\ chan[Srv].lock # "server"
  /\ \A k \in Chan :
       /\ chan[k].slot = "free" <=> chan[k].lock = NoOne
       /\ chan[k].buf # NoMsg => chan[k].buf.n <= nsent
       /\ \A p \in Clients : chan[k].lock = p =>
            /\ cl[p].op \in Pending /\ cl[p].tgt = k
            /\ cl[p].op \in {"p2p", "bcast"} => chan[k].buf = TheMessage(p)

\* The walk over client_list has still to come to address i with channel k.
Due(i, k) == \E j \in DOMAIN todo : todo[j].id = i /\ todo[j].ch = k

\* A relay is part of the server's answer to a request; the clients still to
\* come are listed, each once.
Relay ==
  /\ serving = NoOne => todo = <<>> /\ ~posted
  /\ serving # NoOne =>
       /\ up /\ chan[Srv].lock = serving /\ chan[Srv].slot = "posted"
       /\ cl[serving].op = "bcast"
       /\ \A i \in Ids, k \in Chan : Due(i, k) =>
            /\ Listed(i, k)
            /\ is_broadcast_cb(cl[serving].dst) \/ cl[serving].dst = i
  /\ \A i, j \in DOMAIN todo : todo[i].ch = todo[j].ch => i = j
  /\ posted => /\ todo # <<>>
               /\ chan[Head(todo).ch].lock = "server"
               /\ chan[Head(todo).ch].buf = TheMessage(serving)

\* Message m may be handed over on channel k.
Right(m, k) ==
  /\ \/ m.to = chan[k].id
     \/ is_broadcast_cb(m.to) /\ is_bc_match_cb(m.to, chan[k].id)
  /\ is_broadcast_cb(m.to) => m.from # chan[k].owner

\* What is posted to a client is for it, and it gets it once.
Carried ==
  \A k \in Chan \ {Srv} : chan[k].slot # "free" =>
    /\ chan[k].buf # NoMsg
    /\ Right(chan[k].buf, k)
    /\ chan[k].slot = "served" <=> chan[k].buf \in Range(dlv[k])

Delivered ==
  \A k \in Chan : \A x \in DOMAIN dlv[k] :
    /\ Right(dlv[k][x], k)
    /\ dlv[k][x].n <= nsent
    /\ \A y \in DOMAIN dlv[k] : dlv[k][y] = dlv[k][x] => x = y

\* Channel k has not seen the message of p.
Unseen(p, k) == TheMessage(p) \notin Range(dlv[k]) /\ chan[k].buf # TheMessage(p)

\* A message not yet posted has been seen nowhere it may be posted to.
Unsent(p) ==
  /\ cl[p].op = "get" => \A k \in Chan \ {Srv} : Unseen(p, k)
  /\ cl[p].op = "p2p" => \A k \in Chan \ {Srv} :
       cl[p].tgt = k /\ chan[k].lock # p => Unseen(p, k)
  /\ cl[p].op = "bcast" /\ up /\ serving # p /\ ~Served(p) =>
       \A k \in Chan \ {Srv} : Unseen(p, k)

\* The relayed message is still to be posted on channel k.
Waiting(k) == \E j \in DOMAIN todo : todo[j].ch = k /\ ~(j = 1 /\ posted)

Fresh ==
  \A p \in Clients :
    /\ Unsent(p)
    /\ serving = p => \A k \in Chan \ {Srv} : Waiting(k) => Unseen(p, k)

\* The message of p has arrived at its destination.
Arrived(p) ==
  \E k \in Chan : chan[k].id = cl[p].dst /\ TheMessage(p) \in Range(dlv[k])

Acked ==
  \A p \in Clients :
    \/ cl[p].op = "idle" /\ cl[p].status = "ok"
    \/ cl[p].op = "bcast" /\ (serving = p \/ Served(p)) /\ reply.ok
    => is_broadcast_cb(cl[p].dst) \/ Arrived(p)

\* The broadcast of p has reached or is to reach every matching client.
Spread(p) ==
  \A i \in Ids, k \in Chan :
    Listed(i, k) /\ k # cl[p].ch /\ is_bc_match_cb(cl[p].dst, i) =>
      \/ TheMessage(p) \in Range(dlv[k])
      \/ serving = p /\ Due(i, k)

Broadcasts ==
  "interrupt" \notin Faults =>
    \A p \in Clients :
      /\ cl[p].op = "bcast" /\ is_broadcast_cb(cl[p].dst)
      /\ serving = p \/ Served(p)
      => Spread(p)

IInv ==
  /\ TypeOK /\ FreshChannels /\ UniqueIds /\ ListedChannels /\ Members /\ Calls
  /\ Caches /\ Locks /\ Relay /\ Carried /\ Delivered /\ Fresh /\ Acked
  /\ Broadcasts

-----------------------------------------------------------------------------
\* client_list

\* With each address listed once, find_client finds the channel it is listed
\* with, and 0 for an address that is not listed.
LEMMA Found ==
  ASSUME reg \in Seq(Entry), UniqueIds, NEW i
  PROVE  /\ \A k : Listed(i, k) => find_client(i) = k /\ i \in Ids /\ k \in Chan \ {Srv}
         /\ find_client(i) # 0 => Listed(i, find_client(i))
         /\ find_client(i) \in Chan
PROOF
  <1> DEFINE First(k) == /\ reg[k].id = i
                         /\ \A j \in DOMAIN reg : reg[j].id = i => k <= j
             f == CHOOSE k \in DOMAIN reg : First(k)
  <1>1. reg \in [DOMAIN reg -> Entry] /\ DOMAIN reg \subseteq Nat
    BY LenProperties
  <1>2. ASSUME NEW k \in DOMAIN reg, reg[k].id = i
        PROVE  f = k
    <2>1. First(k)
      BY <1>1, <1>2 DEF UniqueIds
    <2>2. f \in DOMAIN reg /\ First(f)
      BY <2>1
    <2> QED
      BY <1>2, <2>2 DEF UniqueIds
  <1>3. CASE \E k \in DOMAIN reg : reg[k].id = i
    <2>1. PICK k \in DOMAIN reg : reg[k].id = i
      BY <1>3
    <2>2. f = k
      BY <2>1, <1>2
    <2>3. find_client(i) = reg[k].ch
      BY <2>1, <2>2 DEF find_client
    <2> HIDE DEF f, First
    <2> QED
      BY <1>1, <1>2, <2>1, <2>2, <2>3 DEF Listed, Entry, UniqueIds, Srv
  <1>4. CASE ~ \E k \in DOMAIN reg : reg[k].id = i
    BY <1>4, ProcCommAssumption DEF find_client, Listed, Chan
  <1> QED
    BY <1>3, <1>4

\* Each channel is listed once.
LEMMA OneChannel ==
  ASSUME reg \in Seq(Entry), UniqueIds, ListedChannels,
         NEW j \in DOMAIN reg, NEW k \in DOMAIN reg, reg[j].ch = reg[k].ch
  PROVE  j = k
PROOF
  <1>1. reg[j] \in Entry /\ reg[k] \in Entry
    BY LenProperties
  <1>2. Listed(reg[j].id, reg[j].ch) /\ Listed(reg[k].id, reg[k].ch)
    BY DEF Listed
  <1>3. reg[j].id = reg[k].id
    BY <1>1, <1>2 DEF ListedChannels, Entry
  <1> QED
    BY <1>3 DEF UniqueIds

LEMMA ListAppend ==
  ASSUME reg \in Seq(Entry), UniqueIds, NEW i \in Ids, NEW k \in Chan \ {Srv},
         find_client(i) = 0, reg' = add_client(i, k)
  PROVE  /\ reg' \in Seq(Entry) /\ UniqueIds'
         /\ \A j, l : Listed(j, l)' <=> Listed(j, l) \/ (j = i /\ l = k)
PROOF
  <1> DEFINE e == [id |-> i, ch |-> k]
  <1>1. e \in Entry
    BY DEF Entry
  <1>2. /\ reg' \in Seq(Entry) /\ Len(reg') = Len(reg) + 1
        /\ \A m \in 1..Len(reg) : reg'[m] = reg[m]
        /\ reg'[Len(reg) + 1] = e
    BY <1>1, AppendProperties DEF add_client
  <1>3. /\ DOMAIN reg = 1..Len(reg) /\ DOMAIN reg' = 1..(Len(reg) + 1)
        /\ Len(reg) \in Nat
    BY <1>2, LenProperties
  <1>4. \A m \in DOMAIN reg : reg[m].id # i
    <2> SUFFICES ASSUME NEW m \in DOMAIN reg, reg[m].id = i
                 PROVE  FALSE
      OBVIOUS
    <2>1. Listed(i, reg[m].ch)
      BY DEF Listed
    <2> QED
      BY <2>1, Found DEF Srv
  <1>5. UniqueIds'
    BY <1>2, <1>3, <1>4 DEF UniqueIds
  <1>6. ASSUME NEW j, NEW l
        PROVE  Listed(j, l)' <=> Listed(j, l) \/ (j = i /\ l = k)
    <2>1. ASSUME Listed(j, l)'
          PROVE  Listed(j, l) \/ (j = i /\ l = k)
      BY <2>1, <1>2, <1>3 DEF Listed
    <2>2. ASSUME Listed(j, l)
          PROVE  Listed(j, l)'
      BY <2>2, <1>2, <1>3 DEF Listed
    <2>3. ASSUME j = i, l = k
          PROVE  Listed(j, l)'
      <3>1. Len(reg) + 1 \in DOMAIN reg'
        BY <1>3
      <3> QED
        BY <2>3, <3>1, <1>2 DEF Listed
    <2> QED
      BY <2>1, <2>2, <2>3
  <1> QED
    BY <1>2, <1>5, <1>6

\* A sequence without its element m.
LEMMA WithoutOne ==
  ASSUME NEW S, NEW s \in Seq(S), NEW m \in 1..Len(s)
  PROVE  /\ RemoveAt(s, m) \in Seq(S)
         /\ Len(RemoveAt(s, m)) = Len(s) - 1
         /\ \A j \in 1..(Len(s) - 1) :
              RemoveAt(s, m)[j] = IF j < m THEN s[j] ELSE s[j + 1]
PROOF
  <1> DEFINE u == SubSeq(s, 1, m - 1)
             v == SubSeq(s, m + 1, Len(s))
  <1>0. Len(s) \in Nat /\ m \in Int /\ \A j \in 1..Len(s) : s[j] \in S
    BY LenProperties
  <1>1. /\ u \in Seq(S) /\ Len(u) = m - 1
        /\ \A j \in 1..(m - 1) : u[j] = s[j]
    <2>1. \A j \in 1..(m - 1) : s[j] \in S
      BY <1>0
    <2>2. /\ u \in Seq(S) /\ Len(u) = IF 1 <= m - 1 THEN (m - 1) - 1 + 1 ELSE 0
          /\ \A j \in 1..((m - 1) - 1 + 1) : u[j] = s[1 + j - 1]
      BY <1>0, <2>1, SubSeqProperties
    <2> QED
      BY <1>0, <2>2
  <1>2. /\ v \in Seq(S) /\ Len(v) = Len(s) - m
        /\ \A j \in 1..(Len(s) - m) : v[j] = s[m + j]
    <2>1. \A j \in (m + 1)..Len(s) : s[j] \in S
      BY <1>0
    <2>2. /\ v \in Seq(S)
          /\ Len(v) = IF m + 1 <= Len(s) THEN Len(s) - (m + 1) + 1 ELSE 0
          /\ \A j \in 1..(Len(s) - (m + 1) + 1) : v[j] = s[(m + 1) + j - 1]
      BY <1>0, <2>1, SubSeqProperties
    <2> QED
      BY <1>0, <2>2
  <1>3. RemoveAt(s, m) = u \o v
    BY DEF RemoveAt
  <1> HIDE DEF u, v
  <1>4. /\ u \o v \in Seq(S) /\ Len(u \o v) = Len(u) + Len(v)
        /\ \A j \in 1..(Len(u) + Len(v)) :
             (u \o v)[j] = IF j <= Len(u) THEN u[j] ELSE v[j - Len(u)]
    BY <1>1, <1>2, ConcatProperties
  <1>5. ASSUME NEW j \in 1..(Len(s) - 1)
        PROVE  (u \o v)[j] = IF j < m THEN s[j] ELSE s[j + 1]
    <2>1. CASE j < m
      BY <1>0, <1>1, <1>2, <1>4, <2>1
    <2>2. CASE ~(j < m)
      <3>1. (u \o v)[j] = v[j - (m - 1)] /\ j - (m - 1) \in 1..(Len(s) - m)
        BY <1>0, <1>1, <1>2, <1>4, <2>2
      <3>2. v[j - (m - 1)] = s[m + (j - (m - 1))]
        BY <1>2, <3>1
      <3>3. m + (j - (m - 1)) = j + 1
        BY <1>0
      <3> QED
        BY <2>2, <3>1, <3>2, <3>3
    <2> QED
      BY <2>1, <2>2
  <1> QED
    BY <1>0, <1>1, <1>2, <1>3, <1>4, <1>5

LEMMA ListRemove ==
  ASSUME reg \in Seq(Entry), UniqueIds, ListedChannels, NEW i, NEW k,
         Listed(i, k), reg' = remove_client(k)
  PROVE  /\ reg' \in Seq(Entry) /\ UniqueIds'
         /\ \A j, l : Listed(j, l)' <=> Listed(j, l) /\ l # k
PROOF
  <1>1. PICK m \in DOMAIN reg : reg[m].ch = k
    BY DEF Listed
  <1>2. \A x \in DOMAIN reg : reg[x].ch = k => x = m
    BY <1>1, OneChannel
  <1>3. (CHOOSE x \in DOMAIN reg : reg[x].ch = k) = m
    BY <1>1, <1>2
  <1>4. DOMAIN reg = 1..Len(reg) /\ Len(reg) \in Nat
    BY LenProperties
  <1>5. /\ reg' \in Seq(Entry) /\ Len(reg') = Len(reg) - 1
        /\ \A j \in 1..(Len(reg) - 1) :
             reg'[j] = IF j < m THEN reg[j] ELSE reg[j + 1]
    <2>1. reg' = RemoveAt(reg, m) /\ m \in 1..Len(reg)
      BY <1>3, <1>4 DEF remove_client
    <2> QED
      BY <2>1, WithoutOne
  <1>6. DOMAIN reg' = 1..(Len(reg) - 1)
    BY <1>5, LenProperties
  <1> DEFINE f(j) == IF j < m THEN j ELSE j + 1
  <1>7. \A j \in DOMAIN reg' : f(j) \in DOMAIN reg /\ f(j) # m /\ reg'[j] = reg[f(j)]
    BY <1>4, <1>5, <1>6
  <1>8. \A j, l \in DOMAIN reg' : f(j) = f(l) => j = l
    BY <1>4, <1>6
  <1>9. \A x \in DOMAIN reg : x # m => \E j \in DOMAIN reg' : f(j) = x
    <2> SUFFICES ASSUME NEW x \in DOMAIN reg, x # m
                 PROVE  \E j \in DOMAIN reg' : f(j) = x
      OBVIOUS
    <2>1. CASE x < m
      BY <2>1, <1>4, <1>6
    <2>2. CASE x > m
      <3>1. x - 1 \in DOMAIN reg' /\ f(x - 1) = x
        BY <2>2, <1>4, <1>6
      <3> QED
        BY <3>1
    <2> QED
      BY <2>1, <2>2, <1>4
  <1> HIDE DEF f
  <1>10. UniqueIds'
    BY <1>7, <1>8 DEF UniqueIds
  <1>11. ASSUME NEW j, NEW l
         PROVE  Listed(j, l)' <=> Listed(j, l) /\ l # k
    <2>1. ASSUME Listed(j, l)'
          PROVE  Listed(j, l) /\ l # k
      BY <2>1, <1>2, <1>7 DEF Listed
    <2>2. ASSUME Listed(j, l), l # k
          PROVE  Listed(j, l)'
      <3>1. PICK x \in DOMAIN reg : reg[x].id = j /\ reg[x].ch = l
        BY <2>2 DEF Listed
      <3>2. PICK y \in DOMAIN reg' : f(y) = x
        BY <2>2, <3>1, <1>1, <1>9
      <3> QED
        BY <3>1, <3>2, <1>7 DEF Listed
    <2> QED
      BY <2>1, <2>2
  <1> QED
    BY <1>5, <1>10, <1>11

LEMMA ListTail ==
  ASSUME reg \in Seq(Entry), UniqueIds, ListedChannels, reg # <<>>,
         reg' = Tail(reg)
  PROVE  /\ reg' \in Seq(Entry) /\ UniqueIds' /\ Head(reg) \in Entry
         /\ \A j, l : Listed(j, l)' => Listed(j, l) /\ l # Head(reg).ch
PROOF
  <1>1. /\ reg' \in Seq(Entry) /\ Len(reg') = Len(reg) - 1 /\ Head(reg) \in Entry
        /\ \A j \in 1..Len(reg') : reg'[j] = reg[j + 1]
    BY HeadTailProperties
  <1>2. /\ DOMAIN reg = 1..Len(reg) /\ DOMAIN reg' = 1..Len(reg')
        /\ Len(reg) \in Nat \ {0} /\ Head(reg) = reg[1]
    BY <1>1, LenProperties, EmptySeq
  <1> DEFINE f(j) == j + 1
  <1>3. \A j \in DOMAIN reg' : f(j) \in DOMAIN reg /\ f(j) # 1 /\ reg'[j] = reg[f(j)]
    BY <1>1, <1>2
  <1>4. \A j, l \in DOMAIN reg' : f(j) = f(l) => j = l
    BY <1>1, <1>2
  <1>5. 1 \in DOMAIN reg
    BY <1>2
  <1> HIDE DEF f
  <1>6. UniqueIds'
    BY <1>3, <1>4 DEF UniqueIds
  <1>7. ASSUME NEW j, NEW l, Listed(j, l)'
        PROVE  Listed(j, l) /\ l # Head(reg).ch
    <2>1. PICK x \in DOMAIN reg' : reg'[x].id = j /\ reg'[x].ch = l
      BY <1>7 DEF Listed
    <2>2. f(x) \in DOMAIN reg /\ reg[f(x)].id = j /\ reg[f(x)].ch = l /\ f(x) # 1
      BY <2>1, <1>3
    <2>3. reg[f(x)].ch # reg[1].ch
      BY <2>2, <1>5, OneChannel
    <2> QED
      BY <2>2, <2>3, <1>2 DEF Listed
  <1> QED
    BY <1>1, <1>6, <1>7

-----------------------------------------------------------------------------
\* What a step changes.

\* SEND, the turn and the buffer of channel k are set; nothing else of the
\* channels changes.
ChanSet(k, l, s, b) ==
  /\ \A j \in Chan : j # k => chan'[j] = chan[j]
  /\ chan'[k].lock = l /\ chan'[k].slot = s /\ chan'[k].buf = b
  /\ chan'[k].id = chan[k].id /\ chan'[k].owner = chan[k].owner
  /\ chan'[k].gone = chan[k].gone

Holder == Clients \cup {NoOne, "server"}
Slot == {"free", "posted", "served"}
Buffer == Message \cup {NoMsg}

LEMMA SetChannel ==
  ASSUME chan \in [Chan -> Channel], NEW k \in Chan,
         NEW l \in Holder, NEW s \in Slot, NEW b \in Buffer,
         chan' = [chan EXCEPT ![k].lock = l, ![k].slot = s, ![k].buf = b]
  PROVE  chan' \in [Chan -> Channel] /\ ChanSet(k, l, s, b)
PROOF
  <1>1. chan[k] \in Channel
    OBVIOUS
  <1>2. chan'[k] = [chan[k] EXCEPT !.lock = l, !.slot = s, !.buf = b]
    OBVIOUS
  <1>3. chan'[k] \in Channel
    <2>1. /\ chan[k].id \in Ids \cup {NoOne} /\ chan[k].owner \in Clients \cup {NoOne}
          /\ chan[k].gone \in BOOLEAN
      BY ONLY <1>1 DEF Channel
    <2>2. chan'[k] = [id |-> chan[k].id, owner |-> chan[k].owner,
                      gone |-> chan[k].gone, lock |-> l, slot |-> s, buf |-> b]
      BY ONLY <1>1, <1>2 DEF Channel
    <2> QED
      BY ONLY <2>1, <2>2, l \in Holder, s \in Slot, b \in Buffer
         DEF Channel, Holder, Slot, Buffer
  <1>4. /\ chan'[k].lock = l /\ chan'[k].slot = s /\ chan'[k].buf = b
        /\ chan'[k].id = chan[k].id /\ chan'[k].owner = chan[k].owner
        /\ chan'[k].gone = chan[k].gone
    BY ONLY <1>1, <1>2 DEF Channel
  <1>5. \A j \in Chan : j # k => chan'[j] = chan[j]
    OBVIOUS
  <1> QED
    BY <1>3, <1>4, <1>5 DEF ChanSet

LEMMA SetSlot ==
  ASSUME chan \in [Chan -> Channel], NEW k \in Chan, NEW s \in Slot,
         chan' = [chan EXCEPT ![k].slot = s]
  PROVE  /\ chan' \in [Chan -> Channel]
         /\ ChanSet(k, chan[k].lock, s, chan[k].buf)
PROOF
  <1>1. chan[k] \in Channel
    OBVIOUS
  <1>2. chan'[k] = [chan[k] EXCEPT !.slot = s]
    OBVIOUS
  <1>3. chan'[k] \in Channel /\ ChanSet(k, chan[k].lock, s, chan[k].buf)
    BY <1>1, <1>2 DEF Channel, ChanSet, Slot
  <1> QED
    BY <1>3 DEF ChanSet

LEMMA ServerChannel == Srv \in Chan /\ Chan \subseteq Nat
PROOF
  BY ProcCommAssumption DEF Srv, Chan

LEMMA NoMessage == NoMsg \notin Message
PROOF
  BY ProcCommAssumption DEF NoMsg, Message

LEMMA NoClientFields ==
  /\ NoClient \in Client
  /\ NoClient.op = "none" /\ NoClient.n = 0 /\ NoClient.status = "none"
  /\ \A i \in Ids : NoClient.cache[i] = 0
PROOF
  <1>1. (CHOOSE i \in Ids : TRUE) \in Ids
    BY ProcCommAssumption
  <1> QED
    BY <1>1, ProcCommAssumption DEF NoClient, Client, Pending, Chan, Dest

LEMMA MessageOf ==
  ASSUME TypeOK, NEW p \in Clients, cl[p].n > 0
  PROVE  /\ TheMessage(p) \in Message /\ TheMessage(p).from = p
         /\ TheMessage(p).n = cl[p].n /\ TheMessage(p).to = cl[p].dst
PROOF
  <1>1. cl[p] \in Client
    BY DEF TypeOK
  <1>2. cl[p].n \in 1..MaxSends /\ cl[p].dst \in Dest
    BY <1>1, ProcCommAssumption DEF Client
  <1> QED
    BY <1>2 DEF TheMessage, Message

\* Messages of different clients differ, and none is the empty buffer.
LEMMA MessagesDiffer ==
  ASSUME NEW p \in Clients
  PROVE  /\ TheMessage(p) # NoMsg
         /\ \A q \in Clients : q # p => TheMessage(p) # TheMessage(q)
PROOF
  <1>1. \A q \in Clients : TheMessage(q).from = q
    BY DEF TheMessage
  <1>2. NoMsg.from = NoOne
    BY DEF NoMsg
  <1> QED
    BY <1>1, <1>2, ProcCommAssumption

LEMMA DeliveredMessage ==
  ASSUME TypeOK, NEW k \in Chan, NEW x \in DOMAIN dlv[k]
  PROVE  dlv[k][x] \in Message /\ dlv[k][x].n \in Nat
PROOF
  <1>1. dlv[k] \in Seq(Message)
    BY DEF TypeOK
  <1>2. dlv[k][x] \in Message
    BY <1>1, LenProperties
  <1> QED
    BY <1>2, ProcCommAssumption DEF Message

\* The client the walk has come to.
LEMMA HeadOfTodo ==
  ASSUME TypeOK, todo # <<>>
  PROVE  /\ Head(todo) \in Entry /\ Head(todo) = todo[1] /\ 1 \in DOMAIN todo
         /\ Head(todo).id \in Ids /\ Head(todo).ch \in Chan \ {Srv}
         /\ Due(Head(todo).id, Head(todo).ch)
PROOF
  <1>1. todo \in Seq(Entry)
    BY DEF TypeOK, Entry
  <1>2. Head(todo) \in Entry
    BY <1>1, HeadTailProperties
  <1>3. Len(todo) \in Nat \ {0} /\ DOMAIN todo = 1..Len(todo)
    BY <1>1, EmptySeq, LenProperties
  <1>4. Head(todo) = todo[1] /\ 1 \in DOMAIN todo
    BY <1>1, <1>3
  <1> QED
    BY <1>2, <1>4 DEF Entry, Due

-----------------------------------------------------------------------------
\* The steps of a client's exchange.

LEMMA PostStep ==
  ASSUME IInv, NEW p \in Clients, Post(p)
  PROVE  IInv'
PROOF
  <1> DEFINE k == cl[p].tgt
             b == IF cl[p].op \in {"p2p", "bcast"} THEN TheMessage(p) ELSE NoMsg
  <1>0. TypeOK /\ Call(p) /\ cl[p] \in Client /\ Srv \in Chan /\ Srv <= nchan
    BY ServerChannel DEF IInv, TypeOK, Calls, Srv, Chan
  <1>1. /\ k \in Chan /\ k <= nchan /\ cl[p].op \in Pending
        /\ (k = Srv <=> cl[p].op # "p2p")
    BY <1>0 DEF Post, Call, Client, Pending
  <1>2. /\ b \in Buffer /\ (cl[p].op \in {"p2p", "bcast"} => b \in Message)
    BY <1>0, MessageOf DEF Call, Buffer
  <1>3. chan' \in [Chan -> Channel] /\ ChanSet(k, p, "posted", b)
    <2>1. chan' = [chan EXCEPT ![k].lock = p, ![k].slot = "posted", ![k].buf = b]
      BY DEF Post
    <2> QED
      BY <2>1, <1>0, <1>1, <1>2, SetChannel DEF TypeOK, Holder, Slot
  <1>4. /\ chan[k].lock = NoOne /\ ~chan[k].gone
        /\ UNCHANGED <<up, reg, nchan, serving, todo, posted, reply, cl, nsent, dlv>>
    BY DEF Post, srvVars
  <1>b. /\ cl[p].op \in {"p2p", "bcast"} => b = TheMessage(p)
        /\ b # NoMsg => b = TheMessage(p) /\ cl[p].op \in {"p2p", "bcast"}
    OBVIOUS
  <1>k. cl[p].tgt = k
    OBVIOUS
  <1> HIDE DEF k, b
  <1>5. p # NoOne /\ p # "server"
    BY ProcCommAssumption
  <1>6. /\ chan[k].slot = "free" /\ serving # p /\ (posted => Head(todo).ch # k)
        /\ (serving # NoOne => k # Srv)
    <2>1. chan[k].slot = "free"
      BY <1>1, <1>4 DEF IInv, Locks
    <2>2. serving # NoOne => k # Srv
      BY <2>1 DEF IInv, Relay
    <2>3. serving # p
      BY <2>2, <1>1, <1>5 DEF IInv, Relay
    <2>4. posted => Head(todo).ch # k
      BY <1>4, ProcCommAssumption DEF IInv, Relay
    <2> QED
      BY <2>1, <2>2, <2>3, <2>4
  <1>7. \A q \in Clients : Served(q)' <=> Served(q)
    BY <1>3, <1>4, <1>6, <1>0 DEF Served, ChanSet
  <1>8. /\ \A i, j : Listed(i, j)' <=> Listed(i, j)
        /\ \A i, j : Due(i, j)' <=> Due(i, j)
        /\ \A j : Waiting(j)' <=> Waiting(j)
    BY <1>4 DEF Listed, Due, Waiting
  <1>9. \A j \in Chan : /\ chan'[j].id = chan[j].id /\ chan'[j].owner = chan[j].owner
                        /\ chan'[j].gone = chan[j].gone
    BY <1>3 DEF ChanSet
  <1>m. \A q : TheMessage(q)' = TheMessage(q)
    BY <1>4 DEF TheMessage
  <1>10. TypeOK'
    BY <1>3, <1>4, <1>0 DEF TypeOK
  <1>11. FreshChannels'
    <2> SUFFICES ASSUME NEW j \in Chan, j > nchan
                 PROVE  chan'[j] = chan[j]
      BY <1>0, <1>4, <1>9 DEF IInv, FreshChannels
    <2> QED
      BY <1>0, <1>1, <1>3, ServerChannel DEF ChanSet, TypeOK
  <1>12. UniqueIds' /\ ListedChannels'
    BY <1>4, <1>8, <1>9 DEF IInv, UniqueIds, ListedChannels
  <1>13. Members'
    <2>1. \A q \in Clients : \A i, j : Has(q, i, j)' <=> Has(q, i, j)
      BY <1>4, <1>7 DEF Has
    <2> QED
      BY <1>4, <1>8, <1>9, <2>1 DEF IInv, Members
  <1>14. Calls'
    <2> SUFFICES ASSUME NEW q \in Clients
                 PROVE  Call(q)'
      BY DEF Calls
    <2>1. Call(q)
      BY DEF IInv, Calls
    <2>2. cl[q].tgt \in Chan /\ reply.ch \in Chan
      BY <1>0 DEF TypeOK, Client
    <2> QED
      BY <1>4, <1>7, <1>9, <2>1, <2>2 DEF Call
  <1>15. Caches'
    <2>1. \A q \in Clients, i \in Ids : cl[q].cache[i] \in Chan
      BY <1>0 DEF TypeOK, Client
    <2> QED
      BY <1>4, <1>9, <2>1 DEF IInv, Caches
  <1>16. Locks'
    <2>1. (up <=> ~chan[Srv].gone)' /\ (chan[Srv].lock # "server")'
      BY <1>0, <1>3, <1>4, <1>5, <1>9 DEF IInv, Locks, ChanSet
    <2>2. ASSUME NEW j \in Chan
          PROVE  /\ (chan[j].slot = "free" <=> chan[j].lock = NoOne)'
                 /\ (chan[j].buf # NoMsg => chan[j].buf.n <= nsent)'
      <3>1. CASE j = k
        <4>1. chan'[j].slot = "posted" /\ chan'[j].lock = p /\ chan'[j].buf = b
          BY <3>1, <1>3 DEF ChanSet
        <4>2. b # NoMsg => b.n <= nsent
          BY <1>0, <1>b, MessageOf DEF Call
        <4> QED
          BY <4>1, <4>2, <1>4, <1>5
      <3>2. CASE j # k
        BY <3>2, <1>3, <1>4 DEF IInv, Locks, ChanSet
      <3> QED
        BY <3>1, <3>2
    <2>3. ASSUME NEW j \in Chan, NEW q \in Clients, chan'[j].lock = q
          PROVE  /\ cl'[q].op \in Pending /\ cl'[q].tgt = j
                 /\ cl'[q].op \in {"p2p", "bcast"} => chan'[j].buf = TheMessage(q)'
      <3>1. CASE j = k
        <4>1. q = p /\ chan'[j].buf = b
          BY <2>3, <3>1, <1>3 DEF ChanSet
        <4> QED
          BY <4>1, <3>1, <1>1, <1>4, <1>b, <1>k, <1>m
      <3>2. CASE j # k
        BY <2>3, <3>2, <1>3, <1>4, <1>m DEF IInv, Locks, ChanSet
      <3> QED
        BY <3>1, <3>2
    <2> QED
      BY <2>1, <2>2, <2>3 DEF Locks
  <1>17. Relay'
    <2>1. serving # NoOne => chan'[Srv] = chan[Srv]
      BY <1>0, <1>3, <1>6 DEF ChanSet
    <2>2. posted => chan'[Head(todo).ch] = chan[Head(todo).ch]
      BY <1>0, <1>3, <1>6, HeadOfTodo DEF ChanSet, IInv, Relay
    <2> QED
      BY <1>4, <1>8, <1>m, <2>1, <2>2 DEF IInv, Relay
  <1>18. Carried'
    <2> SUFFICES ASSUME NEW j \in Chan \ {Srv}, chan'[j].slot # "free"
                 PROVE  /\ chan'[j].buf # NoMsg
                        /\ Right(chan[j].buf, j)'
                        /\ chan'[j].slot = "served" <=>
                             chan'[j].buf \in Range(dlv'[j])
      BY DEF Carried
    <2>1. CASE j = k
      <3>1. cl[p].op = "p2p" /\ chan'[j].slot = "posted" /\ chan'[j].buf = TheMessage(p)
        BY <2>1, <1>1, <1>3, <1>b DEF ChanSet
      <3>2. /\ TheMessage(p).to = chan[j].id /\ ~is_broadcast_cb(TheMessage(p).to)
        BY <2>1, <3>1, <1>0, <1>k, MessageOf DEF Call
      <3>3. Unseen(p, j)
        BY <2>1, <3>1, <1>k, <1>4, <1>5 DEF IInv, Fresh, Unsent
      <3> QED
        BY <3>1, <3>2, <3>3, <1>4, <1>9, MessagesDiffer DEF Right, Unseen
    <2>2. CASE j # k
      BY <2>2, <1>3, <1>4 DEF IInv, Carried, ChanSet, Right
    <2> QED
      BY <2>1, <2>2
  <1>19. Delivered'
    BY <1>4, <1>9 DEF IInv, Delivered, Right
  <1>20. Fresh'
    <2> SUFFICES ASSUME NEW q \in Clients
                 PROVE  /\ Unsent(q)'
                        /\ serving' = q => \A j \in Chan \ {Srv} :
                                            Waiting(j)' => Unseen(q, j)'
      BY DEF Fresh
    <2>1. Unsent(q) /\ (serving = q => \A j \in Chan \ {Srv} :
                                         Waiting(j) => Unseen(q, j))
      BY DEF IInv, Fresh
    <2>2. \A j \in Chan : Unseen(q, j) /\ (q # p \/ j # k) => Unseen(q, j)'
      BY <1>3, <1>4, <1>b, <1>m, MessagesDiffer DEF Unseen, ChanSet
    <2>3. CASE q = p
      BY <2>1, <2>2, <2>3, <1>1, <1>3, <1>4, <1>6, <1>7, <1>k DEF Unsent, ChanSet
    <2>4. CASE q # p
      <3>1. \A j \in Chan : chan'[j].lock # q => chan[j].lock # q
        BY <1>3, <1>4, ProcCommAssumption DEF ChanSet
      <3> QED
        BY <2>1, <2>2, <2>4, <3>1, <1>4, <1>7, <1>8 DEF Unsent
    <2> QED
      BY <2>3, <2>4
  <1>21. Acked'
    BY <1>4, <1>7, <1>9, <1>m DEF IInv, Acked, Arrived
  <1>22. Broadcasts'
    BY <1>4, <1>7, <1>8, <1>m DEF IInv, Broadcasts, Spread
  <1> QED
    BY <1>10, <1>11, <1>12, <1>13, <1>14, <1>15, <1>16, <1>17, <1>18, <1>19,
       <1>20, <1>21, <1>22 DEF IInv

-----------------------------------------------------------------------------
\* Calls and returns of a client: what is left to show for the client itself.

\* Channel k is as before, or p has given back its SEND.
Released(p) ==
  \A k \in Chan :
    /\ chan'[k].id = chan[k].id /\ chan'[k].owner = chan[k].owner
    /\ chan'[k].gone = chan[k].gone
    /\ \/ chan'[k] = chan[k]
       \/ /\ chan[k].lock = p
          /\ chan'[k].lock = NoOne /\ chan'[k].slot = "free" /\ chan'[k].buf = NoMsg

\* A step of client p that touches nothing but its own state and its exchange.
OwnStep(p) ==
  /\ UNCHANGED <<up, reg, nchan, serving, todo, posted, reply, dlv>>
  /\ nsent' >= nsent
  /\ \A q \in Clients : q # p => cl'[q] = cl[q]
  /\ Released(p)

\* Client p has a lock only in an exchange.
OwnLocks(p) ==
  \A k \in Chan : chan[k].lock = p =>
    /\ cl[p].op \in Pending /\ cl[p].tgt = k
    /\ cl[p].op \in {"p2p", "bcast"} => chan[k].buf = TheMessage(p)

OwnCache(p) ==
  \A i \in Ids : cl[p].cache[i] # 0 =>
    cl[p].cache[i] <= nchan /\ chan[cl[p].cache[i]].id = i

OwnAck(p) ==
  cl[p].op = "idle" /\ cl[p].status = "ok" =>
    is_broadcast_cb(cl[p].dst) \/ Arrived(p)

LEMMA ClientFrame ==
  ASSUME IInv, NEW p \in Clients, OwnStep(p), TypeOK', serving # p,
         Call(p)', OwnCache(p)', OwnLocks(p)', Unsent(p)', OwnAck(p)',
         up => \A i \in Ids, k \in Chan : Has(p, i, k)' <=> Has(p, i, k),
         cl'[p].op = "bcast" => ~Served(p)'
  PROVE  IInv'
PROOF
  <1>0. TypeOK /\ Srv \in Chan /\ p # NoOne /\ p # "server"
    BY ServerChannel, ProcCommAssumption DEF IInv
  <1>1. /\ UNCHANGED <<up, reg, nchan, serving, todo, posted, reply, dlv>>
        /\ nsent' >= nsent /\ nsent \in Nat /\ nsent' \in Nat
        /\ \A q \in Clients : q # p => cl'[q] = cl[q]
    BY <1>0, ProcCommAssumption DEF OwnStep, TypeOK
  <1>2. \A k \in Chan :
          /\ chan'[k].id = chan[k].id /\ chan'[k].owner = chan[k].owner
          /\ chan'[k].gone = chan[k].gone
          /\ chan[k].lock # p => chan'[k] = chan[k]
          /\ \/ chan'[k] = chan[k]
             \/ /\ chan'[k].lock = NoOne /\ chan'[k].slot = "free"
                /\ chan'[k].buf = NoMsg
    BY DEF OwnStep, Released
  <1>3. /\ \A i, j : Listed(i, j)' <=> Listed(i, j)
        /\ \A i, j : Due(i, j)' <=> Due(i, j)
        /\ \A j : Waiting(j)' <=> Waiting(j)
    BY <1>1 DEF Listed, Due, Waiting
  <1>4. \A q \in Clients : q # p => /\ Served(q)' <=> Served(q)
                                    /\ TheMessage(q)' = TheMessage(q)
    BY <1>0, <1>1, <1>2, ProcCommAssumption DEF Served, TheMessage
  <1>5. serving # NoOne => serving \in Clients
    BY <1>0 DEF TypeOK
  <1>11. FreshChannels'
    BY <1>1, <1>2, <1>0 DEF IInv, FreshChannels
  <1>12. UniqueIds' /\ ListedChannels'
    BY <1>1, <1>2, <1>3 DEF IInv, UniqueIds, ListedChannels
  <1>13. Members'
    <2>1. \A q \in Clients : q # p =>
            \A i, k : Has(q, i, k)' <=> Has(q, i, k)
      BY <1>1, <1>4 DEF Has
    <2> QED
      BY <1>1, <1>2, <1>3, <2>1 DEF IInv, Members
  <1>14. Calls'
    <2> SUFFICES ASSUME NEW q \in Clients, q # p
                 PROVE  Call(q)'
      BY DEF Calls
    <2>1. Call(q) /\ cl[q].n \in Nat
      BY <1>0, ProcCommAssumption DEF IInv, Calls, TypeOK, Client
    <2>2. cl[q].tgt \in Chan /\ reply.ch \in Chan
      BY <1>0 DEF TypeOK, Client
    <2> QED
      BY <1>1, <1>2, <1>4, <2>1, <2>2 DEF Call
  <1>15. Caches'
    <2>1. \A q \in Clients, i \in Ids : cl[q].cache[i] \in Chan
      BY <1>0 DEF TypeOK, Client
    <2> QED
      BY <1>1, <1>2, <2>1 DEF IInv, Caches, OwnCache
  <1>16. Locks'
    <2>1. (up <=> ~chan[Srv].gone)' /\ (chan[Srv].lock # "server")'
      BY <1>0, <1>1, <1>2, ProcCommAssumption DEF IInv, Locks
    <2>2. ASSUME NEW j \in Chan
          PROVE  /\ (chan[j].slot = "free" <=> chan[j].lock = NoOne)'
                 /\ (chan[j].buf # NoMsg => chan[j].buf.n <= nsent)'
      <3>1. chan[j].buf # NoMsg => chan[j].buf.n \in Nat
        BY <1>0, ProcCommAssumption DEF TypeOK, Channel, Message
      <3>2. /\ chan[j].slot = "free" <=> chan[j].lock = NoOne
            /\ chan[j].buf # NoMsg => chan[j].buf.n <= nsent
        BY DEF IInv, Locks
      <3> QED
        BY <1>1, <1>2, <3>1, <3>2
    <2>3. ASSUME NEW j \in Chan, NEW q \in Clients, chan'[j].lock = q
          PROVE  /\ cl'[q].op \in Pending /\ cl'[q].tgt = j
                 /\ cl'[q].op \in {"p2p", "bcast"} => chan'[j].buf = TheMessage(q)'
      <3>1. CASE q = p
        BY <2>3, <3>1 DEF OwnLocks
      <3>2. CASE q # p
        BY <2>3, <3>2, <1>1, <1>2, <1>4, ProcCommAssumption DEF IInv, Locks
      <3> QED
        BY <3>1, <3>2
    <2> QED
      BY <2>1, <2>2, <2>3 DEF Locks
  <1>17. Relay'
    <2>1. serving # NoOne => /\ chan'[Srv] = chan[Srv] /\ cl'[serving] = cl[serving]
                             /\ TheMessage(serving)' = TheMessage(serving)
      BY <1>0, <1>1, <1>2, <1>4, <1>5 DEF IInv, Relay, TheMessage
    <2>2. posted => chan'[Head(todo).ch] = chan[Head(todo).ch] /\ serving # NoOne
      BY <1>0, <1>2, HeadOfTodo DEF IInv, Relay
    <2> QED
      BY <1>1, <1>3, <2>1, <2>2 DEF IInv, Relay
  <1>18. Carried'
    BY <1>1, <1>2 DEF IInv, Carried, Right
  <1>19. Delivered'
    <2>1. \A j \in Chan : \A x \in DOMAIN dlv[j] : dlv[j][x].n \in Nat
      BY <1>0, DeliveredMessage
    <2> QED
      BY <1>1, <1>2, <2>1 DEF IInv, Delivered, Right
  <1>20. Fresh'
    <2> SUFFICES ASSUME NEW q \in Clients, q # p
                 PROVE  /\ Unsent(q)'
                        /\ serving' = q => \A j \in Chan \ {Srv} :
                                            Waiting(j)' => Unseen(q, j)'
      BY <1>1 DEF Fresh
    <2>1. Unsent(q) /\ (serving = q => \A j \in Chan \ {Srv} :
                                         Waiting(j) => Unseen(q, j))
      BY DEF IInv, Fresh
    <2>2. \A j \in Chan : Unseen(q, j) => Unseen(q, j)'
      BY <1>1, <1>2, <1>4, MessagesDiffer DEF Unseen
    <2>3. \A j \in Chan : chan[j].lock = q => chan'[j] = chan[j]
      BY <1>2
    <2> QED
      BY <2>1, <2>2, <2>3, <1>1, <1>3, <1>4 DEF Unsent
  <1>21. Acked'
    <2>1. \A q \in Clients : q # p => Arrived(q)' = Arrived(q)
      BY <1>1, <1>2, <1>4 DEF Arrived
    <2> QED
      BY <1>1, <1>4, <2>1 DEF IInv, Acked, OwnAck
  <1>22. Broadcasts'
    BY <1>1, <1>3, <1>4 DEF IInv, Broadcasts, Spread
  <1> QED
    BY <1>11, <1>12, <1>13, <1>14, <1>15, <1>16, <1>17, <1>18, <1>19,
       <1>20, <1>21, <1>22 DEF IInv

\* A client that is in no exchange holds no SEND and waits for no answer.
LEMMA Outside ==
  ASSUME IInv, NEW p \in Clients, cl[p].op \notin Pending
  PROVE  /\ serving # p /\ ~Served(p)
         /\ \A k \in Chan : chan[k].lock # p
PROOF
  <1>1. \A k \in Chan : chan[k].lock # p
    BY DEF IInv, Locks
  <1>2. ~Served(p)
    BY <1>1, ServerChannel DEF Served, IInv, Locks
  <1>3. serving # p
    BY ProcCommAssumption DEF IInv, Relay, Pending
  <1> QED
    BY <1>1, <1>2, <1>3

LEMMA CreateCallStep ==
  ASSUME IInv, NEW p \in Clients, NEW i \in Ids, pc_req_create_client(p, i)
  PROVE  IInv'
PROOF
  <1>1. TypeOK /\ Call(p) /\ cl[p] \in Client /\ cl[p].op = "none"
    BY DEF IInv, Calls, TypeOK, pc_req_create_client
  <1>2. /\ UNCHANGED <<up, reg, nchan, serving, todo, posted, reply, chan, nsent, dlv>>
        /\ cl' = [cl EXCEPT ![p].op = "create", ![p].tgt = Srv, ![p].dst = i]
    BY DEF pc_req_create_client, srvVars
  <1>3. cl'[p] = [cl[p] EXCEPT !.op = "create", !.tgt = Srv, !.dst = i]
    BY <1>1, <1>2 DEF TypeOK
  <1>4. cl'[p] \in Client
    BY <1>1, <1>3, ServerChannel DEF Client, Pending, Dest
  <1>5. /\ cl'[p].op = "create" /\ cl'[p].tgt = Srv /\ cl'[p].dst = i
        /\ cl'[p].n = cl[p].n /\ cl'[p].status = cl[p].status
        /\ cl'[p].cache = cl[p].cache
    BY <1>1, <1>3 DEF Client
  <1>6. \A q \in Clients : q # p => cl'[q] = cl[q]
    BY <1>1, <1>2 DEF TypeOK
  <1>7. TypeOK'
    BY <1>1, <1>2, <1>4 DEF TypeOK
  <1>8. OwnStep(p)
    BY <1>1, <1>2, <1>6, ProcCommAssumption DEF OwnStep, Released, TypeOK
  <1>9. /\ serving # p /\ ~Served(p) /\ Served(p)' = Served(p)
        /\ \A k \in Chan : chan[k].lock # p
    BY <1>1, <1>2, Outside DEF Pending, Served
  <1>10. Call(p)'
    BY <1>1, <1>2, <1>5 DEF Call
  <1>11. OwnCache(p)'
    BY <1>2, <1>5 DEF IInv, Caches, OwnCache
  <1>12. OwnLocks(p)' /\ Unsent(p)' /\ OwnAck(p)'
    BY <1>2, <1>5, <1>9 DEF OwnLocks, Unsent, OwnAck
  <1>13. \A j \in Ids, k \in Chan : Has(p, j, k)' <=> Has(p, j, k)
    BY <1>1, <1>5, <1>9 DEF Has
  <1> QED
    BY <1>5, <1>7, <1>8, <1>9, <1>10, <1>11, <1>12, <1>13, ClientFrame

LEMMA SendCallStep ==
  ASSUME IInv, NEW p \in Clients, NEW d \in Dest, pc_c_send(p, d)
  PROVE  IInv'
PROOF
  <1> DEFINE known == IF clientBroadcast(d) THEN 0 ELSE cl[p].cache[d]
             op == IF clientBroadcast(d) THEN "bcast"
                   ELSE IF known # 0 THEN "p2p" ELSE "get"
             hit == known # 0
  <1>1. TypeOK /\ Call(p) /\ cl[p] \in Client /\ cl[p].op = "idle"
    BY DEF IInv, Calls, TypeOK, pc_c_send
  <1>2. /\ UNCHANGED <<up, reg, nchan, serving, todo, posted, reply, chan, dlv>>
        /\ nsent' = nsent + 1 /\ nsent < MaxSends
    BY DEF pc_c_send, srvVars
  <1>c. cl' = [cl EXCEPT ![p].op = op, ![p].tgt = known,
                         ![p].cached = hit, ![p].dst = d, ![p].n = nsent',
                         ![p].status = "none", ![p].result = "none"]
    BY DEF pc_c_send
  <1>3. cl'[p] = [cl[p] EXCEPT !.op = op, !.tgt = known,
                               !.cached = hit, !.dst = d, !.n = nsent',
                               !.status = "none", !.result = "none"]
    BY <1>1, <1>c DEF TypeOK
  <1>4. ~clientBroadcast(d) => d \in Ids /\ ~is_broadcast_cb(d)
    BY DEF clientBroadcast, is_broadcast_cb, Dest
  <1>5. clientBroadcast(d) => is_broadcast_cb(d) \/ d \in Ids
    BY ProcCommAssumption DEF clientBroadcast
  <1>6. /\ known \in Chan /\ op \in {"bcast", "p2p", "get"} /\ hit \in BOOLEAN
        /\ op = "p2p" => known # 0 /\ known = cl[p].cache[d]
        /\ op # "p2p" => known = 0
        /\ op # "bcast" => ~clientBroadcast(d)
        /\ op = "bcast" => clientBroadcast(d)
    BY <1>1, <1>4, ServerChannel DEF Client, Srv
  <1>7. nsent \in Nat /\ nsent' \in 1..MaxSends
    BY <1>1, <1>2, ProcCommAssumption DEF TypeOK
  <1> HIDE DEF known, op, hit
  <1>8. cl'[p] \in Client
    <2>1. /\ op \in Pending \cup {"none", "attach", "idle", "dead"}
          /\ nsent' \in 0..MaxSends /\ known \in Chan /\ hit \in BOOLEAN
      BY <1>6, <1>7 DEF Pending
    <2> QED
      BY <1>1, <1>3, <2>1 DEF Client
  <1>9. /\ cl'[p].op = op /\ cl'[p].tgt = known /\ cl'[p].dst = d
        /\ cl'[p].n = nsent + 1 /\ cl'[p].status = "none"
        /\ cl'[p].cache = cl[p].cache /\ cl'[p].id = cl[p].id /\ cl'[p].ch = cl[p].ch
    BY <1>1, <1>2, <1>3 DEF Client
  <1>10. \A q \in Clients : q # p => cl'[q] = cl[q]
    BY <1>1, <1>c DEF TypeOK
  <1>11. TypeOK'
    BY <1>1, <1>2, <1>c, <1>7, <1>8 DEF TypeOK
  <1>12. OwnStep(p)
    BY <1>2, <1>7, <1>10 DEF OwnStep, Released
  <1>13. /\ serving # p /\ ~Served(p) /\ Served(p)' = Served(p)
         /\ \A k \in Chan : chan[k].lock # p
    BY <1>1, <1>2, Outside DEF Pending, Served
  <1>14. Call(p)'
    <2>1. op = "p2p" => known <= nchan /\ chan[known].id = d
      BY <1>4, <1>6 DEF IInv, Caches
    <2> QED
      BY <1>2, <1>4, <1>5, <1>6, <1>7, <1>9, <1>13, <2>1 DEF Call, Srv
  <1>15. OwnCache(p)'
    BY <1>2, <1>9 DEF IInv, Caches, OwnCache
  <1>16. Unsent(p)'
    <2>1. TheMessage(p)' # NoMsg /\ TheMessage(p)'.n = nsent + 1
      BY <1>9, ProcCommAssumption DEF TheMessage, NoMsg
    <2>2. \A k \in Chan : TheMessage(p)' \notin Range(dlv[k])
      BY <2>1, <1>1, <1>7, DeliveredMessage DEF IInv, Delivered, Range
    <2>3. \A k \in Chan : chan[k].buf # TheMessage(p)'
      BY <2>1, <1>7 DEF IInv, Locks
    <2> QED
      BY <1>2, <2>2, <2>3 DEF Unsent, Unseen
  <1>17. OwnLocks(p)' /\ OwnAck(p)'
    BY <1>2, <1>6, <1>9, <1>13 DEF OwnLocks, OwnAck
  <1>18. \A j \in Ids, k \in Chan : Has(p, j, k)' <=> Has(p, j, k)
    BY <1>1, <1>6, <1>9 DEF Has
  <1> QED
    BY <1>9, <1>11, <1>12, <1>13, <1>14, <1>15, <1>16, <1>17, <1>18, ClientFrame

\* A step that changes op, and perhaps the target, of a client that has a
\* channel and is in no exchange: pc_req_destroy_client, the end of
\* pc_req_create_client, and the death of the process.
LEMMA MoveStep ==
  ASSUME IInv, NEW p \in Clients, NEW o \in {"close", "idle", "dead"},
         cl[p].op \in {"attach", "idle"}, cl[p].op = "attach" => o # "close",
         o = "idle" => cl[p].op = "attach",
         cl'[p].op = o, o = "close" => cl'[p].tgt = Srv,
         cl'[p].dst = cl[p].dst, cl'[p].n = cl[p].n,
         cl'[p].status = cl[p].status, cl'[p].cache = cl[p].cache,
         cl'[p].id = cl[p].id, cl'[p].ch = cl[p].ch,
         \A q \in Clients : q # p => cl'[q] = cl[q],
         cl' \in [Clients -> Client],
         UNCHANGED <<srvVars, chan, nsent, dlv>>
  PROVE  IInv'
PROOF
  <1>1. TypeOK /\ Call(p)
    BY DEF IInv, Calls
  <1>2. UNCHANGED <<up, reg, nchan, serving, todo, posted, reply, chan, nsent, dlv>>
    BY DEF srvVars
  <1>3. TypeOK'
    BY <1>1, <1>2 DEF TypeOK
  <1>4. OwnStep(p)
    BY <1>1, <1>2, ProcCommAssumption DEF OwnStep, Released, TypeOK
  <1>5. /\ serving # p /\ ~Served(p) /\ Served(p)' = Served(p)
        /\ \A k \in Chan : chan[k].lock # p
    BY <1>2, Outside DEF Pending, Served
  <1>6. Call(p)'
    BY <1>1, <1>2 DEF Call
  <1>7. OwnCache(p)'
    BY <1>2 DEF IInv, Caches, OwnCache
  <1>8. OwnLocks(p)' /\ Unsent(p)'
    BY <1>2, <1>5 DEF OwnLocks, Unsent
  <1>9. OwnAck(p)'
    BY <1>1 DEF OwnAck, Call
  <1>10. \A j \in Ids, k \in Chan : Has(p, j, k)' <=> Has(p, j, k)
    BY <1>5 DEF Has
  <1> QED
    BY <1>3, <1>4, <1>5, <1>6, <1>7, <1>8, <1>9, <1>10, ClientFrame

LEMMA MoveSteps ==
  ASSUME IInv, NEW p \in Clients,
         pc_req_destroy_client(p) \/ Attach(p) \/ Crash(p)
  PROVE  IInv'
PROOF
  <1>1. cl \in [Clients -> Client] /\ cl[p] \in Client /\ Srv \in Chan
    BY ServerChannel DEF IInv, TypeOK
  <1>2. CASE pc_req_destroy_client(p)
    <2>1. cl' = [cl EXCEPT ![p].op = "close", ![p].tgt = Srv]
      BY <1>2 DEF pc_req_destroy_client
    <2>2. cl'[p] = [cl[p] EXCEPT !.op = "close", !.tgt = Srv]
      BY <1>1, <2>1
    <2>3. cl'[p] \in Client /\ \A q \in Clients : q # p => cl'[q] = cl[q]
      BY <1>1, <2>1, <2>2 DEF Client, Pending
    <2>4. /\ cl'[p].op = "close" /\ cl'[p].tgt = Srv
          /\ cl'[p].dst = cl[p].dst /\ cl'[p].n = cl[p].n
          /\ cl'[p].status = cl[p].status /\ cl'[p].cache = cl[p].cache
          /\ cl'[p].id = cl[p].id /\ cl'[p].ch = cl[p].ch
      BY <1>1, <2>2 DEF Client
    <2>5. cl' \in [Clients -> Client]
      BY <1>1, <2>1, <2>3
    <2>6. cl[p].op = "idle" /\ UNCHANGED <<srvVars, chan, nsent, dlv>>
      BY <1>2 DEF pc_req_destroy_client
    <2> QED
      BY <2>3, <2>4, <2>5, <2>6, MoveStep
  <1>3. ASSUME NEW o \in {"idle", "dead"}, cl' = [cl EXCEPT ![p].op = o],
               UNCHANGED <<srvVars, chan, nsent, dlv>>,
               cl[p].op = IF o = "idle" THEN "attach" ELSE "idle"
        PROVE  IInv'
    <2>2. cl'[p] = [cl[p] EXCEPT !.op = o]
      BY <1>1, <1>3
    <2>3. cl'[p] \in Client /\ \A q \in Clients : q # p => cl'[q] = cl[q]
      BY <1>1, <1>3, <2>2 DEF Client
    <2>4. /\ cl'[p].op = o
          /\ cl'[p].dst = cl[p].dst /\ cl'[p].n = cl[p].n
          /\ cl'[p].status = cl[p].status /\ cl'[p].cache = cl[p].cache
          /\ cl'[p].id = cl[p].id /\ cl'[p].ch = cl[p].ch
      BY <1>1, <2>2 DEF Client
    <2>5. cl' \in [Clients -> Client]
      BY <1>1, <1>3, <2>3
    <2>6. /\ cl[p].op \in {"attach", "idle"} /\ (o = "idle" => cl[p].op = "attach")
          /\ o \in {"close", "idle", "dead"} /\ o # "close"
      BY <1>3
    <2> QED
      BY <1>3, <2>3, <2>4, <2>5, <2>6, MoveStep
  <1>4. CASE Attach(p)
    BY <1>4, <1>3 DEF Attach
  <1>5. CASE Crash(p)
    BY <1>5, <1>3 DEF Crash
  <1> QED
    BY <1>2, <1>4, <1>5

\* What pc_c_send leaves of the client when it returns.
LEMMA SentClient ==
  ASSUME TypeOK, NEW p \in Clients, NEW st \in {"none", "ok", "fail"},
         NEW res \in {"none", "ok", "fail"}
  PROVE  /\ Sent(p, st, res) \in Client
         /\ Sent(p, st, res).op = "idle" /\ Sent(p, st, res).status = st
         /\ Sent(p, st, res).n = cl[p].n /\ Sent(p, st, res).dst = cl[p].dst
         /\ Sent(p, st, res).cache = cl[p].cache
         /\ Sent(p, st, res).id = cl[p].id /\ Sent(p, st, res).ch = cl[p].ch
PROOF
  <1>1. cl[p] \in Client
    BY DEF TypeOK
  <1> QED
    BY <1>1, ServerChannel DEF Sent, Client, Srv

\* Setting one client as a whole.
LEMMA SetClient ==
  ASSUME TypeOK, NEW p \in Clients, NEW r \in Client, cl' = [cl EXCEPT ![p] = r]
  PROVE  /\ cl' \in [Clients -> Client] /\ cl'[p] = r
         /\ \A q \in Clients : q # p => cl'[q] = cl[q]
PROOF
  BY DEF TypeOK

\* Returns from ipc_send_cmd.
LEMMA LeaveEffect ==
  ASSUME IInv, NEW p \in Clients, Leave(p), cl[p].op \in Pending
  PROVE  /\ chan' \in [Chan -> Channel] /\ Released(p) /\ cl[p].tgt \in Chan
         /\ \A k \in Chan : k # cl[p].tgt => chan'[k] = chan[k]
         /\ \A k \in Chan : chan'[k].lock # p
         /\ ~Served(p)'
PROOF
  <1> DEFINE t == cl[p].tgt
  <1>1. TypeOK /\ t \in Chan /\ p # NoOne /\ Srv \in Chan
    BY ServerChannel, ProcCommAssumption DEF IInv, TypeOK, Client
  <1>2. \A k \in Chan : chan[k].lock = p => k = t
    BY DEF IInv, Locks
  <1>3. CASE chan[t].lock = p
    <2>1. chan' = [chan EXCEPT ![t].lock = NoOne, ![t].slot = "free", ![t].buf = NoMsg]
      BY <1>3 DEF Leave
    <2>2. chan' \in [Chan -> Channel] /\ ChanSet(t, NoOne, "free", NoMsg)
      BY <2>1, <1>1, SetChannel DEF TypeOK, Holder, Slot, Buffer
    <2> HIDE DEF t
    <2>3. Released(p)
      BY <1>3, <2>2 DEF Released, ChanSet
    <2>4. \A k \in Chan : chan'[k].lock # p
      BY <1>1, <1>2, <2>2 DEF ChanSet
    <2> QED
      BY <1>1, <2>2, <2>3, <2>4 DEF ChanSet, Served, t
  <1>4. CASE chan[t].lock # p
    <2>1. chan' = chan
      BY <1>4 DEF Leave
    <2> QED
      BY <1>1, <1>2, <1>4, <2>1 DEF Released, Served, TypeOK
  <1> QED
    BY <1>3, <1>4

LEMMA AnsweredEffect ==
  ASSUME IInv, NEW p \in Clients, Answered(p), cl[p].op \in Pending
  PROVE  /\ Leave(p) /\ serving # p /\ cl[p].tgt \in Chan
         /\ chan[cl[p].tgt].lock = p /\ chan[cl[p].tgt].slot = "served"
         /\ cl[p].op # "p2p" => Served(p)
PROOF
  <1>1. TypeOK /\ Call(p) /\ cl[p].tgt \in Chan /\ p # NoOne /\ Srv \in Chan
    BY ServerChannel, ProcCommAssumption DEF IInv, Calls, TypeOK, Client
  <1>2. Leave(p) /\ chan[cl[p].tgt].lock = p /\ chan[cl[p].tgt].slot = "served"
    BY DEF Answered
  <1>3. cl[p].op # "p2p" => Served(p)
    BY <1>1, <1>2 DEF Call, Pending, Served
  <1>4. serving # p
    <2> SUFFICES ASSUME serving = p
                 PROVE  FALSE
      OBVIOUS
    <2>1. chan[Srv].slot = "posted" /\ cl[p].op = "bcast"
      BY <1>1 DEF IInv, Relay
    <2> QED
      BY <2>1, <1>3 DEF Served
  <1> QED
    BY <1>1, <1>2, <1>3, <1>4

\* A return that leaves the client as r.
LEMMA ReturnFrame ==
  ASSUME IInv, NEW p \in Clients, Leave(p), cl[p].op \in Pending, serving # p,
         NEW r \in Client, cl' = [cl EXCEPT ![p] = r],
         UNCHANGED <<srvVars, nsent, dlv>>,
         r.op \notin {"get", "create", "bcast", "close"}, r.n <= nsent,
         r.op \in {"none", "attach"} => r.status = "none",
         r.op = "p2p" => /\ r.dst \in Ids /\ ~is_broadcast_cb(r.dst)
                         /\ r.n > 0 /\ r.status = "none"
                         /\ r.tgt # Srv /\ r.tgt <= nchan
                         /\ chan[r.tgt].id = r.dst
                         /\ cl[p].op = "get" /\ r.n = cl[p].n /\ r.dst = cl[p].dst,
         \A i \in Ids : r.cache[i] # 0 =>
           r.cache[i] <= nchan /\ chan[r.cache[i]].id = i,
         r.op = "idle" /\ r.status = "ok" =>
           /\ r.n = cl[p].n /\ r.dst = cl[p].dst
           /\ is_broadcast_cb(cl[p].dst) \/ Arrived(p),
         up => \A i \in Ids, k \in Chan :
           Has(p, i, k) <=> /\ r.op \in {"attach", "idle", "p2p", "dead"}
                            /\ r.id = i /\ r.ch = k
  PROVE  IInv'
PROOF
  <1>1. TypeOK /\ Call(p) /\ Srv \in Chan
    BY ServerChannel DEF IInv, Calls
  <1>2. UNCHANGED <<up, reg, nchan, serving, todo, posted, reply, nsent, dlv>>
    BY DEF srvVars
  <1>3. /\ chan' \in [Chan -> Channel] /\ Released(p)
        /\ \A k \in Chan : k # cl[p].tgt => chan'[k] = chan[k]
        /\ \A k \in Chan : chan'[k].lock # p
        /\ ~Served(p)'
    BY LeaveEffect
  <1>4. /\ cl' \in [Clients -> Client] /\ cl'[p] = r
        /\ \A q \in Clients : q # p => cl'[q] = cl[q]
    BY <1>1, SetClient
  <1>5. \A k \in Chan : chan'[k].id = chan[k].id
    BY <1>3 DEF Released
  <1>6. TypeOK'
    BY <1>1, <1>2, <1>3, <1>4 DEF TypeOK
  <1>7. OwnStep(p)
    BY <1>1, <1>2, <1>3, <1>4, ProcCommAssumption DEF OwnStep, TypeOK
  <1>8. r.tgt \in Chan /\ \A i \in Ids : r.cache[i] \in Chan
    BY DEF Client
  <1>9. Call(p)'
    BY <1>2, <1>3, <1>4, <1>5, <1>8 DEF Call
  <1>10. OwnCache(p)'
    BY <1>2, <1>4, <1>5, <1>8 DEF OwnCache
  <1>11. OwnLocks(p)'
    BY <1>3 DEF OwnLocks
  <1>12. Unsent(p)'
    <2> SUFFICES ASSUME r.op = "p2p", NEW k \in Chan \ {Srv}
                 PROVE  Unseen(p, k)'
      BY <1>4 DEF Unsent
    <2>1. Unseen(p, k)
      BY DEF IInv, Fresh, Unsent
    <2>2. TheMessage(p)' = TheMessage(p)
      BY <1>4 DEF TheMessage
    <2>3. chan'[k] = chan[k]
      BY <1>1, <1>3 DEF Call
    <2> QED
      BY <2>1, <2>2, <2>3, <1>2 DEF Unseen
  <1>13. OwnAck(p)'
    <2> SUFFICES ASSUME r.op = "idle", r.status = "ok", ~is_broadcast_cb(r.dst)
                 PROVE  Arrived(p)'
      BY <1>4 DEF OwnAck
    <2>1. Arrived(p) /\ TheMessage(p)' = TheMessage(p) /\ cl'[p].dst = cl[p].dst
      BY <1>4 DEF TheMessage
    <2> QED
      BY <2>1, <1>2, <1>5 DEF Arrived
  <1>14. up => \A i \in Ids, k \in Chan : Has(p, i, k)' <=> Has(p, i, k)
    BY <1>4 DEF Has
  <1> QED
    BY <1>3, <1>4, <1>6, <1>7, <1>9, <1>10, <1>11, <1>12, <1>13, <1>14, ClientFrame

LEMMA ReturnCreateStep ==
  ASSUME IInv, NEW p \in Clients, ReturnCreate(p)
  PROVE  IInv'
PROOF
  <1> DEFINE a == [cl[p] EXCEPT !.op = "attach", !.id = cl[p].dst, !.ch = reply.ch]
             r == IF reply.ok THEN a ELSE NoClient
  <1>1. /\ TypeOK /\ Call(p) /\ cl[p] \in Client /\ cl[p].op = "create"
        /\ reply \in [ok : BOOLEAN, ch : Chan]
    BY DEF IInv, Calls, ReturnCreate, TypeOK
  <1>2. Answered(p) /\ UNCHANGED <<srvVars, nsent, dlv>> /\ cl[p].op \in Pending
    BY DEF ReturnCreate, Pending
  <1>3. cl' = [cl EXCEPT ![p] = r]
    BY <1>1 DEF ReturnCreate, TypeOK
  <1>4. Served(p) /\ Leave(p) /\ serving # p
    BY <1>1, <1>2, AnsweredEffect
  <1>5. /\ a \in Client /\ a.op = "attach" /\ a.id = cl[p].dst /\ a.ch = reply.ch
        /\ a.status = "none" /\ a.n = cl[p].n /\ a.cache = cl[p].cache
    BY <1>1 DEF Client, Call
  <1>6. \A i \in Ids, k \in Chan :
          Has(p, i, k) <=> reply.ok /\ cl[p].dst = i /\ reply.ch = k
    BY <1>1, <1>4 DEF Has
  <1>7. cl[p].n <= nsent /\ 0 <= nsent
    BY <1>1, ProcCommAssumption DEF Call, TypeOK
  <1>8. \A i \in Ids : cl[p].cache[i] # 0 =>
           cl[p].cache[i] <= nchan /\ chan[cl[p].cache[i]].id = i
    BY DEF IInv, Caches
  <1>9. CASE reply.ok
    <2>1. r = a
      BY <1>9
    <2> HIDE DEF a, r
    <2>2. /\ r.op = "attach" /\ r.op \notin {"get", "create", "bcast", "close"}
          /\ r.n <= nsent /\ r.status = "none" /\ r \in Client
          /\ \A i \in Ids : r.cache[i] # 0 =>
               r.cache[i] <= nchan /\ chan[r.cache[i]].id = i
          /\ \A i \in Ids, k \in Chan :
               Has(p, i, k) <=> /\ r.op \in {"attach", "idle", "p2p", "dead"}
                                /\ r.id = i /\ r.ch = k
      BY <1>5, <1>6, <1>7, <1>8, <1>9, <2>1
    <2>3. r.op # "p2p" /\ r.op # "idle"
      BY <2>2
    <2> QED
      BY <1>2, <1>3, <1>4, <2>2, <2>3, ReturnFrame
  <1>10. CASE ~reply.ok
    <2>1. r = NoClient
      BY <1>10
    <2> HIDE DEF a, r
    <2> QED
      BY <1>2, <1>3, <1>4, <1>6, <1>7, <1>10, <2>1, NoClientFields, ReturnFrame
  <1> QED
    BY <1>9, <1>10

LEMMA ReturnCloseStep ==
  ASSUME IInv, NEW p \in Clients, ReturnClose(p)
  PROVE  IInv'
PROOF
  <1>1. TypeOK /\ Call(p) /\ cl[p].op = "close"
    BY DEF IInv, Calls, ReturnClose
  <1>2. /\ Answered(p) /\ UNCHANGED <<srvVars, nsent, dlv>> /\ cl[p].op \in Pending
        /\ cl' = [cl EXCEPT ![p] = NoClient]
    BY DEF ReturnClose, Pending
  <1>3. Served(p) /\ Leave(p) /\ serving # p
    BY <1>1, <1>2, AnsweredEffect
  <1>4. \A i \in Ids, k \in Chan : ~Has(p, i, k)
    BY <1>1, <1>3 DEF Has
  <1>5. 0 <= nsent
    BY <1>1, ProcCommAssumption DEF TypeOK
  <1> QED
    BY <1>2, <1>3, <1>4, <1>5, NoClientFields, ReturnFrame

\* pc_c_send returns st: every case but the one where the lookup succeeded.
LEMMA ReturnSent ==
  ASSUME IInv, NEW p \in Clients, Answered(p), cl[p].op \in {"get", "p2p", "bcast"},
         NEW st \in {"none", "ok", "fail"}, NEW res \in {"none", "ok", "fail"},
         cl' = [cl EXCEPT ![p] = Sent(p, st, res)],
         UNCHANGED <<srvVars, nsent, dlv>>,
         st = "ok" => is_broadcast_cb(cl[p].dst) \/ Arrived(p)
  PROVE  IInv'
PROOF
  <1> DEFINE r == Sent(p, st, res)
  <1>1. TypeOK /\ Call(p)
    BY DEF IInv, Calls
  <1>2. /\ r \in Client /\ r.op = "idle" /\ r.status = st
        /\ r.n = cl[p].n /\ r.dst = cl[p].dst /\ r.cache = cl[p].cache
        /\ r.id = cl[p].id /\ r.ch = cl[p].ch
    BY <1>1, SentClient
  <1>3. /\ cl' = [cl EXCEPT ![p] = r] /\ cl[p].op \in Pending
        /\ Leave(p) /\ serving # p
    BY AnsweredEffect DEF Pending
  <1> HIDE DEF r
  <1>4. \A i \in Ids, k \in Chan : Has(p, i, k) <=> cl[p].id = i /\ cl[p].ch = k
    BY DEF Has
  <1>5. cl[p].n <= nsent
    BY <1>1 DEF Call
  <1>6. \A i \in Ids : cl[p].cache[i] # 0 =>
          cl[p].cache[i] <= nchan /\ chan[cl[p].cache[i]].id = i
    BY DEF IInv, Caches
  <1>7. /\ r.op \notin {"get", "create", "bcast", "close"} /\ r.n <= nsent
        /\ r.op \notin {"none", "attach"} /\ r.op # "p2p"
        /\ \A i \in Ids : r.cache[i] # 0 =>
             r.cache[i] <= nchan /\ chan[r.cache[i]].id = i
        /\ \A i \in Ids, k \in Chan :
             Has(p, i, k) <=> /\ r.op \in {"attach", "idle", "p2p", "dead"}
                              /\ r.id = i /\ r.ch = k
    BY <1>2, <1>4, <1>5, <1>6
  <1> QED
    BY <1>2, <1>3, <1>7, ReturnFrame

LEMMA ReturnGetStep ==
  ASSUME IInv, NEW p \in Clients, ReturnGet(p)
  PROVE  IInv'
PROOF
  <1> DEFINE d == cl[p].dst
             r == [cl[p] EXCEPT !.op = "p2p", !.tgt = reply.ch, !.cache[d] = reply.ch]
  <1>1. /\ TypeOK /\ Call(p) /\ cl[p] \in Client /\ cl[p].op = "get"
        /\ reply \in [ok : BOOLEAN, ch : Chan]
    BY DEF IInv, Calls, ReturnGet, TypeOK
  <1>2. Answered(p) /\ UNCHANGED <<srvVars, nsent, dlv>> /\ cl[p].op \in Pending
    BY DEF ReturnGet, Pending
  <1>3. Served(p) /\ Leave(p) /\ serving # p
    BY <1>1, <1>2, AnsweredEffect
  <1>4. CASE reply.ok
    <2>1. cl' = [cl EXCEPT ![p] = r]
      BY <1>1, <1>4 DEF ReturnGet, TypeOK
    <2>2. /\ d \in Ids /\ ~is_broadcast_cb(d) /\ cl[p].n > 0 /\ cl[p].n <= nsent
          /\ cl[p].status = "none"
          /\ reply.ch # Srv /\ reply.ch <= nchan /\ chan[reply.ch].id = d
      BY <1>1, <1>3, <1>4 DEF Call
    <2>3. /\ r \in Client /\ r.op = "p2p" /\ r.tgt = reply.ch /\ r.n = cl[p].n
          /\ r.dst = d /\ r.status = cl[p].status
          /\ r.id = cl[p].id /\ r.ch = cl[p].ch
          /\ \A i \in Ids : r.cache[i] = IF i = d THEN reply.ch ELSE cl[p].cache[i]
      BY <1>1, <2>2 DEF Client, Pending
    <2>4. \A i \in Ids, k \in Chan : Has(p, i, k) <=> cl[p].id = i /\ cl[p].ch = k
      BY <1>1 DEF Has
    <2>5. \A i \in Ids : r.cache[i] # 0 =>
            r.cache[i] <= nchan /\ chan[r.cache[i]].id = i
      BY <2>2, <2>3 DEF IInv, Caches
    <2> HIDE DEF r
    <2>6. /\ r.op \notin {"get", "create", "bcast", "close"} /\ r.n <= nsent
          /\ r.op \notin {"none", "attach"} /\ r.op # "idle"
          /\ /\ r.dst \in Ids /\ ~is_broadcast_cb(r.dst)
             /\ r.n > 0 /\ r.status = "none"
             /\ r.tgt # Srv /\ r.tgt <= nchan /\ chan[r.tgt].id = r.dst
             /\ cl[p].op = "get" /\ r.n = cl[p].n /\ r.dst = cl[p].dst
          /\ \A i \in Ids, k \in Chan :
               Has(p, i, k) <=> /\ r.op \in {"attach", "idle", "p2p", "dead"}
                                /\ r.id = i /\ r.ch = k
      BY <1>1, <2>2, <2>3, <2>4
    <2> QED
      BY <1>2, <1>3, <2>1, <2>3, <2>5, <2>6, ReturnFrame
  <1>5. CASE ~reply.ok
    <2>1. cl' = [cl EXCEPT ![p] = Sent(p, "none", "fail")]
      BY <1>1, <1>5 DEF ReturnGet, TypeOK
    <2> QED
      BY <1>1, <1>2, <2>1, ReturnSent
  <1> QED
    BY <1>4, <1>5

LEMMA ReturnP2pStep ==
  ASSUME IInv, NEW p \in Clients, ReturnP2p(p)
  PROVE  IInv'
PROOF
  <1>1. TypeOK /\ Call(p) /\ cl[p].op = "p2p"
    BY DEF IInv, Calls, ReturnP2p
  <1>2. Answered(p) /\ UNCHANGED <<srvVars, nsent, dlv>> /\ cl[p].op \in Pending
    BY <1>1 DEF ReturnP2p, Pending
  <1>3. PICK res \in {"ok", "fail"} : cl' = [cl EXCEPT ![p] = Sent(p, "ok", res)]
    BY DEF ReturnP2p
  <1>4. /\ cl[p].tgt \in Chan \ {Srv}
        /\ chan[cl[p].tgt].lock = p /\ chan[cl[p].tgt].slot = "served"
        /\ chan[cl[p].tgt].id = cl[p].dst
    BY <1>1, <1>2, AnsweredEffect DEF Call
  <1>5. chan[cl[p].tgt].buf = TheMessage(p)
    BY <1>1, <1>4 DEF IInv, Locks
  <1>6. Arrived(p)
    BY <1>4, <1>5 DEF IInv, Carried, Arrived
  <1> QED
    BY <1>1, <1>2, <1>3, <1>6, ReturnSent

LEMMA ReturnBcastStep ==
  ASSUME IInv, NEW p \in Clients, ReturnBcast(p)
  PROVE  IInv'
PROOF
  <1> DEFINE st == Status(p)
  <1>1. TypeOK /\ Call(p) /\ cl[p].op = "bcast"
    BY DEF IInv, Calls, ReturnBcast
  <1>2. /\ Answered(p) /\ UNCHANGED <<srvVars, nsent, dlv>> /\ cl[p].op \in Pending
        /\ cl' = [cl EXCEPT ![p] = Sent(p, st, st)]
    BY <1>1 DEF ReturnBcast, Pending
  <1>3. Served(p) /\ Leave(p) /\ serving # p
    BY <1>1, <1>2, AnsweredEffect
  <1>4. st \in {"ok", "fail"} /\ (st = "ok" => reply.ok)
    BY <1>1 DEF Status
  <1>5. st = "ok" => is_broadcast_cb(cl[p].dst) \/ Arrived(p)
    BY <1>1, <1>3, <1>4 DEF IInv, Acked
  <1> HIDE DEF st
  <1> QED
    BY <1>1, <1>2, <1>4, <1>5, ReturnSent

\* What a client is left with when ipc_send_cmd failed.
LEMMA FailedClient ==
  ASSUME TypeOK, NEW p \in Clients, cl[p].op \in Pending,
         NEW st \in {"none", "ok", "fail"}, NEW ch \in Chan, Call(p)
  PROVE  /\ Failed(p, st, ch) \in Client
         /\ cl[p].op \in {"create", "close"} => Failed(p, st, ch) = NoClient
         /\ cl[p].op \in {"get", "p2p", "bcast"} =>
              LET r == Failed(p, st, ch) IN
              /\ r.op = "idle" /\ r.status = st /\ r.n = cl[p].n
              /\ r.dst = cl[p].dst /\ r.id = cl[p].id /\ r.ch = cl[p].ch
              /\ \A i \in Ids : \/ r.cache[i] = cl[p].cache[i]
                                \/ r.cache[i] = 0
                                \/ cl[p].op = "get" /\ i = cl[p].dst /\ r.cache[i] = ch
PROOF
  <1> DEFINE s == Sent(p, st, "fail")
             r == Failed(p, st, ch)
  <1>1. /\ s \in Client /\ s.op = "idle" /\ s.status = st /\ s.n = cl[p].n
        /\ s.dst = cl[p].dst /\ s.cache = cl[p].cache /\ s.id = cl[p].id
        /\ s.ch = cl[p].ch
    BY SentClient
  <1>2. /\ cl[p].op \in {"create", "close"} => r = NoClient
        /\ cl[p].op = "p2p" => r = [s EXCEPT !.cache[cl[p].dst] = 0]
        /\ cl[p].op = "get" => r = IF ch = 0 THEN s
                                   ELSE [s EXCEPT !.cache[cl[p].dst] = ch]
        /\ cl[p].op = "bcast" => r = s
    BY DEF Failed
  <1>3. Srv \in Chan /\ Srv = 0
    BY ServerChannel DEF Srv
  <1> HIDE DEF s, r
  <1>4. CASE cl[p].op \in {"create", "close"}
    BY <1>2, <1>4, NoClientFields DEF r
  <1>5. ASSUME NEW k \in Chan, r = [s EXCEPT !.cache[cl[p].dst] = k]
        PROVE  /\ r \in Client /\ r.op = "idle" /\ r.status = st /\ r.n = cl[p].n
               /\ r.dst = cl[p].dst /\ r.id = cl[p].id /\ r.ch = cl[p].ch
               /\ \A i \in Ids : \/ r.cache[i] = cl[p].cache[i]
                                 \/ i = cl[p].dst /\ r.cache[i] = k
    BY <1>1, <1>5 DEF Client
  <1>6. CASE cl[p].op = "p2p"
    BY <1>2, <1>3, <1>5, <1>6 DEF r
  <1>7. CASE cl[p].op = "get"
    BY <1>1, <1>2, <1>5, <1>7 DEF r
  <1>8. CASE cl[p].op = "bcast"
    BY <1>1, <1>2, <1>8 DEF r
  <1> QED
    BY <1>4, <1>6, <1>7, <1>8 DEF Pending

\* ipc_send_cmd fails after response_cb reported st and cached ch.
LEMMA FailFrame ==
  ASSUME IInv, NEW p \in Clients, cl[p].op \in Pending, chan[cl[p].tgt].gone,
         Leave(p), UNCHANGED <<srvVars, nsent, dlv>>,
         NEW st \in {"none", "ok", "fail"}, NEW ch \in Chan,
         cl' = [cl EXCEPT ![p] = Failed(p, st, ch)],
         st = "ok" => is_broadcast_cb(cl[p].dst) \/ Arrived(p),
         cl[p].op = "get" /\ ch # 0 => ch <= nchan /\ chan[ch].id = cl[p].dst
  PROVE  IInv'
PROOF
  <1> DEFINE r == Failed(p, st, ch)
  <1>1. TypeOK /\ Call(p) /\ cl' = [cl EXCEPT ![p] = r]
    BY DEF IInv, Calls
  <1>2. cl[p].op # "p2p" => ~up
    BY <1>1 DEF IInv, Locks, Call, Pending
  <1>3. serving # p
    BY <1>2, ProcCommAssumption DEF IInv, Relay
  <1>4. cl[p].n <= nsent /\ 0 <= nsent
    BY <1>1, ProcCommAssumption DEF Call, TypeOK
  <1>5. \A i \in Ids : cl[p].cache[i] # 0 =>
          cl[p].cache[i] <= nchan /\ chan[cl[p].cache[i]].id = i
    BY DEF IInv, Caches
  <1>6. /\ r \in Client
        /\ cl[p].op \in {"create", "close"} => r = NoClient
        /\ cl[p].op \in {"get", "p2p", "bcast"} =>
             /\ r.op = "idle" /\ r.status = st /\ r.n = cl[p].n
             /\ r.dst = cl[p].dst /\ r.id = cl[p].id /\ r.ch = cl[p].ch
             /\ \A i \in Ids : \/ r.cache[i] = cl[p].cache[i]
                               \/ r.cache[i] = 0
                               \/ cl[p].op = "get" /\ i = cl[p].dst /\ r.cache[i] = ch
    BY <1>1, FailedClient
  <1> HIDE DEF r
  <1>7. CASE cl[p].op \in {"create", "close"}
    <2>1. r = NoClient /\ ~up
      BY <1>2, <1>6, <1>7
    <2> QED
      BY <1>1, <1>3, <1>4, <2>1, NoClientFields, ReturnFrame
  <1>8. CASE cl[p].op \in {"get", "p2p", "bcast"}
    <2>1. /\ r.op = "idle" /\ r.n <= nsent
          /\ r.op \notin {"get", "create", "bcast", "close"}
          /\ r.op \notin {"none", "attach"} /\ r.op # "p2p"
      BY <1>4, <1>6, <1>8
    <2>2. \A i \in Ids : r.cache[i] # 0 =>
            r.cache[i] <= nchan /\ chan[r.cache[i]].id = i
      BY <1>5, <1>6, <1>8
    <2>3. r.op = "idle" /\ r.status = "ok" =>
            /\ r.n = cl[p].n /\ r.dst = cl[p].dst
            /\ is_broadcast_cb(cl[p].dst) \/ Arrived(p)
      BY <1>6, <1>8
    <2>4. \A i \in Ids, k \in Chan :
            Has(p, i, k) <=> /\ r.op \in {"attach", "idle", "p2p", "dead"}
                             /\ r.id = i /\ r.ch = k
      BY <1>6, <1>8 DEF Has
    <2> QED
      BY <1>1, <1>3, <1>6, <2>1, <2>2, <2>3, <2>4, ReturnFrame
  <1> QED
    BY <1>7, <1>8 DEF Pending

LEMMA FailStep ==
  ASSUME IInv, NEW p \in Clients, Fail(p)
  PROVE  IInv'
PROOF
  <1>1. 0 \in Chan /\ cl' = [cl EXCEPT ![p] = Failed(p, "none", 0)]
    BY ServerChannel DEF Fail, Srv
  <1> QED
    BY <1>1, FailFrame DEF Fail

LEMMA FailReleaseStep ==
  ASSUME IInv, NEW p \in Clients, FailRelease(p)
  PROVE  IInv'
PROOF
  <1> DEFINE st == Status(p)
             ch == NewPeer(p)
  <1>1. /\ TypeOK /\ Call(p) /\ cl[p] \in Client /\ Srv \in Chan /\ Srv = 0
        /\ reply \in [ok : BOOLEAN, ch : Chan]
    BY ServerChannel DEF IInv, Calls, TypeOK, Srv
  <1>2. /\ cl[p].op \in Pending /\ chan[cl[p].tgt].gone
        /\ chan[cl[p].tgt].lock = p /\ chan[cl[p].tgt].slot = "served"
        /\ Leave(p) /\ UNCHANGED <<srvVars, nsent, dlv>>
        /\ cl' = [cl EXCEPT ![p] = Failed(p, st, ch)]
    BY DEF FailRelease
  <1>3. cl[p].op # "p2p" => Served(p)
    BY <1>1, <1>2 DEF Call, Pending, Served
  <1>4. st \in {"none", "ok", "fail"} /\ ch \in Chan
    BY <1>1 DEF Status, NewPeer
  <1>5. cl[p].op = "get" /\ ch # 0 => ch <= nchan /\ chan[ch].id = cl[p].dst
    BY <1>1, <1>3 DEF Call, NewPeer
  <1>6. st = "ok" => cl[p].op = "p2p" \/ (cl[p].op = "bcast" /\ reply.ok)
    BY DEF Status
  <1> HIDE DEF st, ch
  <1>7. st = "ok" => is_broadcast_cb(cl[p].dst) \/ Arrived(p)
    <2>1. CASE cl[p].op = "p2p"
      <3>1. cl[p].tgt \in Chan \ {Srv} /\ chan[cl[p].tgt].id = cl[p].dst
        BY <1>1, <2>1 DEF Call, Client
      <3>2. chan[cl[p].tgt].buf = TheMessage(p)
        BY <2>1, <1>2, <3>1 DEF IInv, Locks
      <3> QED
        BY <1>2, <3>1, <3>2 DEF IInv, Carried, Arrived
    <2>2. CASE cl[p].op = "bcast" /\ reply.ok
      BY <2>2, <1>3 DEF IInv, Acked
    <2> QED
      BY <2>1, <2>2, <1>6
  <1> QED
    BY <1>2, <1>4, <1>5, <1>7, FailFrame

-----------------------------------------------------------------------------
\* The server's steps.

\* A step of the server that does not touch the exchanges on the clients'
\* channels: it may create or remove one, and answer on its own.
ServerStepQuiet ==
  /\ UNCHANGED <<cl, nsent, dlv>>
  /\ nchan' >= nchan
  /\ \A k \in Chan :
       /\ chan'[k].lock = chan[k].lock /\ chan'[k].buf = chan[k].buf
       /\ k # Srv => chan'[k].slot = chan[k].slot
       /\ k <= nchan => chan'[k].id = chan[k].id /\ chan'[k].owner = chan[k].owner
       /\ chan[k].gone => chan'[k].gone
  /\ chan'[Srv].slot = "free" <=> chan[Srv].slot = "free"
  /\ up' <=> ~chan'[Srv].gone

LEMMA ServerFrame ==
  ASSUME IInv, ServerStepQuiet, nchan' \in Chan
  PROVE  /\ Caches' /\ Locks' /\ Carried' /\ Delivered'
         /\ \A p \in Clients : TheMessage(p)' = TheMessage(p)
         /\ \A p \in Clients, k \in Chan : Unseen(p, k)' <=> Unseen(p, k)
         /\ \A p \in Clients : Arrived(p) => Arrived(p)'
PROOF
  <1>0. /\ TypeOK /\ Srv \in Chan /\ Srv <= nchan /\ nchan \in Nat /\ nchan' \in Nat
        /\ Chan \subseteq Nat
    BY ServerChannel DEF IInv, TypeOK, Srv
  <1>1. UNCHANGED <<cl, nsent, dlv>> /\ nchan' >= nchan
    BY DEF ServerStepQuiet
  <1>2. \A k \in Chan :
          /\ chan'[k].lock = chan[k].lock /\ chan'[k].buf = chan[k].buf
          /\ k # Srv => chan'[k].slot = chan[k].slot
          /\ k <= nchan => chan'[k].id = chan[k].id /\ chan'[k].owner = chan[k].owner
          /\ chan[k].gone => chan'[k].gone
    BY DEF ServerStepQuiet
  <1>3. \A p \in Clients : TheMessage(p)' = TheMessage(p)
    BY <1>1 DEF TheMessage
  <1>4. \A k \in Chan : ~(k <= nchan) => dlv[k] = <<>> /\ chan[k].slot = "free"
    BY <1>0 DEF IInv, FreshChannels
  <1>5. Caches'
    <2> SUFFICES ASSUME NEW q \in Clients, NEW i \in Ids, cl[q].cache[i] # 0
                 PROVE  cl[q].cache[i] <= nchan' /\ chan'[cl[q].cache[i]].id = i
      BY <1>1 DEF Caches
    <2>1. cl[q].cache[i] \in Chan
      BY <1>0 DEF TypeOK, Client
    <2>2. cl[q].cache[i] <= nchan /\ chan[cl[q].cache[i]].id = i
      BY DEF IInv, Caches
    <2>3. cl[q].cache[i] <= nchan'
      <3>1. nchan \in Nat /\ nchan' \in Nat /\ nchan <= nchan'
        BY <1>0, <1>1
      <3>2. cl[q].cache[i] \in Nat
        BY <1>0, <2>1
      <3> QED
        BY <3>1, <3>2, <2>2
    <2> QED
      BY <1>2, <2>1, <2>2, <2>3
  <1>6. Locks'
    <2>1. \A k \in Chan : chan'[k].slot = "free" <=> chan[k].slot = "free"
      BY <1>2 DEF ServerStepQuiet
    <2> QED
      BY <1>0, <1>1, <1>2, <1>3, <2>1 DEF IInv, Locks, ServerStepQuiet
  <1>7. Carried'
    <2> SUFFICES ASSUME NEW j \in Chan \ {Srv}, chan'[j].slot # "free"
                 PROVE  /\ chan'[j].buf # NoMsg
                        /\ Right(chan[j].buf, j)'
                        /\ chan'[j].slot = "served" <=>
                             chan'[j].buf \in Range(dlv'[j])
      BY DEF Carried
    <2>1. j <= nchan
      BY <1>2, <1>4
    <2> QED
      BY <1>1, <1>2, <2>1 DEF IInv, Carried, Right
  <1>8. Delivered'
    <2> SUFFICES ASSUME NEW j \in Chan, NEW x \in DOMAIN dlv[j]
                 PROVE  /\ Right(dlv[j][x], j)'
                        /\ dlv[j][x].n <= nsent
                        /\ \A y \in DOMAIN dlv[j] : dlv[j][y] = dlv[j][x] => x = y
      BY <1>1 DEF Delivered
    <2>1. j <= nchan
      BY <1>4
    <2> QED
      BY <1>1, <1>2, <2>1 DEF IInv, Delivered, Right
  <1>9. \A p \in Clients, k \in Chan : Unseen(p, k)' <=> Unseen(p, k)
    BY <1>1, <1>2, <1>3 DEF Unseen
  <1>10. ASSUME NEW p \in Clients, Arrived(p)
         PROVE  Arrived(p)'
    <2>1. PICK k \in Chan : chan[k].id = cl[p].dst /\ TheMessage(p) \in Range(dlv[k])
      BY <1>10 DEF Arrived
    <2>2. k <= nchan
      BY <2>1, <1>4 DEF Range
    <2> QED
      BY <2>1, <2>2, <1>1, <1>2, <1>3 DEF Arrived
  <1> QED
    BY <1>3, <1>5, <1>6, <1>7, <1>8, <1>9, <1>10

\* The server answers client c.
Answers(c) ==
  /\ ServerStepQuiet
  /\ chan[Srv].lock = c /\ chan[Srv].slot = "posted" /\ chan'[Srv].slot = "served"
  /\ serving \in {NoOne, c}
  /\ up /\ up' /\ serving' = NoOne /\ todo' = <<>> /\ ~posted'

\* What is left to show is that the list is right, and the answer.
LEMMA AnswerFrame ==
  ASSUME IInv, NEW c \in Clients, Answers(c), TypeOK', FreshChannels', UniqueIds',
         ListedChannels', Members',
         cl[c].op = "get" /\ reply'.ok =>
           reply'.ch # Srv /\ reply'.ch <= nchan' /\ chan'[reply'.ch].id = cl[c].dst,
         cl[c].op = "bcast" /\ reply'.ok => is_broadcast_cb(cl[c].dst) \/ Arrived(c),
         /\ cl[c].op = "bcast" /\ is_broadcast_cb(cl[c].dst)
         /\ "interrupt" \notin Faults
         => Spread(c)'
  PROVE  IInv'
PROOF
  <1>0. TypeOK /\ Srv \in Chan /\ c # NoOne /\ Chan \subseteq Nat
    BY ServerChannel, ProcCommAssumption DEF IInv
  <1>1. /\ UNCHANGED <<cl, nsent>> /\ up /\ up' /\ serving' = NoOne /\ todo' = <<>>
        /\ ~posted' /\ nchan' >= nchan /\ nchan \in Nat /\ nchan' \in Nat
    BY <1>0 DEF Answers, ServerStepQuiet, TypeOK
  <1>2. /\ Caches' /\ Locks' /\ Carried' /\ Delivered'
        /\ \A p \in Clients : TheMessage(p)' = TheMessage(p)
        /\ \A p \in Clients, k \in Chan : Unseen(p, k)' <=> Unseen(p, k)
        /\ \A p \in Clients : Arrived(p) => Arrived(p)'
    BY ServerFrame DEF Answers, TypeOK
  <1>3. \A p \in Clients : ~Served(p) /\ (Served(p)' <=> p = c)
    BY <1>0, <1>1 DEF Served, Answers, ServerStepQuiet
  <1>4. \A k \in Chan : k <= nchan => chan'[k].id = chan[k].id
    BY DEF Answers, ServerStepQuiet
  <1>5. \A k \in Chan : chan'[k].lock = chan[k].lock
    BY DEF Answers, ServerStepQuiet
  <1>6. Calls'
    <2> SUFFICES ASSUME NEW q \in Clients
                 PROVE  Call(q)'
      BY DEF Calls
    <2>1. Call(q) /\ cl[q].tgt \in Chan
      BY <1>0 DEF IInv, Calls, TypeOK, Client
    <2>2. cl[q].tgt <= nchan => /\ cl[q].tgt <= nchan'
                                /\ chan'[cl[q].tgt].id = chan[cl[q].tgt].id
      <3>1. nchan \in Nat /\ nchan' \in Nat /\ nchan <= nchan'
        BY <1>0, <1>1
      <3>2. cl[q].tgt \in Nat
        BY <1>0, <2>1
      <3> QED
        BY <3>1, <3>2, <2>1, <1>4
    <2> QED
      BY <1>1, <1>3, <2>1, <2>2 DEF Call
  <1>7. Relay'
    <2>1. \A i, k : ~Due(i, k)'
      BY <1>1 DEF Due
    <2>2. DOMAIN todo' = {}
      BY <1>1
    <2> QED
      BY <1>1, <2>1, <2>2 DEF Relay
  <1>8. Fresh'
    <2> SUFFICES ASSUME NEW q \in Clients
                 PROVE  Unsent(q)' /\ serving' # q
      BY DEF Fresh
    <2>1. Unsent(q)
      BY DEF IInv, Fresh
    <2>2. serving = q => q = c
      BY ProcCommAssumption DEF Answers
    <2> QED
      BY <1>1, <1>2, <1>3, <1>5, <2>1, <2>2, ProcCommAssumption DEF Unsent
  <1>9. Acked'
    BY <1>1, <1>2, <1>3, ProcCommAssumption DEF IInv, Acked
  <1>10. Broadcasts'
    BY <1>1, <1>3, ProcCommAssumption DEF Broadcasts
  <1> QED
    BY <1>2, <1>6, <1>7, <1>8, <1>9, <1>10 DEF IInv

\* The state in which the server takes a request up.
LEMMA Requested ==
  ASSUME IInv, NEW c \in Clients, NEW o, Request(c, o)
  PROVE  /\ TypeOK /\ Call(c) /\ cl[c] \in Client /\ cl[c].op = o
         /\ up /\ serving = NoOne /\ todo = <<>> /\ ~posted
         /\ chan[Srv].lock = c /\ chan[Srv].slot = "posted" /\ ~chan[Srv].gone
         /\ \A q \in Clients : ~Served(q)
PROOF
  <1>1. TypeOK /\ Call(c) /\ cl[c] \in Client
    BY DEF IInv, Calls, TypeOK
  <1> QED
    BY <1>1 DEF Request, IInv, Relay, Locks, Served

\* An answer that changes neither the list nor the channels, and does not
\* acknowledge a create request.
LEMMA PlainAnswer ==
  ASSUME IInv, NEW c \in Clients,
         up, chan[Srv].lock = c, chan[Srv].slot = "posted",
         serving \in {NoOne, c}, serving' = NoOne, todo' = <<>>,
         ~posted', posted' = posted,
         chan' = [chan EXCEPT ![Srv].slot = "served"],
         UNCHANGED <<up, reg, nchan, cl, nsent, dlv>>,
         reply' \in [ok : BOOLEAN, ch : Chan],
         cl[c].op # "close", cl[c].op = "create" => ~reply'.ok
  PROVE  Answers(c) /\ TypeOK' /\ FreshChannels' /\ UniqueIds' /\ ListedChannels'
         /\ Members' /\ \A k \in Chan : chan'[k].id = chan[k].id
PROOF
  <1>0. TypeOK /\ Srv \in Chan /\ nchan \in Nat /\ Chan \subseteq Nat
    BY ServerChannel DEF IInv, TypeOK
  <1>1. /\ chan' \in [Chan -> Channel]
        /\ ChanSet(Srv, chan[Srv].lock, "served", chan[Srv].buf)
    BY <1>0, SetSlot DEF TypeOK, Slot
  <1>2. Answers(c)
    <2>1. nchan' >= nchan
      BY <1>0
    <2>2. /\ up' <=> ~chan'[Srv].gone
          /\ chan'[Srv].slot = "free" <=> chan[Srv].slot = "free"
      BY <1>0, <1>1 DEF IInv, Locks, ChanSet
    <2>3. \A k \in Chan :
            /\ chan'[k].lock = chan[k].lock /\ chan'[k].buf = chan[k].buf
            /\ k # Srv => chan'[k].slot = chan[k].slot
            /\ chan'[k].id = chan[k].id /\ chan'[k].owner = chan[k].owner
            /\ chan'[k].gone = chan[k].gone
      BY <1>1 DEF ChanSet
    <2>4. ServerStepQuiet
      BY <2>1, <2>2, <2>3 DEF ServerStepQuiet
    <2> QED
      BY <1>1, <2>4 DEF Answers, ChanSet
  <1>3. todo' \in Seq([id : Ids, ch : Chan \ {Srv}])
    BY EmptySeq
  <1>4. TypeOK'
    BY <1>0, <1>1, <1>3 DEF TypeOK
  <1>5. \A k \in Chan : /\ chan'[k].id = chan[k].id /\ chan'[k].owner = chan[k].owner
                        /\ chan'[k].gone = chan[k].gone
    BY <1>1 DEF ChanSet
  <1>6. FreshChannels'
    <2>1. \A k \in Chan : k > nchan => chan'[k] = chan[k]
      BY <1>0, <1>1 DEF ChanSet, Srv
    <2> QED
      BY <1>0, <1>5, <2>1 DEF IInv, FreshChannels
  <1>7. \A i, k : Listed(i, k)' <=> Listed(i, k)
    BY DEF Listed
  <1>8. UniqueIds' /\ ListedChannels'
    BY <1>5, <1>7 DEF IInv, UniqueIds, ListedChannels
  <1>9. \A q \in Clients : ~Served(q) /\ (Served(q)' <=> q = c)
    BY <1>1 DEF Served, ChanSet
  <1>10. \A q \in Clients, i \in Ids, k \in Chan : Has(q, i, k)' <=> Has(q, i, k)
    BY <1>9 DEF Has
  <1>11. Members'
    BY <1>5, <1>7, <1>10 DEF IInv, Members
  <1> QED
    BY <1>2, <1>4, <1>5, <1>6, <1>8, <1>11

LEMMA GetClientStep ==
  ASSUME IInv, NEW c \in Clients, get_client(c)
  PROVE  IInv'
PROOF
  <1> DEFINE f == find_client(cl[c].dst)
  <1>1. /\ TypeOK /\ cl[c].op = "get" /\ up /\ serving = NoOne /\ todo = <<>>
        /\ ~posted /\ chan[Srv].lock = c /\ chan[Srv].slot = "posted"
        /\ Call(c)
    BY Requested DEF get_client
  <1>2. /\ chan' = [chan EXCEPT ![Srv].slot = "served"]
        /\ UNCHANGED <<up, reg, nchan, serving, todo, posted, cl, nsent, dlv>>
        /\ reply' = [ok |-> f # 0, ch |-> f]
    BY DEF get_client
  <1>3. /\ f \in Chan /\ (f # 0 => Listed(cl[c].dst, f))
    BY <1>1, Found DEF IInv, TypeOK, Entry
  <1>4. f # 0 => f # Srv /\ f <= nchan /\ chan[f].id = cl[c].dst
    BY <1>1, <1>3 DEF IInv, ListedChannels, Call
  <1> HIDE DEF f
  <1>5. reply' \in [ok : BOOLEAN, ch : Chan] /\ (reply'.ok => f # 0) /\ reply'.ch = f
    BY <1>2, <1>3
  <1>6. Answers(c) /\ TypeOK' /\ FreshChannels' /\ UniqueIds' /\ ListedChannels'
        /\ Members' /\ \A k \in Chan : chan'[k].id = chan[k].id
    BY <1>1, <1>2, <1>5, PlainAnswer
  <1> QED
    BY <1>1, <1>2, <1>3, <1>4, <1>5, <1>6, AnswerFrame

LEMMA RelayDoneStep ==
  ASSUME IInv, RelayDone
  PROVE  IInv'
PROOF
  <1>1. PICK c \in Clients : serving = c
    BY DEF IInv, TypeOK, RelayDone
  <1>2. /\ TypeOK /\ cl[c].op = "bcast" /\ up /\ todo = <<>> /\ ~posted
        /\ chan[Srv].lock = c /\ chan[Srv].slot = "posted"
    BY <1>1, ProcCommAssumption DEF IInv, Relay, RelayDone
  <1>3. /\ chan' = [chan EXCEPT ![Srv].slot = "served"]
        /\ UNCHANGED <<up, reg, nchan, todo, posted, reply, cl, nsent, dlv>>
        /\ serving' = NoOne
    BY DEF RelayDone
  <1>4. Answers(c) /\ TypeOK' /\ FreshChannels' /\ UniqueIds' /\ ListedChannels'
        /\ Members'
    BY <1>1, <1>2, <1>3, PlainAnswer DEF TypeOK
  <1>5. reply'.ok => is_broadcast_cb(cl[c].dst) \/ Arrived(c)
    BY <1>1, <1>2, <1>3 DEF IInv, Acked
  <1>6. is_broadcast_cb(cl[c].dst) /\ "interrupt" \notin Faults => Spread(c)'
    <2>1. \A i, k : Listed(i, k)' <=> Listed(i, k)
      BY <1>3 DEF Listed
    <2>2. \A i, k : ~Due(i, k)
      BY <1>2 DEF Due
    <2>3. TheMessage(c)' = TheMessage(c)
      BY <1>3 DEF TheMessage
    <2> QED
      BY <1>1, <1>2, <1>3, <2>1, <2>2, <2>3 DEF IInv, Broadcasts, Spread
  <1> QED
    BY <1>2, <1>4, <1>5, <1>6, AnswerFrame

LEMMA CreateStep ==
  ASSUME IInv, NEW c \in Clients, create_remote_server(c)
  PROVE  IInv'
PROOF
  <1> DEFINE d == cl[c].dst
             m == nchan + 1
  <1>1. /\ TypeOK /\ cl[c].op = "create" /\ up /\ serving = NoOne /\ todo = <<>>
        /\ ~posted /\ chan[Srv].lock = c /\ chan[Srv].slot = "posted"
        /\ Call(c) /\ ~chan[Srv].gone /\ \A q \in Clients : ~Served(q)
    BY Requested DEF create_remote_server
  <1>2. /\ Srv \in Chan /\ Srv = 0 /\ Chan \subseteq Nat /\ nchan \in Nat /\ d \in Ids
        /\ nchan \in Chan
    BY <1>1, ServerChannel DEF TypeOK, Call, Srv
  <1>3. UNCHANGED <<up, serving, todo, posted, cl, nsent, dlv>>
    BY DEF create_remote_server
  <1>4. CASE /\ reply' = [ok |-> FALSE, ch |-> 0]
             /\ chan' = [chan EXCEPT ![Srv].slot = "served"]
             /\ UNCHANGED <<reg, nchan>>
    <2>1. reply' \in [ok : BOOLEAN, ch : Chan] /\ ~reply'.ok
      BY <1>2, <1>4
    <2>2. Answers(c) /\ TypeOK' /\ FreshChannels' /\ UniqueIds' /\ ListedChannels'
          /\ Members'
      BY <1>1, <1>3, <1>4, <2>1, PlainAnswer
    <2> QED
      BY <1>1, <2>1, <2>2, AnswerFrame
  <1>5. CASE /\ find_client(d) = 0
             /\ nchan < MaxChan
             /\ nchan' = nchan + 1
             /\ reg' = add_client(d, nchan')
             /\ reply' = [ok |-> TRUE, ch |-> nchan']
             /\ chan' = [chan EXCEPT ![Srv].slot = "served",
                                     ![nchan'].id = d, ![nchan'].owner = c]
    <2>1. /\ m \in Chan \ {Srv} /\ m > nchan /\ nchan' = m /\ m \in Nat
          /\ \A k \in Chan : k > m => k > nchan
      BY <1>2, <1>5, ProcCommAssumption DEF Chan
    <2> HIDE DEF d, m
    <2>2. reg' = add_client(d, m) /\ reply' = [ok |-> TRUE, ch |-> m]
      BY <1>5, <2>1
    <2>3. chan' = [chan EXCEPT ![Srv].slot = "served", ![m].id = d, ![m].owner = c]
      BY <1>5, <2>1
    <2>4. /\ chan'[Srv] = [chan[Srv] EXCEPT !.slot = "served"]
          /\ chan'[m] = [chan[m] EXCEPT !.id = d, !.owner = c]
          /\ \A k \in Chan : k # Srv /\ k # m => chan'[k] = chan[k]
      BY <1>1, <1>2, <2>1, <2>3 DEF TypeOK
    <2>5. /\ chan[Srv] \in Channel /\ chan[m] \in Channel
          /\ chan'[Srv] \in Channel /\ chan'[m] \in Channel
      BY <1>1, <1>2, <2>1, <2>4 DEF TypeOK, Channel
    <2>6. chan' \in [Chan -> Channel]
      BY <1>1, <2>3, <2>4, <2>5 DEF TypeOK
    <2>7. /\ chan'[Srv].lock = chan[Srv].lock /\ chan'[Srv].buf = chan[Srv].buf
          /\ chan'[Srv].id = chan[Srv].id /\ chan'[Srv].owner = chan[Srv].owner
          /\ chan'[Srv].gone = chan[Srv].gone /\ chan'[Srv].slot = "served"
      BY <2>4, <2>5 DEF Channel
    <2>8. /\ chan'[m].lock = chan[m].lock /\ chan'[m].buf = chan[m].buf
          /\ chan'[m].slot = chan[m].slot /\ chan'[m].gone = chan[m].gone
          /\ chan'[m].id = d /\ chan'[m].owner = c
      BY <2>4, <2>5 DEF Channel
    <2>9. /\ reg' \in Seq(Entry) /\ UniqueIds'
          /\ \A j, l : Listed(j, l)' <=> Listed(j, l) \/ (j = d /\ l = m)
      BY <1>1, <1>2, <1>5, <2>1, <2>2, ListAppend DEF IInv, TypeOK, Entry
    <2>10. reply' \in [ok : BOOLEAN, ch : Chan] /\ reply'.ok /\ reply'.ch = m
      BY <2>1, <2>2
    <2>11. TypeOK'
      BY <1>1, <1>3, <2>1, <2>6, <2>9, <2>10 DEF TypeOK, Entry
    <2>12. Answers(c)
      <3>1. \A k \in Chan :
              /\ chan'[k].lock = chan[k].lock /\ chan'[k].buf = chan[k].buf
              /\ k # Srv => chan'[k].slot = chan[k].slot
              /\ k # m => chan'[k].id = chan[k].id /\ chan'[k].owner = chan[k].owner
              /\ chan[k].gone => chan'[k].gone
        BY <2>4, <2>7, <2>8
      <3>2. \A k \in Chan : k <= nchan => k # m
        BY <1>2, <2>1
      <3>3. ServerStepQuiet
        BY <1>1, <1>2, <1>3, <2>1, <2>7, <3>1, <3>2 DEF ServerStepQuiet
      <3> QED
        BY <1>1, <1>3, <2>7, <3>3 DEF Answers
    <2>13. ~chan[m].gone /\ chan[m].owner = NoOne
      BY <2>1 DEF IInv, FreshChannels
    <2>14. FreshChannels'
      <3>1. \A k \in Chan : k > m => chan'[k] = chan[k] /\ k > nchan
        BY <1>2, <2>1, <2>4
      <3> QED
        BY <1>3, <2>1, <2>7, <3>1 DEF IInv, FreshChannels
    <2>15. ListedChannels'
      <3> SUFFICES ASSUME NEW i \in Ids, NEW k \in Chan, Listed(i, k)'
                   PROVE  k # Srv /\ k <= m /\ chan'[k].id = i /\ ~chan'[k].gone
        BY <2>1 DEF ListedChannels
      <3>1. CASE i = d /\ k = m
        BY <3>1, <2>1, <2>8, <2>13
      <3>2. CASE Listed(i, k)
        <4>1. k # Srv /\ k <= nchan /\ chan[k].id = i /\ ~chan[k].gone
          BY <3>2 DEF IInv, ListedChannels
        <4>2. k # m /\ k <= m
          BY <4>1, <1>2, <2>1
        <4> QED
          BY <4>1, <4>2, <2>4
      <3> QED
        BY <3>1, <3>2, <2>9
    <2>16. Members'
      <3>1. \A q \in Clients : Served(q)' <=> q = c
        BY <1>1, <1>3, <2>7 DEF Served
      <3>2. \A q \in Clients, i \in Ids, k \in Chan :
              IF q = c THEN ~Has(q, i, k) /\ (Has(q, i, k)' <=> i = d /\ k = m)
                       ELSE Has(q, i, k)' <=> Has(q, i, k)
        BY <1>1, <1>3, <2>10, <3>1 DEF Has, d
      <3>3. ASSUME NEW q \in Clients, NEW i \in Ids, NEW k \in Chan, Has(q, i, k)'
            PROVE  Listed(i, k)' /\ chan'[k].owner = q
        <4>1. CASE q = c
          BY <4>1, <3>2, <3>3, <2>8, <2>9
        <4>2. CASE q # c
          <5>1. Listed(i, k) /\ chan[k].owner = q
            BY <4>2, <3>2, <3>3, <1>1 DEF IInv, Members
          <5>2. k # Srv /\ k # m
            BY <5>1, <2>13, ProcCommAssumption DEF IInv, FreshChannels
          <5> QED
            BY <5>1, <5>2, <2>4, <2>9
        <4> QED
          BY <4>1, <4>2
      <3>4. ASSUME NEW i \in Ids, NEW k \in Chan, Listed(i, k)'
            PROVE  \E q \in Clients : Has(q, i, k)'
        <4>1. CASE i = d /\ k = m
          BY <4>1, <3>2
        <4>2. CASE Listed(i, k)
          <5>1. PICK q \in Clients : Has(q, i, k)
            BY <4>2, <1>1 DEF IInv, Members
          <5> QED
            BY <5>1, <3>2
        <4> QED
          BY <4>1, <4>2, <3>4, <2>9
      <3> QED
        BY <3>3, <3>4 DEF Members
    <2> QED
      BY <1>1, <2>9, <2>11, <2>12, <2>14, <2>15, <2>16, AnswerFrame
  <1> QED
    BY <1>4, <1>5 DEF create_remote_server

LEMMA DestroyStep ==
  ASSUME IInv, NEW c \in Clients, destroy_remote_server(c)
  PROVE  IInv'
PROOF
  <1> DEFINE h == cl[c].ch
  <1>1. /\ TypeOK /\ cl[c].op = "close" /\ up /\ serving = NoOne /\ todo = <<>>
        /\ ~posted /\ chan[Srv].lock = c /\ chan[Srv].slot = "posted"
        /\ ~chan[Srv].gone /\ \A q \in Clients : ~Served(q)
    BY Requested DEF destroy_remote_server
  <1>2. /\ Srv \in Chan /\ Srv = 0 /\ nchan \in Nat /\ h \in Chan /\ cl[c].id \in Ids
        /\ Chan \subseteq Nat
    BY <1>1, ServerChannel DEF TypeOK, Client, Srv
  <1>3. Has(c, cl[c].id, h)
    BY <1>1 DEF Has
  <1>4. Listed(cl[c].id, h) /\ chan[h].owner = c
    BY <1>1, <1>2, <1>3 DEF IInv, Members
  <1>5. find_client(cl[c].id) = h /\ h # Srv
    BY <1>1, <1>2, <1>4, Found DEF IInv, TypeOK, Entry
  <1>6. /\ UNCHANGED <<up, nchan, serving, todo, posted, cl, nsent, dlv>>
        /\ reply' = [ok |-> h # 0, ch |-> 0] /\ reg' = remove_client(h)
        /\ chan' = [k \in Chan |->
                      IF k = Srv THEN [chan[k] EXCEPT !.slot = "served"]
                      ELSE IF k = h THEN [chan[k] EXCEPT !.gone = TRUE]
                      ELSE chan[k]]
    BY <1>2, <1>5 DEF destroy_remote_server
  <1> HIDE DEF h
  <1>7. /\ chan'[Srv] = [chan[Srv] EXCEPT !.slot = "served"]
        /\ chan'[h] = [chan[h] EXCEPT !.gone = TRUE]
        /\ \A k \in Chan : k # Srv /\ k # h => chan'[k] = chan[k]
    BY <1>2, <1>5, <1>6
  <1>8. /\ chan[Srv] \in Channel /\ chan[h] \in Channel
        /\ chan'[Srv] \in Channel /\ chan'[h] \in Channel
    BY <1>1, <1>2, <1>7 DEF TypeOK, Channel
  <1>9. chan' \in [Chan -> Channel]
    BY <1>1, <1>6, <1>7, <1>8 DEF TypeOK
  <1>10. /\ chan'[Srv].lock = chan[Srv].lock /\ chan'[Srv].buf = chan[Srv].buf
         /\ chan'[Srv].id = chan[Srv].id /\ chan'[Srv].owner = chan[Srv].owner
         /\ chan'[Srv].gone = chan[Srv].gone /\ chan'[Srv].slot = "served"
    BY <1>7, <1>8 DEF Channel
  <1>11. /\ chan'[h].lock = chan[h].lock /\ chan'[h].buf = chan[h].buf
         /\ chan'[h].slot = chan[h].slot /\ chan'[h].gone
         /\ chan'[h].id = chan[h].id /\ chan'[h].owner = chan[h].owner
    BY <1>7, <1>8 DEF Channel
  <1>12. /\ reg' \in Seq(Entry) /\ UniqueIds'
         /\ \A j, l : Listed(j, l)' <=> Listed(j, l) /\ l # h
    BY <1>1, <1>4, <1>6, ListRemove DEF IInv, TypeOK, Entry
  <1>13. reply' \in [ok : BOOLEAN, ch : Chan]
    BY <1>2, <1>6
  <1>14. TypeOK'
    BY <1>1, <1>6, <1>9, <1>12, <1>13 DEF TypeOK, Entry
  <1>15. Answers(c)
    <2>1. \A k \in Chan :
            /\ chan'[k].lock = chan[k].lock /\ chan'[k].buf = chan[k].buf
            /\ k # Srv => chan'[k].slot = chan[k].slot
            /\ chan'[k].id = chan[k].id /\ chan'[k].owner = chan[k].owner
            /\ chan[k].gone => chan'[k].gone
      BY <1>7, <1>10, <1>11
    <2>2. nchan' >= nchan
      BY <1>2, <1>6
    <2>3. ServerStepQuiet
      BY <1>1, <1>6, <1>10, <2>1, <2>2 DEF ServerStepQuiet
    <2> QED
      BY <1>1, <1>6, <1>10, <2>3 DEF Answers
  <1>16. FreshChannels'
    <2>1. h <= nchan
      BY <1>2, <1>4 DEF IInv, ListedChannels
    <2>2. \A k \in Chan : k > nchan => chan'[k] = chan[k]
      BY <1>2, <1>7, <2>1
    <2>3. /\ nchan' = nchan /\ dlv' = dlv /\ chan'[Srv].owner = chan[Srv].owner
          /\ FreshChannels
      BY <1>6, <1>10 DEF IInv
    <2> QED
      BY ONLY <2>2, <2>3 DEF FreshChannels
  <1>17. ListedChannels'
    BY <1>6, <1>7, <1>12 DEF IInv, ListedChannels
  <1>18. Members'
    <2>1. \A q \in Clients : Served(q)' <=> q = c
      BY <1>1, <1>6, <1>10 DEF Served
    <2>2. \A q \in Clients, i \in Ids, k \in Chan :
            IF q = c THEN ~Has(q, i, k)' /\ (Has(q, i, k) => k = h)
                     ELSE Has(q, i, k)' <=> Has(q, i, k)
      BY <1>1, <1>6, <2>1 DEF Has, h
    <2>3. ASSUME NEW q \in Clients, NEW i \in Ids, NEW k \in Chan, Has(q, i, k)'
          PROVE  Listed(i, k)' /\ chan'[k].owner = q
      <3>1. q # c /\ Has(q, i, k)
        BY <2>2, <2>3
      <3>2. Listed(i, k) /\ chan[k].owner = q
        BY <3>1, <1>1 DEF IInv, Members
      <3>3. k # h /\ k # Srv
        BY <3>1, <3>2, <1>4 DEF IInv, ListedChannels
      <3> QED
        BY <3>2, <3>3, <1>7, <1>12
    <2>4. ASSUME NEW i \in Ids, NEW k \in Chan, Listed(i, k)'
          PROVE  \E q \in Clients : Has(q, i, k)'
      <3>1. Listed(i, k) /\ k # h
        BY <2>4, <1>12
      <3>2. PICK q \in Clients : Has(q, i, k)
        BY <3>1, <1>1 DEF IInv, Members
      <3> QED
        BY <3>1, <3>2, <2>2
    <2> QED
      BY <2>3, <2>4 DEF Members
  <1> QED
    BY <1>1, <1>12, <1>14, <1>15, <1>16, <1>17, <1>18, AnswerFrame

-----------------------------------------------------------------------------
\* The server passes a message on.

\* The walk goes on: its first client is done.
LEMMA TodoTail ==
  ASSUME TypeOK, Relay, todo # <<>>, todo' = Tail(todo)
  PROVE  /\ todo' \in Seq(Entry)
         /\ (\A i, j \in DOMAIN todo : todo[i].ch = todo[j].ch => i = j)'
         /\ \A i, k : Due(i, k)' => Due(i, k)
         /\ \A i, k : Due(i, k) => Due(i, k)' \/ (i = Head(todo).id /\ k = Head(todo).ch)
         /\ \A k : Waiting(k)' => Waiting(k)
PROOF
  <1>0. todo \in Seq(Entry)
    BY DEF TypeOK, Entry
  <1>1. /\ todo' \in Seq(Entry) /\ Len(todo') = Len(todo) - 1
        /\ \A j \in 1..Len(todo') : todo'[j] = todo[j + 1]
    BY <1>0, HeadTailProperties
  <1>2. /\ DOMAIN todo = 1..Len(todo) /\ DOMAIN todo' = 1..Len(todo')
        /\ Len(todo) \in Nat \ {0} /\ Head(todo) = todo[1]
    BY <1>0, <1>1, LenProperties, EmptySeq
  <1> DEFINE f(j) == j + 1
  <1>3. \A j \in DOMAIN todo' : f(j) \in DOMAIN todo /\ f(j) # 1 /\ todo'[j] = todo[f(j)]
    BY <1>1, <1>2
  <1>4. \A j, l \in DOMAIN todo' : f(j) = f(l) => j = l
    BY <1>1, <1>2
  <1>5. \A x \in DOMAIN todo : x # 1 => \E j \in DOMAIN todo' : f(j) = x
    <2> SUFFICES ASSUME NEW x \in DOMAIN todo, x # 1
                 PROVE  \E j \in DOMAIN todo' : f(j) = x
      OBVIOUS
    <2>1. x - 1 \in DOMAIN todo' /\ f(x - 1) = x
      BY <1>1, <1>2
    <2> QED
      BY <2>1
  <1> HIDE DEF f
  <1>6. \A i, j \in DOMAIN todo' : todo'[i].ch = todo'[j].ch => i = j
    BY <1>3, <1>4 DEF Relay
  <1>7. ASSUME NEW i, NEW k, Due(i, k)'
        PROVE  Due(i, k)
    <2>1. PICK x \in DOMAIN todo' : todo'[x].id = i /\ todo'[x].ch = k
      BY <1>7 DEF Due
    <2> QED
      BY <2>1, <1>3 DEF Due
  <1>8. ASSUME NEW i, NEW k, Due(i, k), ~(i = Head(todo).id /\ k = Head(todo).ch)
        PROVE  Due(i, k)'
    <2>1. PICK x \in DOMAIN todo : todo[x].id = i /\ todo[x].ch = k
      BY <1>8 DEF Due
    <2>2. PICK y \in DOMAIN todo' : f(y) = x
      BY <2>1, <1>2, <1>5, <1>8
    <2> QED
      BY <2>1, <2>2, <1>3 DEF Due
  <1>9. ASSUME NEW k, Waiting(k)'
        PROVE  Waiting(k)
    <2>1. PICK x \in DOMAIN todo' : todo'[x].ch = k
      BY <1>9 DEF Waiting
    <2> QED
      BY <2>1, <1>3 DEF Waiting
  <1> QED
    BY <1>1, <1>6, <1>7, <1>8, <1>9

\* While the server is busy with a request that it passes on, nothing changes
\* but how far it has come.
LEMMA WalkFrame ==
  ASSUME IInv, UNCHANGED <<up, reg, nchan, cl, nsent, dlv>>,
         chan[Srv].slot = "posted", chan'[Srv] = chan[Srv],
         \A k \in Chan : /\ chan'[k].id = chan[k].id /\ chan'[k].owner = chan[k].owner
                         /\ chan'[k].gone = chan[k].gone
  PROVE  /\ UniqueIds' /\ ListedChannels' /\ Members' /\ Calls' /\ Caches' /\ Delivered'
         /\ \A p \in Clients : ~Served(p) /\ ~Served(p)'
         /\ \A i, k : Listed(i, k)' <=> Listed(i, k)
         /\ \A p : TheMessage(p)' = TheMessage(p)
         /\ \A p \in Clients : Arrived(p)' <=> Arrived(p)
PROOF
  <1>0. TypeOK
    BY DEF IInv
  <1>1. \A p \in Clients : ~Served(p) /\ ~Served(p)'
    BY DEF Served
  <1>2. \A i, k : Listed(i, k)' <=> Listed(i, k)
    BY DEF Listed
  <1>3. \A p : TheMessage(p)' = TheMessage(p)
    BY DEF TheMessage
  <1>4. UniqueIds' /\ ListedChannels'
    BY <1>2 DEF IInv, UniqueIds, ListedChannels
  <1>5. Members'
    <2>1. \A q \in Clients, i \in Ids, k \in Chan : Has(q, i, k)' <=> Has(q, i, k)
      BY <1>1 DEF Has
    <2> QED
      BY <1>2, <2>1 DEF IInv, Members
  <1>6. Calls'
    <2> SUFFICES ASSUME NEW q \in Clients
                 PROVE  Call(q)'
      BY DEF Calls
    <2>1. Call(q) /\ cl[q].tgt \in Chan
      BY <1>0 DEF IInv, Calls, TypeOK, Client
    <2> QED
      BY <1>1, <2>1 DEF Call
  <1>7. Caches'
    <2>1. \A q \in Clients, i \in Ids : cl[q].cache[i] \in Chan
      BY <1>0 DEF TypeOK, Client
    <2> QED
      BY <2>1 DEF IInv, Caches
  <1>8. Delivered'
    BY DEF IInv, Delivered, Right
  <1>9. \A p \in Clients : Arrived(p)' <=> Arrived(p)
    BY <1>3 DEF Arrived
  <1> QED
    BY <1>1, <1>2, <1>3, <1>4, <1>5, <1>6, <1>7, <1>8, <1>9

\* What is left to show when no channel is touched.
LEMMA WalkQuiet ==
  ASSUME IInv, NEW c \in Clients, serving \in {NoOne, c}, serving' = c,
         UNCHANGED <<up, reg, nchan, chan, cl, nsent, dlv>>,
         chan[Srv].slot = "posted", TypeOK', Relay',
         \A k \in Chan \ {Srv} : Waiting(k)' => Unseen(c, k),
         reply'.ok => is_broadcast_cb(cl[c].dst) \/ Arrived(c),
         "interrupt" \notin Faults /\ is_broadcast_cb(cl[c].dst) => Spread(c)'
  PROVE  IInv'
PROOF
  <1>1. /\ UniqueIds' /\ ListedChannels' /\ Members' /\ Calls' /\ Caches' /\ Delivered'
        /\ \A p \in Clients : ~Served(p) /\ ~Served(p)'
        /\ \A p : TheMessage(p)' = TheMessage(p)
        /\ \A p \in Clients : Arrived(p)' <=> Arrived(p)
    BY WalkFrame
  <1>2. FreshChannels' /\ Locks' /\ Carried'
    BY <1>1 DEF IInv, FreshChannels, Locks, Carried, Right
  <1>3. \A p, k : Unseen(p, k)' <=> Unseen(p, k)
    BY <1>1 DEF Unseen
  <1>4. Fresh'
    <2> SUFFICES ASSUME NEW q \in Clients
                 PROVE  Unsent(q)'
      BY <1>3 DEF Fresh
    <2>1. Unsent(q) /\ (serving = q => q = c)
      BY ProcCommAssumption DEF IInv, Fresh
    <2> QED
      BY <1>1, <1>3, <2>1 DEF Unsent
  <1>5. Acked'
    BY <1>1 DEF IInv, Acked
  <1>6. Broadcasts'
    BY <1>1 DEF Broadcasts
  <1> QED
    BY <1>1, <1>2, <1>4, <1>5, <1>6 DEF IInv

LEMMA DataSendStep ==
  ASSUME IInv, NEW c \in Clients, data_send(c)
  PROVE  IInv'
PROOF
  <1> DEFINE d == cl[c].dst
             e == [id |-> d, ch |-> find_client(d)]
  <1>1. /\ TypeOK /\ cl[c].op = "bcast" /\ up /\ serving = NoOne
        /\ ~posted /\ chan[Srv].lock = c /\ chan[Srv].slot = "posted"
        /\ Call(c) /\ \A q \in Clients : ~Served(q)
    BY Requested DEF data_send
  <1>2. /\ UNCHANGED <<up, reg, nchan, posted, chan, cl, nsent, dlv>> /\ serving' = c
        /\ reply' = [ok |-> is_broadcast_cb(d), ch |-> 0]
        /\ todo' = IF is_broadcast_cb(d) THEN reg
                   ELSE IF find_client(d) = 0 THEN <<>> ELSE <<e>>
    BY DEF data_send
  <1>3. c # NoOne /\ 0 \in Chan /\ reg \in Seq(Entry) /\ UniqueIds /\ ListedChannels
    BY <1>1, ServerChannel, ProcCommAssumption DEF Srv, IInv, TypeOK, Entry
  <1>4. /\ todo' \in Seq(Entry)
        /\ \A i, j \in DOMAIN todo' : todo'[i].ch = todo'[j].ch => i = j
        /\ \A i \in Ids, k \in Chan :
             /\ Due(i, k)' => Listed(i, k) /\ (is_broadcast_cb(d) \/ d = i)
             /\ is_broadcast_cb(d) /\ Listed(i, k) => Due(i, k)'
    <2>1. CASE is_broadcast_cb(d)
      <3>1. todo' = reg
        BY <1>2, <2>1
      <3>2. \A i, k : Due(i, k)' <=> Listed(i, k)
        BY <3>1 DEF Due, Listed
      <3>3. \A i, j \in DOMAIN todo' : todo'[i].ch = todo'[j].ch => i = j
        BY <3>1, <1>3, OneChannel
      <3> QED
        BY <1>3, <2>1, <3>1, <3>2, <3>3
    <2>2. CASE ~is_broadcast_cb(d) /\ find_client(d) = 0
      <3>1. todo' = <<>>
        BY <1>2, <2>2
      <3>2. todo' \in Seq(Entry) /\ DOMAIN todo' = {}
        BY <3>1, EmptySeq
      <3>3. \A i, k : ~Due(i, k)'
        BY <3>2 DEF Due
      <3> QED
        BY <2>2, <3>2, <3>3
    <2>3. CASE ~is_broadcast_cb(d) /\ find_client(d) # 0
      <3>1. todo' = <<e>>
        BY <1>2, <2>3
      <3>2. Listed(d, find_client(d)) /\ d \in Ids /\ find_client(d) \in Chan \ {Srv}
        BY <2>3, <1>3, Found
      <3>3. e \in Entry /\ e.id = d /\ e.ch = find_client(d)
        BY <3>2 DEF Entry
      <3> HIDE DEF e
      <3>4. todo' \in Seq(Entry) /\ DOMAIN todo' = {1} /\ todo'[1] = e
        BY <3>1, <3>3
      <3>5. \A i, k : Due(i, k)' => i = d /\ k = find_client(d)
        BY <3>3, <3>4 DEF Due
      <3> QED
        BY <2>3, <3>2, <3>4, <3>5
    <2> QED
      BY <2>1, <2>2, <2>3
  <1>5. reply' \in [ok : BOOLEAN, ch : Chan] /\ (reply'.ok => is_broadcast_cb(d))
    <2>1. reply'.ok = is_broadcast_cb(d) /\ is_broadcast_cb(d) \in BOOLEAN
      BY <1>2 DEF is_broadcast_cb
    <2>2. reply' \in [ok : BOOLEAN, ch : Chan]
      BY <1>2, <1>3, <2>1
    <2> QED
      BY <2>1, <2>2
  <1>6. TypeOK'
    BY <1>1, <1>2, <1>4, <1>5 DEF TypeOK, Entry
  <1>7. Relay'
    <2>1. \A i, k : Listed(i, k)' <=> Listed(i, k)
      BY <1>2 DEF Listed
    <2> QED
      BY <1>1, <1>2, <1>3, <1>4, <2>1 DEF Relay
  <1>8. \A k \in Chan \ {Srv} : Unseen(c, k)
    BY <1>1, <1>3 DEF IInv, Fresh, Unsent
  <1>9. is_broadcast_cb(cl[c].dst) => Spread(c)'
    <2>1. \A i, k : Listed(i, k)' <=> Listed(i, k)
      BY <1>2 DEF Listed
    <2> QED
      BY <1>2, <1>4, <2>1 DEF Spread
  <1> QED
    BY <1>1, <1>2, <1>5, <1>6, <1>7, <1>8, <1>9, WalkQuiet

\* The state of a server that passes a message on.
LEMMA Walking ==
  ASSUME IInv, serving # NoOne
  PROVE  \E c \in Clients :
           /\ serving = c /\ TypeOK /\ cl[c].op = "bcast" /\ up
           /\ chan[Srv].lock = c /\ chan[Srv].slot = "posted"
           /\ chan[Srv].buf = TheMessage(c) /\ ~chan[Srv].gone
           /\ cl[c].n > 0 /\ cl[c].id \in Ids /\ cl[c].ch \in Chan
           /\ find_client(cl[c].id) = cl[c].ch
           /\ \A i \in Ids, k \in Chan : Listed(i, k) /\ k # cl[c].ch => chan[k].owner # c
PROOF
  <1>1. PICK c \in Clients : serving = c
    BY DEF IInv, TypeOK
  <1>2. /\ TypeOK /\ cl[c].op = "bcast" /\ up
        /\ chan[Srv].lock = c /\ chan[Srv].slot = "posted" /\ Call(c)
        /\ cl[c] \in Client /\ Srv \in Chan
    BY <1>1, ServerChannel DEF IInv, Relay, Calls, TypeOK
  <1>3. chan[Srv].buf = TheMessage(c) /\ ~chan[Srv].gone
    BY <1>2 DEF IInv, Locks
  <1>4. cl[c].n > 0 /\ cl[c].id \in Ids /\ cl[c].ch \in Chan
    BY <1>2 DEF Call, Client
  <1>5. Has(c, cl[c].id, cl[c].ch)
    BY <1>2 DEF Has
  <1>6. Listed(cl[c].id, cl[c].ch)
    BY <1>2, <1>4, <1>5 DEF IInv, Members
  <1>7. find_client(cl[c].id) = cl[c].ch
    BY <1>2, <1>6, Found DEF IInv, TypeOK, Entry
  <1>8. ASSUME NEW i \in Ids, NEW k \in Chan, Listed(i, k), k # cl[c].ch
        PROVE  chan[k].owner # c
    <2>1. PICK q \in Clients : Has(q, i, k)
      BY <1>2, <1>8 DEF IInv, Members
    <2>2. chan[k].owner = q
      BY <1>2, <2>1 DEF IInv, Members
    <2>3. q # c
      BY <1>2, <1>8, <2>1 DEF Has
    <2> QED
      BY <2>2, <2>3
  <1> QED
    BY <1>1, <1>2, <1>3, <1>4, <1>7, <1>8

\* The walk has come to a client that it sends nothing, or gives up on.
LEMMA PassStep ==
  ASSUME IInv, NEW c \in Clients, serving = c, serving' = c, todo # <<>>,
         UNCHANGED <<up, reg, nchan, chan, cl, nsent, dlv>>,
         todo' = Tail(todo), posted' = FALSE,
         reply' \in [ok : BOOLEAN, ch : Chan],
         reply'.ok => is_broadcast_cb(cl[c].dst) \/ Arrived(c),
         "interrupt" \notin Faults /\ is_broadcast_cb(cl[c].dst) =>
           \/ Head(todo).ch = cl[c].ch
           \/ ~is_bc_match_cb(cl[c].dst, Head(todo).id)
  PROVE  IInv'
PROOF
  <1>1. /\ TypeOK /\ Relay /\ chan[Srv].slot = "posted" /\ c # NoOne
        /\ cl[c].op = "bcast"
    BY ProcCommAssumption DEF IInv, Relay
  <1>2. /\ todo' \in Seq(Entry)
        /\ (\A i, j \in DOMAIN todo : todo[i].ch = todo[j].ch => i = j)'
        /\ \A i, k : Due(i, k)' => Due(i, k)
        /\ \A i, k : Due(i, k) => Due(i, k)' \/ (i = Head(todo).id /\ k = Head(todo).ch)
        /\ \A k : Waiting(k)' => Waiting(k)
    BY <1>1, TodoTail
  <1>3. TypeOK'
    BY <1>1, <1>2 DEF TypeOK, Entry
  <1>4. \A i, k : Listed(i, k)' <=> Listed(i, k)
    BY DEF Listed
  <1>5. Relay'
    BY <1>1, <1>2, <1>4 DEF Relay
  <1>6. \A k \in Chan \ {Srv} : Waiting(k)' => Unseen(c, k)
    BY <1>1, <1>2 DEF IInv, Fresh
  <1>7. ASSUME "interrupt" \notin Faults, is_broadcast_cb(cl[c].dst)
        PROVE  Spread(c)'
    <2>1. Spread(c)
      BY <1>1, <1>7 DEF IInv, Broadcasts
    <2>2. TheMessage(c)' = TheMessage(c)
      BY DEF TheMessage
    <2> QED
      BY <1>2, <1>4, <1>7, <2>1, <2>2 DEF Spread
  <1> QED
    BY <1>1, <1>3, <1>5, <1>6, <1>7, WalkQuiet

LEMMA RelaySkipStep ==
  ASSUME IInv, RelaySkip
  PROVE  IInv'
PROOF
  <1>1. PICK c \in Clients :
          /\ serving = c /\ TypeOK /\ cl[c].op = "bcast"
          /\ find_client(cl[c].id) = cl[c].ch
    BY Walking DEF RelaySkip
  <1>2. /\ todo # <<>> /\ todo' = Tail(todo) /\ ~posted /\ posted' = posted
        /\ UNCHANGED <<up, reg, nchan, serving, reply, chan, cl, nsent, dlv>>
    BY DEF RelaySkip
  <1>3. posted' = FALSE /\ reply' \in [ok : BOOLEAN, ch : Chan]
    BY <1>1, <1>2 DEF TypeOK
  <1>4. reply'.ok => is_broadcast_cb(cl[c].dst) \/ Arrived(c)
    BY <1>1, <1>2 DEF IInv, Acked
  <1>5. \/ Head(todo).ch = cl[c].ch
        \/ ~is_bc_match_cb(cl[c].dst, Head(todo).id)
    BY <1>1 DEF RelaySkip, broadcast_send_cb
  <1> QED
    BY <1>1, <1>2, <1>3, <1>4, <1>5, PassStep

LEMMA RelayInterruptedStep ==
  ASSUME IInv, RelayInterrupted
  PROVE  IInv'
PROOF
  <1>1. PICK c \in Clients : serving = c /\ TypeOK
    BY Walking DEF RelayInterrupted, ToSend
  <1>2. /\ todo # <<>> /\ todo' = Tail(todo) /\ posted' = FALSE
        /\ UNCHANGED <<up, reg, nchan, serving, chan, cl, nsent, dlv>>
        /\ reply' = [ok |-> is_broadcast_cb(cl[c].dst), ch |-> 0]
        /\ "interrupt" \in Faults
    BY <1>1 DEF RelayInterrupted, ToSend
  <1>3. /\ reply'.ok = is_broadcast_cb(cl[c].dst) /\ is_broadcast_cb(cl[c].dst) \in BOOLEAN
    BY <1>2 DEF is_broadcast_cb
  <1>4. reply' \in [ok : BOOLEAN, ch : Chan]
    BY <1>2, <1>3, ServerChannel DEF Srv
  <1> QED
    BY <1>1, <1>2, <1>3, <1>4, PassStep

\* The server takes or gives back SEND of the client it has come to.
LEMMA WalkChannel ==
  ASSUME IInv, NEW c \in Clients, serving = c, serving' = c,
         NEW h \in Chan \ {Srv}, NEW l, NEW s, NEW b,
         h <= nchan, ChanSet(h, l, s, b), chan' \in [Chan -> Channel],
         \A p \in Clients : l # p /\ chan[h].lock # p,
         s = "free" <=> l = NoOne, b \in {NoMsg, TheMessage(c)},
         UNCHANGED <<up, reg, nchan, cl, nsent, dlv>>
  PROVE  /\ FreshChannels' /\ UniqueIds' /\ ListedChannels' /\ Members' /\ Calls'
         /\ Caches' /\ Locks' /\ Delivered'
         /\ \A p \in Clients : ~Served(p) /\ ~Served(p)'
         /\ \A i, k : Listed(i, k)' <=> Listed(i, k)
         /\ \A p : TheMessage(p)' = TheMessage(p)
         /\ \A p \in Clients : Arrived(p)' <=> Arrived(p)
         /\ \A p \in Clients : p # c => Unsent(p)'
PROOF
  <1>0. /\ TypeOK /\ Srv \in Chan /\ Chan \subseteq Nat /\ nchan \in Nat /\ c # NoOne
        /\ chan[Srv].slot = "posted" /\ Call(c) /\ cl[c].op = "bcast"
    BY ServerChannel, ProcCommAssumption DEF IInv, TypeOK, Relay, Calls
  <1>1. /\ chan'[Srv] = chan[Srv]
        /\ \A k \in Chan : /\ chan'[k].id = chan[k].id /\ chan'[k].owner = chan[k].owner
                           /\ chan'[k].gone = chan[k].gone
    BY <1>0 DEF ChanSet
  <1>2. /\ UniqueIds' /\ ListedChannels' /\ Members' /\ Calls' /\ Caches' /\ Delivered'
        /\ \A p \in Clients : ~Served(p) /\ ~Served(p)'
        /\ \A i, k : Listed(i, k)' <=> Listed(i, k)
        /\ \A p : TheMessage(p)' = TheMessage(p)
        /\ \A p \in Clients : Arrived(p)' <=> Arrived(p)
    BY <1>0, <1>1, WalkFrame
  <1>3. FreshChannels'
    <2>1. \A k \in Chan : k > nchan => chan'[k] = chan[k]
      BY <1>0 DEF ChanSet
    <2> QED
      BY <1>0, <1>1, <2>1 DEF IInv, FreshChannels
  <1>4. b # NoMsg => b.n <= nsent
    BY <1>0, MessageOf DEF Call
  <1>5. Locks'
    <2>1. (up <=> ~chan[Srv].gone)' /\ (chan[Srv].lock # "server")'
      BY <1>1 DEF IInv, Locks
    <2>2. ASSUME NEW j \in Chan
          PROVE  /\ (chan[j].slot = "free" <=> chan[j].lock = NoOne)'
                 /\ (chan[j].buf # NoMsg => chan[j].buf.n <= nsent)'
                 /\ \A p \in Clients : (chan[j].lock = p =>
                      /\ cl[p].op \in Pending /\ cl[p].tgt = j
                      /\ cl[p].op \in {"p2p", "bcast"} => chan[j].buf = TheMessage(p))'
      <3>1. CASE j = h
        BY <3>1, <1>4 DEF ChanSet
      <3>2. CASE j # h
        <4>1. chan'[j] = chan[j]
          BY <3>2 DEF ChanSet
        <4> QED
          BY <4>1, <1>2 DEF IInv, Locks
      <3> QED
        BY <3>1, <3>2
    <2> QED
      BY <2>1, <2>2 DEF Locks
  <1>6. ASSUME NEW p \in Clients, p # c
        PROVE  Unsent(p)'
    <2>1. \A k \in Chan : Unseen(p, k) => Unseen(p, k)'
      <3>1. TheMessage(p) # NoMsg /\ TheMessage(p) # TheMessage(c)
        BY <1>6, MessagesDiffer
      <3>2. \A k \in Chan : chan'[k].buf = chan[k].buf \/ chan'[k].buf = b
        BY DEF ChanSet
      <3> QED
        BY <1>2, <3>1, <3>2 DEF Unseen
    <2>2. \A k \in Chan : chan'[k].lock = p <=> chan[k].lock = p
      BY DEF ChanSet
    <2>3. Unsent(p)
      BY DEF IInv, Fresh
    <2> QED
      BY <1>2, <1>6, <2>1, <2>2, <2>3 DEF Unsent
  <1> QED
    BY <1>2, <1>3, <1>5, <1>6

LEMMA RelayPostStep ==
  ASSUME IInv, RelayPost
  PROVE  IInv'
PROOF
  <1>1. PICK c \in Clients :
          /\ serving = c /\ TypeOK /\ cl[c].op = "bcast" /\ chan[Srv].slot = "posted"
          /\ chan[Srv].buf = TheMessage(c) /\ cl[c].n > 0
          /\ find_client(cl[c].id) = cl[c].ch
          /\ \A i \in Ids, k \in Chan : Listed(i, k) /\ k # cl[c].ch => chan[k].owner # c
    BY Walking DEF RelayPost, ToSend
  <1> DEFINE e == Head(todo)
             h == Head(todo).ch
  <1>2. /\ todo # <<>> /\ ~posted /\ posted' = TRUE /\ chan[h].lock = NoOne
        /\ chan' = [chan EXCEPT ![h].lock = "server", ![h].slot = "posted",
                                ![h].buf = TheMessage(c)]
        /\ UNCHANGED <<up, reg, nchan, serving, todo, reply, cl, nsent, dlv>>
        /\ is_broadcast_cb(cl[c].dst) => broadcast_send_cb(e)
    BY <1>1 DEF RelayPost, ToSend
  <1>3. /\ e.id \in Ids /\ h \in Chan \ {Srv} /\ Due(e.id, h) /\ e = todo[1]
        /\ 1 \in DOMAIN todo
    BY <1>1, <1>2, HeadOfTodo
  <1>4. /\ c # NoOne /\ "server" # NoOne /\ TheMessage(c) \in Message
        /\ TheMessage(c).from = c /\ TheMessage(c).to = cl[c].dst
        /\ \A p \in Clients : p # "server" /\ p # NoOne
    BY <1>1, MessageOf, ProcCommAssumption
  <1>5. /\ Listed(e.id, h)
        /\ is_broadcast_cb(cl[c].dst) \/ cl[c].dst = e.id
    BY <1>1, <1>3, <1>4 DEF IInv, Relay
  <1>6. h <= nchan /\ chan[h].id = e.id
    <2>1. ListedChannels
      BY DEF IInv
    <2> QED
      BY ONLY <1>3, <1>5, <2>1 DEF ListedChannels
  <1>7. chan' \in [Chan -> Channel] /\ ChanSet(h, "server", "posted", TheMessage(c))
    BY <1>1, <1>2, <1>3, <1>4, SetChannel DEF TypeOK, Holder, Slot, Buffer
  <1>8. Right(TheMessage(c), h) /\ Unseen(c, h)
    <2>1. is_broadcast_cb(cl[c].dst) =>
            h # cl[c].ch /\ is_bc_match_cb(cl[c].dst, e.id)
      BY <1>1, <1>2 DEF broadcast_send_cb
    <2>2. is_broadcast_cb(cl[c].dst) => chan[h].owner # c
      BY <1>1, <1>3, <1>5, <2>1
    <2>3. Waiting(h)
      BY <1>2, <1>3 DEF Waiting
    <2>4. Unseen(c, h)
      BY <1>1, <1>3, <2>3 DEF IInv, Fresh
    <2> QED
      BY <1>4, <1>5, <1>6, <2>1, <2>2, <2>4 DEF Right
  <1>w. \A k : Waiting(k)' => Waiting(k) /\ k # h
    <2> SUFFICES ASSUME NEW k, Waiting(k)'
                 PROVE  Waiting(k) /\ k # h
      OBVIOUS
    <2>1. PICK j \in DOMAIN todo : todo[j].ch = k /\ j # 1
      BY <1>2 DEF Waiting
    <2> QED
      BY <1>3, <2>1 DEF Waiting, IInv, Relay
  <1>d. \A i, k : Due(i, k)' <=> Due(i, k)
    BY <1>2 DEF Due
  <1> HIDE DEF e, h
  <1>9. /\ FreshChannels' /\ UniqueIds' /\ ListedChannels' /\ Members' /\ Calls'
        /\ Caches' /\ Locks' /\ Delivered'
        /\ \A p \in Clients : ~Served(p) /\ ~Served(p)'
        /\ \A i, k : Listed(i, k)' <=> Listed(i, k)
        /\ \A p : TheMessage(p)' = TheMessage(p)
        /\ \A p \in Clients : Arrived(p)' <=> Arrived(p)
        /\ \A p \in Clients : p # c => Unsent(p)'
    BY <1>1, <1>2, <1>3, <1>4, <1>6, <1>7, WalkChannel
  <1>10. TypeOK'
    BY <1>1, <1>2, <1>7 DEF TypeOK
  <1>11. Relay'
    <2>1. /\ chan'[Srv] = chan[Srv] /\ chan'[h].lock = "server"
          /\ chan'[h].buf = TheMessage(c)
      BY <1>3, <1>7, ServerChannel DEF ChanSet
    <2>2. Head(todo').ch = h
      BY <1>2 DEF h
    <2> QED
      BY <1>1, <1>2, <1>4, <1>9, <1>d, <2>1, <2>2 DEF IInv, Relay
  <1>12. Carried'
    <2> SUFFICES ASSUME NEW j \in Chan \ {Srv}, chan'[j].slot # "free"
                 PROVE  /\ chan'[j].buf # NoMsg
                        /\ Right(chan[j].buf, j)'
                        /\ chan'[j].slot = "served" <=>
                             chan'[j].buf \in Range(dlv'[j])
      BY DEF Carried
    <2>1. CASE j = h
      <3>1. /\ chan'[j].buf = TheMessage(c) /\ chan'[j].slot = "posted"
            /\ chan'[j].id = chan[j].id /\ chan'[j].owner = chan[j].owner
        BY <2>1, <1>7 DEF ChanSet
      <3>2. TheMessage(c) # NoMsg
        BY <1>4, NoMessage
      <3> QED
        BY <2>1, <3>1, <3>2, <1>2, <1>8 DEF Right, Unseen
    <2>2. CASE j # h
      <3>1. chan'[j] = chan[j]
        BY <2>2, <1>7 DEF ChanSet
      <3> QED
        BY <3>1, <1>2 DEF IInv, Carried, Right
    <2> QED
      BY <2>1, <2>2
  <1>13. Fresh'
    <2>1. Unsent(c)'
      BY <1>1, <1>2 DEF Unsent
    <2>2. \A k \in Chan \ {Srv} : Waiting(k)' => Unseen(c, k)'
      <3>1. \A k \in Chan : k # h => chan'[k] = chan[k]
        BY <1>7 DEF ChanSet
      <3>2. \A k \in Chan \ {Srv} : Waiting(k)' => Unseen(c, k) /\ k # h
        BY <1>1, <1>w DEF IInv, Fresh
      <3> QED
        BY <1>2, <1>9, <3>1, <3>2 DEF Unseen
    <2> QED
      BY <1>1, <1>2, <1>9, <2>1, <2>2 DEF Fresh
  <1>14. Acked'
    BY <1>1, <1>2, <1>9 DEF IInv, Acked
  <1>15. Broadcasts'
    BY <1>1, <1>2, <1>9, <1>d DEF IInv, Broadcasts, Spread
  <1> QED
    BY <1>9, <1>10, <1>11, <1>12, <1>13, <1>14, <1>15 DEF IInv

LEMMA RelayReturnStep ==
  ASSUME IInv, RelayReturn
  PROVE  IInv'
PROOF
  <1>0. serving # NoOne
    BY DEF IInv, Relay, RelayReturn
  <1>1. PICK c \in Clients :
          /\ serving = c /\ TypeOK /\ cl[c].op = "bcast" /\ chan[Srv].slot = "posted"
    BY <1>0, Walking
  <1> DEFINE e == Head(todo)
             h == Head(todo).ch
  <1>2. /\ todo # <<>> /\ posted /\ posted' = FALSE /\ chan[h].lock = "server"
        /\ chan[h].slot = "served" /\ chan[h].buf = TheMessage(c)
        /\ chan' = [chan EXCEPT ![h].lock = NoOne, ![h].slot = "free",
                                ![h].buf = NoMsg]
        /\ todo' = Tail(todo) /\ reply' = [ok |-> TRUE, ch |-> 0]
        /\ UNCHANGED <<up, reg, nchan, serving, cl, nsent, dlv>>
    BY <1>1 DEF RelayReturn, IInv, Relay
  <1>3. e.id \in Ids /\ h \in Chan \ {Srv} /\ Due(e.id, h)
    BY <1>1, <1>2, HeadOfTodo
  <1>4. /\ c # NoOne /\ "server" # NoOne
        /\ \A p \in Clients : p # "server" /\ p # NoOne
    BY ProcCommAssumption
  <1>5. /\ Listed(e.id, h)
        /\ is_broadcast_cb(cl[c].dst) \/ cl[c].dst = e.id
    BY <1>0, <1>1, <1>3 DEF IInv, Relay
  <1>6. h <= nchan /\ chan[h].id = e.id
    <2>1. ListedChannels
      BY DEF IInv
    <2> QED
      BY ONLY <1>3, <1>5, <2>1, SMTT(30) DEF ListedChannels
  <1>7. chan' \in [Chan -> Channel] /\ ChanSet(h, NoOne, "free", NoMsg)
    BY <1>1, <1>2, <1>3, SetChannel DEF TypeOK, Holder, Slot, Buffer
  <1>8. TheMessage(c) \in Range(dlv[h])
    BY <1>2, <1>3 DEF IInv, Carried
  <1>t. /\ todo' \in Seq(Entry)
        /\ (\A i, j \in DOMAIN todo : todo[i].ch = todo[j].ch => i = j)'
        /\ \A i, k : Due(i, k)' => Due(i, k)
        /\ \A i, k : Due(i, k) => Due(i, k)' \/ (i = e.id /\ k = h)
        /\ \A k : Waiting(k)' => Waiting(k)
    BY <1>1, <1>2, TodoTail DEF IInv
  <1> HIDE DEF e, h
  <1>9. /\ FreshChannels' /\ UniqueIds' /\ ListedChannels' /\ Members' /\ Calls'
        /\ Caches' /\ Locks' /\ Delivered'
        /\ \A p \in Clients : ~Served(p) /\ ~Served(p)'
        /\ \A i, k : Listed(i, k)' <=> Listed(i, k)
        /\ \A p : TheMessage(p)' = TheMessage(p)
        /\ \A p \in Clients : Arrived(p)' <=> Arrived(p)
        /\ \A p \in Clients : p # c => Unsent(p)'
    BY <1>1, <1>2, <1>3, <1>4, <1>6, <1>7, WalkChannel
  <1>10. TypeOK'
    <2>1. reply' \in [ok : BOOLEAN, ch : Chan]
      BY <1>2, ServerChannel DEF Srv
    <2> QED
      BY <1>1, <1>2, <1>7, <1>t, <2>1 DEF TypeOK, Entry
  <1>11. Relay'
    <2>1. chan'[Srv] = chan[Srv]
      BY <1>3, <1>7, ServerChannel DEF ChanSet
    <2> QED
      BY <1>1, <1>2, <1>4, <1>9, <1>t, <2>1 DEF IInv, Relay
  <1>12. Carried'
    <2> SUFFICES ASSUME NEW j \in Chan \ {Srv}, chan'[j].slot # "free"
                 PROVE  /\ chan'[j].buf # NoMsg
                        /\ Right(chan[j].buf, j)'
                        /\ chan'[j].slot = "served" <=>
                             chan'[j].buf \in Range(dlv'[j])
      BY DEF Carried
    <2>1. chan'[j] = chan[j]
      BY <1>7 DEF ChanSet
    <2> QED
      BY <2>1, <1>2 DEF IInv, Carried, Right
  <1>13. Fresh'
    <2>1. Unsent(c)'
      BY <1>1, <1>2 DEF Unsent
    <2>2. \A k \in Chan \ {Srv} : Waiting(k)' => Unseen(c, k)'
      <3>1. \A k \in Chan : chan'[k].buf \in {chan[k].buf, NoMsg}
        BY <1>7 DEF ChanSet
      <3>2. \A k \in Chan \ {Srv} : Waiting(k)' => Unseen(c, k)
        BY <1>1, <1>t DEF IInv, Fresh
      <3>3. TheMessage(c) # NoMsg
        BY MessagesDiffer
      <3> QED
        BY <1>2, <1>9, <3>1, <3>2, <3>3 DEF Unseen
    <2> QED
      BY <1>1, <1>2, <1>9, <2>1, <2>2 DEF Fresh
  <1>14. Acked'
    <2>1. is_broadcast_cb(cl[c].dst) \/ Arrived(c)
      BY <1>3, <1>5, <1>6, <1>8 DEF Arrived
    <2> QED
      BY <1>1, <1>2, <1>9, <2>1 DEF IInv, Acked
  <1>15. Broadcasts'
    <2> SUFFICES ASSUME "interrupt" \notin Faults, is_broadcast_cb(cl[c].dst)
                 PROVE  Spread(c)'
      BY <1>1, <1>2, <1>9 DEF Broadcasts
    <2>1. Spread(c)
      BY <1>1 DEF IInv, Broadcasts
    <2> QED
      BY <1>1, <1>2, <1>8, <1>9, <1>t, <2>1 DEF Spread
  <1> QED
    BY <1>9, <1>10, <1>11, <1>12, <1>13, <1>14, <1>15 DEF IInv

-----------------------------------------------------------------------------
\* The server stops.

\* Once it has stopped nobody is a member any more; what it has answered stays.
LEMMA StopFrame ==
  ASSUME IInv, ServerStepQuiet, ~up', serving = NoOne,
         chan'[Srv].slot = chan[Srv].slot,
         \A i \in Ids, k \in Chan : Listed(i, k)' => Listed(i, k),
         UNCHANGED <<nchan, serving, todo, posted, reply>>,
         TypeOK', FreshChannels', UniqueIds', ListedChannels'
  PROVE  IInv'
PROOF
  <1>0. TypeOK /\ nchan \in Nat /\ nchan' \in Chan /\ todo = <<>> /\ ~posted
    BY ServerChannel DEF IInv, TypeOK, Relay
  <1>1. UNCHANGED <<cl, nsent, dlv>>
    BY DEF ServerStepQuiet
  <1>2. /\ Caches' /\ Locks' /\ Carried' /\ Delivered'
        /\ \A p \in Clients : TheMessage(p)' = TheMessage(p)
        /\ \A p \in Clients, k \in Chan : Unseen(p, k)' <=> Unseen(p, k)
        /\ \A p \in Clients : Arrived(p) => Arrived(p)'
    BY <1>0, ServerFrame
  <1>3. \A p \in Clients : Served(p)' <=> Served(p)
    BY ServerChannel DEF Served, ServerStepQuiet
  <1>4. Members'
    BY DEF Members
  <1>5. Calls'
    <2> SUFFICES ASSUME NEW q \in Clients
                 PROVE  Call(q)'
      BY DEF Calls
    <2>1. Call(q) /\ cl[q].tgt \in Chan
      BY <1>0 DEF IInv, Calls, TypeOK, Client
    <2>2. cl[q].tgt <= nchan => chan'[cl[q].tgt].id = chan[cl[q].tgt].id
      BY <2>1 DEF ServerStepQuiet
    <2>3. reply.ch <= nchan => chan'[reply.ch].id = chan[reply.ch].id
      BY <1>0 DEF ServerStepQuiet, TypeOK
    <2> QED
      BY <1>1, <1>3, <2>1, <2>2, <2>3 DEF Call
  <1>6. Relay'
    <2>1. DOMAIN todo' = {} /\ todo' = <<>>
      BY <1>0
    <2> QED
      BY <1>0, <2>1 DEF Relay
  <1>7. Fresh'
    <2> SUFFICES ASSUME NEW q \in Clients
                 PROVE  Unsent(q)'
      BY ProcCommAssumption DEF Fresh
    <2>1. Unsent(q)
      BY DEF IInv, Fresh
    <2>2. \A k \in Chan : chan'[k].lock = chan[k].lock
      BY DEF ServerStepQuiet
    <2> QED
      BY <1>1, <1>2, <2>1, <2>2 DEF Unsent
  <1>8. Acked'
    BY <1>1, <1>2, <1>3, ProcCommAssumption DEF IInv, Acked
  <1>9. Broadcasts'
    BY <1>1, <1>2, <1>3, ProcCommAssumption DEF IInv, Broadcasts, Spread
  <1> QED
    BY <1>2, <1>4, <1>5, <1>6, <1>7, <1>8, <1>9 DEF IInv

\* A channel is removed.
LEMMA RemoveChannel ==
  ASSUME chan \in [Chan -> Channel], NEW h \in Chan,
         chan' = [chan EXCEPT ![h].gone = TRUE]
  PROVE  /\ chan' \in [Chan -> Channel]
         /\ \A k \in Chan : k # h => chan'[k] = chan[k]
         /\ chan'[h].lock = chan[h].lock /\ chan'[h].slot = chan[h].slot
         /\ chan'[h].buf = chan[h].buf /\ chan'[h].id = chan[h].id
         /\ chan'[h].owner = chan[h].owner /\ chan'[h].gone
PROOF
  <1>1. chan[h] \in Channel /\ chan'[h] = [chan[h] EXCEPT !.gone = TRUE]
    OBVIOUS
  <1>2. /\ chan'[h] \in Channel
        /\ chan'[h].lock = chan[h].lock /\ chan'[h].slot = chan[h].slot
        /\ chan'[h].buf = chan[h].buf /\ chan'[h].id = chan[h].id
        /\ chan'[h].owner = chan[h].owner /\ chan'[h].gone
    BY <1>1 DEF Channel
  <1>3. \A k \in Chan : k # h => chan'[k] = chan[k]
    OBVIOUS
  <1> QED
    BY <1>2, <1>3

LEMMA DestroyServerStep ==
  ASSUME IInv, pc_destroy_server
  PROVE  IInv'
PROOF
  <1>0. TypeOK /\ Srv \in Chan /\ Srv = 0 /\ nchan \in Nat /\ Chan \subseteq Nat
    BY ServerChannel DEF IInv, TypeOK, Srv
  <1>1. /\ serving = NoOne /\ up' = FALSE /\ chan' = [chan EXCEPT ![Srv].gone = TRUE]
        /\ UNCHANGED <<reg, nchan, serving, todo, posted, reply, cl, nsent, dlv>>
    BY DEF pc_destroy_server
  <1>2. /\ chan' \in [Chan -> Channel]
        /\ \A k \in Chan : k # Srv => chan'[k] = chan[k]
        /\ chan'[Srv].lock = chan[Srv].lock /\ chan'[Srv].slot = chan[Srv].slot
        /\ chan'[Srv].buf = chan[Srv].buf /\ chan'[Srv].id = chan[Srv].id
        /\ chan'[Srv].owner = chan[Srv].owner /\ chan'[Srv].gone
    BY <1>0, <1>1, RemoveChannel DEF TypeOK
  <1>3. ServerStepQuiet
    <2>1. \A k \in Chan :
            /\ chan'[k].lock = chan[k].lock /\ chan'[k].buf = chan[k].buf
            /\ k # Srv => chan'[k].slot = chan[k].slot
            /\ chan'[k].id = chan[k].id /\ chan'[k].owner = chan[k].owner
            /\ chan[k].gone => chan'[k].gone
      BY <1>2
    <2>2. nchan' >= nchan
      BY <1>0, <1>1
    <2> QED
      BY <1>1, <1>2, <2>1, <2>2 DEF ServerStepQuiet
  <1>4. TypeOK'
    BY <1>0, <1>1, <1>2 DEF TypeOK
  <1>5. FreshChannels'
    <2>1. \A k \in Chan : k > nchan => chan'[k] = chan[k]
      BY <1>0, <1>2
    <2> QED
      BY <1>1, <1>2, <2>1 DEF IInv, FreshChannels
  <1>6. \A i, k : Listed(i, k)' <=> Listed(i, k)
    BY <1>1 DEF Listed
  <1>7. UniqueIds' /\ ListedChannels'
    BY <1>1, <1>2, <1>6 DEF IInv, UniqueIds, ListedChannels
  <1> QED
    BY <1>1, <1>2, <1>3, <1>4, <1>5, <1>6, <1>7, StopFrame

LEMMA ListDestroyStep ==
  ASSUME IInv, client_list_destroy_cb
  PROVE  IInv'
PROOF
  <1> DEFINE h == Head(reg).ch
  <1>0. /\ TypeOK /\ Srv \in Chan /\ Srv = 0 /\ nchan \in Nat /\ Chan \subseteq Nat
        /\ reg \in Seq(Entry)
    BY ServerChannel DEF IInv, TypeOK, Srv, Entry
  <1>1. /\ ~up /\ reg # <<>> /\ reg' = Tail(reg)
        /\ chan' = [chan EXCEPT ![h].gone = TRUE]
        /\ UNCHANGED <<up, nchan, serving, todo, posted, reply, cl, nsent, dlv>>
    BY DEF client_list_destroy_cb
  <1>2. serving = NoOne
    BY <1>1 DEF IInv, Relay
  <1>3. /\ reg' \in Seq(Entry) /\ UniqueIds' /\ Head(reg) \in Entry
        /\ \A j, l : Listed(j, l)' => Listed(j, l) /\ l # h
    BY <1>0, <1>1, ListTail DEF IInv
  <1>4. h \in Chan \ {Srv} /\ Head(reg).id \in Ids /\ Listed(Head(reg).id, h)
    <2>1. Head(reg) = reg[1] /\ 1 \in DOMAIN reg
      BY <1>0, <1>1, EmptySeq, LenProperties
    <2> QED
      BY <1>3, <2>1 DEF Entry, Listed
  <1>5. h <= nchan
    BY <1>4 DEF IInv, ListedChannels
  <1> HIDE DEF h
  <1>6. /\ chan' \in [Chan -> Channel]
        /\ \A k \in Chan : k # h => chan'[k] = chan[k]
        /\ chan'[h].lock = chan[h].lock /\ chan'[h].slot = chan[h].slot
        /\ chan'[h].buf = chan[h].buf /\ chan'[h].id = chan[h].id
        /\ chan'[h].owner = chan[h].owner /\ chan'[h].gone
    BY <1>0, <1>1, <1>4, RemoveChannel DEF TypeOK
  <1>7. ServerStepQuiet
    <2>1. \A k \in Chan :
            /\ chan'[k].lock = chan[k].lock /\ chan'[k].buf = chan[k].buf
            /\ chan'[k].slot = chan[k].slot
            /\ chan'[k].id = chan[k].id /\ chan'[k].owner = chan[k].owner
            /\ chan[k].gone => chan'[k].gone
      BY <1>6
    <2>2. nchan' >= nchan
      BY <1>0, <1>1
    <2>3. chan'[Srv] = chan[Srv] /\ (up <=> ~chan[Srv].gone)
      BY <1>0, <1>4, <1>6 DEF IInv, Locks
    <2> QED
      BY <1>1, <2>1, <2>2, <2>3 DEF ServerStepQuiet
  <1>8. TypeOK'
    BY <1>0, <1>1, <1>3, <1>6 DEF TypeOK, Entry
  <1>9. FreshChannels'
    <2>1. \A k \in Chan : k > nchan => chan'[k] = chan[k]
      BY <1>0, <1>4, <1>5, <1>6
    <2> QED
      BY <1>0, <1>1, <1>4, <1>6, <2>1 DEF IInv, FreshChannels
  <1>10. ListedChannels'
    BY <1>1, <1>3, <1>6 DEF IInv, ListedChannels
  <1> QED
    BY <1>1, <1>2, <1>3, <1>4, <1>6, <1>7, <1>8, <1>9, <1>10, StopFrame

-----------------------------------------------------------------------------
\* A client receives.

LEMMA RecvStep ==
  ASSUME IInv, NEW h \in Chan, pc_client_recv_cb(h)
  PROVE  IInv'
PROOF
  <1>0. TypeOK /\ Srv \in Chan /\ nchan \in Nat /\ Chan \subseteq Nat
    BY ServerChannel DEF IInv, TypeOK
  <1> DEFINE b == chan[h].buf
  <1>1. /\ chan[h].slot = "posted" /\ chan[h].owner # NoOne
        /\ dlv' = [dlv EXCEPT ![h] = Append(@, b)]
        /\ chan' = [chan EXCEPT ![h].slot = "served"]
        /\ UNCHANGED <<up, reg, nchan, serving, todo, posted, reply, cl, nsent>>
    BY DEF pc_client_recv_cb, srvVars
  <1>2. h # Srv /\ ~(h > nchan)
    BY <1>1 DEF IInv, FreshChannels
  <1>3. b # NoMsg /\ Right(b, h) /\ b \notin Range(dlv[h]) /\ b.n <= nsent
    BY <1>1, <1>2 DEF IInv, Carried, Locks
  <1>4. chan[h] \in Channel /\ b \in Message /\ dlv[h] \in Seq(Message)
    BY <1>0, <1>3 DEF TypeOK, Channel
  <1>5. /\ chan' \in [Chan -> Channel] /\ ChanSet(h, chan[h].lock, "served", b)
    BY <1>0, <1>1, SetSlot DEF TypeOK, Slot
  <1> HIDE DEF b
  <1>6. \A k \in Chan :
          /\ chan'[k].lock = chan[k].lock /\ chan'[k].buf = chan[k].buf
          /\ chan'[k].id = chan[k].id /\ chan'[k].owner = chan[k].owner
          /\ chan'[k].gone = chan[k].gone
          /\ k # h => chan'[k].slot = chan[k].slot /\ dlv'[k] = dlv[k]
    BY <1>0, <1>1, <1>5 DEF ChanSet, TypeOK, b
  <1>7. /\ dlv' \in [Chan -> Seq(Message)] /\ dlv'[h] = Append(dlv[h], b)
        /\ chan'[h].slot = "served" /\ chan[h].buf = b
    BY <1>0, <1>1, <1>4, <1>5, AppendProperties DEF TypeOK, ChanSet, b
  <1>8. /\ DOMAIN dlv[h] = 1..Len(dlv[h]) /\ DOMAIN dlv'[h] = 1..(Len(dlv[h]) + 1)
        /\ Len(dlv[h]) \in Nat /\ dlv'[h][Len(dlv[h]) + 1] = b
        /\ \A x \in DOMAIN dlv[h] : x \in DOMAIN dlv'[h] /\ dlv'[h][x] = dlv[h][x]
        /\ \A x \in DOMAIN dlv'[h] : x \in DOMAIN dlv[h] \/ x = Len(dlv[h]) + 1
    BY <1>4, <1>7, AppendProperties, LenProperties
  <1>9. \A k \in Chan : \A m : m \in Range(dlv'[k]) <=>
                                 m \in Range(dlv[k]) \/ (k = h /\ m = b)
    <2>1. \A m : m \in Range(dlv'[h]) <=> m \in Range(dlv[h]) \/ m = b
      <3>1. Len(dlv[h]) + 1 \in DOMAIN dlv'[h]
        BY <1>8
      <3> QED
        BY <1>8, <3>1 DEF Range
    <2> QED
      BY <1>6, <2>1
  <1>10. TypeOK'
    BY <1>0, <1>1, <1>5, <1>7 DEF TypeOK
  <1>11. FreshChannels'
    BY <1>0, <1>1, <1>2, <1>6 DEF IInv, FreshChannels
  <1>12. \A p \in Clients : Served(p)' <=> Served(p)
    BY <1>0, <1>1, <1>2, <1>6 DEF Served
  <1>13. /\ \A i, k : Listed(i, k)' <=> Listed(i, k)
         /\ \A i, k : Due(i, k)' <=> Due(i, k)
         /\ \A k : Waiting(k)' <=> Waiting(k)
         /\ \A p : TheMessage(p)' = TheMessage(p)
    BY <1>1 DEF Listed, Due, Waiting, TheMessage
  <1>14. UniqueIds' /\ ListedChannels'
    BY <1>1, <1>6, <1>13 DEF IInv, UniqueIds, ListedChannels
  <1>15. Members'
    <2>1. \A q \in Clients, i \in Ids, k \in Chan : Has(q, i, k)' <=> Has(q, i, k)
      BY <1>1, <1>12 DEF Has
    <2> QED
      BY <1>1, <1>6, <1>13, <2>1 DEF IInv, Members
  <1>16. Calls'
    <2> SUFFICES ASSUME NEW q \in Clients
                 PROVE  Call(q)'
      BY DEF Calls
    <2>1. Call(q) /\ cl[q].tgt \in Chan /\ reply.ch \in Chan
      BY <1>0 DEF IInv, Calls, TypeOK, Client
    <2> QED
      BY <1>1, <1>6, <1>12, <2>1 DEF Call
  <1>17. Caches'
    <2>1. \A q \in Clients, i \in Ids : cl[q].cache[i] \in Chan
      BY <1>0 DEF TypeOK, Client
    <2> QED
      BY <1>1, <1>6, <2>1 DEF IInv, Caches
  <1>18. Locks'
    <2>1. \A k \in Chan : chan'[k].slot = "free" <=> chan[k].slot = "free"
      BY <1>1, <1>6, <1>7
    <2> QED
      BY <1>0, <1>1, <1>6, <1>13, <2>1 DEF IInv, Locks
  <1>19. Relay'
    <2>1. chan'[Srv].lock = chan[Srv].lock /\ chan'[Srv].slot = chan[Srv].slot
      BY <1>0, <1>2, <1>6
    <2>2. posted => Head(todo).ch \in Chan
      BY <1>0, HeadOfTodo DEF IInv, Relay
    <2> QED
      BY <1>1, <1>6, <1>13, <2>1, <2>2 DEF IInv, Relay
  <1>20. Carried'
    <2> SUFFICES ASSUME NEW j \in Chan \ {Srv}, chan'[j].slot # "free"
                 PROVE  /\ chan'[j].buf # NoMsg
                        /\ Right(chan[j].buf, j)'
                        /\ chan'[j].slot = "served" <=>
                             chan'[j].buf \in Range(dlv'[j])
      BY DEF Carried
    <2>1. chan[j].slot # "free"
      BY <1>1, <1>6
    <2>2. chan[j].buf # NoMsg /\ Right(chan[j].buf, j)'
      BY <1>6, <2>1 DEF IInv, Carried, Right
    <2>3. chan'[j].slot = "served" <=> chan'[j].buf \in Range(dlv'[j])
      BY <1>6, <1>7, <1>9, <2>1 DEF IInv, Carried
    <2> QED
      BY <1>6, <2>2, <2>3
  <1>21. Delivered'
    <2> SUFFICES ASSUME NEW j \in Chan, NEW x \in DOMAIN dlv'[j]
                 PROVE  /\ Right(dlv[j][x], j)'
                        /\ dlv'[j][x].n <= nsent'
                        /\ \A y \in DOMAIN dlv'[j] : dlv'[j][y] = dlv'[j][x] => x = y
      BY DEF Delivered
    <2>1. CASE j # h
      BY <2>1, <1>1, <1>6 DEF IInv, Delivered, Right
    <2>2. CASE j = h
      <3>1. \A y \in DOMAIN dlv[h] : dlv[h][y] # b
        BY <1>3 DEF Range
      <3>2. \A y \in DOMAIN dlv'[h] : dlv'[h][y] = dlv'[h][x] => x = y
        BY <2>2, <1>8, <3>1 DEF IInv, Delivered
      <3>3. Right(dlv'[h][x], h) /\ dlv'[h][x].n <= nsent
        BY <2>2, <1>3, <1>8 DEF IInv, Delivered
      <3> QED
        BY <2>2, <3>2, <3>3, <1>1, <1>6 DEF Right
    <2> QED
      BY <2>1, <2>2
  <1>22. \A p \in Clients, k \in Chan : Unseen(p, k) => Unseen(p, k)'
    BY <1>6, <1>7, <1>9, <1>13 DEF Unseen
  <1>23. Fresh'
    <2> SUFFICES ASSUME NEW q \in Clients
                 PROVE  Unsent(q)'
      BY <1>1, <1>13, <1>22 DEF IInv, Fresh
    <2>1. Unsent(q)
      BY DEF IInv, Fresh
    <2> QED
      BY <1>1, <1>6, <1>12, <1>22, <2>1 DEF Unsent
  <1>24. Acked'
    <2>1. \A p \in Clients : Arrived(p) => Arrived(p)'
      BY <1>1, <1>6, <1>9, <1>13 DEF Arrived
    <2> QED
      BY <1>1, <1>12, <2>1 DEF IInv, Acked
  <1>25. Broadcasts'
    <2>1. \A p \in Clients : Spread(p) => Spread(p)'
      BY <1>1, <1>9, <1>13 DEF Spread
    <2> QED
      BY <1>1, <1>12, <2>1 DEF IInv, Broadcasts
  <1> QED
    BY <1>10, <1>11, <1>14, <1>15, <1>16, <1>17, <1>18, <1>19, <1>20, <1>21, <1>23,
       <1>24, <1>25 DEF IInv

-----------------------------------------------------------------------------
\* The invariant holds in every state.

LEMMA Initial == Init => IInv
PROOF
  <1> SUFFICES ASSUME Init
               PROVE  IInv
    OBVIOUS
  <1>0. Srv \in Chan /\ Srv = 0 /\ Chan \subseteq Nat
    BY ServerChannel DEF Srv
  <1>1. /\ up = TRUE /\ reg = <<>> /\ nchan = 0 /\ serving = NoOne /\ todo = <<>>
        /\ posted = FALSE /\ reply = [ok |-> FALSE, ch |-> 0] /\ nsent = 0
        /\ cl = [c \in Clients |-> NoClient] /\ dlv = [k \in Chan |-> <<>>]
    BY DEF Init
  <1> DEFINE fresh == [id |-> NoOne, owner |-> NoOne, gone |-> FALSE,
                       lock |-> NoOne, slot |-> "free", buf |-> NoMsg]
  <1>2. fresh \in Channel
    BY DEF Channel
  <1>3. chan = [k \in Chan |-> fresh]
    BY DEF Init
  <1>4. /\ fresh.owner = NoOne /\ ~fresh.gone /\ fresh.lock = NoOne
        /\ fresh.slot = "free" /\ fresh.buf = NoMsg
    OBVIOUS
  <1> HIDE DEF fresh
  <1>5. \A k \in Chan :
          /\ chan[k].owner = NoOne /\ ~chan[k].gone /\ chan[k].lock = NoOne
          /\ chan[k].slot = "free" /\ chan[k].buf = NoMsg /\ dlv[k] = <<>>
          /\ DOMAIN dlv[k] = {} /\ Range(dlv[k]) = {}
    BY <1>1, <1>3, <1>4 DEF Range
  <1>6. \A c \in Clients :
          /\ cl[c].op = "none" /\ cl[c].n = 0 /\ cl[c].status = "none"
          /\ \A i \in Ids : cl[c].cache[i] = 0
    BY <1>1, NoClientFields
  <1>7. /\ \A i, k : ~Listed(i, k) /\ ~Due(i, k)
        /\ \A k : ~Waiting(k)
        /\ DOMAIN reg = {} /\ DOMAIN todo = {}
    BY <1>1 DEF Listed, Due, Waiting
  <1>8. \A c \in Clients : ~Served(c) /\ serving # c
    BY <1>0, <1>1, <1>5, ProcCommAssumption DEF Served
  <1>9. TypeOK
    <2>1. chan \in [Chan -> Channel]
      BY <1>2, <1>3
    <2>2. cl \in [Clients -> Client]
      BY <1>1, NoClientFields
    <2>3. dlv \in [Chan -> Seq(Message)]
      BY <1>1, EmptySeq
    <2>4. /\ reg \in Seq([id : Ids, ch : Chan \ {Srv}])
          /\ todo \in Seq([id : Ids, ch : Chan \ {Srv}])
      BY <1>1, EmptySeq
    <2>5. nsent \in 0..MaxSends /\ reply \in [ok : BOOLEAN, ch : Chan] /\ nchan \in Chan
      BY <1>0, <1>1, ProcCommAssumption
    <2> QED
      BY <1>1, <2>1, <2>2, <2>3, <2>4, <2>5 DEF TypeOK
  <1>10. FreshChannels /\ UniqueIds /\ ListedChannels
    BY <1>0, <1>5, <1>7 DEF FreshChannels, UniqueIds, ListedChannels
  <1>11. Members
    BY <1>6, <1>7 DEF Members, Has
  <1>12. Calls /\ Caches
    <2>1. \A c \in Clients : cl[c].n <= nsent
      BY <1>1, <1>6
    <2>2. Calls
      BY <1>6, <2>1 DEF Calls, Call
    <2> QED
      BY <1>6, <2>2 DEF Caches
  <1>13. Locks
    <2>1. up <=> ~chan[Srv].gone
      BY <1>0, <1>1, <1>5
    <2>2. chan[Srv].lock # "server"
      BY <1>0, <1>5, ProcCommAssumption
    <2>3. \A k \in Chan, p \in Clients : chan[k].lock # p
      BY <1>5, ProcCommAssumption
    <2> QED
      BY <1>5, <2>1, <2>2, <2>3 DEF Locks
  <1>14. Relay
    BY <1>1, <1>7 DEF Relay
  <1>15. Carried /\ Delivered
    BY <1>5 DEF Carried, Delivered
  <1>16. Fresh
    BY <1>6, <1>8 DEF Fresh, Unsent
  <1>17. Acked /\ Broadcasts
    BY <1>6 DEF Acked, Broadcasts
  <1> QED
    BY <1>9, <1>10, <1>11, <1>12, <1>13, <1>14, <1>15, <1>16, <1>17 DEF IInv

LEMMA StutterStep ==
  ASSUME IInv, UNCHANGED vars
  PROVE  IInv'
PROOF
  <1>1. UNCHANGED <<up, reg, nchan, serving, todo, posted, reply, chan, cl, nsent, dlv>>
    BY DEF vars, srvVars
  <1>2. /\ \A i, k : Listed(i, k)' <=> Listed(i, k)
        /\ \A i, k : Due(i, k)' <=> Due(i, k)
        /\ \A k : Waiting(k)' <=> Waiting(k)
        /\ \A p : TheMessage(p)' = TheMessage(p)
        /\ \A p : Served(p)' <=> Served(p)
    BY <1>1 DEF Listed, Due, Waiting, TheMessage, Served
  <1>3. /\ \A p, i, k : Has(p, i, k)' <=> Has(p, i, k)
        /\ \A p, k : Unseen(p, k)' <=> Unseen(p, k)
        /\ \A p : Arrived(p)' <=> Arrived(p)
    BY <1>1, <1>2 DEF Has, Unseen, Arrived
  <1>4. TypeOK' /\ FreshChannels' /\ UniqueIds'
    BY <1>1 DEF IInv, TypeOK, FreshChannels, UniqueIds
  <1>5. ListedChannels' /\ Members'
    BY <1>1, <1>2, <1>3 DEF IInv, ListedChannels, Members
  <1>6. Calls' /\ Caches'
    BY <1>1, <1>2 DEF IInv, Calls, Call, Caches
  <1>7. Locks' /\ Relay'
    BY <1>1, <1>2 DEF IInv, Locks, Relay
  <1>8. Carried' /\ Delivered'
    BY <1>1 DEF IInv, Carried, Delivered, Right
  <1>9. Fresh'
    BY <1>1, <1>2, <1>3 DEF IInv, Fresh, Unsent
  <1>10. Acked' /\ Broadcasts'
    BY <1>1, <1>2, <1>3 DEF IInv, Acked, Broadcasts, Spread
  <1> QED
    BY <1>4, <1>5, <1>6, <1>7, <1>8, <1>9, <1>10 DEF IInv

LEMMA Inductive == IInv /\ [Next]_vars => IInv'
PROOF
  <1> SUFFICES ASSUME IInv, [Next]_vars
               PROVE  IInv'
    OBVIOUS
  <1>1. ASSUME NEW c \in Clients, CallerStep(c)
        PROVE  IInv'
    BY <1>1, PostStep, FailStep, FailReleaseStep, ReturnCreateStep, MoveSteps, ReturnGetStep,
       ReturnP2pStep, ReturnBcastStep, ReturnCloseStep DEF CallerStep
  <1>2. ASSUME ServerStep
        PROVE  IInv'
    BY <1>2, CreateStep, DestroyStep, GetClientStep, DataSendStep, RelaySkipStep,
       RelayPostStep, RelayReturnStep, RelayDoneStep, ListDestroyStep DEF ServerStep
  <1>3. ASSUME NEW c \in Clients, NEW i \in Ids, pc_req_create_client(c, i)
        PROVE  IInv'
    BY <1>3, CreateCallStep
  <1>4. ASSUME NEW c \in Clients, NEW d \in Dest, pc_c_send(c, d)
        PROVE  IInv'
    BY <1>4, SendCallStep
  <1>5. ASSUME NEW c \in Clients, pc_req_destroy_client(c) \/ Crash(c)
        PROVE  IInv'
    BY <1>5, MoveSteps
  <1>6. CASE RelayInterrupted
    BY <1>6, RelayInterruptedStep
  <1>7. CASE pc_destroy_server
    BY <1>7, DestroyServerStep
  <1>8. ASSUME NEW k \in Chan, pc_client_recv_cb(k)
        PROVE  IInv'
    BY <1>8, RecvStep
  <1>9. CASE UNCHANGED vars
    BY <1>9, StutterStep
  <1> QED
    BY <1>1, <1>2, <1>3, <1>4, <1>5, <1>6, <1>7, <1>8, <1>9 DEF Next

LEMMA Invariance == Spec => []IInv
PROOF
  BY Initial, Inductive, PTL DEF Spec

-----------------------------------------------------------------------------
\* The variables keep the types of proc_comm.c's data whatever the clients do
\* and whenever the server is stopped; in particular no request makes
\* create_remote_server, remove_client or a relay use channel 0 as a client's.
THEOREM TypeCorrect == Spec => []TypeOK
PROOF
  <1>1. IInv => TypeOK
    BY DEF IInv
  <1> QED
    BY <1>1, Invariance, PTL

\* client_list never has an address twice or a channel that destroy_remote_server
\* has removed, and while the server runs it has every registered client with
\* the channel that the client receives on.
THEOREM RegistryCorrect == Spec => []RegistryAgrees
PROOF
  <1>1. ASSUME IInv
        PROVE  RegistryAgrees
    <2>1. TypeOK /\ reg \in Seq(Entry) /\ UniqueIds
      BY <1>1 DEF IInv, TypeOK, Entry
    <2>2. ASSUME NEW k \in DOMAIN reg
          PROVE  chan[reg[k].ch].id = reg[k].id /\ ~chan[reg[k].ch].gone
      <3>0. reg[k] \in Entry
        BY <2>1, LenProperties
      <3>1. reg[k].id \in Ids /\ reg[k].ch \in Chan
        BY <3>0 DEF Entry
      <3>2. Listed(reg[k].id, reg[k].ch)
        BY DEF Listed
      <3> QED
        BY <1>1, <3>1, <3>2 DEF IInv, ListedChannels
    <2>3. ASSUME NEW c \in Clients, up,
                 cl[c].op \in {"attach", "idle", "get", "p2p", "bcast", "dead"}
          PROVE  find_client(cl[c].id) = cl[c].ch /\ chan[cl[c].ch].owner = c
      <3>1. cl[c].id \in Ids /\ cl[c].ch \in Chan
        BY <2>1 DEF TypeOK, Client
      <3>2. Has(c, cl[c].id, cl[c].ch)
        BY <2>3 DEF Has
      <3>3. Listed(cl[c].id, cl[c].ch) /\ chan[cl[c].ch].owner = c
        BY <1>1, <2>3, <3>1, <3>2 DEF IInv, Members
      <3> QED
        BY <2>1, <3>3, Found
    <2> QED
      BY <2>1, <2>2, <2>3 DEF RegistryAgrees, UniqueIds
  <1> QED
    BY <1>1, Invariance, PTL

\* recv_cb of a client gets only messages addressed to it, directly or by a
\* broadcast of another client, and none of them twice, however stale the
\* sender's dev_list is.
THEOREM RecipientsRight == Spec => []RightRecipient
PROOF
  <1>1. IInv => RightRecipient
    BY DEF IInv, Delivered, Right, RightRecipient
  <1> QED
    BY <1>1, Invariance, PTL

\* A pc_c_send to one address whose ret_cb got CMD_SUCCESS has been received by
\* a client that registered that address.
THEOREM AcksTruthful == Spec => []AcknowledgedMeansDelivered
PROOF
  <1>1. IInv => AcknowledgedMeansDelivered
    BY DEF IInv, Acked, Arrived, AcknowledgedMeansDelivered
  <1> QED
    BY <1>1, Invariance, PTL

\* By the time the server answers a broadcast, broadcast_send has reached every
\* client that is registered under a matching address, except the sender.
THEOREM BroadcastsReach == Spec => []BroadcastComplete
PROOF
  <1>1. ASSUME IInv
        PROVE  BroadcastComplete
    <2> SUFFICES ASSUME NEW c \in Clients, "interrupt" \notin Faults, up,
                        serving = NoOne, cl[c].op = "bcast",
                        is_broadcast_cb(cl[c].dst),
                        chan[Srv].lock = c, chan[Srv].slot = "served",
                        NEW k \in DOMAIN reg, reg[k].ch # cl[c].ch,
                        is_bc_match_cb(cl[c].dst, reg[k].id)
                 PROVE  TheMessage(c) \in Range(dlv[reg[k].ch])
      BY DEF BroadcastComplete
    <2>1. Spread(c)
      BY <1>1 DEF IInv, Broadcasts, Served
    <2>2. reg[k].id \in Ids /\ reg[k].ch \in Chan /\ Listed(reg[k].id, reg[k].ch)
      <3>1. reg \in Seq(Entry)
        BY <1>1 DEF IInv, TypeOK, Entry
      <3>2. reg[k] \in Entry
        BY <3>1, LenProperties
      <3> QED
        BY <3>2 DEF Entry, Listed
    <2>3. serving # c
      BY ProcCommAssumption
    <2> QED
      BY <2>1, <2>2, <2>3 DEF Spread
  <1> QED
    BY <1>1, Invariance, PTL

=============================================================================
