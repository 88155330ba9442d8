------------------------------ MODULE X1000Ota ------------------------------
(***************************************************************************)
(* The update client of x1000_ota: in every round of main's loop it opens  *)
(* a UDP socket, asks the server for an encrypted connection (init_enc.c), *)
(* activates the device (activity.c), asks for a new version               *)
(* (chk_version.c) and closes the socket.  Each of the three sends one     *)
(* request and polls for 3 seconds; the first datagram that arrives decides*)
(* (protocol.c parses it), nothing is sent again within a round.           *)
(*                                                                         *)
(* The network loses, delays, duplicates and damages datagrams, the kernel *)
(* chooses the port of each round's socket, perhaps one it had before, and *)
(* other hosts may send anything to it: parse_package accepts a well-formed*)
(* package whoever sent it.                                                *)
(***************************************************************************)
EXTENDS Integers, FiniteSets

CONSTANTS MaxRounds,  \* bound: rounds of main's loop
          MaxTime,    \* bound: clock of the device, in seconds
          MaxNet,     \* bound: datagrams on their way to the device
          Skew,       \* what the server's clock is ahead of the device's
          Stamps,     \* stamps that other hosts write
          Faults      \* subset of {"dup", "damage", "stray", "sendfail", "nomem"}

\* sendfail: sendto fails.  nomem: malloc fails.  (Loss and delay are always
\* possible: a datagram stays on its way for ever.)
ASSUME X1000OtaAssumption ==
  /\ MaxRounds \in Nat /\ MaxTime \in Nat /\ MaxNet \in Nat
  /\ Skew \in Int /\ Stamps \subseteq Int
  /\ Faults \subseteq {"dup", "damage", "stray", "sendfail", "nomem"}

VARIABLES round,    \* number of the round
          port,     \* local port of the round's socket, 0 before the first
          used,     \* history: ports of earlier rounds
          phase,    \* which request is being made; "sleep" between rounds
          waiting,  \* the request is sent, the answer is polled for
          offset,   \* pro->time_stamp_offset
          synced,   \* offset has been set by an answer
          dest,     \* addr_serv of the socket
          now,      \* time(NULL) of the device
          began,    \* history: when the round began
          reqs,     \* requests on their way to the server
          acks,     \* datagrams on their way to the device
          answered, \* history: requests of this round the server has answered
          unsent,   \* history: req_enc_conn of this round could not send
          foreign   \* history: this round accepted another host's package

devVars == <<round, port, used, phase, waiting, offset, synced, dest, began,
             unsent, foreign>>
vars == <<devVars, now, reqs, acks, answered>>

Phases == {"enc", "act", "ver"}

\* A port is named after a round: a new one after the round that uses it first.
Ports == 1..MaxRounds

\* What an answer carries: what the request asks for (a key, data[0] = 0 or 1,
\* versions), or something else (data_len 0, another data[0]).
AnyData == {"good", "bad"}

\* The round of a request is history.  The kind of a datagram: one that
\* parse_package accepts, one that it refuses, and one that passes its tests
\* although its length field is less than stamp, command and checksum need.
Request == [port : Ports, cmd : Phases, round : 1..MaxRounds]
Answer == [to : Ports, from : {"server", "other"}, cmd : Phases,
           stamp : Int, data : AnyData, kind : {"package", "refused", "short"}]

Init ==
  /\ round = 0 /\ port = 0 /\ used = {} /\ phase = "sleep" /\ waiting = FALSE
  /\ offset = 0 /\ synced = FALSE /\ dest = "server"
  /\ now = 0 /\ began = 0
  /\ reqs = {} /\ acks = {} /\ answered = {} /\ unsent = FALSE /\ foreign = FALSE

-----------------------------------------------------------------------------
IfFault(f, without, with) == IF f \in Faults THEN with ELSE without

\* A datagram that was delivered may have been a copy.
Consumed(S, d, T) == T \in IfFault("dup", {S \ {d}}, {S \ {d}, S})

\* read_ota_para, protocol_create and socket_create; without memory main exits.
\* The kernel chooses the port, a new one or one of an earlier round.
Begin ==
  /\ phase = "sleep" /\ round < MaxRounds
  /\ \/ /\ round' = round + 1 /\ phase' = "enc" /\ began' = now
        /\ port' \in 1..(round + 1) /\ used' = used \cup {port}
     \/ /\ "nomem" \in Faults /\ phase' = "exit"
        /\ UNCHANGED <<round, port, used, began>>
  /\ UNCHANGED <<waiting, offset, synced, dest, unsent, foreign, now, reqs, acks,
                 answered>>

\* Mutant: the socket is kept over the rounds.
Close_KeepsSocket ==
  /\ phase = "close" /\ phase' = "sleep"
  /\ offset' = 0 /\ synced' = FALSE
  /\ answered' = {} /\ unsent' = FALSE /\ foreign' = FALSE
  /\ UNCHANGED <<round, port, used, waiting, dest, began, now, reqs, acks>>

\* socket_distory and protocol_destory: the next round has new ones, with the
\* server's address and no offset.  What happened in the round is forgotten.
Close ==
  /\ phase = "close" /\ phase' = "sleep"
  /\ offset' = 0 /\ synced' = FALSE /\ dest' = "server"
  /\ answered' = {} /\ unsent' = FALSE /\ foreign' = FALSE
  /\ UNCHANGED <<round, port, used, waiting, began, now, reqs, acks>>

\* What main does after a request that ended well.
NextPhase(p) == CASE p = "enc" -> "act" [] p = "act" -> "ver" [] p = "ver" -> "close"

\* pack_req_... and socket_send.  The stamp now + offset of the request is left
\* out: the server's use of it is not known.  Another host may answer what is
\* sent to it, but it may send that unasked as well.
Send ==
  /\ phase \in Phases /\ ~waiting
  /\ reqs' = IF dest # "server" THEN reqs
             ELSE reqs \cup {[port |-> port, cmd |-> phase, round |-> round]}
  /\ waiting' = TRUE
  /\ UNCHANGED <<round, port, used, phase, offset, synced, dest, began, unsent,
                 foreign, now, acks, answered>>

\* req_enc_conn returns INIT_ENC_SUCCESS when socket_send fails.
SendFails ==
  /\ "sendfail" \in Faults
  /\ phase \in Phases /\ ~waiting
  /\ phase' = IF phase = "enc" THEN "act" ELSE "close"
  /\ unsent' = (unsent \/ phase = "enc")
  /\ UNCHANGED <<round, port, used, waiting, offset, synced, dest, began, foreign,
                 now, reqs, acks, answered>>

\* pack_req_activition and pack_req_new_version return 0 without memory.
PackFails ==
  /\ "nomem" \in Faults
  /\ phase \in {"act", "ver"} /\ ~waiting
  /\ phase' = "close"
  /\ UNCHANGED <<round, port, used, waiting, offset, synced, dest, began, unsent,
                 foreign, now, reqs, acks, answered>>

\* Mutant: stamp and clock are swapped.
TimeOffset_Swapped(stamp) == now - stamp

TimeOffset(stamp) == stamp - now

\* A datagram whose content does not matter.
NoPackage(p, host, kind) == [to |-> p, from |-> host, cmd |-> "enc", stamp |-> 0,
                             data |-> "bad", kind |-> kind]

\* What another host may send to the port at any time: a package of its own,
\* one that is too short, or something that is none.
Stray == IF "stray" \notin Faults THEN {} ELSE
  {[to |-> port, from |-> "other", cmd |-> p, stamp |-> t, data |-> data,
    kind |-> "package"] : p \in Phases, t \in Stamps, data \in AnyData}
  \cup {NoPackage(port, "other", kind) : kind \in {"refused", "short"}}

\* Mutant: the command of the answer is not looked at.
Accepted_AnyCmd(d) == d.data = "good"

\* The answer the request asks for.
Accepted(d) == d.cmd = phase /\ d.data = "good"

\* The first datagram ends the request: an error ends the round.
AfterError == "close"

\* socket_recv, which stores the sender as the new destination, and
\* parse_package: out of memory, refused, undefined (memcpy with a negative
\* length) or accepted.  A duplicate may be left in the network.
Receive(d) ==
  /\ phase \in Phases /\ waiting
  /\ d.to = port
  /\ dest' = d.from /\ waiting' = FALSE
  /\ \E read \in IfFault("nomem", {d.kind}, {d.kind, "refused"}) :
       /\ offset' = IF read = "package" THEN TimeOffset(d.stamp) ELSE offset
       /\ synced' = (synced \/ read = "package")
       /\ phase' = CASE read = "short" -> "wild"
                     [] read = "package" /\ Accepted(d) -> NextPhase(phase)
                     [] OTHER -> AfterError
       /\ foreign' = (foreign \/ (read = "package" /\ Accepted(d) /\ d.from # "server"))
  /\ Consumed(acks, d, acks')
  /\ UNCHANGED <<round, port, used, began, unsent, now, reqs, answered>>

\* An empty datagram: the polling goes on, but recvfrom has stored its sender.
ReceiveEmpty ==
  /\ "stray" \in Faults
  /\ phase \in Phases /\ waiting
  /\ dest' = "other"
  /\ UNCHANGED <<round, port, used, phase, waiting, offset, synced, began, unsent,
                 foreign, now, reqs, acks, answered>>

\* Mutant: socket_recv blocks.
Timeout_Blocks == FALSE

\* Nothing has arrived in 3 seconds.
Timeout ==
  /\ phase \in Phases /\ waiting
  /\ waiting' = FALSE /\ phase' = "close"
  /\ UNCHANGED <<round, port, used, offset, synced, dest, began, unsent, foreign,
                 now, reqs, acks, answered>>

-----------------------------------------------------------------------------
\* The server, the network, other hosts and the clock.

\* The server answers a request, with its own clock; the answer may be damaged
\* on its way.
Serve(r) ==
  /\ Cardinality(acks) < MaxNet
  /\ \/ \E data \in AnyData :
          acks' = acks \cup {[to |-> r.port, from |-> "server", cmd |-> r.cmd,
                              stamp |-> now + Skew, data |-> data, kind |-> "package"]}
     \/ "damage" \in Faults /\ acks' = acks \cup {NoPackage(r.port, "server", "refused")}
  /\ Consumed(reqs, r, reqs')
  /\ answered' = IF r.round = round /\ phase \in Phases THEN answered \cup {r.cmd} ELSE answered
  /\ UNCHANGED <<devVars, now>>

Tick ==
  /\ now < MaxTime
  /\ now' = now + 1
  /\ UNCHANGED <<devVars, reqs, acks, answered>>

-----------------------------------------------------------------------------
DeviceStep ==
  \/ Begin \/ Close \/ Send \/ SendFails \/ PackFails \/ Timeout
  \/ \E d \in acks : Receive(d)

Next == \/ DeviceStep \/ Tick \/ ReceiveEmpty
        \/ \E d \in Stray : Receive(d)
        \/ \E r \in reqs : Serve(r)

Spec == Init /\ [][Next]_vars

\* The device goes on: its calls do not block.  Other hosts are not counted on.
FairSpec == Spec /\ WF_vars(DeviceStep)

-----------------------------------------------------------------------------
TypeOK ==
  /\ round \in 0..MaxRounds /\ port \in {0} \cup Ports /\ used \subseteq {0} \cup Ports
  /\ phase \in Phases \cup {"close", "sleep", "exit", "wild"}
  /\ waiting \in BOOLEAN /\ synced \in BOOLEAN /\ unsent \in BOOLEAN
  /\ offset \in Int
  /\ dest \in {"server", "other"}
  /\ now \in 0..MaxTime /\ began \in 0..MaxTime
  /\ reqs \subseteq Request /\ acks \subseteq Answer
  /\ answered \subseteq Phases /\ foreign \in BOOLEAN

\* What the code cannot tell from an answer of this round: a package of another
\* host, and, on a port that had been used before, a late answer.
Undisturbed == ~foreign /\ port \notin used

\* The device goes on to the next request only on an answer of the server to
\* the request of this very round, unless the round has accepted a package of
\* another host or was given the port of an earlier one, or its request for an
\* encrypted connection could not be sent (req_enc_conn calls that a success).
\* Lost, late, doubled and damaged answers alone never take a round on.
FreshAnswers ==
  Undisturbed =>
    /\ phase \in {"act", "ver"} => "enc" \in answered \/ unsent
    /\ phase = "ver" => "act" \in answered

\* The stamp of a request to the server, now + time_stamp_offset, is not ahead
\* of the server's clock and lags it by no more than the round has lasted, once
\* an answer has come: even in a round in which another host's package had set
\* the offset.  (On a port used before a late answer may set it.)
ClockTracked ==
  synced /\ phase \in Phases /\ ~waiting /\ dest = "server" /\ port \notin used =>
    Skew - (now - began) <= offset /\ offset <= Skew

\* udp_recv makes whoever sent a datagram the destination of the next request.
\* None the less the first request of a round is sent to the server, and a later
\* one is sent elsewhere only when this round has accepted a package of another
\* host: datagrams that are refused or empty, and earlier rounds, redirect none.
RedirectContained ==
  phase \in Phases /\ ~waiting /\ dest # "server" => phase # "enc" /\ foreign

\* Every round comes to its end and its socket is closed, or the process ends
\* in a short package.
RoundEnds == phase \in Phases ~> phase \in {"sleep", "wild"}
=============================================================================
