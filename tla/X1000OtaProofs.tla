--------------------------- MODULE X1000OtaProofs ---------------------------
(***************************************************************************)
(* Proofs about X1000Ota for every bound, every skew of the clocks, every  *)
(* stamp other hosts may write and every set of faults: what takes a round *)
(* of the update client on, how far its clock is from the server's and     *)
(* where its requests go.                                                  *)
(***************************************************************************)
EXTENDS X1000Ota, TLAPS

\* A request on its way was made in a round that has begun, from its port.
RequestOrigin ==
  \A r \in reqs : /\ r.round <= round
                  /\ r.port \in used \cup {port}
                  /\ r.port = port /\ port \notin used => r.round = round

\* A package of the server was stamped not later than now; if this round's port
\* is new, it answers a request of this round and was stamped since it began.
AnswerOrigin ==
  \A d \in acks :
    /\ d.from = "server" /\ d.to \in used \cup {port}
    /\ d.kind = "package" =>
         /\ d.stamp <= now + Skew
         /\ d.to = port /\ port \notin used =>
              /\ phase \in Phases => d.cmd \in answered
              /\ began + Skew <= d.stamp

\* Between two rounds, and before the first request of one, there is a new
\* socket, with the server's address.
NewSocket == phase \in {"sleep", "enc"} /\ ~waiting => dest = "server" /\ ~synced

InRound ==
  /\ phase \in Phases => round \in 1..MaxRounds /\ port \in Ports
  /\ phase \notin Phases => ~waiting
  /\ port <= round /\ began <= now

IInv == /\ TypeOK /\ InRound /\ RequestOrigin /\ AnswerOrigin /\ NewSocket
        /\ FreshAnswers /\ ClockTracked /\ RedirectContained

LEMMA PhaseFacts ==
  /\ \A p \in Phases : NextPhase(p) \in {"act", "ver", "close"}
  /\ NextPhase("enc") = "act" /\ NextPhase("act") = "ver" /\ NextPhase("ver") = "close"
  BY DEF Phases, NextPhase

LEMMA InitInv == Init => IInv
<1> SUFFICES ASSUME Init PROVE IInv
  OBVIOUS
<1>1. TypeOK
  <2>1. 0 \in 0..MaxRounds /\ 0 \in 0..MaxTime /\ 0 \in Int
    BY X1000OtaAssumption
  <2>2. waiting \in BOOLEAN /\ synced \in BOOLEAN /\ unsent \in BOOLEAN /\ foreign \in BOOLEAN
    BY DEF Init
  <2>3. reqs \subseteq Request /\ acks \subseteq Answer /\ answered \subseteq Phases
        /\ used \subseteq {0} \cup Ports
    BY DEF Init
  <2> QED BY <2>1, <2>2, <2>3, Zenon DEF Init, TypeOK
<1> QED BY <1>1
        DEF Init, IInv, InRound, RequestOrigin, AnswerOrigin, NewSocket,
            FreshAnswers, ClockTracked, RedirectContained, Phases

\* A step of the device that ends the round, or the process.
LEMMA EndOfRound ==
  ASSUME IInv,
         phase' \in {"close", "exit", "wild"},
         waiting' = FALSE, unsent' \in BOOLEAN, synced' \in BOOLEAN,
         foreign' \in BOOLEAN, offset' \in Int, dest' \in {"server", "other"},
         UNCHANGED <<round, port, used, began, now, reqs, answered>>, acks' \subseteq acks
  PROVE  IInv'
<1>1. phase' \notin Phases \cup {"sleep"}
  BY DEF Phases
<1>2. TypeOK'
  BY DEF IInv, TypeOK
<1>3. InRound' /\ RequestOrigin'
  BY <1>1 DEF IInv, InRound, RequestOrigin
<1>4. NewSocket'
  BY DEF NewSocket
<1>5. ClockTracked' /\ RedirectContained'
  BY <1>1 DEF ClockTracked, RedirectContained
<1>6. FreshAnswers'
  BY DEF FreshAnswers
<1>7. AnswerOrigin'
  BY <1>1 DEF IInv, AnswerOrigin
<1> QED BY <1>2, <1>3, <1>4, <1>5, <1>6, <1>7 DEF IInv

\* A step of the device that makes no difference to the network and the clock
\* except that datagrams are taken from it, and stays in the round.
LEMMA GoesOn ==
  ASSUME IInv, phase \in Phases, phase' \in {"act", "ver"}, waiting' = FALSE,
         unsent' \in BOOLEAN, synced' \in BOOLEAN, foreign' \in BOOLEAN,
         offset' \in Int, dest' \in {"server", "other"},
         UNCHANGED <<round, port, used, began, now, reqs, answered>>,
         acks' \subseteq acks,
         FreshAnswers', ClockTracked', RedirectContained'
  PROVE  IInv'
<1>1. phase' \in Phases /\ phase' \notin {"sleep", "enc"}
  BY DEF Phases
<1>2. TypeOK'
  BY <1>1 DEF IInv, TypeOK
<1>3. InRound' /\ RequestOrigin' /\ NewSocket'
  BY <1>1 DEF IInv, InRound, RequestOrigin, NewSocket
<1>4. AnswerOrigin'
  BY <1>1 DEF IInv, AnswerOrigin
<1> QED BY <1>2, <1>3, <1>4 DEF IInv

\* What a package of the server that the round waits for says.
LEMMA ServersPackage ==
  ASSUME IInv, NEW d \in acks, d.kind = "package", d.to = port, phase \in Phases,
         port \notin used
  PROVE  d.cmd \in answered /\ d.stamp <= now + Skew /\ began + Skew <= d.stamp
  BY DEF IInv, AnswerOrigin

\* The reaction to a datagram, of the server or of another host, keeps IInv.
LEMMA ReceiveInv ==
  ASSUME IInv, NEW d, d \in acks \/ (d \in Answer /\ d.from = "other"), Receive(d)
  PROVE  IInv'
<1> USE X1000OtaAssumption
<1>1. d \in Answer
  BY DEF IInv, TypeOK
<1>2. /\ d.from \in {"server", "other"} /\ d.stamp \in Int
      /\ d.kind \in {"package", "refused", "short"}
  BY <1>1 DEF Answer
<1>3. PICK read \in {"package", "refused", "short"} :
        /\ read = "package" => d.kind = "package"
        /\ offset' = IF read = "package" THEN TimeOffset(d.stamp) ELSE offset
        /\ synced' = (synced \/ read = "package")
        /\ phase' = CASE read = "short" -> "wild"
                      [] read = "package" /\ Accepted(d) -> NextPhase(phase)
                      [] OTHER -> AfterError
        /\ foreign' = (foreign \/ (read = "package" /\ Accepted(d) /\ d.from # "server"))
  BY <1>2 DEF Receive, IfFault
<1>4. /\ phase \in Phases /\ d.to = port /\ dest' = d.from
      /\ waiting' = FALSE /\ acks' \subseteq acks
      /\ UNCHANGED <<round, port, used, began, unsent, now, reqs, answered>>
  BY DEF Receive, Consumed, IfFault
<1>5. /\ offset \in Int /\ synced \in BOOLEAN /\ unsent \in BOOLEAN /\ foreign \in BOOLEAN
      /\ now \in Int /\ began \in Int
  BY DEF IInv, TypeOK
<1>6. offset' \in Int
  BY <1>2, <1>3, <1>5 DEF TimeOffset
<1>7. synced' \in BOOLEAN /\ foreign' \in BOOLEAN
  <2>1. Accepted(d) \in BOOLEAN
    BY DEF Accepted
  <2> QED BY <1>3, <1>5, <2>1
<1>8. CASE ~(read = "package" /\ Accepted(d))
  <2>1. phase' \in {"close", "wild"}
    BY <1>3, <1>8 DEF AfterError
  <2> QED BY <1>2, <1>4, <1>5, <1>6, <1>7, <2>1, EndOfRound
<1>9. CASE read = "package" /\ Accepted(d)
  <2>1. phase' = NextPhase(phase) /\ offset' = d.stamp - now /\ d.kind = "package"
    BY <1>3, <1>9 DEF TimeOffset
  <2>2. d.cmd = phase /\ (d.from = "other" => foreign')
    BY <1>3, <1>9 DEF Accepted
  <2>3. CASE phase = "ver"
    <3>1. phase' = "close"
      BY <2>1, <2>3, PhaseFacts
    <3> QED BY <1>2, <1>4, <1>5, <1>6, <1>7, <3>1, EndOfRound
  <2>4. CASE phase # "ver"
    <3>1. phase' \in {"act", "ver"} /\ (phase' = "act" => phase = "enc")
          /\ (phase' = "ver" => phase = "act")
      BY <1>4, <2>1, <2>4, PhaseFacts DEF Phases
    <3>2. d.from = "server" /\ port \notin used =>
            phase \in answered /\ d.stamp <= now + Skew /\ began + Skew <= d.stamp
      <4> SUFFICES ASSUME d.from = "server", port \notin used
                   PROVE  phase \in answered /\ d.stamp <= now + Skew
                          /\ began + Skew <= d.stamp
        OBVIOUS
      <4>1. d \in acks
        BY <1>2
      <4> QED BY <1>4, <2>1, <2>2, <4>1, ServersPackage
    <3>3. FreshAnswers'
      <4> SUFFICES ASSUME Undisturbed'
                   PROVE  /\ phase' \in {"act", "ver"} => "enc" \in answered \/ unsent
                          /\ phase' = "ver" => "act" \in answered
        BY <1>4 DEF FreshAnswers
      <4>1. d.from = "server" /\ Undisturbed
        BY <1>2, <1>3, <1>4, <2>2 DEF Undisturbed
      <4>2. phase \in answered
        BY <3>2, <4>1 DEF Undisturbed
      <4> QED BY <1>4, <3>1, <4>1, <4>2 DEF IInv, FreshAnswers, Phases
    <3>4. ClockTracked'
      BY <1>2, <1>4, <1>5, <2>1, <3>2 DEF ClockTracked
    <3>5. RedirectContained'
      BY <1>2, <1>4, <2>2, <3>1 DEF RedirectContained
    <3> QED BY <1>2, <1>4, <1>5, <1>6, <1>7, <3>1, <3>3, <3>4, <3>5, GoesOn
  <2> QED BY <2>3, <2>4
<1> QED BY <1>8, <1>9

\* What another host sends is a datagram of another host.
LEMMA StrayFacts == IInv /\ phase \in Phases => \A d \in Stray : d \in Answer /\ d.from = "other"
<1> SUFFICES ASSUME IInv, phase \in Phases, NEW d \in Stray
             PROVE  d \in Answer /\ d.from = "other"
  OBVIOUS
<1>1. port \in Ports
  BY DEF IInv, InRound
<1>2. CASE d \in {[to |-> port, from |-> "other", cmd |-> p, stamp |-> t, data |-> data,
                   kind |-> "package"] : p \in Phases, t \in Stamps, data \in AnyData}
  <2>1. PICK p \in Phases, t \in Stamps, data \in AnyData :
          d = [to |-> port, from |-> "other", cmd |-> p, stamp |-> t, data |-> data,
               kind |-> "package"]
    BY <1>2
  <2> QED BY <1>1, <2>1, X1000OtaAssumption DEF Answer
<1>3. CASE d \in {NoPackage(port, "other", kind) : kind \in {"refused", "short"}}
  <2>1. PICK kind \in {"refused", "short"} :
          d = [to |-> port, from |-> "other", cmd |-> "enc", stamp |-> 0,
               data |-> "bad", kind |-> kind]
    BY <1>3 DEF NoPackage
  <2> QED BY <1>1, <2>1 DEF Answer, Phases, AnyData
<1> QED BY <1>2, <1>3 DEF Stray

\* An answer of the server, to this round or to an earlier one, keeps IInv.
LEMMA ServeInv ==
  ASSUME IInv, NEW r \in reqs, Serve(r)
  PROVE  IInv'
<1> USE X1000OtaAssumption
<1>1. /\ r.port \in Ports /\ r.cmd \in Phases /\ r.round \in 1..MaxRounds
      /\ now \in Int /\ began \in Int /\ round \in Int /\ began <= now
  BY DEF IInv, TypeOK, Request, InRound
<1>2. PICK a \in Answer :
        /\ acks' = acks \cup {a} /\ a.to = r.port /\ a.from = "server"
        /\ a.kind = "package" => a.cmd = r.cmd /\ a.stamp = now + Skew
  <2>1. CASE \E data \in AnyData :
               acks' = acks \cup {[to |-> r.port, from |-> "server", cmd |-> r.cmd,
                                   stamp |-> now + Skew, data |-> data, kind |-> "package"]}
    <3>1. PICK data \in AnyData :
               acks' = acks \cup {[to |-> r.port, from |-> "server", cmd |-> r.cmd,
                                   stamp |-> now + Skew, data |-> data, kind |-> "package"]}
      BY <2>1
    <3>2. now + Skew \in Int
      BY <1>1
    <3> DEFINE a == [to |-> r.port, from |-> "server", cmd |-> r.cmd,
                     stamp |-> now + Skew, data |-> data, kind |-> "package"]
    <3>3. a \in Answer
      BY <1>1, <3>2 DEF Answer
    <3> QED BY <3>1, <3>3
  <2>2. CASE acks' = acks \cup {NoPackage(r.port, "server", "refused")}
    <3>1. NoPackage(r.port, "server", "refused") \in Answer
      BY <1>1 DEF NoPackage, Answer, Phases, AnyData
    <3> QED BY <2>2, <3>1 DEF NoPackage
  <2> QED BY <2>1, <2>2 DEF Serve
<1>3. /\ reqs' \subseteq reqs
      /\ answered' = IF r.round = round /\ phase \in Phases THEN answered \cup {r.cmd} ELSE answered
      /\ UNCHANGED devVars /\ now' = now
  BY DEF Serve, Consumed, IfFault
<1>4. UNCHANGED <<round, port, used, phase, waiting, offset, synced, dest, began, unsent, foreign>>
  BY <1>3 DEF devVars
<1>5. answered \subseteq answered' /\ answered' \subseteq Phases
  BY <1>1, <1>3 DEF IInv, TypeOK
<1>6. TypeOK'
  BY <1>2, <1>3, <1>4, <1>5 DEF IInv, TypeOK
<1>7. RequestOrigin'
  BY <1>3, <1>4 DEF IInv, RequestOrigin
<1>8. AnswerOrigin'
  <2> SUFFICES ASSUME NEW d \in acks'
               PROVE  /\ d.from = "server" /\ d.to \in used \cup {port}
                      /\ d.kind = "package" =>
                           /\ d.stamp <= now + Skew
                           /\ d.to = port /\ port \notin used =>
                                /\ phase \in Phases => d.cmd \in answered'
                                /\ began + Skew <= d.stamp
    BY <1>3, <1>4 DEF AnswerOrigin
  <2>1. CASE d \in acks
    BY <1>5, <2>1 DEF IInv, AnswerOrigin
  <2>2. CASE d = a
    <3>1. /\ r.port \in used \cup {port}
          /\ r.port = port /\ port \notin used => r.round = round
      BY DEF IInv, RequestOrigin
    <3>2. began + Skew <= now + Skew
      BY <1>1
    <3> QED BY <1>1, <1>2, <1>3, <2>2, <3>1, <3>2
  <2> QED BY <1>2, <2>1, <2>2
<1>9. FreshAnswers'
  BY <1>4, <1>5 DEF IInv, FreshAnswers, Undisturbed
<1> QED BY <1>3, <1>4, <1>6, <1>7, <1>8, <1>9
        DEF IInv, InRound, NewSocket, ClockTracked, RedirectContained

\* Every step of the device, the server, the network, other hosts and the clock
\* keeps IInv.
LEMMA StepInv == IInv /\ [Next]_vars => IInv'
<1> SUFFICES ASSUME IInv, [Next]_vars PROVE IInv'
  OBVIOUS
<1> USE X1000OtaAssumption
<1>1. CASE Begin
  <2>1. CASE phase' = "exit" /\ UNCHANGED <<round, port, used, began>>
    <3>1. UNCHANGED <<waiting, offset, synced, dest, unsent, foreign, now, reqs, acks,
                     answered>>
      BY <1>1 DEF Begin
    <3>2. /\ waiting' \in BOOLEAN /\ unsent' \in BOOLEAN /\ synced' \in BOOLEAN
          /\ foreign' \in BOOLEAN /\ offset' \in Int /\ dest' \in {"server", "other"}
      BY <3>1 DEF IInv, TypeOK
    <3>3. ~waiting
      BY <1>1 DEF Begin, IInv, InRound, Phases
    <3> QED BY <2>1, <3>1, <3>2, <3>3, EndOfRound
  <2>2. CASE /\ round' = round + 1 /\ phase' = "enc" /\ began' = now
             /\ port' \in 1..(round + 1) /\ used' = used \cup {port}
    <3>1. /\ phase = "sleep"
          /\ UNCHANGED <<waiting, offset, synced, dest, unsent, foreign, now, reqs,
                         acks, answered>>
          /\ round \in 0..MaxRounds /\ round < MaxRounds
      BY <1>1 DEF Begin, IInv, TypeOK
    <3>2. /\ round + 1 \in 1..MaxRounds /\ now \in 0..MaxTime /\ now <= now
          /\ port' \in Ports /\ port' <= round + 1
      BY <2>2, <3>1 DEF IInv, TypeOK, Ports
    <3>3. TypeOK'
      <4>1. round' \in 0..MaxRounds /\ port' \in {0} \cup Ports
            /\ used' \subseteq {0} \cup Ports
        BY <2>2, <3>2 DEF IInv, TypeOK
      <4>2. phase' \in Phases \cup {"close", "sleep", "exit", "wild"}
        BY <2>2 DEF Phases
      <4> QED BY <2>2, <3>1, <3>2, <4>1, <4>2, Zenon DEF IInv, TypeOK
    <3>4. InRound'
      <4>1. phase' \in Phases
        BY <2>2 DEF Phases
      <4> QED BY <2>2, <3>1, <3>2, <4>1 DEF InRound
    <3>5. RequestOrigin'
      <4> SUFFICES ASSUME NEW r \in reqs
                   PROVE  /\ r.round <= round + 1 /\ r.port \in used'
        BY <2>2, <3>1 DEF RequestOrigin
      <4>1. r.round \in Int /\ r.round <= round /\ r.port \in used \cup {port}
        BY DEF IInv, TypeOK, Request, RequestOrigin
      <4> QED BY <2>2, <3>1, <4>1
    <3>6. AnswerOrigin'
      <4> SUFFICES ASSUME NEW d \in acks
                   PROVE  /\ d.from = "server" /\ d.to \in used'
                          /\ d.kind = "package" => d.stamp <= now + Skew
        BY <2>2, <3>1 DEF AnswerOrigin
      <4> QED BY <2>2 DEF IInv, AnswerOrigin
    <3>7. ~waiting /\ dest = "server" /\ ~synced
      BY <3>1 DEF IInv, InRound, NewSocket, Phases
    <3> QED BY <2>2, <3>1, <3>3, <3>4, <3>5, <3>6, <3>7
            DEF IInv, NewSocket, FreshAnswers, ClockTracked, RedirectContained
  <2> QED BY <1>1, <2>1, <2>2 DEF Begin
<1>2. CASE Close
  <2> USE <1>2 DEF Close
  <2>1. "sleep" \notin Phases /\ "close" \notin Phases
    BY DEF Phases
  <2>2. TypeOK'
    <3>1. answered' \subseteq Phases /\ offset' \in Int /\ dest' \in {"server", "other"}
          /\ phase' \in {"close", "sleep", "exit", "wild"}
      OBVIOUS
    <3>2. unsent' \in BOOLEAN /\ foreign' \in BOOLEAN /\ synced' \in BOOLEAN
      BY Zenon
    <3> QED BY <3>1, <3>2 DEF IInv, TypeOK
  <2>3. RequestOrigin' /\ AnswerOrigin'
    BY <2>1 DEF IInv, RequestOrigin, AnswerOrigin
  <2> QED BY <2>1, <2>2, <2>3
          DEF IInv, InRound, NewSocket, FreshAnswers, ClockTracked, RedirectContained
<1>3. CASE Send
  <2> USE <1>3 DEF Send
  <2>1. round \in 1..MaxRounds /\ port \in Ports
    BY DEF IInv, InRound
  <2>2. TypeOK'
    BY <2>1 DEF IInv, TypeOK, Request
  <2>3. RequestOrigin'
    BY <2>1 DEF IInv, RequestOrigin
  <2>4. AnswerOrigin'
    BY DEF IInv, AnswerOrigin
  <2>5. "sleep" \notin Phases
    BY DEF Phases
  <2> QED BY <2>1, <2>2, <2>3, <2>4, <2>5
          DEF IInv, InRound, NewSocket, FreshAnswers, ClockTracked, RedirectContained,
              Undisturbed
<1>4. CASE SendFails
  <2>1. CASE phase = "enc"
    <3>1. /\ phase' = "act" /\ ~waiting /\ waiting' = waiting /\ unsent' = TRUE
          /\ phase \in Phases
          /\ UNCHANGED <<round, port, used, waiting, offset, synced, dest, began, foreign,
                         now, reqs, acks, answered>>
      BY <1>4, <2>1 DEF SendFails
    <3>2. dest = "server" /\ ~synced
      BY <2>1, <3>1 DEF IInv, NewSocket
    <3>3. /\ waiting' = FALSE /\ synced' \in BOOLEAN /\ foreign' \in BOOLEAN
          /\ offset' \in Int /\ dest' \in {"server", "other"}
      BY <3>1 DEF IInv, TypeOK
    <3>4. FreshAnswers' /\ ClockTracked' /\ RedirectContained'
      BY <3>1, <3>2 DEF FreshAnswers, ClockTracked, RedirectContained
    <3> QED BY <3>1, <3>3, <3>4, GoesOn
  <2>2. CASE phase # "enc"
    BY <1>4, <2>2, EndOfRound DEF SendFails, IInv, TypeOK
  <2> QED BY <2>1, <2>2
<1>5. CASE PackFails
  BY <1>5, EndOfRound DEF PackFails, IInv, TypeOK
<1>6. CASE Timeout
  BY <1>6, EndOfRound DEF Timeout, IInv, TypeOK
<1>7. CASE ReceiveEmpty
  <2> USE <1>7 DEF ReceiveEmpty
  <2>1. TypeOK' /\ RequestOrigin' /\ AnswerOrigin'
    BY DEF IInv, TypeOK, RequestOrigin, AnswerOrigin
  <2> QED BY <2>1 DEF IInv, InRound, NewSocket, FreshAnswers, ClockTracked,
                      RedirectContained, Undisturbed
<1>8. ASSUME NEW d \in acks, Receive(d) PROVE IInv'
  BY <1>8, ReceiveInv
<1>9. ASSUME NEW d \in Stray, Receive(d) PROVE IInv'
  <2>1. d \in Answer /\ d.from = "other"
    BY <1>9, StrayFacts DEF Receive
  <2> QED BY <1>9, <2>1, ReceiveInv
<1>10. ASSUME NEW r \in reqs, Serve(r) PROVE IInv'
  BY <1>10, ServeInv
<1>11. CASE Tick
  <2> USE <1>11 DEF Tick, devVars
  <2>1. TypeOK' /\ now \in Int /\ began \in Int /\ offset \in Int
    BY DEF IInv, TypeOK
  <2>2. AnswerOrigin'
    <3> SUFFICES ASSUME NEW d \in acks, d.kind = "package", d.stamp <= now + Skew
                 PROVE  d.stamp <= now + 1 + Skew
      BY DEF IInv, AnswerOrigin
    <3> d.stamp \in Int
      BY DEF IInv, TypeOK, Answer
    <3> QED BY <2>1
  <2>3. InRound' /\ RequestOrigin' /\ NewSocket' /\ FreshAnswers' /\ RedirectContained'
    BY <2>1 DEF IInv, InRound, RequestOrigin, NewSocket, FreshAnswers,
                RedirectContained, Undisturbed
  <2>4. ClockTracked'
    BY <2>1 DEF IInv, ClockTracked
  <2> QED BY <2>1, <2>2, <2>3, <2>4 DEF IInv
<1>12. CASE UNCHANGED vars
  BY <1>12 DEF vars, devVars, IInv, TypeOK, InRound, RequestOrigin, AnswerOrigin,
               NewSocket, FreshAnswers, ClockTracked, RedirectContained, Undisturbed
<1> QED BY <1>1, <1>2, <1>3, <1>4, <1>5, <1>6, <1>7, <1>8, <1>9, <1>10, <1>11, <1>12
        DEF Next, DeviceStep

LEMMA InvAlways == Spec => []IInv
  BY InitInv, StepInv, PTL DEF Spec

\* The device's state, the datagrams and both clocks stay within their types;
\* in particular the offset is an integer and every request is of a round.
THEOREM TypeCorrect == Spec => []TypeOK
<1>1. IInv => TypeOK
  BY DEF IInv
<1> QED BY <1>1, InvAlways, PTL

\* Whatever is lost, delayed, doubled or damaged, and whatever other hosts send,
\* a round that has accepted no package of another host and has a new port took
\* each of its steps on the server's answer to its own request.
THEOREM AnswersFresh == Spec => []FreshAnswers
<1>1. IInv => FreshAnswers
  BY DEF IInv
<1> QED BY <1>1, InvAlways, PTL

\* parse_package's offset keeps the stamps of requests to the server within the
\* length of the round of the server's clock, for every difference between the
\* clocks and whatever another host's package had set the offset to before, on a
\* port that was not used before.
THEOREM ClockTracks == Spec => []ClockTracked
<1>1. IInv => ClockTracked
  BY DEF IInv
<1> QED BY <1>1, InvAlways, PTL

\* udp_recv's overwriting of addr_serv redirects a request only within a round
\* that has accepted a package of another host, and never the first one.
THEOREM RedirectsContained == Spec => []RedirectContained
<1>1. IInv => RedirectContained
  BY DEF IInv
<1> QED BY <1>1, InvAlways, PTL
=============================================================================
