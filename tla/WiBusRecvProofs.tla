-------------------------- MODULE WiBusRecvProofs --------------------------
(***************************************************************************)
(* Proofs about WiBusRecv, for every number of messages and every set of   *)
(* faults: the two threads exclude each other, no wakeup is lost, the list *)
(* keeps its messages in the order of their priority, and every message is *)
(* delivered once, low ones in order, from memory that has not been freed. *)
(***************************************************************************)
EXTENDS WiBusRecv, TLAPS

\* The message being queued is the newest one, newer than all in the list:
\* without this a push at either end could break PriorityOrder.
Newest ==
  /\ run \in {"lock", "push"} => data \in Message /\ data.n = arrived
  /\ \A i \in DOMAIN list :
        /\ list[i].n <= arrived
        /\ run \in {"lock", "push"} => list[i].n < arrived

\* The read thread holds a message until it has freed it.
Popped == read \in {"callback", "freelock", "free"} => buf_data \in Message

IInv ==
  TypeOK /\ MutexHeld /\ NoLostWakeup /\ Newest /\ Popped /\ PriorityOrder

-----------------------------------------------------------------------------
\* What the two pushes of queue.c do to a list.
LEMMA PushHead ==
  ASSUME NEW S, NEW q \in Seq(S), NEW m \in S
  PROVE  /\ queue_push_head(q, m) \in Seq(S)
         /\ DOMAIN queue_push_head(q, m) = 1..(Len(q) + 1)
         /\ queue_push_head(q, m)[1] = m
         /\ \A i \in 2..(Len(q) + 1) : queue_push_head(q, m)[i] = q[i - 1]
BY DEF queue_push_head

LEMMA PushTail ==
  ASSUME NEW S, NEW q \in Seq(S), NEW m \in S
  PROVE  /\ queue_push_tail(q, m) \in Seq(S)
         /\ DOMAIN queue_push_tail(q, m) = 1..(Len(q) + 1)
         /\ queue_push_tail(q, m)[Len(q) + 1] = m
         /\ \A i \in 1..Len(q) : queue_push_tail(q, m)[i] = q[i]
BY DEF queue_push_tail

-----------------------------------------------------------------------------
\* Every step keeps the variables within their types.
LEMMA TypeStep ==
  ASSUME TypeOK, Newest, Popped, [Next]_vars PROVE TypeOK'
<1> USE WiBusRecvAssumption DEF TypeOK
<1>1. ASSUME NEW high \in BOOLEAN, wi_bus_recv_cb(high) PROVE TypeOK'
  <2> DEFINE m == [n |-> arrived', high |-> high]
  <2>1. m \in Message /\ arrived' \in 0..MaxMsgs
    BY <1>1 DEF wi_bus_recv_cb, Message
  <2> HIDE DEF m
  <2>2. /\ data' \in Message \cup {NoMsg}
        /\ heap' \subseteq Message
        /\ lost' \subseteq Message
        /\ run' \in {"idle", "lock", "push", "post"}
    BY <1>1, <2>1 DEF wi_bus_recv_cb, runVars, m
  <2> QED
    BY <1>1, <2>1, <2>2 DEF wi_bus_recv_cb, readVars
<1>2. CASE RunLock
  BY <1>2 DEF RunLock, readVars, histVars
<1>3. CASE RunPush
  <2>1. data \in Message
    BY <1>3 DEF RunPush, Newest
  <2>2. list' \in Seq(Message)
    <3>1. /\ queue_push_head(list, data) \in Seq(Message)
          /\ queue_push_tail(list, data) \in Seq(Message)
      BY <2>1, PushHead, PushTail
    <3> QED
      BY <1>3, <3>1 DEF RunPush
  <2>3. lost' \subseteq Message
    BY <1>3, <2>1 DEF RunPush
  <2> QED
    BY <1>3, <2>2, <2>3 DEF RunPush, readVars
<1>4. CASE RunPost
  BY <1>4 DEF RunPost, readVars, histVars
<1>5. CASE ReadWait
  BY <1>5 DEF ReadWait, runVars, histVars
<1>6. CASE ReadLock
  BY <1>6 DEF ReadLock, runVars, histVars
<1>7. CASE queue_pop_head
  <2>1. list' \in Seq(Message) /\ buf_data' \in Message \cup {NoMsg}
    BY <1>7 DEF queue_pop_head
  <2>2. read' \in {"wait", "callback"}
    BY <1>7 DEF queue_pop_head
  <2> QED
    BY <1>7, <2>1, <2>2 DEF queue_pop_head, runVars, histVars
<1>8. CASE recv_cb
  <2>1. buf_data \in Message
    BY <1>8 DEF recv_cb, Popped
  <2>2. delivered' \in Seq(Message)
    BY <1>8, <2>1 DEF recv_cb
  <2> QED
    BY <1>8, <2>2 DEF recv_cb, runVars
<1>9. CASE ReadFreeLock
  BY <1>9 DEF ReadFreeLock, runVars, histVars
<1>10. CASE ReadFree
  BY <1>10 DEF ReadFree, runVars, histVars
<1>11. CASE ReadInterrupted
  BY <1>11 DEF ReadInterrupted, runVars, histVars
<1>12. CASE UNCHANGED vars
  BY <1>12 DEF vars, runVars, readVars, histVars
<1> QED
  BY <1>1, <1>2, <1>3, <1>4, <1>5, <1>6, <1>7, <1>8, <1>9, <1>10, <1>11,
     <1>12
  DEF Next, RunStep, ReadStep

\* Who is in a critical section holds the mutex, and only who holds it.
LEMMA MutexStep == ASSUME TypeOK, MutexHeld, [Next]_vars PROVE MutexHeld'
BY DEF TypeOK, MutexHeld, Next, vars, RunStep, ReadStep, runVars, readVars,
       wi_bus_recv_cb, RunLock, RunPush, RunPost, ReadWait, ReadInterrupted, ReadLock,
       queue_pop_head, recv_cb, ReadFreeLock, ReadFree

\* The read thread goes to sleep on an empty list only, the run thread posts
\* after every push.
LEMMA WakeupStep == ASSUME TypeOK, NoLostWakeup, [Next]_vars PROVE NoLostWakeup'
BY DEF TypeOK, NoLostWakeup, Next, vars, RunStep, ReadStep, runVars, readVars,
       wi_bus_recv_cb, RunLock, RunPush, RunPost, ReadWait, ReadInterrupted, ReadLock,
       queue_pop_head, recv_cb, ReadFreeLock, ReadFree

\* A popped message stays with the read thread.
LEMMA PoppedStep == ASSUME TypeOK, Popped, [Next]_vars PROVE Popped'
BY DEF TypeOK, Popped, Next, vars, RunStep, ReadStep, runVars, readVars,
       wi_bus_recv_cb, RunLock, RunPush, RunPost, ReadWait, ReadInterrupted, ReadLock,
       queue_pop_head, recv_cb, ReadFreeLock, ReadFree

\* The list and the thread that fills it: pushes at either end keep the order
\* because the pushed message is newer than all in the list; a pop takes the
\* first one.
LEMMA OrderStep ==
  ASSUME TypeOK, Newest, PriorityOrder, [Next]_vars
  PROVE  Newest' /\ PriorityOrder'
<1>a. /\ list \in Seq(Message) /\ arrived \in 0..MaxMsgs
      /\ Len(list) \in Nat /\ DOMAIN list = 1..Len(list)
  BY DEF TypeOK
<1>b. \A m \in Message : m.n \in Nat /\ m.high \in BOOLEAN
  BY WiBusRecvAssumption DEF Message
<1>c. \A i \in 1..Len(list) :
        list[i].n \in Nat /\ list[i].high \in BOOLEAN
  <2>1. \A i \in 1..Len(list) : list[i] \in Message
    BY <1>a
  <2> QED
    BY <2>1, <1>b
<1>d. arrived \in Nat
  BY <1>a, WiBusRecvAssumption
<1>1. ASSUME NEW high \in BOOLEAN, wi_bus_recv_cb(high)
      PROVE  Newest' /\ PriorityOrder'
  <2> DEFINE m == [n |-> arrived', high |-> high]
  <2>1. m \in Message /\ m.n = arrived + 1
    BY <1>1, <1>a, WiBusRecvAssumption DEF wi_bus_recv_cb, Message
  <2>2. run' = "lock" => data' = m
    BY <1>1 DEF wi_bus_recv_cb, runVars
  <2>3. run' # "push" /\ arrived' = arrived + 1 /\ list' = list
    BY <1>1 DEF wi_bus_recv_cb, runVars
  <2> HIDE DEF m
  <2> QED
    BY <1>a, <1>c, <1>d, <2>1, <2>2, <2>3 DEF Newest, PriorityOrder
<1>2. CASE RunPush
  <2> DEFINE h == queue_push_head(list, data)
             t == queue_push_tail(list, data)
  <2>1. data \in Message /\ data.n = arrived /\ data.high \in BOOLEAN
    BY <1>2, <1>b DEF RunPush, Newest
  <2>2. /\ DOMAIN h = 1..(Len(list) + 1) /\ h[1] = data
        /\ \A i \in 2..(Len(list) + 1) : h[i] = list[i - 1]
    BY <2>1, <1>a, PushHead
  <2>3. /\ DOMAIN t = 1..(Len(list) + 1) /\ t[Len(list) + 1] = data
        /\ \A i \in 1..Len(list) : t[i] = list[i]
    BY <2>1, <1>a DEF queue_push_tail
  <2>4. \A i \in 1..Len(list) : list[i].n < arrived
    BY <1>2, <1>a DEF RunPush, Newest
  <2>5. run' = "post" /\ arrived' = arrived
    BY <1>2 DEF RunPush
  <2> HIDE DEF h, t
  <2>6. CASE list' = h /\ data.high
    <3>1. \A i \in 1..(Len(list) + 1) :
            list'[i] = IF i = 1 THEN data ELSE list[i - 1]
      BY <1>a, <2>2, <2>6
    <3>2. \A i \in 2..(Len(list) + 1) : i - 1 \in 1..Len(list)
      BY <1>a
    <3>3. DOMAIN list' = 1..(Len(list) + 1)
      BY <2>2, <2>6
    <3>4. Newest'
      BY <1>a, <1>c, <1>d, <2>1, <2>4, <2>5, <3>1, <3>2, <3>3 DEF Newest
    <3>5. PriorityOrder'
      <4> SUFFICES ASSUME NEW i \in DOMAIN list', NEW j \in DOMAIN list', i < j
                   PROVE  /\ list'[j].high
                               => list'[i].high /\ list'[i].n > list'[j].n
                          /\ ~list'[i].high => list'[i].n < list'[j].n
        BY DEF PriorityOrder
      <4>1. j \in 2..(Len(list) + 1) /\ list'[j] = list[j - 1]
        BY <1>a, <3>1, <3>3
      <4>2. CASE i = 1
        BY <1>a, <1>c, <1>d, <2>1, <2>4, <2>6, <3>1, <3>2, <3>3, <4>1, <4>2
      <4>3. CASE i # 1
        <5>1. /\ i - 1 \in DOMAIN list /\ j - 1 \in DOMAIN list
              /\ i - 1 < j - 1 /\ list'[i] = list[i - 1]
          BY <1>a, <3>1, <3>2, <3>3, <4>1, <4>3
        <5> QED
          BY <4>1, <5>1 DEF PriorityOrder
      <4> QED
        BY <4>2, <4>3
    <3> QED
      BY <3>4, <3>5
  <2>7. CASE list' = t /\ ~data.high
    BY <1>a, <1>c, <1>d, <2>1, <2>3, <2>4, <2>5, <2>7 DEF Newest, PriorityOrder
  <2>8. CASE list' = list
    BY <1>a, <1>c, <1>d, <2>4, <2>5, <2>8 DEF Newest, PriorityOrder
  <2> QED
    BY <1>2, <2>6, <2>7, <2>8 DEF RunPush, h, t
<1>3. CASE queue_pop_head
  <2>1. run' = run /\ arrived' = arrived /\ data' = data
    BY <1>3 DEF queue_pop_head, runVars, histVars
  <2>2. CASE list = <<>>
    BY <1>3, <2>1, <2>2 DEF queue_pop_head, Newest, PriorityOrder
  <2>3. CASE list # <<>>
    <3>1. /\ DOMAIN list' = 1..(Len(list) - 1)
          /\ \A i \in 1..(Len(list) - 1) : list'[i] = list[i + 1]
      BY <1>3, <1>a, <2>3 DEF queue_pop_head
    <3> QED
      <4>1. Newest'
        <5>1. \A i \in DOMAIN list' : i + 1 \in DOMAIN list /\ list'[i] = list[i + 1]
          BY <1>a, <3>1
        <5> QED
          BY <2>1, <5>1 DEF Newest
      <4>2. PriorityOrder'
        <5> SUFFICES ASSUME NEW i \in DOMAIN list', NEW j \in DOMAIN list', i < j
                     PROVE  /\ list'[j].high
                                 => list'[i].high /\ list'[i].n > list'[j].n
                            /\ ~list'[i].high => list'[i].n < list'[j].n
          BY DEF PriorityOrder
        <5>1. /\ i + 1 \in DOMAIN list /\ j + 1 \in DOMAIN list
              /\ i + 1 < j + 1
              /\ list'[i] = list[i + 1] /\ list'[j] = list[j + 1]
          BY <1>a, <3>1
        <5> QED
          BY <5>1 DEF PriorityOrder
      <4> QED
        BY <4>1, <4>2
  <2> QED
    BY <2>2, <2>3
<1>4. CASE /\ UNCHANGED <<list, data, arrived>>
           /\ run' \in {run, "idle"} \/ (run = "lock" /\ run' = "push")
  BY <1>4 DEF Newest, PriorityOrder
<1> QED
  BY <1>1, <1>2, <1>3, <1>4
  DEF Next, vars, RunStep, ReadStep, runVars, readVars, histVars, RunLock,
      RunPost, ReadWait, ReadInterrupted, ReadLock, recv_cb, ReadFreeLock, ReadFree

-----------------------------------------------------------------------------
\* IInv holds in every state: it is inductive.
THEOREM Inductive == Spec => []IInv
<1>1. Init => IInv
  BY WiBusRecvAssumption
  DEF Init, IInv, TypeOK, MutexHeld, NoLostWakeup, Newest, Popped,
      PriorityOrder
<1>2. IInv /\ [Next]_vars => IInv'
  BY TypeStep, MutexStep, WakeupStep, PoppedStep, OrderStep DEF IInv
<1> QED
  BY <1>1, <1>2, PTL DEF Spec

\* The variables of wi_bus.c's receive path stay within their types.
THEOREM TypeCorrect == Spec => []TypeOK
BY Inductive, PTL DEF IInv

\* Run thread and read thread are never in their critical sections together.
THEOREM MutexSafe == Spec => []MutexHeld
BY Inductive, PTL DEF IInv

\* The read thread never sleeps on a message that nobody will wake it for.
THEOREM WakeupSafe == Spec => []NoLostWakeup
BY Inductive, PTL DEF IInv

\* recv_list is sorted by priority, high messages last in first out, the
\* others first in first out, however pushes and pops interleave.
THEOREM PrioritySafe == Spec => []PriorityOrder
BY Inductive, PTL DEF IInv

-----------------------------------------------------------------------------
\* Where the messages are.

\* Every message received so far.
Known == Queued \cup Delivered \cup lost \cup RunHolds \cup ReadHolds

\* A message is in one place.  The one the read thread holds has been delivered
\* if and only if recv_cb has returned.
Apart ==
  /\ Queued \cap (Delivered \cup lost \cup RunHolds \cup ReadHolds) = {}
  /\ RunHolds \cap (Delivered \cup lost \cup ReadHolds) = {}
  /\ lost \cap (Delivered \cup ReadHolds) = {}
  /\ read = "callback" => buf_data \notin Delivered
  /\ read \in {"freelock", "free"} => buf_data \in Delivered

\* Neither the list nor what was delivered has a message twice.
NoTwice ==
  /\ \A i, j \in DOMAIN list : list[i] = list[j] => i = j
  /\ \A i, j \in DOMAIN delivered : delivered[i] = delivered[j] => i = j

\* The messages are numbered without gaps.
Numbered ==
  /\ \A x, y \in Known : x.n = y.n => x = y
  /\ {x.n : x \in Known} = 1..arrived

\* m was taken off the list before all low messages that are to be delivered.
Before(m) ==
  ~m.high => /\ m.n <= arrived
             /\ run \in {"lock", "push"} => m.n < arrived
             /\ \A j \in DOMAIN list : ~list[j].high => m.n < list[j].n

LowAhead ==
  /\ \A i \in DOMAIN delivered : Before(delivered[i])
  /\ read = "callback" =>
       /\ Before(buf_data)
       /\ ~buf_data.high => \A i \in DOMAIN delivered :
            ~delivered[i].high => delivered[i].n < buf_data.n

Places == Apart /\ NoTwice /\ NoUseAfterFree
JInv == Places /\ Numbered /\ LowAhead /\ LowInOrder

\* What is in a sequence, and what is in it after a push or a pop.
Elems(s) == {s[i] : i \in DOMAIN s}

LEMMA TailElements ==
  ASSUME NEW S, NEW q \in Seq(S), NEW m \in S
  PROVE  Elems(queue_push_tail(q, m)) = Elems(q) \cup {m}
<1> DEFINE t == queue_push_tail(q, m)
<1>1. /\ Len(q) \in Nat /\ DOMAIN q = 1..Len(q)
      /\ DOMAIN t = 1..(Len(q) + 1) /\ t[Len(q) + 1] = m
      /\ \A i \in 1..Len(q) : t[i] = q[i]
  BY DEF queue_push_tail
<1> HIDE DEF t
<1>2. Len(q) + 1 \in DOMAIN t /\ \A i \in DOMAIN q : i \in DOMAIN t /\ t[i] = q[i]
  BY <1>1
<1>3. \A i \in DOMAIN t : i \in DOMAIN q \/ i = Len(q) + 1
  BY <1>1
<1>4. \A x \in Elems(q) \cup {m} : x \in Elems(t)
  BY <1>1, <1>2 DEF Elems
<1>5. \A x \in Elems(t) : x \in Elems(q) \cup {m}
  BY <1>1, <1>2, <1>3 DEF Elems
<1> QED BY <1>4, <1>5 DEF t

LEMMA HeadElements ==
  ASSUME NEW S, NEW q \in Seq(S), NEW m \in S
  PROVE  Elems(queue_push_head(q, m)) = Elems(q) \cup {m}
<1> DEFINE h == queue_push_head(q, m)
<1>1. /\ Len(q) \in Nat /\ DOMAIN q = 1..Len(q)
      /\ DOMAIN h = 1..(Len(q) + 1) /\ h[1] = m
      /\ \A i \in 2..(Len(q) + 1) : h[i] = q[i - 1]
  BY DEF queue_push_head
<1> HIDE DEF h
<1>2. 1 \in DOMAIN h /\ \A i \in DOMAIN q : i + 1 \in DOMAIN h /\ h[i + 1] = q[i]
  BY <1>1
<1>3. \A i \in DOMAIN h : i = 1 \/ (i - 1 \in DOMAIN q /\ h[i] = q[i - 1])
  BY <1>1
<1>4. \A x \in Elems(q) \cup {m} : x \in Elems(h)
  BY <1>1, <1>2 DEF Elems
<1>5. \A x \in Elems(h) : x \in Elems(q) \cup {m}
  BY <1>1, <1>3 DEF Elems
<1> QED BY <1>4, <1>5 DEF h

LEMMA PopElements ==
  ASSUME NEW S, NEW q \in Seq(S), q # <<>>
  PROVE  Elems(q) = Elems(Tail(q)) \cup {Head(q)}
<1> DEFINE r == Tail(q)
<1>1. /\ Len(q) \in Nat /\ DOMAIN q = 1..Len(q)
      /\ Head(q) = q[1] /\ 1 \in DOMAIN q
      /\ DOMAIN r = 1..(Len(q) - 1)
      /\ \A i \in 1..(Len(q) - 1) : r[i] = q[i + 1]
  OBVIOUS
<1> HIDE DEF r
<1>2. \A i \in DOMAIN q : i = 1 \/ (i - 1 \in DOMAIN r /\ r[i - 1] = q[i])
  BY <1>1
<1>3. \A i \in DOMAIN r : i + 1 \in DOMAIN q /\ r[i] = q[i + 1]
  BY <1>1
<1>4. \A x \in Elems(q) : x \in Elems(r) \cup {Head(q)}
  BY <1>1, <1>2 DEF Elems
<1>5. \A x \in Elems(r) \cup {Head(q)} : x \in Elems(q)
  BY <1>1, <1>3 DEF Elems
<1> QED BY <1>4, <1>5 DEF r

LEMMA Elements ==
  ASSUME TypeOK
  PROVE  /\ \A m \in Message :
              /\ list' = queue_push_tail(list, m) => Queued' = Queued \cup {m}
              /\ list' = queue_push_head(list, m) => Queued' = Queued \cup {m}
              /\ delivered' = Append(delivered, m) => Delivered' = Delivered \cup {m}
         /\ list # <<>> /\ list' = Tail(list) => Queued = Queued' \cup {Head(list)}
<1>1. list \in Seq(Message) /\ delivered \in Seq(Message)
  BY DEF TypeOK
<1>2. /\ Queued = Elems(list) /\ Delivered = Elems(delivered)
      /\ Queued' = Elems(list') /\ Delivered' = Elems(delivered')
  BY DEF Queued, Delivered, Elems
<1>3. ASSUME NEW m \in Message
      PROVE  /\ Elems(queue_push_tail(list, m)) = Elems(list) \cup {m}
             /\ Elems(queue_push_head(list, m)) = Elems(list) \cup {m}
             /\ Elems(queue_push_tail(delivered, m)) = Elems(delivered) \cup {m}
  <2>1. Elems(queue_push_tail(list, m)) = Elems(list) \cup {m}
    BY <1>1, TailElements
  <2>2. Elems(queue_push_head(list, m)) = Elems(list) \cup {m}
    BY <1>1, HeadElements
  <2>3. Elems(queue_push_tail(delivered, m)) = Elems(delivered) \cup {m}
    BY <1>1, TailElements
  <2> QED BY <2>1, <2>2, <2>3
<1>4. list # <<>> => Elems(list) = Elems(Tail(list)) \cup {Head(list)}
  BY <1>1, PopElements, Zenon
<1>5. \A m : queue_push_tail(delivered, m) = Append(delivered, m)
  BY DEF queue_push_tail
<1> QED BY <1>2, <1>3, <1>4, <1>5, Zenon

\* A pop takes the only copy of its message off the list.
LEMMA PopOnce ==
  ASSUME TypeOK, NoTwice, list # <<>>, list' = Tail(list)
  PROVE  /\ Queued' = Queued \ {Head(list)} /\ Head(list) \in Queued
         /\ \A i, j \in DOMAIN list' : list'[i] = list'[j] => i = j
<1>1. /\ Len(list) \in Nat /\ DOMAIN list = 1..Len(list)
      /\ Head(list) = list[1] /\ 1 \in DOMAIN list
      /\ DOMAIN list' = 1..(Len(list) - 1)
      /\ \A i \in 1..(Len(list) - 1) : list'[i] = list[i + 1]
  BY DEF TypeOK
<1>2. \A i \in DOMAIN list' : i + 1 \in DOMAIN list /\ i + 1 # 1 /\ list'[i] = list[i + 1]
  BY <1>1
<1>3. \A i \in DOMAIN list' : list'[i] # Head(list)
  BY <1>1, <1>2 DEF NoTwice
<1>4. Head(list) \notin Queued'
  BY <1>3 DEF Queued
<1>5. \A i, j \in DOMAIN list' : list'[i] = list'[j] => i = j
  <2> SUFFICES ASSUME NEW i \in DOMAIN list', NEW j \in DOMAIN list', list'[i] = list'[j]
               PROVE  i = j
    OBVIOUS
  <2>1. i + 1 = j + 1
    BY <1>2 DEF NoTwice
  <2> QED BY <1>1, <2>1
<1>6. Queued = Queued' \cup {Head(list)}
  BY Elements
<1> QED BY <1>4, <1>5, <1>6

\* A message that is nowhere is pushed once.
LEMMA PushOnce ==
  ASSUME TypeOK, NoTwice, NEW m \in Message, m \notin Queued,
         list' \in {queue_push_head(list, m), queue_push_tail(list, m)}
  PROVE  \A i, j \in DOMAIN list' : list'[i] = list'[j] => i = j
<1>1. /\ list \in Seq(Message) /\ Len(list) \in Nat /\ DOMAIN list = 1..Len(list)
  BY DEF TypeOK
<1>2. \A i \in DOMAIN list : list[i] # m
  BY DEF Queued
<1> SUFFICES ASSUME NEW i \in DOMAIN list', NEW j \in DOMAIN list', list'[i] = list'[j]
             PROVE  i = j
  OBVIOUS
<1>3. CASE list' = queue_push_head(list, m)
  <2> DEFINE h == queue_push_head(list, m)
  <2>a. DOMAIN h = 1..(Len(list) + 1) /\ h[1] = m
        /\ \A k \in 2..(Len(list) + 1) : h[k] = list[k - 1]
    BY <1>1, PushHead
  <2> HIDE DEF h
  <2>1. DOMAIN list' = 1..(Len(list) + 1) /\ list'[1] = m
        /\ \A k \in 2..(Len(list) + 1) : list'[k] = list[k - 1]
    BY <1>3, <2>a DEF h
  <2>2. \A k \in DOMAIN list' : k = 1 \/ (k - 1 \in DOMAIN list /\ list'[k] = list[k - 1])
    BY <1>1, <2>1
  <2>3. i = 1 <=> j = 1
    BY <1>2, <2>1, <2>2
  <2>4. i # 1 => i - 1 = j - 1
    BY <2>2, <2>3 DEF NoTwice
  <2> QED BY <1>1, <2>1, <2>3, <2>4
<1>4. CASE list' = queue_push_tail(list, m)
  <2> DEFINE r == queue_push_tail(list, m)
  <2>a. DOMAIN r = 1..(Len(list) + 1) /\ r[Len(list) + 1] = m
        /\ \A k \in 1..Len(list) : r[k] = list[k]
    BY <1>1 DEF queue_push_tail
  <2> HIDE DEF r
  <2>1. DOMAIN list' = 1..(Len(list) + 1) /\ list'[Len(list) + 1] = m
        /\ \A k \in 1..Len(list) : list'[k] = list[k]
    BY <1>4, <2>a DEF r
  <2>2. \A k \in DOMAIN list' : k = Len(list) + 1 \/ (k \in DOMAIN list /\ list'[k] = list[k])
    BY <1>1, <2>1
  <2> QED BY <1>2, <2>1, <2>2 DEF NoTwice
<1> QED BY <1>3, <1>4

\* A message that has not been delivered is delivered once.
LEMMA DeliverOnce ==
  ASSUME TypeOK, NoTwice, NEW m \in Message, m \notin Delivered,
         delivered' = Append(delivered, m)
  PROVE  \A i, j \in DOMAIN delivered' : delivered'[i] = delivered'[j] => i = j
<1>1. /\ delivered \in Seq(Message) /\ Len(delivered) \in Nat
      /\ DOMAIN delivered = 1..Len(delivered)
  BY DEF TypeOK
<1>2. \A i \in DOMAIN delivered : delivered[i] # m
  BY DEF Delivered
<1>3. DOMAIN delivered' = 1..(Len(delivered) + 1) /\ delivered'[Len(delivered) + 1] = m
      /\ \A k \in 1..Len(delivered) : delivered'[k] = delivered[k]
  BY <1>1
<1>4. \A k \in DOMAIN delivered' :
         k = Len(delivered) + 1 \/ (k \in DOMAIN delivered /\ delivered'[k] = delivered[k])
  BY <1>1, <1>3
<1> QED BY <1>2, <1>3, <1>4 DEF NoTwice

\* No step changes a place that it does not write to.
LEMMA PlaceFrame ==
  /\ list' = list => Queued' = Queued
  /\ delivered' = delivered => Delivered' = Delivered
  /\ UNCHANGED runVars => RunHolds' = RunHolds
  /\ UNCHANGED readVars => ReadHolds' = ReadHolds
BY DEF Queued, Delivered, RunHolds, ReadHolds, runVars, readVars

\* The messages stay in one place each while they are handed over, and the only
\* message that appears is the next one.
Arrives(m) == /\ m \notin Known /\ m.n = arrived + 1
              /\ Known' = Known \cup {m} /\ arrived' = arrived + 1

LEMMA PlacesStep ==
  ASSUME IInv, Places, Numbered, [Next]_vars
  PROVE  /\ Places'
         /\ \/ Known' = Known /\ arrived' = arrived
            \/ \E m \in Message : Arrives(m)
<1> DEFINE Goal == /\ Places'
                   /\ \/ Known' = Known /\ arrived' = arrived
                      \/ \E m \in Message : Arrives(m)
<1> USE PlaceFrame
<1>t. TypeOK /\ Newest /\ Popped /\ arrived \in Nat
  BY WiBusRecvAssumption DEF IInv, TypeOK
<1>1. ASSUME NEW high \in BOOLEAN, wi_bus_recv_cb(high) PROVE Goal
  <2> DEFINE m == [n |-> arrived', high |-> high]
  <2>1. m \in Message /\ m.n = arrived + 1 /\ arrived' = arrived + 1
    BY <1>1, <1>t, WiBusRecvAssumption DEF wi_bus_recv_cb, Message, TypeOK
  <2>2. RunHolds = {} /\ Queued' = Queued /\ Delivered' = Delivered /\ ReadHolds' = ReadHolds
        /\ read' = read /\ buf_data' = buf_data
        /\ list' = list /\ delivered' = delivered
    BY <1>1 DEF wi_bus_recv_cb, RunHolds, readVars
  <2>3. \/ lost' = lost /\ RunHolds' = {m} /\ heap' = heap \cup {m}
        \/ lost' = lost \cup {m} /\ RunHolds' = {} /\ heap' = heap
    BY <1>1, <2>2 DEF wi_bus_recv_cb, RunHolds, runVars
  <2> HIDE DEF m
  <2>4. m \notin Known
    <3>1. arrived + 1 \notin 1..arrived
      BY <1>t
    <3> QED BY <2>1, <3>1 DEF Numbered
  <2>5. Apart' /\ Known' = Known \cup {m} /\ NoUseAfterFree'
    BY <2>2, <2>3, <2>4 DEF Places, Apart, Known, NoUseAfterFree
  <2>6. NoTwice'
    BY <2>2 DEF Places, NoTwice
  <2> QED BY <2>1, <2>4, <2>5, <2>6 DEF Places, Arrives
<1>2. CASE RunPush
  <2>1. data \in Message /\ run = "push"
    BY <1>2, <1>t DEF RunPush, Newest
  <2>2. /\ RunHolds = {data} /\ RunHolds' = {} /\ Delivered' = Delivered
        /\ ReadHolds' = ReadHolds /\ read' = read /\ buf_data' = buf_data
        /\ heap' = heap /\ arrived' = arrived /\ delivered' = delivered
    BY <1>2, <2>1 DEF RunPush, RunHolds, readVars
  <2>3. data \notin Queued
    BY <2>2 DEF Places, Apart
  <2>4. CASE lost' = lost /\ list' \in {queue_push_head(list, data), queue_push_tail(list, data)}
    <3>1. Queued' = Queued \cup {data}
      BY <1>t, <2>1, <2>4, Elements
    <3>2. \A i, j \in DOMAIN list' : list'[i] = list'[j] => i = j
      BY <1>t, <2>1, <2>3, <2>4, PushOnce DEF Places
    <3>3. Apart' /\ Known' = Known /\ NoUseAfterFree'
      BY <2>2, <2>4, <3>1 DEF Places, Apart, Known, NoUseAfterFree
    <3>4. NoTwice'
      BY <2>2, <3>2 DEF Places, NoTwice
    <3> QED BY <2>2, <3>3, <3>4 DEF Places
  <2>5. CASE lost' = lost \cup {data} /\ list' = list
    <3>1. Apart' /\ Known' = Known /\ NoUseAfterFree'
      BY <2>2, <2>5 DEF Places, Apart, Known, NoUseAfterFree
    <3>2. NoTwice'
      BY <2>2, <2>5 DEF Places, NoTwice
    <3> QED BY <2>2, <3>1, <3>2 DEF Places
  <2> QED BY <1>2, <2>4, <2>5 DEF RunPush
<1>3. CASE queue_pop_head
  <2>1. /\ RunHolds' = RunHolds /\ Delivered' = Delivered /\ lost' = lost
        /\ heap' = heap /\ arrived' = arrived /\ delivered' = delivered
        /\ ReadHolds = {} /\ read = "pop"
    BY <1>3 DEF queue_pop_head, runVars, histVars, RunHolds, ReadHolds
  <2>2. CASE list = <<>>
    <3>1. Queued' = Queued /\ list' = list /\ ReadHolds' = {} /\ read' = "wait"
      BY <1>3, <2>2 DEF queue_pop_head, ReadHolds
    <3>2. Apart' /\ Known' = Known /\ NoUseAfterFree' /\ NoTwice'
      BY <2>1, <3>1 DEF Places, Apart, Known, NoUseAfterFree, NoTwice
    <3> QED BY <2>1, <3>2 DEF Places
  <2>3. CASE list # <<>>
    <3>1. /\ list' = Tail(list) /\ buf_data' = Head(list) /\ read' = "callback"
          /\ ReadHolds' = {Head(list)}
      BY <1>3, <2>3 DEF queue_pop_head, ReadHolds
    <3>2. /\ Queued' = Queued \ {Head(list)} /\ Head(list) \in Queued
          /\ \A i, j \in DOMAIN list' : list'[i] = list'[j] => i = j
      BY <1>t, <2>3, <3>1, PopOnce DEF Places
    <3>3. Apart' /\ Known' = Known /\ NoUseAfterFree'
      BY <2>1, <3>1, <3>2 DEF Places, Apart, Known, NoUseAfterFree
    <3>4. NoTwice'
      BY <2>1, <3>2 DEF Places, NoTwice
    <3> QED BY <2>1, <3>3, <3>4 DEF Places
  <2> QED BY <2>2, <2>3
<1>4. CASE recv_cb
  <2>1. buf_data \in Message /\ buf_data \notin Delivered
    BY <1>4, <1>t DEF recv_cb, Popped, Places, Apart
  <2>2. /\ RunHolds' = RunHolds /\ Queued' = Queued /\ lost' = lost /\ list' = list
        /\ heap' = heap /\ arrived' = arrived /\ buf_data' = buf_data
        /\ ReadHolds = {buf_data} /\ ReadHolds' = {buf_data} /\ read' = "freelock"
    BY <1>4 DEF recv_cb, runVars, RunHolds, ReadHolds
  <2>3. delivered' = Append(delivered, buf_data)
    BY <1>4 DEF recv_cb
  <2>4. Delivered' = Delivered \cup {buf_data}
    BY <1>t, <2>1, <2>3, Elements
  <2>5. \A i, j \in DOMAIN delivered' : delivered'[i] = delivered'[j] => i = j
    BY <1>t, <2>1, <2>3, DeliverOnce DEF Places
  <2>6. Apart' /\ Known' = Known /\ NoUseAfterFree'
    BY <2>2, <2>4 DEF Places, Apart, Known, NoUseAfterFree
  <2>7. NoTwice'
    BY <2>2, <2>5 DEF Places, NoTwice
  <2> QED BY <2>2, <2>6, <2>7 DEF Places
<1>5. CASE ReadFree
  <2>1. /\ RunHolds' = RunHolds /\ Queued' = Queued /\ lost' = lost /\ list' = list
        /\ Delivered' = Delivered /\ delivered' = delivered /\ arrived' = arrived
        /\ ReadHolds = {buf_data} /\ ReadHolds' = {} /\ read = "free" /\ read' = "lock"
        /\ heap' = heap \ {buf_data}
    BY <1>5 DEF ReadFree, runVars, histVars, RunHolds, ReadHolds
  <2>2. Apart' /\ Known' = Known /\ NoUseAfterFree' /\ NoTwice'
    BY <2>1 DEF Places, Apart, Known, NoUseAfterFree, NoTwice
  <2> QED BY <2>1, <2>2 DEF Places
<1>6. CASE /\ UNCHANGED <<list, heap, histVars>>
           /\ RunHolds' = RunHolds /\ ReadHolds' = ReadHolds /\ buf_data' = buf_data
           /\ read' = "callback" => read = "callback"
           /\ read' \in {"freelock", "free"} => read \in {"freelock", "free"}
  <2>1. Queued' = Queued /\ Delivered' = Delivered
    BY <1>6 DEF histVars
  <2>2. Apart' /\ Known' = Known /\ NoUseAfterFree' /\ NoTwice' /\ arrived' = arrived
    BY <1>6, <2>1 DEF histVars, Places, Apart, Known, NoUseAfterFree, NoTwice
  <2> QED BY <2>2 DEF Places
<1>7. CASE RunLock \/ RunPost \/ ReadWait \/ ReadInterrupted \/ ReadLock \/ ReadFreeLock
           \/ UNCHANGED vars
  BY <1>6, <1>7
  DEF RunLock, RunPost, ReadWait, ReadInterrupted, ReadLock, ReadFreeLock, vars,
      runVars, readVars, histVars, RunHolds, ReadHolds
<1> QED
  BY <1>1, <1>2, <1>3, <1>4, <1>5, <1>7 DEF Next, RunStep, ReadStep

LEMMA NumberedStep ==
  ASSUME IInv, Places, Numbered, [Next]_vars PROVE Numbered'
<1>1. arrived \in Nat
  BY WiBusRecvAssumption DEF IInv, TypeOK
<1>2. CASE Known' = Known /\ arrived' = arrived
  BY <1>2 DEF Numbered
<1>3. ASSUME NEW m \in Message, Arrives(m) PROVE Numbered'
  <2>1. \A x \in Known : x.n \in 1..arrived
    BY DEF Numbered
  <2>2. m.n \notin 1..arrived /\ 1..(arrived + 1) = 1..arrived \cup {m.n}
    BY <1>1, <1>3 DEF Arrives
  <2>3. \A x, y \in Known' : x.n = y.n => x = y
    BY <1>3, <2>1, <2>2 DEF Arrives, Numbered
  <2>4. {x.n : x \in Known'} = {x.n : x \in Known} \cup {m.n}
    BY <1>3 DEF Arrives
  <2>5. {x.n : x \in Known'} = 1..arrived'
    BY <1>3, <2>2, <2>4 DEF Arrives, Numbered
  <2> QED BY <2>3, <2>5 DEF Numbered
<1> QED BY <1>2, <1>3, PlacesStep

\* Low messages leave the list in their order: the one that is popped is the
\* oldest of them, and later ones are newer still.
LEMMA LowStep ==
  ASSUME IInv, LowAhead, LowInOrder, [Next]_vars
  PROVE  LowAhead' /\ LowInOrder'
<1> DEFINE Goal == LowAhead' /\ LowInOrder'
<1>a. /\ TypeOK /\ Newest /\ Popped /\ PriorityOrder /\ arrived \in Nat
      /\ \A m \in Message : m.n \in Nat /\ m.high \in BOOLEAN
  BY WiBusRecvAssumption DEF IInv, TypeOK, Message
<1>b. /\ list \in Seq(Message) /\ delivered \in Seq(Message)
      /\ Len(list) \in Nat /\ DOMAIN list = 1..Len(list)
      /\ Len(delivered) \in Nat /\ DOMAIN delivered = 1..Len(delivered)
  BY <1>a DEF TypeOK
<1>c. /\ \A i \in DOMAIN list : list[i] \in Message
      /\ \A i \in DOMAIN delivered : delivered[i] \in Message
      /\ read = "callback" => buf_data \in Message
  BY <1>a, <1>b DEF Popped
\* It is enough to look at what becomes of Before.
<1>d. ASSUME delivered' = delivered, buf_data' = buf_data,
             read' = "callback" => read = "callback",
             \A m \in Message : Before(m) => Before(m)'
      PROVE  Goal
  <2>1. \A i \in DOMAIN delivered : Before(delivered[i])'
    BY <1>c, <1>d DEF LowAhead
  <2>2. read' = "callback" => Before(buf_data)'
    BY <1>c, <1>d DEF LowAhead
  <2>3. LowInOrder'
    BY <1>d DEF LowInOrder
  <2> QED BY <1>d, <2>1, <2>2, <2>3 DEF LowAhead
<1>1. ASSUME NEW high \in BOOLEAN, wi_bus_recv_cb(high) PROVE Goal
  <2>1. /\ delivered' = delivered /\ buf_data' = buf_data /\ read' = read
        /\ list' = list /\ arrived' = arrived + 1
    BY <1>1 DEF wi_bus_recv_cb, readVars
  <2>2. \A m \in Message : Before(m) => Before(m)'
    BY <1>a, <2>1 DEF Before
  <2> QED BY <1>d, <2>1, <2>2
<1>2. CASE RunPush
  <2>1. /\ delivered' = delivered /\ buf_data' = buf_data /\ read' = read
        /\ arrived' = arrived /\ run = "push" /\ run' = "post"
    BY <1>2 DEF RunPush, readVars
  <2>2. data \in Message /\ data.n = arrived
    BY <2>1, <1>a DEF Newest
  <2>3. \A j \in DOMAIN list' : list'[j] = data \/ \E i \in DOMAIN list : list'[j] = list[i]
    <3> DEFINE h == queue_push_head(list, data)
               r == queue_push_tail(list, data)
    <3>1. \A j \in DOMAIN h : h[j] = data \/ \E i \in DOMAIN list : h[j] = list[i]
      <4>1. h[1] = data /\ DOMAIN h = 1..(Len(list) + 1)
            /\ \A j \in 2..(Len(list) + 1) : h[j] = list[j - 1]
        BY <1>b, <2>2 DEF queue_push_head
      <4>2. \A j \in DOMAIN h : j = 1 \/ (j - 1 \in DOMAIN list /\ h[j] = list[j - 1])
        BY <1>b, <4>1
      <4> HIDE DEF h
      <4> QED BY <4>1, <4>2
    <3>2. \A j \in DOMAIN r : r[j] = data \/ \E i \in DOMAIN list : r[j] = list[i]
      <4>1. r[Len(list) + 1] = data /\ DOMAIN r = 1..(Len(list) + 1)
            /\ \A j \in 1..Len(list) : r[j] = list[j]
        BY <1>b, <2>2 DEF queue_push_tail
      <4>2. \A j \in DOMAIN r : j = Len(list) + 1 \/ (j \in DOMAIN list /\ r[j] = list[j])
        BY <1>b, <4>1
      <4> HIDE DEF r
      <4> QED BY <4>1, <4>2
    <3>3. list' \in {h, r, list}
      BY <1>2 DEF RunPush
    <3> HIDE DEF h, r
    <3> QED BY <3>1, <3>2, <3>3
  <2>4. \A m \in Message : Before(m) => Before(m)'
    <3> SUFFICES ASSUME NEW m \in Message, Before(m), ~m.high
                 PROVE  /\ m.n <= arrived
                        /\ \A j \in DOMAIN list' : ~list'[j].high => m.n < list'[j].n
      BY <2>1 DEF Before
    <3>1. m.n < arrived /\ \A j \in DOMAIN list : ~list[j].high => m.n < list[j].n
      BY <2>1 DEF Before
    <3>2. \A j \in DOMAIN list' : ~list'[j].high => m.n < list'[j].n
      BY <2>2, <2>3, <3>1
    <3> QED BY <1>a, <3>1, <3>2
  <2> QED BY <1>d, <2>1, <2>4
<1>3. CASE queue_pop_head
  <2>1. delivered' = delivered /\ run' = run /\ arrived' = arrived /\ read = "pop"
    BY <1>3 DEF queue_pop_head, runVars, histVars
  <2>2. CASE list = <<>>
    <3>1. list' = list /\ read' = "wait"
      BY <1>3, <2>2 DEF queue_pop_head
    <3> QED BY <2>1, <3>1 DEF LowAhead, LowInOrder, Before
  <2>3. CASE list # <<>>
    <3>1. /\ buf_data' = list[1] /\ 1 \in DOMAIN list /\ read' = "callback"
          /\ \A j \in DOMAIN list' : j + 1 \in DOMAIN list /\ 1 < j + 1 /\ list'[j] = list[j + 1]
      BY <1>3, <1>b, <2>3 DEF queue_pop_head
    <3>2. \A m \in Message : Before(m) => Before(m)'
      BY <2>1, <3>1 DEF Before
    <3>3. Before(buf_data)'
      <4> SUFFICES ASSUME ~list[1].high
                   PROVE  /\ list[1].n <= arrived
                          /\ run \in {"lock", "push"} => list[1].n < arrived
                          /\ \A j \in DOMAIN list' : ~list'[j].high => list[1].n < list'[j].n
        BY <2>1, <3>1 DEF Before
      <4>1. list[1].n <= arrived /\ (run \in {"lock", "push"} => list[1].n < arrived)
        BY <1>a, <3>1 DEF Newest
      <4>2. \A j \in DOMAIN list' : list[1].n < list'[j].n
        BY <1>a, <3>1 DEF PriorityOrder
      <4> QED BY <4>1, <4>2
    <3>4. \A i \in DOMAIN delivered :
            ~delivered[i].high /\ ~list[1].high => delivered[i].n < list[1].n
      BY <3>1 DEF LowAhead, Before
    <3>5. \A i \in DOMAIN delivered : Before(delivered[i])'
      <4>1. \A i \in DOMAIN delivered : Before(delivered[i])
        BY DEF LowAhead
      <4> QED BY <1>c, <2>1, <3>2, <4>1 DEF Before
    <3> QED BY <2>1, <3>1, <3>3, <3>4, <3>5 DEF LowAhead, LowInOrder
  <2> QED BY <2>2, <2>3
<1>4. CASE recv_cb
  <2>1. /\ list' = list /\ run' = run /\ arrived' = arrived /\ read' = "freelock"
        /\ read = "callback" /\ delivered' = Append(delivered, buf_data)
    BY <1>4 DEF recv_cb, runVars
  <2>2. /\ DOMAIN delivered' = 1..(Len(delivered) + 1)
        /\ delivered'[Len(delivered) + 1] = buf_data
        /\ \A i \in DOMAIN delivered : delivered'[i] = delivered[i]
    BY <1>b, <1>c, <2>1
  <2>3. \A i \in DOMAIN delivered' : i = Len(delivered) + 1
                                    \/ (i \in DOMAIN delivered /\ delivered'[i] = delivered[i])
    BY <1>b, <2>2
  <2>4. \A i \in DOMAIN delivered : i < Len(delivered) + 1
    BY <1>b
  <2>5. \A m : Before(m) => Before(m)'
    BY <2>1 DEF Before
  <2>6. \A i \in DOMAIN delivered' : Before(delivered'[i])
    BY <2>1, <2>2, <2>3 DEF LowAhead
  <2>7. LowAhead'
    BY <2>1, <2>5, <2>6 DEF LowAhead, Before
  <2>8. LowInOrder'
    <3> SUFFICES ASSUME NEW i \in DOMAIN delivered', NEW j \in DOMAIN delivered', i < j,
                        ~delivered'[i].high, ~delivered'[j].high
                 PROVE  delivered'[i].n < delivered'[j].n
      BY DEF LowInOrder
    <3>1. i \in DOMAIN delivered /\ delivered'[i] = delivered[i]
      BY <1>b, <2>2, <2>3
    <3>2. CASE j = Len(delivered) + 1
      BY <2>1, <2>2, <3>1, <3>2 DEF LowAhead
    <3>3. CASE j \in DOMAIN delivered
      BY <2>2, <3>1, <3>3 DEF LowInOrder
    <3> QED BY <2>3, <3>2, <3>3
  <2> QED BY <2>7, <2>8
<1>5. CASE /\ UNCHANGED <<list, arrived, delivered, buf_data>>
           /\ run' = run \/ run' = "idle" \/ (run = "lock" /\ run' = "push")
           /\ read' = "callback" => read = "callback"
  <2>1. \A m \in Message : Before(m) => Before(m)'
    BY <1>5 DEF Before
  <2> QED BY <1>5, <1>d, <2>1
<1>6. CASE RunLock \/ RunPost \/ ReadWait \/ ReadInterrupted \/ ReadLock \/ ReadFreeLock
           \/ ReadFree \/ UNCHANGED vars
  BY <1>5, <1>6
  DEF RunLock, RunPost, ReadWait, ReadInterrupted, ReadLock, ReadFreeLock, ReadFree,
      vars, runVars, readVars, histVars
<1> QED
  BY <1>1, <1>2, <1>3, <1>4, <1>6 DEF Next, RunStep, ReadStep

LEMMA PlacesAlways == Spec => []JInv
<1>1. Init => JInv
  <2>1. ASSUME Init PROVE Known = {} /\ arrived = 0
    BY <2>1 DEF Init, Known, Queued, Delivered, RunHolds, ReadHolds
  <2>2. ASSUME Init PROVE JInv
    BY <2>1, <2>2 DEF Init, JInv, Places, Apart, NoTwice, NoUseAfterFree, Numbered, LowAhead,
           LowInOrder, Queued, Delivered, RunHolds, ReadHolds
  <2> QED BY <2>2
<1>2. IInv /\ JInv /\ [Next]_vars => JInv'
  BY PlacesStep, NumberedStep, LowStep DEF JInv
<1> QED BY <1>1, <1>2, Inductive, PTL DEF Spec

\* Messages of low priority reach the user in the order in which the bus
\* delivered them, whatever was pushed at the head in between.
THEOREM LowOrderSafe == Spec => []LowInOrder
<1>1. JInv => LowInOrder
  BY DEF JInv
<1> QED BY <1>1, PlacesAlways, PTL

\* No message is delivered twice or lost on its way through recv_list, except
\* for lack of memory.
THEOREM DeliveredOnce == Spec => []EachOnce
<1>1. JInv => EachOnce
  <2> SUFFICES ASSUME JInv PROVE EachOnce
    OBVIOUS
  <2>1. \A i \in DOMAIN delivered : delivered[i] \in Known
    BY DEF Known, Delivered
  <2>2. \A i, j \in DOMAIN delivered : i # j => delivered[i].n # delivered[j].n
    BY <2>1 DEF JInv, Places, NoTwice, Numbered
  <2>3. {m.n : m \in Queued \cup Delivered \cup RunHolds \cup ReadHolds \cup lost}
          = 1..arrived
    <3>1. Known = Queued \cup Delivered \cup RunHolds \cup ReadHolds \cup lost
      BY DEF Known
    <3> QED BY <3>1 DEF JInv, Numbered
  <2>4. Apart
    BY DEF JInv, Places
  <2> QED BY <2>2, <2>3, <2>4 DEF EachOnce, Apart
<1> QED BY <1>1, PlacesAlways, PTL

\* A message's memory is there as long as one of the two threads or the list
\* has it, and freed once it was delivered.
THEOREM MemorySafe == Spec => []NoUseAfterFree
<1>1. JInv => NoUseAfterFree
  BY DEF JInv, Places
<1> QED BY <1>1, PlacesAlways, PTL
============================================================================
