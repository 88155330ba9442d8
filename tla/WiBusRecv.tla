----------------------------- MODULE WiBusRecv -----------------------------
(***************************************************************************)
(* How a registered wi_bus client hands received messages to its user      *)
(* (wi_bus.c).  The run thread answers the bus and queues each message in  *)
(* recv_list, at the head when its flag says WI_FLAG_PRIORITY_HIGH, at the *)
(* tail otherwise, and posts the semaphore after it has released the       *)
(* mutex.  The read thread sleeps on the semaphore and, once woken, empties*)
(* the list, calling the user's recv_cb without the mutex.                 *)
(*                                                                         *)
(* A step that works under the mutex releases it in the same step.         *)
(***************************************************************************)
EXTENDS Naturals, Sequences

CONSTANTS MaxMsgs,  \* bound: messages the client receives
          Faults    \* subset of {"nomem", "eintr"}

\* nomem: malloc fails in wi_bus_recv_cb or calloc in the queue.
\* eintr: a signal handler interrupts sem_wait.
ASSUME WiBusRecvAssumption ==
  /\ MaxMsgs \in Nat
  /\ Faults \subseteq {"nomem", "eintr"}

VARIABLES list,      \* recv_list
          sem,       \* value of the semaphore
          mutex,     \* "run", "read" or "free"
          run,       \* where the run thread is in wi_bus_recv_cb
          data,      \* the message it is queueing
          read,      \* where the read thread is in wi_bus_client_read
          buf_data,  \* the message it popped
          heap,      \* messages whose memory is allocated
          arrived,   \* history: number of messages received
          delivered, \* history: what recv_cb was called with, in order
          lost       \* history: messages dropped for lack of memory

runVars == <<run, data>>
readVars == <<read, buf_data>>
histVars == <<arrived, delivered, lost>>
vars == <<list, sem, mutex, runVars, readVars, heap, histVars>>

\* A message: its place in the order of arrival and its priority.
Message == [n : 1..MaxMsgs, high : BOOLEAN]
NoMsg == [n |-> 0, high |-> FALSE]    \* NULL

Init ==
  /\ list = <<>> /\ sem = 0 /\ mutex = "free"
  /\ run = "idle" /\ data = NoMsg
  /\ read = "wait" /\ buf_data = NoMsg
  /\ heap = {}
  /\ arrived = 0 /\ delivered = <<>> /\ lost = {}

-----------------------------------------------------------------------------
\* The run thread: wi_bus_recv_cb, called by pc_client_recv_cb.

\* Both allocations and the copy; if one fails nothing else is done.
wi_bus_recv_cb(high) ==
  /\ run = "idle"
  /\ arrived < MaxMsgs
  /\ arrived' = arrived + 1
  /\ LET m == [n |-> arrived', high |-> high] IN
     \/ /\ data' = m /\ heap' = heap \cup {m}
        /\ run' = "lock"
        /\ UNCHANGED lost
     \/ /\ "nomem" \in Faults
        /\ lost' = lost \cup {m}
        /\ UNCHANGED <<runVars, heap>>
  /\ UNCHANGED <<list, sem, mutex, readVars, delivered>>

RunLock ==
  /\ run = "lock"
  /\ mutex = "free"
  /\ mutex' = "run"
  /\ run' = "push"
  /\ UNCHANGED <<list, sem, data, readVars, heap, histVars>>

queue_push_head(q, m) == <<m>> \o q
queue_push_tail(q, m) == Append(q, m)

\* Mutant: a message of high priority is queued like any other.
RunPush_Tail ==
  /\ run = "push"
  /\ list' = queue_push_tail(list, data)
  /\ mutex' = "free" /\ run' = "post"
  /\ UNCHANGED <<sem, data, readVars, heap, histVars>>

\* Mutant: every message is queued as if it had high priority.
RunPush_Head ==
  /\ run = "push"
  /\ list' = queue_push_head(list, data)
  /\ mutex' = "free" /\ run' = "post"
  /\ UNCHANGED <<sem, data, readVars, heap, histVars>>

\* Mutant: the branch for high priority returns before the sem_post.
RunPush_NoPost ==
  /\ run = "push"
  /\ list' = IF data.high THEN queue_push_head(list, data)
                          ELSE queue_push_tail(list, data)
  /\ mutex' = "free"
  /\ run' = IF data.high THEN "idle" ELSE "post"
  /\ UNCHANGED <<sem, data, readVars, heap, histVars>>

\* Push and unlock.  The result of the push is ignored: without memory for
\* the queue entry the message is lost, its memory is never freed, and the
\* semaphore is posted all the same.
RunPush ==
  /\ run = "push"
  /\ \/ /\ list' = IF data.high THEN queue_push_head(list, data)
                                ELSE queue_push_tail(list, data)
        /\ UNCHANGED lost
     \/ /\ "nomem" \in Faults
        /\ lost' = lost \cup {data}
        /\ UNCHANGED list
  /\ mutex' = "free" /\ run' = "post"
  /\ UNCHANGED <<sem, data, readVars, heap, arrived, delivered>>

RunPost ==
  /\ run = "post"
  /\ sem' = sem + 1
  /\ run' = "idle"
  /\ UNCHANGED <<list, mutex, data, readVars, heap, histVars>>

-----------------------------------------------------------------------------
\* The read thread: wi_bus_client_read.

ReadWait ==
  /\ read = "wait"
  /\ sem > 0
  /\ sem' = sem - 1
  /\ read' = "lock"
  /\ UNCHANGED <<list, mutex, runVars, buf_data, heap, histVars>>

\* The result of wi_sem_wait is ignored: interrupted by a signal, the thread
\* looks into the list without a token.
ReadInterrupted ==
  /\ "eintr" \in Faults
  /\ read = "wait" /\ sem = 0
  /\ read' = "lock"
  /\ UNCHANGED <<list, sem, mutex, runVars, buf_data, heap, histVars>>

ReadLock ==
  /\ read = "lock"
  /\ mutex = "free"
  /\ mutex' = "read"
  /\ read' = "pop"
  /\ UNCHANGED <<list, sem, runVars, buf_data, heap, histVars>>

\* Mutant: the head of the list is looked at but not taken off.
queue_pop_head_Peek ==
  /\ read = "pop"
  /\ IF list = <<>>
     THEN buf_data' = NoMsg /\ read' = "wait" /\ UNCHANGED list
     ELSE buf_data' = Head(list) /\ read' = "callback" /\ UNCHANGED list
  /\ mutex' = "free"
  /\ UNCHANGED <<sem, runVars, heap, histVars>>

\* Pop and unlock; on an empty list the thread goes back to the semaphore.
queue_pop_head ==
  /\ read = "pop"
  /\ IF list = <<>>
     THEN buf_data' = NoMsg /\ read' = "wait" /\ UNCHANGED list
     ELSE /\ buf_data' = Head(list) /\ list' = Tail(list)
          /\ read' = "callback"
  /\ mutex' = "free"
  /\ UNCHANGED <<sem, runVars, heap, histVars>>

\* Mutant: the message is freed before it is given to the user.
recv_cb_Freed ==
  /\ read = "callback"
  /\ delivered' = Append(delivered, buf_data)
  /\ heap' = heap \ {buf_data}
  /\ read' = "freelock"
  /\ UNCHANGED <<list, sem, mutex, runVars, buf_data, arrived, lost>>

recv_cb ==
  /\ read = "callback"
  /\ delivered' = Append(delivered, buf_data)
  /\ read' = "freelock"
  /\ UNCHANGED <<list, sem, mutex, runVars, buf_data, heap, arrived, lost>>

ReadFreeLock ==
  /\ read = "freelock"
  /\ mutex = "free"
  /\ mutex' = "read"
  /\ read' = "free"
  /\ UNCHANGED <<list, sem, runVars, buf_data, heap, histVars>>

\* Free and unlock.
ReadFree ==
  /\ read = "free"
  /\ heap' = heap \ {buf_data}
  /\ mutex' = "free" /\ read' = "lock"
  /\ UNCHANGED <<list, sem, runVars, buf_data, histVars>>

-----------------------------------------------------------------------------
RunStep == RunLock \/ RunPush \/ RunPost

ReadStep ==
  \/ ReadWait \/ ReadLock \/ queue_pop_head \/ recv_cb
  \/ ReadFreeLock \/ ReadFree

Next ==
  \/ \E high \in BOOLEAN : wi_bus_recv_cb(high)
  \/ RunStep
  \/ ReadStep \/ ReadInterrupted

Spec == Init /\ [][Next]_vars

\* Both threads run (no signal is counted on), and neither is kept from the mutex for ever.
FairSpec ==
  /\ Spec
  /\ WF_vars(RunStep) /\ SF_vars(RunLock)
  /\ WF_vars(ReadStep) /\ SF_vars(ReadLock) /\ SF_vars(ReadFreeLock)

-----------------------------------------------------------------------------
TypeOK ==
  /\ list \in Seq(Message)
  /\ sem \in Nat
  /\ mutex \in {"free", "run", "read"}
  /\ run \in {"idle", "lock", "push", "post"}
  /\ data \in Message \cup {NoMsg}
  /\ read \in {"wait", "lock", "pop", "callback", "freelock", "free"}
  /\ buf_data \in Message \cup {NoMsg}
  /\ heap \subseteq Message
  /\ arrived \in 0..MaxMsgs
  /\ delivered \in Seq(Message)
  /\ lost \subseteq Message

Queued == {list[i] : i \in DOMAIN list}
Delivered == {delivered[i] : i \in DOMAIN delivered}
RunHolds == IF run \in {"lock", "push"} THEN {data} ELSE {}
ReadHolds == IF read \in {"callback", "freelock", "free"} THEN {buf_data} ELSE {}

\* The critical sections of the two threads exclude each other: a thread
\* works on the list, or frees a message, only while it holds the mutex.
MutexHeld ==
  /\ run = "push" <=> mutex = "run"
  /\ read \in {"pop", "free"} <=> mutex = "read"

\* A message in the list is never slept on: when the read thread waits, it
\* has a token to go on with, or the run thread is about to post one.
NoLostWakeup == read = "wait" /\ list # <<>> => sem > 0 \/ run = "post"

\* The list holds the messages of high priority, the newest first, before
\* the others, the oldest first.
PriorityOrder ==
  \A i, j \in DOMAIN list : i < j =>
     /\ list[j].high => list[i].high /\ list[i].n > list[j].n
     /\ ~list[i].high => list[i].n < list[j].n

\* Messages of low priority reach the user in their order of arrival.
LowInOrder ==
  \A i, j \in DOMAIN delivered :
     i < j /\ ~delivered[i].high /\ ~delivered[j].high =>
       delivered[i].n < delivered[j].n

\* Every message received is in one place only: with the run thread, in the
\* list, with the read thread before recv_cb, delivered once, or lost.
EachOnce ==
  /\ \A i, j \in DOMAIN delivered : i # j => delivered[i].n # delivered[j].n
  /\ \A m \in Queued : m \notin Delivered \cup lost \cup RunHolds \cup ReadHolds
  /\ RunHolds \cap (Delivered \cup lost \cup ReadHolds) = {}
  /\ lost \cap (Delivered \cup ReadHolds) = {}
  /\ {m.n : m \in Queued \cup Delivered \cup RunHolds \cup ReadHolds \cup lost}
       = 1..arrived

\* No message is used after its memory was freed, and none that was
\* delivered is still allocated once the read thread has moved on.
NoUseAfterFree ==
  /\ Queued \cup RunHolds \cup ReadHolds \subseteq heap
  /\ heap \ lost = Queued \cup RunHolds \cup ReadHolds

\* Every message the bus gave to the client is in the end delivered to the
\* user, or was dropped for lack of memory.
AllDelivered ==
  \A k \in 1..MaxMsgs :
     arrived >= k ~> \E m \in Delivered \cup lost : m.n = k
============================================================================
