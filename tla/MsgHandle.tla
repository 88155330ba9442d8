----------------------------- MODULE MsgHandle -----------------------------
(***************************************************************************)
(* The message handler of msg_handle/msg_handle.c: threads queue messages  *)
(* with msg_send (mutex, push, unlock, and only then sem_post); a worker   *)
(* takes one token and one message at a time and runs the callback; the    *)
(* owner destroys the handler by queueing the message DESTORY, on which    *)
(* the worker frees everything, and joins the worker.  The owner calls     *)
(* msg_handle_destory when every msg_send of the other threads has         *)
(* returned; the memory is gone as soon as the worker meets DESTORY.       *)
(***************************************************************************)
EXTENDS Naturals, Sequences

CONSTANTS Senders,   \* threads that call msg_send
          Owner,     \* the one of them that destroys the handler
          MaxSends,  \* bound: messages of each thread
          Faults,    \* subset of {"nomem", "eintr"}
          Nobody     \* no thread

\* nomem: calloc fails in msg_queue_entry_new.  eintr: a signal handler
\* interrupts sem_wait of the worker.
ASSUME MsgHandleAssumption ==
  /\ Owner \in Senders
  /\ MaxSends \in Nat
  /\ Faults \subseteq {"nomem", "eintr"}
  /\ Nobody \notin Senders /\ Nobody # "worker" /\ "worker" \notin Senders

VARIABLES queue,    \* the queued entries
          sem,      \* value of the semaphore
          mutex,    \* who holds the mutex
          freed,    \* msg_handle_unlock_free has run
          pc,       \* where each thread is in msg_send
          cur,      \* the message each thread is sending
          sent,     \* number of messages of each thread
          wpc,      \* where the worker is in msg_pthread_func
          cmd,      \* what the worker popped
          pushed,   \* history: everything pushed, in order
          handled,  \* history: everything popped, in order
          dropped   \* history: some message was not queued for lack of memory

sendVars == <<pc, cur, sent>>
histVars == <<pushed, handled, dropped>>
vars == <<queue, sem, mutex, freed, sendVars, wpc, cmd, histVars>>

Destory == [from |-> Nobody, n |-> 0]    \* MSG_HANDLE_DESTORY
NoCmd == [from |-> Nobody, n |-> 1]      \* QUEUE_CMD_ERROR, or none yet
Command == [from : Senders, n : 1..MaxSends]
Item == Command \cup {Destory}

Init ==
  /\ queue = <<>> /\ sem = 0 /\ mutex = Nobody /\ freed = FALSE
  /\ pc = [s \in Senders |-> "idle"]
  /\ cur = [s \in Senders |-> NoCmd]
  /\ sent = [s \in Senders |-> 0]
  /\ wpc = "wait" /\ cmd = NoCmd
  /\ pushed = <<>> /\ handled = <<>> /\ dropped = FALSE

-----------------------------------------------------------------------------
Goto(s, l) == pc' = [pc EXCEPT ![s] = l]

\* The owner has not begun to destroy the handler.
InUse == pc[Owner] \notin {"join", "done"} /\ cur[Owner] # Destory

msg_send(s) ==
  /\ InUse
  /\ pc[s] = "idle" /\ sent[s] < MaxSends
  /\ sent' = [sent EXCEPT ![s] = @ + 1]
  /\ cur' = [cur EXCEPT ![s] = [from |-> s, n |-> sent'[s]]]
  /\ Goto(s, "lock")
  /\ UNCHANGED <<queue, sem, mutex, freed, wpc, cmd, histVars>>

\* msg_handle_destory sends DESTORY by the same msg_send.
msg_handle_destory ==
  /\ InUse
  /\ \A s \in Senders : pc[s] = "idle"
  /\ cur' = [cur EXCEPT ![Owner] = Destory]
  /\ Goto(Owner, "lock")
  /\ UNCHANGED <<queue, sem, mutex, freed, sent, wpc, cmd, histVars>>

SendLock(s) ==
  /\ pc[s] = "lock"
  /\ mutex = Nobody
  /\ mutex' = s
  /\ Goto(s, "push")
  /\ UNCHANGED <<queue, sem, freed, cur, sent, wpc, cmd, histVars>>

\* Mutant: the new entry goes to the head.
queue_push_tail_Head(s) ==
  /\ pc[s] = "push"
  /\ queue' = <<cur[s]>> \o queue /\ pushed' = Append(pushed, cur[s])
  /\ Goto(s, "unlock")
  /\ UNCHANGED <<sem, mutex, freed, cur, sent, wpc, cmd, handled, dropped>>

\* msg_send does not look at the result of queue_push_tail.
queue_push_tail(s) ==
  /\ pc[s] = "push"
  /\ \/ /\ queue' = Append(queue, cur[s])
        /\ pushed' = Append(pushed, cur[s])
        /\ UNCHANGED dropped
     \/ /\ "nomem" \in Faults
        /\ dropped' = TRUE
        /\ UNCHANGED <<queue, pushed>>
  /\ Goto(s, "unlock")
  /\ UNCHANGED <<sem, mutex, freed, cur, sent, wpc, cmd, handled>>

SendUnlock(s) ==
  /\ pc[s] = "unlock"
  /\ mutex' = Nobody
  /\ Goto(s, "post")
  /\ UNCHANGED <<queue, sem, freed, cur, sent, wpc, cmd, histVars>>

\* Mutant: the semaphore is used as a flag instead of a counter.
SendPost_Flag(s) ==
  /\ pc[s] = "post"
  /\ sem' = 1
  /\ Goto(s, IF cur[s] = Destory THEN "join" ELSE "idle")
  /\ UNCHANGED <<queue, mutex, freed, cur, sent, wpc, cmd, histVars>>

\* sem_post; the owner goes on to pthread_join after DESTORY.
SendPost(s) ==
  /\ pc[s] = "post"
  /\ sem' = sem + 1
  /\ Goto(s, IF cur[s] = Destory THEN "join" ELSE "idle")
  /\ UNCHANGED <<queue, mutex, freed, cur, sent, wpc, cmd, histVars>>

\* Mutant: msg_handle_destory does not join the worker.
Join_Detached ==
  /\ pc[Owner] = "join"
  /\ Goto(Owner, "done")
  /\ UNCHANGED <<queue, sem, mutex, freed, cur, sent, wpc, cmd, histVars>>

Join ==
  /\ pc[Owner] = "join"
  /\ wpc = "exit"
  /\ Goto(Owner, "done")
  /\ UNCHANGED <<queue, sem, mutex, freed, cur, sent, wpc, cmd, histVars>>

-----------------------------------------------------------------------------
\* The worker.

WorkerWait ==
  /\ wpc = "wait"
  /\ sem > 0
  /\ sem' = sem - 1
  /\ wpc' = "lock"
  /\ UNCHANGED <<queue, mutex, freed, sendVars, cmd, histVars>>

\* sem_wait failed: "sem error !!!!" and while(1);
WorkerInterrupted ==
  /\ "eintr" \in Faults
  /\ wpc = "wait" /\ sem = 0
  /\ wpc' = "spin"
  /\ UNCHANGED <<queue, sem, mutex, freed, sendVars, cmd, histVars>>

WorkerLock ==
  /\ wpc = "lock"
  /\ mutex = Nobody
  /\ mutex' = "worker"
  /\ wpc' = "pop"
  /\ UNCHANGED <<queue, sem, freed, sendVars, cmd, histVars>>

queue_pop_head ==
  /\ wpc = "pop"
  /\ IF queue = <<>>
     THEN cmd' = NoCmd /\ UNCHANGED <<queue, handled>>
     ELSE /\ cmd' = Head(queue)
          /\ queue' = Tail(queue)
          /\ handled' = Append(handled, Head(queue))
  /\ wpc' = IF cmd' = Destory THEN "free" ELSE "unlock"
  /\ UNCHANGED <<sem, mutex, freed, sendVars, pushed, dropped>>

\* Queue, semaphore, mutex and handle are destroyed.
msg_handle_unlock_free ==
  /\ wpc = "free"
  /\ queue' = <<>> /\ sem' = 0 /\ mutex' = Nobody
  /\ freed' = TRUE
  /\ wpc' = "exit"
  /\ UNCHANGED <<sendVars, cmd, histVars>>

\* Mutant: the worker empties the queue on one token.
WorkerUnlock_Drain ==
  /\ wpc = "unlock"
  /\ mutex' = Nobody
  /\ wpc' = IF cmd = NoCmd THEN "wait" ELSE "lock"
  /\ UNCHANGED <<queue, sem, freed, sendVars, cmd, histVars>>

WorkerUnlock ==
  /\ wpc = "unlock"
  /\ mutex' = Nobody
  /\ wpc' = IF cmd = NoCmd THEN "wait" ELSE "callback"
  /\ UNCHANGED <<queue, sem, freed, sendVars, cmd, histVars>>

Callback ==
  /\ wpc = "callback"
  /\ wpc' = "wait"
  /\ UNCHANGED <<queue, sem, mutex, freed, sendVars, cmd, histVars>>

-----------------------------------------------------------------------------
SendStep(s) ==
  SendLock(s) \/ queue_push_tail(s) \/ SendUnlock(s) \/ SendPost(s)

WorkerStep ==
  \/ WorkerWait \/ WorkerLock \/ queue_pop_head \/ msg_handle_unlock_free
  \/ WorkerUnlock \/ Callback

Next ==
  \/ \E s \in Senders : msg_send(s) \/ SendStep(s)
  \/ msg_handle_destory \/ Join
  \/ WorkerStep \/ WorkerInterrupted

Spec == Init /\ [][Next]_vars

\* Threads run when they can; a thread that waits for a mutex gets it in the
\* end (strong fairness of the two locks), as with any usable scheduler.
FairSpec ==
  /\ Spec
  /\ \A s \in Senders : WF_vars(SendStep(s)) /\ SF_vars(SendLock(s))
  /\ WF_vars(Join)
  /\ WF_vars(WorkerStep) /\ SF_vars(WorkerLock)

-----------------------------------------------------------------------------
TypeOK ==
  /\ queue \in Seq(Item)
  /\ sem \in Nat
  /\ mutex \in Senders \cup {Nobody, "worker"}
  /\ freed \in BOOLEAN
  /\ pc \in [Senders -> {"idle", "lock", "push", "unlock", "post", "join", "done"}]
  /\ cur \in [Senders -> Item \cup {NoCmd}]
  /\ sent \in [Senders -> 0..MaxSends]
  /\ wpc \in {"wait", "spin", "lock", "pop", "unlock", "callback", "free", "exit"}
  /\ cmd \in Item \cup {NoCmd}
  /\ pushed \in Seq(Item)
  /\ handled \in Seq(Item)
  /\ dropped \in BOOLEAN

\* Inside a critical section of the code is exactly the holder of the mutex.
MutexHeld ==
  /\ \A s \in Senders : pc[s] \in {"push", "unlock"} <=> mutex = s
  /\ wpc \in {"pop", "unlock", "free"} <=> mutex = "worker"

\* The worker is handed the messages in the order in which they were queued,
\* each once: what it took and what is still queued make up what was pushed.
InOrder == ~freed => pushed = handled \o queue

\* As long as every message could be queued, no thread is inside msg_send
\* when the worker frees the handle, although sem_post follows the unlock
\* that makes DESTORY visible: the memory is not used after it was freed.
\* (A message dropped for lack of memory is posted all the same; with its
\* token the worker may meet DESTORY before the owner's own sem_post.)
NoUseAfterFree ==
  freed /\ ~dropped => \A s \in Senders : pc[s] \in {"idle", "join", "done"}

\* Everything queued before msg_handle_destory was called has been given to
\* the callback when it returns.
Flushed == pc[Owner] = "done" => handled = pushed /\ queue = <<>>

\* msg_handle_destory returns, unless a message was dropped for lack of memory
\* (it may have been DESTORY) or a signal has sent the worker into its endless
\* loop.
DestroyReturns ==
  cur[Owner] = Destory ~> pc[Owner] = "done" \/ dropped \/ wpc = "spin"
============================================================================
