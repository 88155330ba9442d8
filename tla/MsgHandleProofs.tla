-------------------------- MODULE MsgHandleProofs --------------------------
(***************************************************************************)
(* Proofs about MsgHandle for any set of threads and any number of         *)
(* messages: messages are handled in order, msg_handle_destory returns only*)
(* when all of them are, and nobody uses the handler after it was freed.   *)
(*                                                                         *)
(* The argument for the last one counts.  As long as no message was        *)
(* dropped there is a queued message for every token of the semaphore, for *)
(* every thread between its push and its sem_post, and for the worker once *)
(* it has taken a token.  DESTORY is the last message; when the worker pops*)
(* it the queue is empty, so no thread, the owner included, can be before  *)
(* its sem_post.                                                           *)
(***************************************************************************)
EXTENDS MsgHandle, FiniteSetTheorems, SequenceTheorems, TLAPS

\* The threads that have queued their message and not posted yet.
Posting == {s \in Senders : pc[s] \in {"unlock", "post"}}

Token == IF wpc \in {"lock", "pop"} THEN 1 ELSE 0

\* One message for every token.
Counted == /\ IsFiniteSet(Posting)
           /\ ~dropped => Len(queue) = sem + Cardinality(Posting) + Token

\* Only the owner sends DESTORY, when the others are done.
Ending ==
  /\ cur[Owner] = Destory => /\ pc[Owner] # "idle"
                             /\ \A s \in Senders : s # Owner => pc[s] = "idle"
  /\ \A s \in Senders : /\ s # Owner => cur[s] # Destory
                        /\ pc[s] \in {"join", "done"} => s = Owner /\ cur[s] = Destory
                        /\ pc[s] # "idle" => cur[s] # NoCmd

DestoryLast ==
  \A i \in DOMAIN queue : queue[i] = Destory =>
    i = Len(queue) /\ cur[Owner] = Destory /\ pc[Owner] \notin {"lock", "push"}

\* The worker has met DESTORY.
AtEnd ==
  /\ freed => wpc = "exit"
  /\ wpc \in {"free", "exit"} =>
       /\ cur[Owner] = Destory /\ pc[Owner] \notin {"lock", "push"}
       /\ handled = pushed /\ queue = <<>>
  /\ pc[Owner] = "done" => wpc = "exit"

IInv == /\ TypeOK /\ MutexHeld /\ InOrder /\ Counted /\ Ending /\ DestoryLast /\ AtEnd

-----------------------------------------------------------------------------
LEMMA ItemFacts == /\ NoCmd \notin Item /\ NoCmd # Destory /\ Destory \in Item
                   /\ \A s \in Senders, n \in 1..MaxSends :
                        [from |-> s, n |-> n] \in Item /\ [from |-> s, n |-> n] # Destory
                   /\ \A s \in Senders, n \in 1..MaxSends : [from |-> s, n |-> n] # NoCmd
  BY MsgHandleAssumption DEF Item, Command, NoCmd, Destory

\* A message pushed or popped keeps handled and queued together what was pushed.
LEMMA PushOrder ==
  ASSUME NEW h \in Seq(Item), NEW q \in Seq(Item), NEW x \in Item
  PROVE  Append(h \o q, x) = h \o Append(q, x)
<1>1. <<x>> \in Seq(Item) /\ h \o q \in Seq(Item)
  BY ConcatProperties
<1>2. Append(h \o q, x) = (h \o q) \o <<x>>
  BY <1>1, AppendIsConcat
<1>3. Append(q, x) = q \o <<x>>
  BY AppendIsConcat
<1>4. (h \o q) \o <<x>> = h \o (q \o <<x>>)
  BY <1>1, ConcatAssociative
<1> QED BY <1>2, <1>3, <1>4, Zenon

LEMMA PopOrder ==
  ASSUME NEW h \in Seq(Item), NEW q \in Seq(Item), q # <<>>
  PROVE  Append(h, Head(q)) \o Tail(q) = h \o q
<1>1. Head(q) \in Item /\ Tail(q) \in Seq(Item) /\ <<Head(q)>> \in Seq(Item)
  BY HeadTailProperties
<1>2. q = <<Head(q)>> \o Tail(q)
  OBVIOUS
<1> QED BY <1>1, <1>2, AppendIsConcat, ConcatAssociative

LEMMA InitInv == Init => IInv
<1> SUFFICES ASSUME Init PROVE IInv
  OBVIOUS
<1> USE DEF Init
<1>0. 0 \in 0..MaxSends /\ 0 \in Nat
  BY MsgHandleAssumption
<1>1. TypeOK
  <2>1. queue \in Seq(Item) /\ pushed \in Seq(Item) /\ handled \in Seq(Item)
    OBVIOUS
  <2>2. freed \in BOOLEAN /\ dropped \in BOOLEAN /\ sem \in Nat
    BY <1>0
  <2>3. /\ pc \in [Senders -> {"idle", "lock", "push", "unlock", "post", "join", "done"}]
        /\ cur \in [Senders -> Item \cup {NoCmd}] /\ sent \in [Senders -> 0..MaxSends]
    BY <1>0
  <2> QED BY <2>1, <2>2, <2>3, Zenon DEF TypeOK
<1>2. MutexHeld
  BY MsgHandleAssumption DEF MutexHeld
<1>3. InOrder
  BY DEF InOrder
<1>4. Counted
  <2>1. Posting = {}
    BY DEF Posting
  <2>2. Len(queue) = 0 /\ Token = 0
    BY DEF Token
  <2> QED BY <2>1, <2>2, FS_EmptySet DEF Counted
<1>5. Ending /\ DestoryLast /\ AtEnd
  BY MsgHandleAssumption, ItemFacts DEF Ending, DestoryLast, AtEnd
<1> QED BY <1>1, <1>2, <1>3, <1>4, <1>5 DEF IInv

\* Steps that neither queue nor post nor take a token keep the count.
LEMMA SameCount ==
  ASSUME Counted, Posting' = Posting, Token' = Token, UNCHANGED <<queue, sem, dropped>>
  PROVE  Counted'
  BY DEF Counted

\* The types of the pieces, and of what is added to the queue.
LEMMA TypeStep ==
  ASSUME TypeOK, Ending, [Next]_vars
  PROVE  TypeOK'
<1> USE DEF sendVars, histVars
<1>0. \A s \in Senders : pc[s] = "push" => cur[s] \in Item
  BY DEF TypeOK, Ending
<1>1. ASSUME NEW s \in Senders, msg_send(s) PROVE TypeOK'
  <2>1. sent[s] + 1 \in 1..MaxSends /\ sent[s] + 1 \in 0..MaxSends
    BY <1>1, MsgHandleAssumption DEF msg_send, TypeOK
  <2>2. sent' \in [Senders -> 0..MaxSends] /\ sent'[s] = sent[s] + 1
    BY <1>1, <2>1 DEF msg_send, TypeOK
  <2>3. [from |-> s, n |-> sent'[s]] \in Item
    BY <2>1, <2>2, ItemFacts
  <2>4. cur' \in [Senders -> Item \cup {NoCmd}]
    BY <1>1, <2>3 DEF msg_send, TypeOK
  <2> QED BY <1>1, <2>2, <2>4 DEF msg_send, TypeOK, Goto
<1>2. CASE msg_handle_destory
  <2>1. cur' \in [Senders -> Item \cup {NoCmd}]
    BY <1>2, ItemFacts DEF msg_handle_destory, TypeOK
  <2> QED BY <1>2, <2>1 DEF msg_handle_destory, TypeOK, Goto
<1>3. ASSUME NEW s \in Senders, SendLock(s) PROVE TypeOK'
  BY <1>3 DEF SendLock, TypeOK, Goto
<1>4. ASSUME NEW s \in Senders, queue_push_tail(s) PROVE TypeOK'
  <2>1. cur[s] \in Item
    BY <1>0, <1>4 DEF queue_push_tail
  <2>2. queue' \in Seq(Item) /\ pushed' \in Seq(Item) /\ dropped' \in BOOLEAN
    <3>1. queue \in Seq(Item) /\ pushed \in Seq(Item) /\ dropped \in BOOLEAN
      BY DEF TypeOK
    <3>2. Append(queue, cur[s]) \in Seq(Item) /\ Append(pushed, cur[s]) \in Seq(Item)
      BY <2>1, <3>1, AppendProperties
    <3>3. CASE /\ queue' = Append(queue, cur[s]) /\ pushed' = Append(pushed, cur[s])
               /\ UNCHANGED dropped
      BY <3>1, <3>2, <3>3
    <3>4. CASE dropped' = TRUE /\ UNCHANGED <<queue, pushed>>
      BY <3>1, <3>4
    <3> QED BY <1>4, <3>3, <3>4 DEF queue_push_tail
  <2> QED BY <1>4, <2>2 DEF queue_push_tail, TypeOK, Goto
<1>5. ASSUME NEW s \in Senders, SendUnlock(s) PROVE TypeOK'
  BY <1>5 DEF SendUnlock, TypeOK, Goto
<1>6. ASSUME NEW s \in Senders, SendPost(s) PROVE TypeOK'
  BY <1>6 DEF SendPost, TypeOK, Goto
<1>7. CASE Join
  BY <1>7 DEF Join, TypeOK, Goto
<1>8. CASE WorkerWait \/ WorkerInterrupted \/ WorkerLock \/ WorkerUnlock \/ Callback
  BY <1>8 DEF WorkerWait, WorkerInterrupted, WorkerLock, WorkerUnlock, Callback, TypeOK
<1>9. CASE queue_pop_head
  <2>1. cmd' \in Item \cup {NoCmd} /\ queue' \in Seq(Item) /\ handled' \in Seq(Item)
    <3>1. CASE queue = <<>>
      BY <1>9, <3>1 DEF queue_pop_head, TypeOK
    <3>2. CASE queue # <<>>
      <4>1. Head(queue) \in Item /\ Tail(queue) \in Seq(Item)
        BY <3>2, HeadTailProperties DEF TypeOK
      <4>2. Append(handled, Head(queue)) \in Seq(Item)
        BY <4>1, AppendProperties DEF TypeOK
      <4>3. /\ cmd' = Head(queue) /\ queue' = Tail(queue)
            /\ handled' = Append(handled, Head(queue))
        BY <1>9, <3>2 DEF queue_pop_head
      <4> QED BY <4>1, <4>2, <4>3
    <3> QED BY <3>1, <3>2
  <2>2. wpc' \in {"free", "unlock"}
    BY <1>9 DEF queue_pop_head
  <2> QED BY <1>9, <2>1, <2>2 DEF queue_pop_head, TypeOK
<1>10. CASE msg_handle_unlock_free
  BY <1>10 DEF msg_handle_unlock_free, TypeOK
<1>11. CASE UNCHANGED vars
  BY <1>11 DEF vars, TypeOK
<1> QED BY <1>1, <1>2, <1>3, <1>4, <1>5, <1>6, <1>7, <1>8, <1>9, <1>10, <1>11
        DEF Next, SendStep, WorkerStep

-----------------------------------------------------------------------------
LEMMA MutexStep ==
  ASSUME TypeOK, MutexHeld, [Next]_vars
  PROVE  MutexHeld'
<1> USE DEF sendVars, histVars
<1>0. /\ pc \in [Senders -> {"idle", "lock", "push", "unlock", "post", "join", "done"}]
      /\ Owner \in Senders /\ "worker" \notin Senders /\ Nobody \notin Senders
      /\ Nobody # "worker"
  BY MsgHandleAssumption DEF TypeOK
<1>1. ASSUME NEW s \in Senders, msg_send(s) PROVE MutexHeld'
  BY <1>0, <1>1 DEF msg_send, MutexHeld, Goto
<1>2. CASE msg_handle_destory
  BY <1>0, <1>2 DEF msg_handle_destory, MutexHeld, Goto
<1>3. ASSUME NEW s \in Senders, SendLock(s) PROVE MutexHeld'
  BY <1>0, <1>3 DEF SendLock, MutexHeld, Goto
<1>4. ASSUME NEW s \in Senders, queue_push_tail(s) PROVE MutexHeld'
  BY <1>0, <1>4 DEF queue_push_tail, MutexHeld, Goto
<1>5. ASSUME NEW s \in Senders, SendUnlock(s) PROVE MutexHeld'
  BY <1>0, <1>5 DEF SendUnlock, MutexHeld, Goto
<1>6. ASSUME NEW s \in Senders, SendPost(s) PROVE MutexHeld'
  BY <1>0, <1>6 DEF SendPost, MutexHeld, Goto
<1>7. CASE Join
  BY <1>0, <1>7 DEF Join, MutexHeld, Goto
<1>8. CASE WorkerWait \/ WorkerInterrupted \/ WorkerLock \/ WorkerUnlock \/ Callback
  BY <1>0, <1>8 DEF WorkerWait, WorkerInterrupted, WorkerLock, WorkerUnlock, Callback, MutexHeld
<1>9. CASE queue_pop_head
  <2>1. wpc = "pop" /\ wpc' \in {"free", "unlock"} /\ UNCHANGED <<mutex, pc>>
    BY <1>9 DEF queue_pop_head
  <2> QED BY <1>0, <2>1 DEF MutexHeld
<1>10. CASE msg_handle_unlock_free
  BY <1>0, <1>10 DEF msg_handle_unlock_free, MutexHeld
<1>11. CASE UNCHANGED vars
  BY <1>11 DEF vars, MutexHeld
<1> QED BY <1>1, <1>2, <1>3, <1>4, <1>5, <1>6, <1>7, <1>8, <1>9, <1>10, <1>11
        DEF Next, SendStep, WorkerStep

LEMMA EndingStep ==
  ASSUME TypeOK, Ending, [Next]_vars
  PROVE  Ending'
<1> USE DEF sendVars, histVars
<1>0. /\ pc \in [Senders -> {"idle", "lock", "push", "unlock", "post", "join", "done"}]
      /\ cur \in [Senders -> Item \cup {NoCmd}]
      /\ Owner \in Senders
  BY MsgHandleAssumption DEF TypeOK
<1>1. ASSUME NEW s \in Senders, msg_send(s) PROVE Ending'
  <2>1. sent[s] + 1 \in 1..MaxSends /\ sent'[s] = sent[s] + 1
    BY <1>1, MsgHandleAssumption DEF msg_send, TypeOK
  <2>2. [from |-> s, n |-> sent'[s]] # Destory /\ [from |-> s, n |-> sent'[s]] # NoCmd
    BY <2>1, ItemFacts
  <2>3. /\ cur' = [cur EXCEPT ![s] = [from |-> s, n |-> sent'[s]]]
        /\ pc' = [pc EXCEPT ![s] = "lock"] /\ cur[Owner] # Destory
    BY <1>1 DEF msg_send, Goto, InUse
  <2> QED BY <1>0, <2>2, <2>3 DEF Ending
<1>2. CASE msg_handle_destory
  BY <1>0, <1>2, ItemFacts DEF msg_handle_destory, Ending, Goto
<1>3. ASSUME NEW s \in Senders, SendLock(s) PROVE Ending'
  BY <1>0, <1>3 DEF SendLock, Ending, Goto
<1>4. ASSUME NEW s \in Senders, queue_push_tail(s) PROVE Ending'
  BY <1>0, <1>4 DEF queue_push_tail, Ending, Goto
<1>5. ASSUME NEW s \in Senders, SendUnlock(s) PROVE Ending'
  BY <1>0, <1>5 DEF SendUnlock, Ending, Goto
<1>6. ASSUME NEW s \in Senders, SendPost(s) PROVE Ending'
  BY <1>0, <1>6 DEF SendPost, Ending, Goto
<1>7. CASE Join
  BY <1>0, <1>7 DEF Join, Ending, Goto
<1>8. CASE UNCHANGED <<pc, cur>>
  BY <1>8 DEF Ending
<1>9. WorkerStep \/ WorkerInterrupted => UNCHANGED <<pc, cur>>
  BY DEF WorkerStep, WorkerWait, WorkerInterrupted, WorkerLock, queue_pop_head,
         msg_handle_unlock_free, WorkerUnlock, Callback
<1>10. UNCHANGED vars => UNCHANGED <<pc, cur>>
  BY DEF vars
<1> QED BY <1>1, <1>2, <1>3, <1>4, <1>5, <1>6, <1>7, <1>8, <1>9, <1>10
        DEF Next, SendStep

-----------------------------------------------------------------------------
LEMMA CountedStep ==
  ASSUME TypeOK, MutexHeld, Counted, AtEnd, [Next]_vars
  PROVE  Counted'
<1> USE DEF sendVars, histVars
<1>0. /\ pc \in [Senders -> {"idle", "lock", "push", "unlock", "post", "join", "done"}]
      /\ Owner \in Senders /\ sem \in Nat /\ queue \in Seq(Item)
  BY MsgHandleAssumption DEF TypeOK
<1>1. ASSUME NEW s \in Senders, msg_send(s) \/ SendLock(s) \/ SendUnlock(s) PROVE Counted'
  <2>1. Posting' = Posting
    BY <1>0, <1>1 DEF msg_send, SendLock, SendUnlock, Goto, Posting
  <2> QED BY <1>1, <2>1, SameCount DEF msg_send, SendLock, SendUnlock, Token
<1>2. CASE msg_handle_destory \/ Join
  <2>1. Posting' = Posting
    BY <1>0, <1>2 DEF msg_handle_destory, Join, Goto, Posting
  <2> QED BY <1>2, <2>1, SameCount DEF msg_handle_destory, Join, Token
<1>3. ASSUME NEW s \in Senders, queue_push_tail(s) PROVE Counted'
  <2>1. Posting' = Posting \cup {s} /\ s \notin Posting
    BY <1>0, <1>3 DEF queue_push_tail, Goto, Posting
  <2>2. IsFiniteSet(Posting') /\ Cardinality(Posting') = Cardinality(Posting) + 1
    BY <2>1, FS_AddElement DEF Counted
  <2>3. UNCHANGED <<sem, Token>>
    BY <1>3 DEF queue_push_tail, Token
  <2>4. ~dropped' => ~dropped /\ queue' = Append(queue, cur[s])
    BY <1>3 DEF queue_push_tail
  <2>5. Cardinality(Posting) \in Nat /\ Token \in Nat
    BY FS_CardinalityType DEF Counted, Token
  <2>6. Len(Append(queue, cur[s])) = Len(queue) + 1 /\ Len(queue) \in Nat
    BY <1>0
  <2> QED BY <1>0, <2>2, <2>3, <2>4, <2>5, <2>6 DEF Counted
<1>4. ASSUME NEW s \in Senders, SendPost(s) PROVE Counted'
  <2>1. Posting' = Posting \ {s} /\ s \in Posting
    BY <1>0, <1>4 DEF SendPost, Goto, Posting
  <2>2. IsFiniteSet(Posting') /\ Cardinality(Posting') = Cardinality(Posting) - 1
    BY <2>1, FS_RemoveElement DEF Counted
  <2>3. UNCHANGED <<queue, Token, dropped>> /\ sem' = sem + 1
    BY <1>4 DEF SendPost, Token
  <2>4. Cardinality(Posting) \in Nat /\ Token \in Nat
    BY FS_CardinalityType DEF Counted, Token
  <2> QED BY <1>0, <2>2, <2>3, <2>4 DEF Counted
<1>5. ASSUME UNCHANGED pc PROVE Posting' = Posting
  BY <1>5 DEF Posting
<1>6. CASE WorkerWait
  <2>1. Token = 0 /\ Token' = 1 /\ sem' = sem - 1 /\ UNCHANGED <<queue, dropped, pc>>
    BY <1>6 DEF WorkerWait, Token
  <2>2. Cardinality(Posting) \in Nat
    BY FS_CardinalityType DEF Counted
  <2> QED BY <1>0, <1>5, <2>1, <2>2 DEF Counted
<1>7. CASE WorkerInterrupted \/ WorkerLock \/ WorkerUnlock \/ Callback
  BY <1>5, <1>7, SameCount
     DEF WorkerInterrupted, WorkerLock, WorkerUnlock, Callback, Token
<1>8. CASE queue_pop_head
  <2>1. Token = 1 /\ Token' = 0 /\ UNCHANGED <<sem, dropped, pc>>
    BY <1>8 DEF queue_pop_head, Token
  <2>2. Cardinality(Posting) \in Nat
    BY FS_CardinalityType DEF Counted
  <2>3. CASE queue = <<>>
    BY <1>0, <1>5, <2>1, <2>2, <2>3 DEF Counted
  <2>4. CASE queue # <<>>
    <3>1. queue' = Tail(queue)
      BY <1>8, <2>4 DEF queue_pop_head
    <3>2. Len(Tail(queue)) = Len(queue) - 1 /\ Len(queue) \in Nat
      BY <1>0, <2>4, HeadTailProperties
    <3>3. Posting' = Posting
      BY <1>5, <2>1
    <3>4. ~dropped => Len(queue') = sem' + Cardinality(Posting) + Token'
      <4> SUFFICES ASSUME ~dropped PROVE Len(queue') = sem' + Cardinality(Posting) + Token'
        OBVIOUS
      <4>1. Len(queue) = sem + Cardinality(Posting) + Token
        BY DEF Counted
      <4> QED BY <1>0, <2>1, <2>2, <3>1, <3>2, <4>1
    <3> QED BY <2>1, <3>3, <3>4 DEF Counted
  <2> QED BY <2>3, <2>4
<1>9. CASE msg_handle_unlock_free
  <2>1. queue = <<>> /\ queue' = <<>> /\ sem' = 0 /\ Token = 0 /\ Token' = 0
    BY <1>9 DEF msg_handle_unlock_free, AtEnd, Token
  <2>2. UNCHANGED <<pc, dropped>>
    BY <1>9 DEF msg_handle_unlock_free
  <2>3. Cardinality(Posting) \in Nat
    BY FS_CardinalityType DEF Counted
  <2> QED BY <1>0, <1>5, <2>1, <2>2, <2>3 DEF Counted
<1>10. CASE UNCHANGED vars
  BY <1>5, <1>10, SameCount DEF vars, Token
<1> QED BY <1>1, <1>2, <1>3, <1>4, <1>6, <1>7, <1>8, <1>9, <1>10
        DEF Next, SendStep, WorkerStep

-----------------------------------------------------------------------------
LEMMA OrderStep ==
  ASSUME TypeOK, InOrder, Ending, [Next]_vars
  PROVE  InOrder'
<1> USE DEF sendVars, histVars
<1>0. /\ queue \in Seq(Item) /\ handled \in Seq(Item) /\ pushed \in Seq(Item)
      /\ \A s \in Senders : pc[s] = "push" => cur[s] \in Item
  BY DEF TypeOK, Ending
<1>1. ASSUME UNCHANGED <<queue, pushed, handled, freed>> PROVE InOrder'
  BY <1>1 DEF InOrder
<1>2. ASSUME NEW s \in Senders, queue_push_tail(s) PROVE InOrder'
  <2>1. cur[s] \in Item /\ UNCHANGED <<handled, freed>>
    BY <1>0, <1>2 DEF queue_push_tail
  <2>2. CASE UNCHANGED <<queue, pushed>>
    BY <1>1, <2>1, <2>2
  <2>3. CASE queue' = Append(queue, cur[s]) /\ pushed' = Append(pushed, cur[s])
    <3>1. Append(handled \o queue, cur[s]) = handled \o Append(queue, cur[s])
      BY <1>0, <2>1, PushOrder
    <3> QED BY <2>1, <2>3, <3>1, Zenon DEF InOrder
  <2> QED BY <1>2, <2>2, <2>3 DEF queue_push_tail
<1>3. CASE queue_pop_head
  <2>1. UNCHANGED <<pushed, freed>>
    BY <1>3 DEF queue_pop_head
  <2>2. CASE queue = <<>>
    BY <1>1, <1>3, <2>1, <2>2 DEF queue_pop_head
  <2>3. CASE queue # <<>>
    <3>1. queue' = Tail(queue) /\ handled' = Append(handled, Head(queue))
      BY <1>3, <2>3 DEF queue_pop_head
    <3>2. Append(handled, Head(queue)) \o Tail(queue) = handled \o queue
      BY <1>0, <2>3, PopOrder
    <3> QED BY <2>1, <3>1, <3>2, Zenon DEF InOrder
  <2> QED BY <2>2, <2>3
<1>4. CASE msg_handle_unlock_free
  BY <1>4 DEF msg_handle_unlock_free, InOrder
<1>5. ASSUME NEW s \in Senders, msg_send(s) \/ SendLock(s) \/ SendUnlock(s) \/ SendPost(s)
      PROVE  InOrder'
  BY <1>1, <1>5 DEF msg_send, SendLock, SendUnlock, SendPost
<1>6. CASE msg_handle_destory \/ Join \/ UNCHANGED vars
  BY <1>1, <1>6 DEF msg_handle_destory, Join, vars
<1>7. CASE WorkerWait \/ WorkerInterrupted \/ WorkerLock \/ WorkerUnlock \/ Callback
  BY <1>1, <1>7 DEF WorkerWait, WorkerInterrupted, WorkerLock, WorkerUnlock, Callback
<1> QED BY <1>2, <1>3, <1>4, <1>5, <1>6, <1>7 DEF Next, SendStep, WorkerStep

LEMMA LastStep ==
  ASSUME TypeOK, Ending, DestoryLast, [Next]_vars
  PROVE  DestoryLast'
<1> USE DEF sendVars, histVars
<1>0. /\ pc \in [Senders -> {"idle", "lock", "push", "unlock", "post", "join", "done"}]
      /\ cur \in [Senders -> Item \cup {NoCmd}]
      /\ Owner \in Senders /\ queue \in Seq(Item)
  BY MsgHandleAssumption DEF TypeOK
<1>1. ASSUME NEW s \in Senders, msg_send(s) PROVE DestoryLast'
  <2>1. cur[Owner] # Destory /\ UNCHANGED queue
    BY <1>1 DEF msg_send, InUse
  <2> QED BY <2>1 DEF DestoryLast
<1>2. CASE msg_handle_destory
  <2>1. cur[Owner] # Destory /\ UNCHANGED queue
    BY <1>2 DEF msg_handle_destory, InUse
  <2> QED BY <2>1 DEF DestoryLast
<1>3. ASSUME NEW s \in Senders, SendLock(s) PROVE DestoryLast'
  BY <1>0, <1>3 DEF SendLock, DestoryLast, Goto
<1>4. ASSUME NEW s \in Senders, queue_push_tail(s) PROVE DestoryLast'
  <2>1. pc[s] = "push" /\ pc' = [pc EXCEPT ![s] = "unlock"] /\ UNCHANGED cur
    BY <1>4 DEF queue_push_tail, Goto
  <2>2. \A i \in DOMAIN queue : queue[i] # Destory
    <3>1. cur[Owner] = Destory => pc[Owner] = "push"
      BY <2>1 DEF Ending
    <3> QED BY <3>1 DEF DestoryLast
  <2>3. CASE UNCHANGED queue
    BY <2>2, <2>3 DEF DestoryLast
  <2>4. CASE queue' = Append(queue, cur[s])
    <3>1. cur[s] \in Item
      BY <1>0, <2>1 DEF Ending
    <3>2. /\ Len(queue') = Len(queue) + 1
          /\ DOMAIN queue' = 1..(Len(queue) + 1) /\ DOMAIN queue = 1..Len(queue)
          /\ \A i \in 1..Len(queue) : queue'[i] = queue[i]
          /\ queue'[Len(queue) + 1] = cur[s] /\ Len(queue) \in Nat
      BY <1>0, <2>4, <3>1
    <3>3. cur[s] = Destory => cur'[Owner] = Destory /\ pc'[Owner] = "unlock"
      BY <1>0, <2>1 DEF Ending
    <3> SUFFICES ASSUME NEW i \in DOMAIN queue', queue'[i] = Destory
                 PROVE  i = Len(queue') /\ cur'[Owner] = Destory /\ pc'[Owner] = "unlock"
      BY DEF DestoryLast
    <3>4. i = Len(queue) + 1
      BY <2>2, <3>2
    <3> QED BY <3>2, <3>3, <3>4
  <2> QED BY <1>4, <2>3, <2>4 DEF queue_push_tail
<1>5. ASSUME NEW s \in Senders, SendUnlock(s) \/ SendPost(s) PROVE DestoryLast'
  BY <1>0, <1>5 DEF SendUnlock, SendPost, DestoryLast, Goto
<1>6. CASE Join
  BY <1>0, <1>6 DEF Join, DestoryLast, Goto
<1>7. CASE queue_pop_head
  <2>1. UNCHANGED <<pc, cur>>
    BY <1>7 DEF queue_pop_head
  <2>2. CASE queue = <<>>
    BY <1>7, <2>1, <2>2 DEF queue_pop_head, DestoryLast
  <2>3. CASE queue # <<>>
    <3>1. queue' = Tail(queue)
      BY <1>7, <2>3 DEF queue_pop_head
    <3>2. /\ Len(queue') = Len(queue) - 1 /\ Len(queue) \in Nat \ {0}
          /\ DOMAIN queue' = 1..(Len(queue) - 1) /\ DOMAIN queue = 1..Len(queue)
          /\ \A i \in 1..(Len(queue) - 1) : queue'[i] = queue[i + 1]
      BY <1>0, <2>3, <3>1
    <3> SUFFICES ASSUME NEW i \in DOMAIN queue', queue'[i] = Destory
                 PROVE  /\ i = Len(queue') /\ cur'[Owner] = Destory
                        /\ pc'[Owner] \notin {"lock", "push"}
      BY DEF DestoryLast
    <3>3. i + 1 \in DOMAIN queue /\ queue[i + 1] = Destory
      BY <3>2
    <3>4. /\ i + 1 = Len(queue) /\ cur[Owner] = Destory
          /\ pc[Owner] \notin {"lock", "push"}
      BY <3>3 DEF DestoryLast
    <3> QED BY <2>1, <3>2, <3>4
  <2> QED BY <2>2, <2>3
<1>8. CASE msg_handle_unlock_free
  BY <1>8 DEF msg_handle_unlock_free, DestoryLast
<1>9. CASE \/ WorkerWait \/ WorkerInterrupted \/ WorkerLock \/ WorkerUnlock \/ Callback
           \/ UNCHANGED vars
  BY <1>9 DEF WorkerWait, WorkerInterrupted, WorkerLock, WorkerUnlock, Callback, vars,
              DestoryLast
<1> QED BY <1>1, <1>2, <1>3, <1>4, <1>5, <1>6, <1>7, <1>8, <1>9
        DEF Next, SendStep, WorkerStep

\* When the worker pops DESTORY, it was the last message.
LEMMA EndStep ==
  ASSUME TypeOK, InOrder, InOrder', Ending, DestoryLast, AtEnd, [Next]_vars
  PROVE  AtEnd'
<1> USE DEF sendVars, histVars
<1>0. /\ pc \in [Senders -> {"idle", "lock", "push", "unlock", "post", "join", "done"}]
      /\ Owner \in Senders /\ queue \in Seq(Item) /\ handled \in Seq(Item)
  BY MsgHandleAssumption DEF TypeOK
<1>1. ASSUME NEW s \in Senders, msg_send(s) PROVE AtEnd'
  <2>1. /\ cur[Owner] # Destory /\ pc[Owner] # "done"
        /\ pc' = [pc EXCEPT ![s] = "lock"] /\ UNCHANGED <<freed, wpc>>
    BY <1>1 DEF msg_send, InUse, Goto
  <2> QED BY <1>0, <2>1 DEF AtEnd
<1>2. CASE msg_handle_destory
  <2>1. /\ cur[Owner] # Destory /\ UNCHANGED <<freed, wpc>>
        /\ pc' = [pc EXCEPT ![Owner] = "lock"]
    BY <1>2 DEF msg_handle_destory, InUse, Goto
  <2> QED BY <1>0, <2>1 DEF AtEnd
<1>3. ASSUME NEW s \in Senders, SendLock(s) PROVE AtEnd'
  BY <1>0, <1>3 DEF SendLock, AtEnd, Ending, Goto
<1>4. ASSUME NEW s \in Senders, queue_push_tail(s) PROVE AtEnd'
  <2>1. pc[s] = "push" /\ pc' = [pc EXCEPT ![s] = "unlock"] /\ UNCHANGED <<freed, wpc>>
    BY <1>4 DEF queue_push_tail, Goto
  <2>2. wpc \notin {"free", "exit"}
    BY <2>1 DEF AtEnd, Ending
  <2> QED BY <1>0, <2>1, <2>2 DEF AtEnd
<1>5. ASSUME NEW s \in Senders, SendUnlock(s) \/ SendPost(s) PROVE AtEnd'
  BY <1>0, <1>5 DEF SendUnlock, SendPost, AtEnd, Goto
<1>6. CASE Join
  BY <1>0, <1>6 DEF Join, AtEnd, Goto
<1>7. CASE queue_pop_head
  <2>1. wpc = "pop" /\ UNCHANGED <<pc, cur, pushed, freed>>
    BY <1>7 DEF queue_pop_head
  <2>2. ~freed /\ pc[Owner] # "done"
    BY <2>1 DEF AtEnd
  <2>3. CASE cmd' # Destory
    <3>1. wpc' = "unlock"
      BY <1>7, <2>3 DEF queue_pop_head
    <3> QED BY <2>1, <2>2, <3>1 DEF AtEnd
  <2>4. CASE cmd' = Destory
    <3>1. queue # <<>> /\ Head(queue) = Destory /\ queue' = Tail(queue)
      BY <1>7, <2>4, ItemFacts DEF queue_pop_head
    <3>2. 1 \in DOMAIN queue /\ queue[1] = Destory
      BY <1>0, <3>1
    <3>3. Len(queue) = 1 /\ cur[Owner] = Destory /\ pc[Owner] \notin {"lock", "push"}
      BY <3>2 DEF DestoryLast
    <3>4. queue' = <<>>
      BY <1>0, <3>1, <3>3
    <3>5. handled' \in Seq(Item)
      <4>1. handled' = Append(handled, Destory)
        BY <1>7, <3>1 DEF queue_pop_head
      <4> QED BY <1>0, <4>1, ItemFacts, AppendProperties
    <3>6. pushed' = handled' \o <<>>
      BY <2>1, <2>2, <3>4 DEF InOrder
    <3>7. pushed' = handled'
      BY <3>5, <3>6
    <3> QED BY <2>1, <2>2, <3>3, <3>4, <3>7, Zenon DEF AtEnd
  <2> QED BY <2>3, <2>4
<1>8. CASE msg_handle_unlock_free
  BY <1>8 DEF msg_handle_unlock_free, AtEnd
<1>9. CASE \/ WorkerWait \/ WorkerInterrupted \/ WorkerLock \/ WorkerUnlock \/ Callback
           \/ UNCHANGED vars
  BY <1>9 DEF WorkerWait, WorkerInterrupted, WorkerLock, WorkerUnlock, Callback, vars,
              AtEnd
<1> QED BY <1>1, <1>2, <1>3, <1>4, <1>5, <1>6, <1>7, <1>8, <1>9
        DEF Next, SendStep, WorkerStep

LEMMA Invariance == Spec => []IInv
<1>1. IInv /\ [Next]_vars => IInv'
  <2> SUFFICES ASSUME IInv, [Next]_vars PROVE IInv'
    OBVIOUS
  <2>1. /\ TypeOK /\ MutexHeld /\ InOrder /\ Counted /\ Ending /\ DestoryLast /\ AtEnd
    BY DEF IInv
  <2>2. TypeOK' /\ MutexHeld' /\ InOrder' /\ Ending' /\ DestoryLast' /\ Counted'
    BY <2>1, TypeStep, MutexStep, OrderStep, EndingStep, LastStep, CountedStep
  <2>3. AtEnd'
    BY <2>1, <2>2, EndStep
  <2> QED BY <2>2, <2>3 DEF IInv
<1> QED BY <1>1, InitInv, PTL DEF Spec

-----------------------------------------------------------------------------
\* The state of the handler, its threads and its worker has its type.
THEOREM TypeCorrect == Spec => []TypeOK
<1>1. IInv => TypeOK
  BY DEF IInv
<1> QED BY <1>1, Invariance, PTL

\* The mutex is held by exactly the thread that is in a critical section.
THEOREM MutexSafe == Spec => []MutexHeld
<1>1. IInv => MutexHeld
  BY DEF IInv
<1> QED BY <1>1, Invariance, PTL

\* The worker takes the messages in the order in which msg_send queued them,
\* none twice and none left out, whatever was dropped or interrupted.
THEOREM OrderKept == Spec => []InOrder
<1>1. IInv => InOrder
  BY DEF IInv
<1> QED BY <1>1, Invariance, PTL

\* msg_handle_destory returns only when every queued message was handled.
THEOREM AllHandled == Spec => []Flushed
<1>1. IInv => Flushed
  BY DEF IInv, AtEnd, Flushed
<1> QED BY <1>1, Invariance, PTL

\* As long as no message was dropped, no thread is between its lock and its
\* sem_post when the worker has freed the handler: the count leaves no room
\* for a thread that has still to post.
THEOREM FreedUnused == Spec => []NoUseAfterFree
<1>1. IInv => NoUseAfterFree
  <2> SUFFICES ASSUME IInv, freed, ~dropped, NEW s \in Senders
               PROVE  pc[s] \in {"idle", "join", "done"}
    BY DEF NoUseAfterFree
  <2>1. /\ queue = <<>> /\ cur[Owner] = Destory /\ pc[Owner] \notin {"lock", "push"}
        /\ wpc = "exit"
    BY DEF IInv, AtEnd
  <2>2. /\ sem \in Nat /\ Token = 0 /\ Len(queue) = 0
        /\ IsFiniteSet(Posting) /\ Cardinality(Posting) \in Nat
    BY <2>1, FS_CardinalityType DEF IInv, TypeOK, Token, Counted
  <2>3. Cardinality(Posting) = 0
    BY <2>2 DEF IInv, Counted
  <2>4. Posting = {}
    BY <2>2, <2>3, FS_EmptySet
  <2>5. pc[s] \notin {"unlock", "post"}
    BY <2>4 DEF Posting
  <2>6. s # Owner => pc[s] = "idle"
    BY <2>1 DEF IInv, Ending
  <2>7. pc[s] \in {"idle", "lock", "push", "unlock", "post", "join", "done"}
    BY DEF IInv, TypeOK
  <2> QED BY <2>1, <2>5, <2>6, <2>7
<1> QED BY <1>1, Invariance, PTL
============================================================================
