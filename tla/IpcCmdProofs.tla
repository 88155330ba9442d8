--------------------------- MODULE IpcCmdProofs ---------------------------
(***************************************************************************)
(* Proofs about IpcCmd for any set of senders, any number of calls and any *)
(* choice of faults.  IInv is inductive; the safety properties and the     *)
(* refinement of RpcChannel follow from it.                                *)
(***************************************************************************)
EXTENDS IpcCmd, TLAPS

\* Every step of every process keeps the variables within their types; that a
\* process never takes SEND twice is a matter of the lock.
LEMMA TypeStep ==
  ASSUME TypeOK, SendLock, [Next]_vars
  PROVE  TypeOK'
PROOF
  <1> USE DEF SEND, C_READ, S_READ, sendVars, recvVars, TypeOK, SendPc,
        RecvPc, Message, ZeroMsg, Failed, Req, Rsp, SendLock, Holding, InSection
  <1>1. ASSUME NEW s \in Senders, SendBegin(s) PROVE TypeOK'
    BY <1>1, MaxCallsAssumption DEF SendBegin, Goto
  <1>2. ASSUME NEW s \in Senders, SendAcquire(s) PROVE TypeOK'
    BY <1>2, MaxCallsAssumption
       DEF SendAcquire, ipc_sem_p_undo, ipc_sem_p, Goto
  <1>3. ASSUME NEW s \in Senders, SendRequestCb(s) PROVE TypeOK'
    BY <1>3, MaxCallsAssumption DEF SendRequestCb, Goto
  <1>4. ASSUME NEW s \in Senders, SendPost(s) PROVE TypeOK'
    BY <1>4, MaxCallsAssumption DEF SendPost, ipc_sem_v, Goto
  <1>5. ASSUME NEW s \in Senders, SendAwait(s) PROVE TypeOK'
    BY <1>5, MaxCallsAssumption DEF SendAwait, ipc_sem_p, Goto
  <1>6. ASSUME NEW s \in Senders, SendResponseCb(s) PROVE TypeOK'
    BY <1>6, MaxCallsAssumption DEF SendResponseCb, Goto
  <1>7. ASSUME NEW s \in Senders, SendRelease(s) PROVE TypeOK'
    BY <1>7, MaxCallsAssumption
       DEF SendRelease, ipc_sem_v_undo, ipc_sem_v, Goto
  <1>8. ASSUME NEW s \in Senders, SendFail(s) PROVE TypeOK'
    BY <1>8, MaxCallsAssumption DEF SendFail, Goto
  <1>9. ASSUME NEW s \in Senders, SendInterrupted(s) PROVE TypeOK'
    BY <1>9, MaxCallsAssumption DEF SendInterrupted, Goto
  <1>10. ASSUME NEW s \in Senders, SendExit(s) PROVE TypeOK'
    BY <1>10, MaxCallsAssumption DEF SendExit, Goto
  <1>11. CASE RecvWait
    BY <1>11, MaxCallsAssumption DEF RecvWait, ipc_sem_p
  <1>12. CASE RecvRead
    BY <1>12, MaxCallsAssumption DEF RecvRead
  <1>13. CASE RecvReply
    BY <1>13, MaxCallsAssumption DEF RecvReply
  <1>14. CASE RecvPost
    BY <1>14, MaxCallsAssumption DEF RecvPost, ipc_sem_v
  <1>15. CASE RecvStop
    BY <1>15, MaxCallsAssumption DEF RecvStop
  <1>16. CASE Destroy
    BY <1>16, MaxCallsAssumption DEF Destroy
  <1>17. CASE UNCHANGED vars
    BY <1>17, MaxCallsAssumption DEF vars
  <1> QED
    BY <1>1, <1>2, <1>3, <1>4, <1>5, <1>6, <1>7, <1>8, <1>9, <1>10, <1>11,
       <1>12, <1>13, <1>14, <1>15, <1>16, <1>17 DEF Next, SendStep, RecvStep

\* SEND stays a lock with one holder: a process in the section holds it until
\* it gives it back, exits, or the set is removed.
LEMMA LockStep ==
  ASSUME TypeOK, SendLock, [Next]_vars
  PROVE  SendLock'
PROOF
  <1> USE DEF SEND, C_READ, S_READ, sendVars, recvVars, TypeOK, SendPc,
        RecvPc, SendLock, Holding, InSection
  <1>1. ASSUME NEW s \in Senders, SendBegin(s) PROVE SendLock'
    BY <1>1 DEF SendBegin, Goto
  <1>2. ASSUME NEW s \in Senders, SendAcquire(s) PROVE SendLock'
    BY <1>2 DEF SendAcquire, ipc_sem_p_undo, ipc_sem_p, Goto
  <1>3. ASSUME NEW s \in Senders, SendRequestCb(s) PROVE SendLock'
    BY <1>3 DEF SendRequestCb, Goto
  <1>4. ASSUME NEW s \in Senders, SendPost(s) PROVE SendLock'
    BY <1>4 DEF SendPost, ipc_sem_v, Goto
  <1>5. ASSUME NEW s \in Senders, SendAwait(s) PROVE SendLock'
    BY <1>5 DEF SendAwait, ipc_sem_p, Goto
  <1>6. ASSUME NEW s \in Senders, SendResponseCb(s) PROVE SendLock'
    BY <1>6 DEF SendResponseCb, Goto
  <1>7. ASSUME NEW s \in Senders, SendRelease(s) PROVE SendLock'
    BY <1>7 DEF SendRelease, ipc_sem_v_undo, ipc_sem_v, Goto
  <1>8. ASSUME NEW s \in Senders, SendFail(s) PROVE SendLock'
    BY <1>8 DEF SendFail, Goto
  <1>9. ASSUME NEW s \in Senders, SendInterrupted(s) PROVE SendLock'
    BY <1>9 DEF SendInterrupted, Goto
  <1>10. ASSUME NEW s \in Senders, SendExit(s) PROVE SendLock'
    BY <1>10 DEF SendExit, Goto
  <1>11. CASE RecvWait
    BY <1>11 DEF RecvWait, ipc_sem_p
  <1>12. CASE RecvRead
    BY <1>12 DEF RecvRead
  <1>13. CASE RecvReply
    BY <1>13 DEF RecvReply
  <1>14. CASE RecvPost
    BY <1>14 DEF RecvPost, ipc_sem_v
  <1>15. CASE RecvStop
    BY <1>15 DEF RecvStop
  <1>16. CASE Destroy
    BY <1>16 DEF Destroy
  <1>17. CASE UNCHANGED vars
    BY <1>17 DEF vars
  <1> QED
    BY <1>1, <1>2, <1>3, <1>4, <1>5, <1>6, <1>7, <1>8, <1>9, <1>10, <1>11,
       <1>12, <1>13, <1>14, <1>15, <1>16, <1>17 DEF Next, SendStep, RecvStep

\* A sender enters the section only through SEND.
LEMMA SectionStep ==
  ASSUME TypeOK, SendLock, OneSection, [Next]_vars
  PROVE  OneSection'
PROOF
  <1> USE DEF SEND, C_READ, S_READ, sendVars, recvVars, TypeOK, SendPc,
        RecvPc, SendLock, Holding, InSection, OneSection
  <1>1. ASSUME NEW s \in Senders, SendBegin(s) PROVE OneSection'
    BY <1>1 DEF SendBegin, Goto
  <1>2. ASSUME NEW s \in Senders, SendAcquire(s) PROVE OneSection'
    BY <1>2 DEF SendAcquire, ipc_sem_p_undo, ipc_sem_p, Goto
  <1>3. ASSUME NEW s \in Senders, SendRequestCb(s) PROVE OneSection'
    BY <1>3 DEF SendRequestCb, Goto
  <1>4. ASSUME NEW s \in Senders, SendPost(s) PROVE OneSection'
    BY <1>4 DEF SendPost, ipc_sem_v, Goto
  <1>5. ASSUME NEW s \in Senders, SendAwait(s) PROVE OneSection'
    BY <1>5 DEF SendAwait, ipc_sem_p, Goto
  <1>6. ASSUME NEW s \in Senders, SendResponseCb(s) PROVE OneSection'
    BY <1>6 DEF SendResponseCb, Goto
  <1>7. ASSUME NEW s \in Senders, SendRelease(s) PROVE OneSection'
    BY <1>7 DEF SendRelease, ipc_sem_v_undo, ipc_sem_v, Goto
  <1>8. ASSUME NEW s \in Senders, SendFail(s) PROVE OneSection'
    BY <1>8 DEF SendFail, Goto
  <1>9. ASSUME NEW s \in Senders, SendInterrupted(s) PROVE OneSection'
    BY <1>9 DEF SendInterrupted, Goto
  <1>10. ASSUME NEW s \in Senders, SendExit(s) PROVE OneSection'
    BY <1>10 DEF SendExit, Goto
  <1>11. CASE RecvWait
    BY <1>11 DEF RecvWait, ipc_sem_p
  <1>12. CASE RecvRead
    BY <1>12 DEF RecvRead
  <1>13. CASE RecvReply
    BY <1>13 DEF RecvReply
  <1>14. CASE RecvPost
    BY <1>14 DEF RecvPost, ipc_sem_v
  <1>15. CASE RecvStop
    BY <1>15 DEF RecvStop
  <1>16. CASE Destroy
    BY <1>16 DEF Destroy
  <1>17. CASE UNCHANGED vars
    BY <1>17 DEF vars
  <1> QED
    BY <1>1, <1>2, <1>3, <1>4, <1>5, <1>6, <1>7, <1>8, <1>9, <1>10, <1>11,
       <1>12, <1>13, <1>14, <1>15, <1>16, <1>17 DEF Next, SendStep, RecvStep

\* Posting, taking, abandoning: every step keeps the account of the tokens.
LEMMA TokenStep ==
  ASSUME TypeOK, SendLock, OneSection, TokensConserved, [Next]_vars
  PROVE  TokensConserved'
PROOF
  <1> USE DEF SEND, C_READ, S_READ, sendVars, recvVars, TypeOK, SendPc,
        RecvPc, SendLock, Holding, InSection, OneSection, TokensConserved,
        Busy, One
  <1>1. ASSUME NEW s \in Senders, SendBegin(s) PROVE TokensConserved'
    BY <1>1 DEF SendBegin, Goto
  <1>2. ASSUME NEW s \in Senders, SendAcquire(s) PROVE TokensConserved'
    BY <1>2 DEF SendAcquire, ipc_sem_p_undo, ipc_sem_p, Goto
  <1>3. ASSUME NEW s \in Senders, SendRequestCb(s) PROVE TokensConserved'
    BY <1>3 DEF SendRequestCb, Goto
  <1>4. ASSUME NEW s \in Senders, SendPost(s) PROVE TokensConserved'
    BY <1>4 DEF SendPost, ipc_sem_v, Goto
  <1>5. ASSUME NEW s \in Senders, SendAwait(s) PROVE TokensConserved'
    BY <1>5 DEF SendAwait, ipc_sem_p, Goto
  <1>6. ASSUME NEW s \in Senders, SendResponseCb(s) PROVE TokensConserved'
    BY <1>6 DEF SendResponseCb, Goto
  <1>7. ASSUME NEW s \in Senders, SendRelease(s) PROVE TokensConserved'
    BY <1>7 DEF SendRelease, ipc_sem_v_undo, ipc_sem_v, Goto
  <1>8. ASSUME NEW s \in Senders, SendFail(s) PROVE TokensConserved'
    BY <1>8 DEF SendFail, Goto
  <1>9. ASSUME NEW s \in Senders, SendInterrupted(s) PROVE TokensConserved'
    BY <1>9 DEF SendInterrupted, Goto
  <1>10. ASSUME NEW s \in Senders, SendExit(s) PROVE TokensConserved'
    BY <1>10 DEF SendExit, Goto
  <1>11. CASE RecvWait
    BY <1>11 DEF RecvWait, ipc_sem_p
  <1>12. CASE RecvRead
    BY <1>12 DEF RecvRead
  <1>13. CASE RecvReply
    BY <1>13 DEF RecvReply
  <1>14. CASE RecvPost
    BY <1>14 DEF RecvPost, ipc_sem_v
  <1>15. CASE RecvStop
    BY <1>15 DEF RecvStop
  <1>16. CASE Destroy
    BY <1>16 DEF Destroy
  <1>17. CASE UNCHANGED vars
    BY <1>17 DEF vars
  <1> QED
    BY <1>1, <1>2, <1>3, <1>4, <1>5, <1>6, <1>7, <1>8, <1>9, <1>10, <1>11,
       <1>12, <1>13, <1>14, <1>15, <1>16, <1>17 DEF Next, SendStep, RecvStep

\* The receiver picks up a request only while its sender waits.
LEMMA BusyStep ==
  ASSUME TypeOK, SendLock, OneSection, TokensConserved, BusyOnlyFor,
        [Next]_vars
  PROVE  BusyOnlyFor'
PROOF
  <1> USE DEF SEND, C_READ, S_READ, sendVars, recvVars, TypeOK, SendPc,
        RecvPc, SendLock, Holding, InSection, OneSection, TokensConserved,
        Busy, One, BusyOnlyFor
  <1>1. ASSUME NEW s \in Senders, SendBegin(s) PROVE BusyOnlyFor'
    BY <1>1 DEF SendBegin, Goto
  <1>2. ASSUME NEW s \in Senders, SendAcquire(s) PROVE BusyOnlyFor'
    BY <1>2 DEF SendAcquire, ipc_sem_p_undo, ipc_sem_p, Goto
  <1>3. ASSUME NEW s \in Senders, SendRequestCb(s) PROVE BusyOnlyFor'
    BY <1>3 DEF SendRequestCb, Goto
  <1>4. ASSUME NEW s \in Senders, SendPost(s) PROVE BusyOnlyFor'
    BY <1>4 DEF SendPost, ipc_sem_v, Goto
  <1>5. ASSUME NEW s \in Senders, SendAwait(s) PROVE BusyOnlyFor'
    BY <1>5 DEF SendAwait, ipc_sem_p, Goto
  <1>6. ASSUME NEW s \in Senders, SendResponseCb(s) PROVE BusyOnlyFor'
    BY <1>6 DEF SendResponseCb, Goto
  <1>7. ASSUME NEW s \in Senders, SendRelease(s) PROVE BusyOnlyFor'
    BY <1>7 DEF SendRelease, ipc_sem_v_undo, ipc_sem_v, Goto
  <1>8. ASSUME NEW s \in Senders, SendFail(s) PROVE BusyOnlyFor'
    BY <1>8 DEF SendFail, Goto
  <1>9. ASSUME NEW s \in Senders, SendInterrupted(s) PROVE BusyOnlyFor'
    BY <1>9 DEF SendInterrupted, Goto
  <1>10. ASSUME NEW s \in Senders, SendExit(s) PROVE BusyOnlyFor'
    BY <1>10 DEF SendExit, Goto
  <1>11. CASE RecvWait
    BY <1>11 DEF RecvWait, ipc_sem_p
  <1>12. CASE RecvRead
    BY <1>12 DEF RecvRead
  <1>13. CASE RecvReply
    BY <1>13 DEF RecvReply
  <1>14. CASE RecvPost
    BY <1>14 DEF RecvPost, ipc_sem_v
  <1>15. CASE RecvStop
    BY <1>15 DEF RecvStop
  <1>16. CASE Destroy
    BY <1>16 DEF Destroy
  <1>17. CASE UNCHANGED vars
    BY <1>17 DEF vars
  <1> QED
    BY <1>1, <1>2, <1>3, <1>4, <1>5, <1>6, <1>7, <1>8, <1>9, <1>10, <1>11,
       <1>12, <1>13, <1>14, <1>15, <1>16, <1>17 DEF Next, SendStep, RecvStep

\* Nobody but the two partners of the exchange writes the buffer.
LEMMA BufferStep ==
  ASSUME TypeOK, SendLock, OneSection, TokensConserved, BusyOnlyFor,
        BufferContents, [Next]_vars
  PROVE  BufferContents'
PROOF
  <1> USE DEF SEND, C_READ, S_READ, sendVars, recvVars, TypeOK, SendPc,
        RecvPc, SendLock, Holding, InSection, OneSection, TokensConserved,
        Busy, One, BusyOnlyFor, BufferContents, Message, ZeroMsg, Failed, Req, Rsp
  <1>1. ASSUME NEW s \in Senders, SendBegin(s) PROVE BufferContents'
    BY <1>1 DEF SendBegin, Goto
  <1>2. ASSUME NEW s \in Senders, SendAcquire(s) PROVE BufferContents'
    BY <1>2 DEF SendAcquire, ipc_sem_p_undo, ipc_sem_p, Goto
  <1>3. ASSUME NEW s \in Senders, SendRequestCb(s) PROVE BufferContents'
    BY <1>3 DEF SendRequestCb, Goto
  <1>4. ASSUME NEW s \in Senders, SendPost(s) PROVE BufferContents'
    BY <1>4 DEF SendPost, ipc_sem_v, Goto
  <1>5. ASSUME NEW s \in Senders, SendAwait(s) PROVE BufferContents'
    BY <1>5 DEF SendAwait, ipc_sem_p, Goto
  <1>6. ASSUME NEW s \in Senders, SendResponseCb(s) PROVE BufferContents'
    BY <1>6 DEF SendResponseCb, Goto
  <1>7. ASSUME NEW s \in Senders, SendRelease(s) PROVE BufferContents'
    BY <1>7 DEF SendRelease, ipc_sem_v_undo, ipc_sem_v, Goto
  <1>8. ASSUME NEW s \in Senders, SendFail(s) PROVE BufferContents'
    BY <1>8 DEF SendFail, Goto
  <1>9. ASSUME NEW s \in Senders, SendInterrupted(s) PROVE BufferContents'
    BY <1>9 DEF SendInterrupted, Goto
  <1>10. ASSUME NEW s \in Senders, SendExit(s) PROVE BufferContents'
    BY <1>10 DEF SendExit, Goto
  <1>11. CASE RecvWait
    BY <1>11 DEF RecvWait, ipc_sem_p
  <1>12. CASE RecvRead
    BY <1>12 DEF RecvRead
  <1>13. CASE RecvReply
    BY <1>13 DEF RecvReply
  <1>14. CASE RecvPost
    BY <1>14 DEF RecvPost, ipc_sem_v
  <1>15. CASE RecvStop
    BY <1>15 DEF RecvStop
  <1>16. CASE Destroy
    BY <1>16 DEF Destroy
  <1>17. CASE UNCHANGED vars
    BY <1>17 DEF vars
  <1> QED
    BY <1>1, <1>2, <1>3, <1>4, <1>5, <1>6, <1>7, <1>8, <1>9, <1>10, <1>11,
       <1>12, <1>13, <1>14, <1>15, <1>16, <1>17 DEF Next, SendStep, RecvStep

\* Only a sender fault abandons a request.
LEMMA LostStep ==
  ASSUME TypeOK, LostOnlyByFault, [Next]_vars
  PROVE  LostOnlyByFault'
PROOF
  <1> USE DEF SEND, C_READ, S_READ, sendVars, recvVars, TypeOK, LostOnlyByFault
  <1>1. ASSUME NEW s \in Senders, SendBegin(s) PROVE LostOnlyByFault'
    BY <1>1 DEF SendBegin, Goto
  <1>2. ASSUME NEW s \in Senders, SendAcquire(s) PROVE LostOnlyByFault'
    BY <1>2 DEF SendAcquire, ipc_sem_p_undo, ipc_sem_p, Goto
  <1>3. ASSUME NEW s \in Senders, SendRequestCb(s) PROVE LostOnlyByFault'
    BY <1>3 DEF SendRequestCb, Goto
  <1>4. ASSUME NEW s \in Senders, SendPost(s) PROVE LostOnlyByFault'
    BY <1>4 DEF SendPost, ipc_sem_v, Goto
  <1>5. ASSUME NEW s \in Senders, SendAwait(s) PROVE LostOnlyByFault'
    BY <1>5 DEF SendAwait, ipc_sem_p, Goto
  <1>6. ASSUME NEW s \in Senders, SendResponseCb(s) PROVE LostOnlyByFault'
    BY <1>6 DEF SendResponseCb, Goto
  <1>7. ASSUME NEW s \in Senders, SendRelease(s) PROVE LostOnlyByFault'
    BY <1>7 DEF SendRelease, ipc_sem_v_undo, ipc_sem_v, Goto
  <1>8. ASSUME NEW s \in Senders, SendFail(s) PROVE LostOnlyByFault'
    BY <1>8 DEF SendFail, Goto
  <1>9. ASSUME NEW s \in Senders, SendInterrupted(s) PROVE LostOnlyByFault'
    BY <1>9 DEF SendInterrupted, Goto
  <1>10. ASSUME NEW s \in Senders, SendExit(s) PROVE LostOnlyByFault'
    BY <1>10 DEF SendExit, Goto
  <1>11. CASE RecvWait
    BY <1>11 DEF RecvWait, ipc_sem_p
  <1>12. CASE RecvRead
    BY <1>12 DEF RecvRead
  <1>13. CASE RecvReply
    BY <1>13 DEF RecvReply
  <1>14. CASE RecvPost
    BY <1>14 DEF RecvPost, ipc_sem_v
  <1>15. CASE RecvStop
    BY <1>15 DEF RecvStop
  <1>16. CASE Destroy
    BY <1>16 DEF Destroy
  <1>17. CASE UNCHANGED vars
    BY <1>17 DEF vars
  <1> QED
    BY <1>1, <1>2, <1>3, <1>4, <1>5, <1>6, <1>7, <1>8, <1>9, <1>10, <1>11,
       <1>12, <1>13, <1>14, <1>15, <1>16, <1>17 DEF Next, SendStep, RecvStep

\* The initial values of the semaphores and of the processes satisfy IInv.
LEMMA InitIInv == Init => IInv
PROOF
  <1> SUFFICES ASSUME Init PROVE IInv
    OBVIOUS
  <1> USE DEF Init, SEND, C_READ, S_READ
  <1>1. TypeOK
    <2>1. ZeroMsg \in Message /\ 0 \in 0..MaxCalls
      BY MaxCallsAssumption DEF Message
    <2> QED
      BY <2>1 DEF TypeOK, SendPc, RecvPc
  <1>2. SendLock
    BY DEF SendLock, Holding, InSection
  <1>3. TokensConserved
    BY DEF TokensConserved, Busy, One
  <1>4. OneSection
    BY DEF OneSection, InSection
  <1>5. BusyOnlyFor /\ BufferContents
    BY DEF BusyOnlyFor, BufferContents
  <1>6. LostOnlyByFault
    BY DEF LostOnlyByFault
  <1> QED
    BY <1>1, <1>2, <1>3, <1>4, <1>5, <1>6 DEF IInv

\* IInv is an inductive invariant of the channel.
THEOREM Inductive == Spec => []IInv
PROOF
  <1>1. IInv /\ [Next]_vars => IInv'
    BY TypeStep, LockStep, SectionStep, TokenStep, BusyStep, BufferStep,
       LostStep DEF IInv
  <1> QED
    BY InitIInv, <1>1, PTL DEF Spec

\* What the inductive invariant says of a state in which nothing has been
\* abandoned.
LEMMA Consequences == IInv => CallbacksExclusive /\ OwnAnswer
  BY DEF IInv, OneSection, BusyOnlyFor, BufferContents, InSection, Busy,
         CallbacksExclusive, OwnAnswer

\* Type correctness of the channel: in particular no process ever holds SEND
\* twice, and no semaphore goes below zero.
THEOREM TypeCorrect == Spec => []TypeOK
PROOF
  <1>1. IInv => TypeOK
    BY DEF IInv
  <1> QED
    BY Inductive, <1>1, PTL

\* SEND is a lock with one holder in spite of exits and interrupted waits.
THEOREM LockSafe == Spec => []SendLock
PROOF
  <1>1. IInv => SendLock
    BY DEF IInv
  <1> QED
    BY Inductive, <1>1, PTL

\* Requests and responses are neither lost nor invented by the semaphores.
THEOREM TokensSafe == Spec => []TokensConserved
PROOF
  <1>1. IInv => TokensConserved
    BY DEF IInv
  <1> QED
    BY Inductive, <1>1, PTL

\* The callbacks never share the buffer while nothing has been abandoned.
THEOREM BufferSafe == Spec => []CallbacksExclusive
PROOF
  <1> QED
    BY Inductive, Consequences, PTL

\* A call that gets to its end has its own answer while nothing has been
\* abandoned.
THEOREM AnswersSafe == Spec => []OwnAnswer
PROOF
  <1> QED
    BY Inductive, Consequences, PTL

-----------------------------------------------------------------------------
\* Senders neither die nor are interrupted.
ReliableSenders == "exit" \notin Faults /\ "eintr" \notin Faults

\* The initial state is one of RpcChannel.
LEMMA RpcInitially == Init => Rpc!RpcInit
  BY DEF Init, Rpc!RpcInit, RpcState, RpcAnswer, ZeroMsg, Failed

\* Each step of a sender or of the receiver is a step of RpcChannel or leaves
\* it as it is.
LEMMA RpcStep ==
  ASSUME ReliableSenders, IInv, IInv', [Next]_vars
  PROVE  [Rpc!RpcNext]_(Rpc!rpcVars)
PROOF
  <1> USE DEF IInv, TypeOK, SendPc, RecvPc, SEND, C_READ, S_READ, sendVars,
              recvVars, RpcState, RpcAnswer, InSection, Goto
  <1>0. lost = 0
    BY DEF ReliableSenders, LostOnlyByFault
  <1>1. ASSUME NEW s \in Senders, SendBegin(s) PROVE Rpc!Call(s)
    BY <1>0, <1>1 DEF SendBegin, Rpc!Call
  <1>2. ASSUME NEW s \in Senders, SendAcquire(s) PROVE Rpc!Acquire(s)
    <2>1. /\ ~removed /\ sem[SEND] > 0
          /\ pc[s] = "p_send" /\ pc' = [pc EXCEPT ![s] = "request"]
          /\ UNCHANGED <<removed, buf, calls, ans>>
      BY <1>2 DEF SendAcquire, ipc_sem_p_undo, ipc_sem_p
    <2>2. \A t \in Senders : ~InSection(t)
      <3> HIDE DEF InSection
      <3> QED
        BY <2>1 DEF SendLock
    <2>3. \A t \in Senders : RpcState(t) \notin {"turn", "served"}
      BY <2>2
    <2>4. RpcState(s) = "waiting" /\ RpcState(s)' = "turn"
      BY <2>1
    <2>5. \A t \in Senders \ {s} : RpcState(t)' = RpcState(t)
      BY <2>1
    <2>6. [t \in Senders |-> RpcAnswer(t)]' = [t \in Senders |-> RpcAnswer(t)]
      BY <2>1
    <2> HIDE DEF RpcState, RpcAnswer
    <2>7. [t \in Senders |-> RpcState(t)]'
            = [[t \in Senders |-> RpcState(t)] EXCEPT ![s] = "turn"]
      BY <2>4, <2>5
    <2> QED
      BY <2>1, <2>3, <2>4, <2>6, <2>7 DEF Rpc!Acquire
  <1>3. ASSUME NEW s \in Senders, SendRequestCb(s) PROVE UNCHANGED Rpc!rpcVars
    BY <1>0, <1>3 DEF SendRequestCb, OneSection, Rpc!rpcVars
  <1>4. ASSUME NEW s \in Senders, SendPost(s) PROVE UNCHANGED Rpc!rpcVars
    BY <1>0, <1>4
       DEF SendPost, ipc_sem_v, BufferContents, Req, Rsp, Rpc!rpcVars
  <1>5. ASSUME NEW s \in Senders, SendAwait(s) PROVE UNCHANGED Rpc!rpcVars
    BY <1>0, <1>5 DEF SendAwait, ipc_sem_p, BufferContents, Rpc!rpcVars
  <1>6. ASSUME NEW s \in Senders, SendResponseCb(s) PROVE UNCHANGED Rpc!rpcVars
    BY <1>0, <1>6 DEF SendResponseCb, Rpc!rpcVars
  <1>7. ASSUME NEW s \in Senders, SendRelease(s) PROVE Rpc!Return(s)
    <2>1. ~removed /\ pc[s] = "v_send" /\ pc' = [pc EXCEPT ![s] = "idle"]
      BY <1>7 DEF SendRelease, ipc_sem_v_undo, ipc_sem_v
    <2>2. UNCHANGED <<calls, removed, buf>>
      BY <1>7 DEF SendRelease
    <2>3. ans' = [ans EXCEPT ![s] = Rsp(s, calls[s])]
      BY <1>0, <1>7 DEF SendRelease, BufferContents
    <2>4. RpcAnswer(s)' = <<s, calls[s]>>
      BY <2>3 DEF Rsp, ZeroMsg, Failed
    <2>5. \A t \in Senders \ {s} : RpcAnswer(t)' = RpcAnswer(t)
      BY <2>3
    <2>6. [t \in Senders |-> RpcAnswer(t)]'
            = [[t \in Senders |-> RpcAnswer(t)] EXCEPT ![s] = <<s, calls[s]>>]
      <3> HIDE DEF RpcAnswer
      <3> QED
        BY <2>4, <2>5
    <2>7. [t \in Senders |-> RpcState(t)]'
            = [[t \in Senders |-> RpcState(t)] EXCEPT ![s] = "idle"]
      BY <2>1, <2>2
    <2> QED
      BY <2>1, <2>2, <2>6, <2>7 DEF Rpc!Return
  <1>8. ASSUME NEW s \in Senders, SendFail(s) PROVE Rpc!Fail(s)
    BY <1>0, <1>8 DEF SendFail, Rpc!Fail
  <1>9. ASSUME NEW s \in Senders, SendInterrupted(s) PROVE FALSE
    BY <1>0, <1>9 DEF SendInterrupted, ReliableSenders
  <1>10. ASSUME NEW s \in Senders, SendExit(s) PROVE FALSE
    BY <1>0, <1>10 DEF SendExit, ReliableSenders
  <1>11. ASSUME RecvWait PROVE UNCHANGED Rpc!rpcVars
    BY <1>11 DEF RecvWait, ipc_sem_p, Rpc!rpcVars
  <1>12. ASSUME RecvRead PROVE UNCHANGED Rpc!rpcVars
    BY <1>12 DEF RecvRead, Rpc!rpcVars
  <1>13. ASSUME RecvReply
        PROVE  (\E s \in Senders : Rpc!Serve(s)) \/ UNCHANGED Rpc!rpcVars
    <2>1. CASE \E s \in Senders : pc[s] = "p_cread"
      <3>1. PICK s \in Senders : pc[s] = "p_cread"
        BY <2>1
      <3>2. \A t \in Senders : pc[t] = "p_cread" => t = s
        BY <3>1 DEF OneSection
      <3>3. buf' = Rsp(s, calls[s])
        BY <1>0, <1>13, <3>1 DEF RecvReply, BufferContents, Req
      <3>4. CASE buf = Rsp(s, calls[s])
        BY <1>13, <3>2, <3>3, <3>4 DEF RecvReply, Rpc!rpcVars
      <3>5. CASE buf # Rsp(s, calls[s])
        <4>1. UNCHANGED <<pc, calls, ans, removed>>
          BY <1>13 DEF RecvReply
        <4>2. RpcState(s) = "turn" /\ RpcState(s)' = "served"
          BY <3>1, <3>3, <3>5, <4>1
        <4>3. \A t \in Senders \ {s} : RpcState(t)' = RpcState(t)
          BY <3>2, <4>1
        <4>4. [t \in Senders |-> RpcAnswer(t)]'
                = [t \in Senders |-> RpcAnswer(t)]
          BY <4>1
        <4> HIDE DEF RpcState, RpcAnswer
        <4>5. [t \in Senders |-> RpcState(t)]'
                = [[t \in Senders |-> RpcState(t)] EXCEPT ![s] = "served"]
          BY <4>2, <4>3
        <4>6. Rpc!Serve(s)
          BY <4>1, <4>2, <4>4, <4>5 DEF Rpc!Serve
        <4> QED
          BY <4>6
      <3> QED
        BY <3>4, <3>5
    <2>2. CASE \A s \in Senders : pc[s] # "p_cread"
      BY <1>13, <2>2 DEF RecvReply, Rpc!rpcVars
    <2> QED
      BY <2>1, <2>2
  <1>14. ASSUME RecvPost PROVE UNCHANGED Rpc!rpcVars
    BY <1>14 DEF RecvPost, ipc_sem_v, Rpc!rpcVars
  <1>15. ASSUME RecvStop PROVE UNCHANGED Rpc!rpcVars
    BY <1>15 DEF RecvStop, Rpc!rpcVars
  <1>16. ASSUME Destroy PROVE Rpc!Remove
    BY <1>16 DEF Destroy, Rpc!Remove
  <1>17. ASSUME UNCHANGED vars PROVE UNCHANGED Rpc!rpcVars
    BY <1>17 DEF vars, Rpc!rpcVars
  <1> QED
    BY <1>1, <1>2, <1>3, <1>4, <1>5, <1>6, <1>7, <1>8, <1>9, <1>10, <1>11,
       <1>12, <1>13, <1>14, <1>15, <1>16, <1>17
       DEF Next, SendStep, RecvStep, Rpc!RpcNext

\* With reliable senders the semaphore protocol implements RpcChannel: every
\* call is taken by itself, served once and answered with its own answer.
THEOREM Refinement ==
  ASSUME ReliableSenders
  PROVE  Spec => ImplementsRpc
PROOF
  <1>1. IInv /\ IInv' /\ [Next]_vars => [Rpc!RpcNext]_(Rpc!rpcVars)
    BY RpcStep
  <1> QED
    BY Inductive, RpcInitially, <1>1, PTL DEF Spec, ImplementsRpc, Rpc!RpcSpec
============================================================================
