------------------------------ MODULE IpcCmd ------------------------------
(***************************************************************************)
(* One ipc_cmd channel of mem_share (src/ipc_cmd.c over src/ipc_sem.c): a  *)
(* System V semaphore set {SEND, C_READ, S_READ} and a shared buffer.  Any *)
(* number of sending processes call ipc_send_cmd; one receiving process    *)
(* runs ipc_recv_cmd in a loop (pc_server_run, pc_client_run).  Every      *)
(* semop and every callback is a step of its own.  A process may exit      *)
(* anywhere, and a blocked semop may be interrupted (EINTR): the code      *)
(* restarts neither.                                                       *)
(***************************************************************************)
EXTENDS Naturals

CONSTANTS Senders,   \* processes that call ipc_send_cmd on this channel
          MaxCalls,  \* bound: how many calls each of them makes
          Faults     \* which of FaultKinds this instance allows

\* exit: a sender's process ends at any point.  eintr: a signal interrupts a
\* sender blocked in semop.  sigint: the receiver is stopped by its signal
\* handler.  destroy: the owner removes the channel while the receiver runs
\* (destroy_remote_server, on CMD_CLOSE_SERVER).
FaultKinds == {"exit", "eintr", "sigint", "destroy"}

ASSUME MaxCallsAssumption == MaxCalls \in Nat
ASSUME FaultsAssumption == Faults \subseteq FaultKinds

SEND   == 0   \* SEM_NSEM_SEND: the right to use the buffer
C_READ == 1   \* SEM_NSEM_C_READ: a response is ready
S_READ == 2   \* SEM_NSEM_S_READ: a request is ready

VARIABLES sem,      \* values of the three semaphores
          semadj,   \* each process's SEM_UNDO adjustment of SEND
          removed,  \* the semaphore set has been removed (IPC_RMID)
          buf,      \* contents of the shared memory
          pc,       \* where each sender is in ipc_send_cmd
          calls,    \* number of calls each sender has begun
          got,      \* what response_cb last copied out of buf
          ans,      \* what the last successful call of each sender got
          rpc,      \* where the receiver is in ipc_recv_cmd
          req,      \* what the receiver's callback read
          lost      \* history: posted requests whose caller stopped waiting

sendVars == <<semadj, pc, calls, got, ans>>
recvVars == <<rpc, req>>
vars == <<sem, semadj, removed, buf, pc, calls, got, ans, rpc, req, lost>>

ZeroMsg == [kind |-> "zero"]   \* a fresh segment is filled with zeros
Req(s, n) == [kind |-> "req", from |-> s, n |-> n]
Rsp(s, n) == [kind |-> "rsp", from |-> s, n |-> n]
Failed == [kind |-> "failed"]  \* CMD_FAILED, to what is not a request

SendPc == {"idle", "p_send", "request", "v_sread", "p_cread", "response",
           "v_send", "dead"}
RecvPc == {"p_sread", "read", "reply", "v_cread", "stopped"}

Message ==
  {ZeroMsg, Failed} \cup [kind : {"req", "rsp"}, from : Senders, n : Nat]

\* The semaphores after cmd_sem_value {1, 0, 0} has been set.
Init ==
  /\ sem = [i \in {SEND, C_READ, S_READ} |-> IF i = SEND THEN 1 ELSE 0]
  /\ semadj = [s \in Senders |-> 0]
  /\ removed = FALSE
  /\ buf = ZeroMsg
  /\ pc = [s \in Senders |-> "idle"]
  /\ calls = [s \in Senders |-> 0]
  /\ got = [s \in Senders |-> ZeroMsg]
  /\ ans = [s \in Senders |-> ZeroMsg]
  /\ rpc = "p_sread"
  /\ req = ZeroMsg
  /\ lost = 0

-----------------------------------------------------------------------------
\* semop(2) on the set: it fails once the set is removed, and P blocks at 0.

ipc_sem_v(i) == ~removed /\ sem' = [sem EXCEPT ![i] = @ + 1]

ipc_sem_p(i) == ~removed /\ sem[i] > 0 /\ sem' = [sem EXCEPT ![i] = @ - 1]

\* Mutant: sem_flg = 0 in the V that gives SEND back.
ipc_sem_v_undo_NoFlag(s, i) == ipc_sem_v(i) /\ semadj' = semadj

ipc_sem_v_undo(s, i) ==
  /\ ipc_sem_v(i)
  /\ semadj' = [semadj EXCEPT ![s] = @ - 1]

\* Mutant: sem_flg = 0 in the P that takes SEND.
ipc_sem_p_undo_NoFlag(s, i) == ipc_sem_p(i) /\ semadj' = semadj

ipc_sem_p_undo(s, i) ==
  /\ ipc_sem_p(i)
  /\ semadj' = [semadj EXCEPT ![s] = @ + 1]

-----------------------------------------------------------------------------
\* ipc_send_cmd, statement by statement.

Goto(s, l) == pc' = [pc EXCEPT ![s] = l]

SendBegin(s) ==
  /\ pc[s] = "idle"
  /\ calls[s] < MaxCalls
  /\ Goto(s, "p_send")
  /\ calls' = [calls EXCEPT ![s] = @ + 1]
  /\ UNCHANGED <<sem, semadj, removed, buf, got, ans, recvVars, lost>>

\* Mutant: the result of the P on SEND is ignored.
SendAcquire_Unchecked(s) ==
  /\ pc[s] = "p_send"
  /\ Goto(s, "request")
  /\ UNCHANGED <<sem, semadj, removed, buf, calls, got, ans, recvVars, lost>>

SendAcquire(s) ==
  /\ pc[s] = "p_send"
  /\ ipc_sem_p_undo(s, SEND)
  /\ Goto(s, "request")
  /\ UNCHANGED <<removed, buf, calls, got, ans, recvVars, lost>>

SendRequestCb(s) ==
  /\ pc[s] = "request"
  /\ buf' = Req(s, calls[s])
  /\ Goto(s, "v_sread")
  /\ UNCHANGED <<sem, semadj, removed, calls, got, ans, recvVars, lost>>

SendPost(s) ==
  /\ pc[s] = "v_sread"
  /\ ipc_sem_v(S_READ)
  /\ Goto(s, "p_cread")
  /\ UNCHANGED <<semadj, removed, buf, calls, got, ans, recvVars, lost>>

\* Mutant: the sender does not wait for the response.
SendAwait_NoWait(s) ==
  /\ pc[s] = "p_cread"
  /\ Goto(s, "response")
  /\ UNCHANGED <<sem, semadj, removed, buf, calls, got, ans, recvVars, lost>>

SendAwait(s) ==
  /\ pc[s] = "p_cread"
  /\ ipc_sem_p(C_READ)
  /\ Goto(s, "response")
  /\ UNCHANGED <<semadj, removed, buf, calls, got, ans, recvVars, lost>>

SendResponseCb(s) ==
  /\ pc[s] = "response"
  /\ got' = [got EXCEPT ![s] = buf]
  /\ Goto(s, "v_send")
  /\ UNCHANGED <<sem, semadj, removed, buf, calls, ans, recvVars, lost>>

SendRelease(s) ==
  /\ pc[s] = "v_send"
  /\ ipc_sem_v_undo(s, SEND)
  /\ ans' = [ans EXCEPT ![s] = got[s]]
  /\ Goto(s, "idle")
  /\ UNCHANGED <<removed, buf, calls, got, recvVars, lost>>

\* Mutant: a call gives up on a channel that is still there.
SendFail_Impatient(s) ==
  /\ pc[s] \in {"p_send", "v_sread", "p_cread", "v_send"}
  /\ Goto(s, "idle")
  /\ UNCHANGED <<sem, semadj, removed, buf, calls, got, ans, recvVars, lost>>

\* The four early returns of ipc_send_cmd: the set is gone (EIDRM, EINVAL).
SendFail(s) ==
  /\ removed
  /\ pc[s] \in {"p_send", "v_sread", "p_cread", "v_send"}
  /\ Goto(s, "idle")
  /\ UNCHANGED <<sem, semadj, removed, buf, calls, got, ans, recvVars, lost>>

\* A signal interrupts a blocked P.  ipc_send_cmd returns at once: before
\* SEND is taken, or with SEND still held and the request still posted.
SendInterrupted(s) ==
  /\ "eintr" \in Faults
  /\ ~removed
  /\ \/ pc[s] = "p_send" /\ sem[SEND] = 0 /\ lost' = lost
     \/ pc[s] = "p_cread" /\ sem[C_READ] = 0 /\ lost' = lost + 1
  /\ Goto(s, "idle")
  /\ UNCHANGED <<sem, semadj, removed, buf, calls, got, ans, recvVars>>

\* The process ends: the kernel applies its SEM_UNDO adjustment to SEND and
\* nothing else.
SendExit(s) ==
  /\ "exit" \in Faults
  /\ pc[s] # "dead"
  /\ Goto(s, "dead")
  /\ IF removed THEN sem' = sem
                ELSE sem' = [sem EXCEPT ![SEND] = @ + semadj[s]]
  /\ semadj' = [semadj EXCEPT ![s] = 0]
  /\ lost' = IF pc[s] = "p_cread" /\ ~removed THEN lost + 1 ELSE lost
  /\ UNCHANGED <<removed, buf, calls, got, ans, recvVars>>

-----------------------------------------------------------------------------
\* ipc_recv_cmd, called in a loop until it fails.

RecvWait ==
  /\ rpc = "p_sread"
  /\ ipc_sem_p(S_READ)
  /\ rpc' = "read"
  /\ UNCHANGED <<sendVars, removed, buf, req, lost>>

\* The callback looks at the command in the buffer ...
RecvRead ==
  /\ rpc = "read"
  /\ req' = buf
  /\ rpc' = "reply"
  /\ UNCHANGED <<sem, sendVars, removed, buf, lost>>

\* Mutant: ipc_recv_cmd returns without V(C_READ) on an unknown command.
RecvReply_EarlyReturn ==
  /\ rpc = "reply"
  /\ buf' = IF req.kind = "req" THEN Rsp(req.from, req.n) ELSE buf
  /\ rpc' = IF req.kind = "req" THEN "v_cread" ELSE "p_sread"
  /\ UNCHANGED <<sem, sendVars, removed, req, lost>>

\* ... and overwrites it with the answer.  What is not a request the server's
\* callback leaves as it is, and a client's answers with a failure.
RecvReply ==
  /\ rpc = "reply"
  /\ \/ req.kind = "req" /\ buf' = Rsp(req.from, req.n)
     \/ req.kind # "req" /\ buf' \in {buf, Failed}
  /\ rpc' = "v_cread"
  /\ UNCHANGED <<sem, sendVars, removed, req, lost>>

RecvPost ==
  /\ rpc = "v_cread"
  /\ ipc_sem_v(C_READ)
  /\ rpc' = "p_sread"
  /\ UNCHANGED <<sendVars, removed, buf, req, lost>>

\* semop fails: the loop ends.  A handled signal interrupts only the P.
RecvStop ==
  /\ \/ removed /\ rpc \in {"p_sread", "v_cread"}
     \/ "sigint" \in Faults /\ rpc = "p_sread" /\ ~removed /\ sem[S_READ] = 0
  /\ rpc' = "stopped"
  /\ UNCHANGED <<sem, sendVars, removed, buf, req, lost>>

\* ipc_destroy_local_cmd.  The kernel drops the undo entries with the set;
\* attached processes keep their mapping of the segment.
Destroy ==
  /\ ~removed
  /\ rpc = "stopped" \/ "destroy" \in Faults
  /\ removed' = TRUE
  /\ semadj' = [s \in Senders |-> 0]
  /\ UNCHANGED <<sem, buf, pc, calls, got, ans, recvVars, lost>>

-----------------------------------------------------------------------------
SendStep(s) ==
  \/ SendAcquire(s) \/ SendRequestCb(s) \/ SendPost(s) \/ SendAwait(s)
  \/ SendResponseCb(s) \/ SendRelease(s) \/ SendFail(s)

RecvStep == RecvWait \/ RecvRead \/ RecvReply \/ RecvPost \/ RecvStop

Next ==
  \/ \E s \in Senders :
       SendBegin(s) \/ SendStep(s) \/ SendInterrupted(s) \/ SendExit(s)
  \/ RecvStep
  \/ Destroy

Spec == Init /\ [][Next]_vars

\* A process that can run does run.  Waiters of a System V semaphore are
\* queued, so one that keeps being passed over is eventually served: strong
\* fairness of the two P operations of a sender.  The process whose receive
\* loop ended goes on to destroy the channel (pc_server_run's caller).
Fairness ==
  /\ \A s \in Senders : /\ WF_vars(SendStep(s))
                        /\ SF_vars(SendAcquire(s))
                        /\ SF_vars(SendAwait(s))
  /\ WF_vars(RecvWait \/ RecvRead \/ RecvReply \/ RecvPost)
  /\ WF_vars(removed /\ RecvStop)
  /\ WF_vars(rpc = "stopped" /\ Destroy)

FairSpec == Spec /\ Fairness

-----------------------------------------------------------------------------
Holding(s) == semadj[s] = 1
InSection(s) == pc[s] \in {"request", "v_sread", "p_cread", "response", "v_send"}
Busy == rpc \in {"read", "reply", "v_cread"}
One(b) == IF b THEN 1 ELSE 0

TypeOK ==
  /\ sem \in [{SEND, C_READ, S_READ} -> Nat]
  /\ semadj \in [Senders -> {0, 1}]
  /\ removed \in BOOLEAN
  /\ buf \in Message
  /\ pc \in [Senders -> SendPc]
  /\ calls \in [Senders -> 0..MaxCalls]
  /\ got \in [Senders -> Message]
  /\ ans \in [Senders -> Message]
  /\ rpc \in RecvPc
  /\ req \in Message
  /\ lost \in Nat

\* SEND is a lock that survives the death of its holder: as long as the set
\* exists, either its value is 1 and no process has an undo entry, or it is 0
\* and exactly one has; and whoever is between P(SEND) and V(SEND) is that one.
SendLock ==
  ~removed =>
    /\ sem[SEND] = 1 => \A s \in Senders : ~Holding(s)
    /\ sem[SEND] # 1 => sem[SEND] = 0 /\ \E s \in Senders : Holding(s)
    /\ \A s, t \in Senders : Holding(s) /\ Holding(t) => s = t
    /\ \A s \in Senders : InSection(s) => Holding(s)

\* No request and no response is lost or invented between the two sides: the
\* posted S_READ and C_READ and the request in the callback's hands add up to
\* the caller that waits and the callers that stopped waiting.
TokensConserved ==
  ~removed =>
    sem[S_READ] + sem[C_READ] + One(Busy)
      = One(\E s \in Senders : pc[s] = "p_cread") + lost

\* As long as no caller has abandoned a posted request, the callbacks of the
\* two sides never run on the shared buffer at the same time.
CallbacksExclusive ==
  lost = 0 =>
    \A s \in Senders :
      pc[s] \in {"request", "response"} =>
        /\ rpc \notin {"read", "reply"}
        /\ \A t \in Senders \ {s} : pc[t] \notin {"request", "response"}

\* ... and every call that gets to its end got the answer to its own request.
OwnAnswer ==
  lost = 0 =>
    \A s \in Senders : pc[s] = "v_send" => got[s] = Rsp(s, calls[s])

\* Every call returns, or its process has ended, with processes that may die
\* anywhere and a receiver that may be stopped; unless a process that was
\* interrupted in its wait for the answer has left ipc_send_cmd with SEND.
CallReturns ==
  \A s \in Senders :
    pc[s] = "p_send" ~> \/ pc[s] \in {"idle", "dead"}
                        \/ \E t \in Senders : Holding(t) /\ ~InSection(t)

-----------------------------------------------------------------------------
\* The channel as its callers see it.  A request has been served when its
\* answer is in the buffer.
RpcState(s) ==
  CASE pc[s] \in {"idle", "dead"} -> "idle"
    [] pc[s] = "p_send" -> "waiting"
    [] pc[s] \in {"request", "v_sread"} -> "turn"
    [] pc[s] = "p_cread" ->
         IF buf = Rsp(s, calls[s]) THEN "served" ELSE "turn"
    [] pc[s] \in {"response", "v_send"} -> "served"

RpcAnswer(s) ==
  IF ans[s] \in {ZeroMsg, Failed} THEN <<>> ELSE <<ans[s].from, ans[s].n>>

Rpc == INSTANCE RpcChannel WITH
  st <- [s \in Senders |-> RpcState(s)],
  seq <- calls,
  ans <- [s \in Senders |-> RpcAnswer(s)],
  open <- ~removed

\* As long as senders neither die nor are interrupted, the channel keeps the
\* promise of RpcChannel: calls one at a time, each with its own answer.
ImplementsRpc == Rpc!RpcSpec

-----------------------------------------------------------------------------
\* The inductive strengthening.

\* Also after removal, only one sender is between P(SEND) and V(SEND).
OneSection ==
  \A s, t \in Senders : InSection(s) /\ InSection(t) => s = t

\* While nothing is abandoned, the receiver works only for a waiting sender.
BusyOnlyFor ==
  lost = 0 =>
    \A s \in Senders :
      pc[s] \in {"request", "v_sread", "response", "v_send"} => ~Busy

\* While nothing is abandoned, the buffer holds the request or the answer of
\* the sender in the section, depending on how far the exchange has got.
BufferContents ==
  lost = 0 =>
    \A s \in Senders :
      /\ pc[s] = "v_sread" => buf = Req(s, calls[s])
      /\ pc[s] = "p_cread" =>
           /\ rpc = "read" => buf = Req(s, calls[s])
           /\ rpc = "reply" => req = Req(s, calls[s])
           /\ rpc = "v_cread" => buf = Rsp(s, calls[s])
           /\ ~removed /\ sem[S_READ] > 0 => buf = Req(s, calls[s])
           /\ ~removed /\ sem[C_READ] > 0 => buf = Rsp(s, calls[s])
      /\ pc[s] = "response" => buf = Rsp(s, calls[s])
      /\ pc[s] = "v_send" => got[s] = Rsp(s, calls[s])

\* Only an exit or an interrupted wait abandons a request.
LostOnlyByFault == lost > 0 => "exit" \in Faults \/ "eintr" \in Faults

IInv ==
  /\ TypeOK
  /\ SendLock
  /\ TokensConserved
  /\ OneSection
  /\ BusyOnlyFor
  /\ BufferContents
  /\ LostOnlyByFault
============================================================================
