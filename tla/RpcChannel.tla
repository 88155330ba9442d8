---------------------------- MODULE RpcChannel ----------------------------
(***************************************************************************)
(* What an ipc_cmd channel of mem_share promises its callers: calls are    *)
(* taken one at a time, the callback of the receiving side runs once for   *)
(* each, the caller gets the answer to its own request, and a call fails   *)
(* only because the channel has been removed.  ipc_cmd.h states the        *)
(* interface (ipc_send_cmd with a request and a response callback,         *)
(* ipc_recv_cmd with one callback); IpcCmd is shown to implement this.     *)
(***************************************************************************)
EXTENDS Naturals

CONSTANTS Senders,   \* processes that may call ipc_send_cmd on the channel
          MaxCalls   \* how many calls each of them makes

VARIABLES st,     \* progress of each sender's current call
          seq,    \* number of the sender's current (or last) call
          ans,    \* the request answered by the last successful call
          open    \* the channel has not been removed

rpcVars == <<st, seq, ans, open>>

RpcInit ==
  /\ st = [s \in Senders |-> "idle"]
  /\ seq = [s \in Senders |-> 0]
  /\ ans = [s \in Senders |-> <<>>]
  /\ open = TRUE

Call(s) ==
  /\ st[s] = "idle"
  /\ seq[s] < MaxCalls
  /\ st' = [st EXCEPT ![s] = "waiting"]
  /\ seq' = [seq EXCEPT ![s] = @ + 1]
  /\ UNCHANGED <<ans, open>>

\* The sender becomes the only one whose request is on the channel.
Acquire(s) ==
  /\ open
  /\ st[s] = "waiting"
  /\ \A t \in Senders : st[t] \notin {"turn", "served"}
  /\ st' = [st EXCEPT ![s] = "turn"]
  /\ UNCHANGED <<seq, ans, open>>

\* The receiving side runs its callback on the request.
Serve(s) ==
  /\ st[s] = "turn"
  /\ st' = [st EXCEPT ![s] = "served"]
  /\ UNCHANGED <<seq, ans, open>>

Return(s) ==
  /\ open
  /\ st[s] = "served"
  /\ st' = [st EXCEPT ![s] = "idle"]
  /\ ans' = [ans EXCEPT ![s] = <<s, seq[s]>>]
  /\ UNCHANGED <<seq, open>>

Fail(s) ==
  /\ ~open
  /\ st[s] # "idle"
  /\ st' = [st EXCEPT ![s] = "idle"]
  /\ UNCHANGED <<seq, ans, open>>

Remove ==
  /\ open
  /\ open' = FALSE
  /\ UNCHANGED <<st, seq, ans>>

RpcNext ==
  \/ \E s \in Senders :
       Call(s) \/ Acquire(s) \/ Serve(s) \/ Return(s) \/ Fail(s)
  \/ Remove

RpcSpec == RpcInit /\ [][RpcNext]_rpcVars
============================================================================
