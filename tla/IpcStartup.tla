----------------------------- MODULE IpcStartup ----------------------------
(***************************************************************************)
(* How a server and its clients meet under a fixed key (ipc_create_cmd,    *)
(* ipc_cmd_remote_init by keys, ipc_destroy_local_cmd of src/ipc_cmd.c     *)
(* with src/ipc_sem.c and src/ipc_shm.c).  A lookup does not ask whether   *)
(* the object exists: it tries to create it, removes it again if that      *)
(* worked, and otherwise opens it, with IPC_CREAT once more.  The server   *)
(* creates the set, then the segment, and sets the semaphores one by one.  *)
(*                                                                         *)
(* Servers may overlap: one that stops removes its set first, and while it *)
(* still has its segment to remove the next may create a set.  No more than*)
(* that: a server whose set exists makes every other start fail, and one   *)
(* that finds the old segment gives up.                                    *)
(***************************************************************************)
EXTENDS Integers

CONSTANTS Clients,    \* processes that look the server up
          MaxObj,     \* bound: objects of each kind the kernel creates
          MaxTries,   \* bound: lookups of each client
          MaxStarts,  \* bound: starts of the server
          Faults      \* subset of {"stop", "kill"}

ASSUME StartupAssumption ==
  /\ MaxObj \in Nat /\ MaxTries \in Nat /\ MaxStarts \in Nat
  /\ Faults \subseteq {"stop", "kill"}

SEND   == 0
C_READ == 1
S_READ == 2
\* Mutants: two clients are let in; nobody is.
cmd_sem_value_Two == [i \in 0..2 |-> IF i = SEND THEN 2 ELSE 0]
cmd_sem_value_Zero == [i \in 0..2 |-> 0]
cmd_sem_value == [i \in 0..2 |-> IF i = SEND THEN 1 ELSE 0]

VARIABLES
  semKey, shmKey,    \* the object the kernel finds under each key, 0: none
  semLive, shmLive,  \* objects that exist
  nsem, nshm,        \* objects created so far
  sem,               \* values of the three semaphores of each set
  spc, ssem, sshm,   \* the server: where it is, its set, its segment
  starts,
  closing,           \* the segment a stopped server has yet to remove, or 0
  cpc, csem, cshm,   \* the clients: where they are, the set and segment found
  mapped,            \* the client's buf points to its segment
  tries,
  \* history
  left,              \* objects nobody will remove: left by a killed server or
                     \* lookup, or created by a lookup's second get
  lost               \* clients whose request the SETVAL of S_READ wiped out

serverVars == <<spc, ssem, sshm, starts, closing>>
clientVars == <<cpc, csem, cshm, mapped, tries>>
semVars == <<semKey, semLive, nsem, sem>>
shmVars == <<shmKey, shmLive, nshm>>
vars == <<semVars, shmVars, serverVars, clientVars, left, lost>>

Init ==
  /\ semKey = 0 /\ shmKey = 0
  /\ semLive = {} /\ shmLive = {}
  /\ nsem = 0 /\ nshm = 0
  /\ sem = [o \in 1..MaxObj |-> [i \in 0..2 |-> 0]]
  /\ spc = "off" /\ ssem = 0 /\ sshm = 0 /\ starts = 0 /\ closing = 0
  /\ cpc = [c \in Clients |-> "idle"]
  /\ csem = [c \in Clients |-> 0]
  /\ cshm = [c \in Clients |-> 0]
  /\ mapped = [c \in Clients |-> FALSE]
  /\ tries = [c \in Clients |-> 0]
  /\ left = [sem |-> {}, shm |-> {}]
  /\ lost = {}

-----------------------------------------------------------------------------
\* The kernel.  A new set has all its semaphores at 0.

NewSem ==
  /\ nsem < MaxObj
  /\ nsem' = nsem + 1
  /\ semKey' = nsem'
  /\ semLive' = semLive \cup {nsem'}
  /\ sem' = sem

NewShm ==
  /\ nshm < MaxObj
  /\ nshm' = nshm + 1
  /\ shmKey' = nshm'
  /\ shmLive' = shmLive \cup {nshm'}

RmSem(o) ==
  /\ semLive' = semLive \ {o}
  /\ semKey' = IF semKey = o THEN 0 ELSE semKey
  /\ UNCHANGED <<nsem, sem>>

RmShm(o) ==
  /\ shmLive' = shmLive \ {o}
  /\ shmKey' = IF shmKey = o THEN 0 ELSE shmKey
  /\ UNCHANGED nshm

-----------------------------------------------------------------------------
\* The server: ipc_create_cmd.

HasShm == spc \in {"set0", "set1", "set2", "run", "busy"}

\* Any process may start a server, at any time.
ipc_create_sem ==
  /\ starts < MaxStarts
  /\ starts' = starts + 1
  /\ \/ semKey # 0 /\ UNCHANGED <<spc, ssem, semVars>>   \* IPC_EXCL: NULL
     \/ semKey = 0 /\ NewSem /\ spc' = "create_shm" /\ ssem' = nsem'
  /\ UNCHANGED <<sshm, shmVars, clientVars, closing, left, lost>>

ipc_create_shm ==
  /\ spc = "create_shm"
  /\ \/ shmKey # 0 /\ spc' = "give_up" /\ UNCHANGED <<sshm, shmVars>>
     \/ shmKey = 0 /\ NewShm /\ spc' = "set0" /\ sshm' = nshm'
  /\ UNCHANGED <<ssem, starts, semVars, clientVars, closing, left, lost>>

\* Mutant: the error path does not remove the set.
GiveUp_NoCleanup ==
  /\ spc = "give_up"
  /\ spc' = "off"
  /\ UNCHANGED <<ssem, sshm, starts, semVars, shmVars, clientVars, closing, left, lost>>

\* create_shm_failed: ipc_destroy_sem.
GiveUp ==
  /\ spc = "give_up"
  /\ RmSem(ssem)
  /\ spc' = "off"
  /\ UNCHANGED <<ssem, sshm, starts, shmVars, clientVars, closing, left, lost>>

\* ipc_init_sem: one SETVAL at a time.
SetPc == <<"set0", "set1", "set2", "run">>
ipc_init_sem ==
  \E i \in 0..2 :
    /\ spc = SetPc[i + 1]
    /\ spc' = SetPc[i + 2]
    /\ sem' = [sem EXCEPT ![ssem][i] = cmd_sem_value[i]]
    /\ lost' = IF i = S_READ /\ sem[ssem][i] > 0
               THEN lost \cup {c \in Clients : cpc[c] = "wait" /\ csem[c] = ssem}
               ELSE lost
    /\ UNCHANGED <<semKey, semLive, nsem, ssem, sshm, starts, shmVars,
                   clientVars, closing, left>>

\* ipc_recv_cmd, in the loop of pc_server_run.
ServeTake ==
  /\ spc = "run"
  /\ sem[ssem][S_READ] > 0
  /\ sem' = [sem EXCEPT ![ssem][S_READ] = @ - 1]
  /\ spc' = "busy"
  /\ UNCHANGED <<semKey, semLive, nsem, ssem, sshm, starts, shmVars,
                 clientVars, closing, left, lost>>

\* Mutant: the callback returned, V(C_READ) is forgotten.
ServePost_NoPost ==
  /\ spc = "busy"
  /\ spc' = "run"
  /\ UNCHANGED <<semVars, ssem, sshm, starts, shmVars, clientVars, closing, left, lost>>

ServePost ==
  /\ spc = "busy"
  /\ sem' = [sem EXCEPT ![ssem][C_READ] = @ + 1]
  /\ spc' = "run"
  /\ UNCHANGED <<semKey, semLive, nsem, ssem, sshm, starts, shmVars,
                 clientVars, closing, left, lost>>

\* Mutant: the set is not removed.
StopSem_ShmOnly ==
  /\ "stop" \in Faults
  /\ spc = "run" /\ sem[ssem][S_READ] = 0
  /\ spc' = "off" /\ closing' = sshm
  /\ UNCHANGED <<ssem, sshm, starts, semVars, shmVars, clientVars, left, lost>>

\* SIGINT ends the loop; ipc_destroy_local_cmd removes the set ...
StopSem ==
  /\ "stop" \in Faults
  /\ spc = "run" /\ sem[ssem][S_READ] = 0
  /\ RmSem(ssem)
  /\ spc' = "off" /\ closing' = sshm
  /\ UNCHANGED <<ssem, sshm, starts, shmVars, clientVars, left, lost>>

\* ... and then the segment.
StopShm ==
  /\ closing # 0
  /\ RmShm(closing)
  /\ closing' = 0
  /\ UNCHANGED <<spc, ssem, sshm, starts, semVars, clientVars, left, lost>>

\* The server is killed: the kernel keeps its set and, once it has created one,
\* its segment.
Kill ==
  /\ "kill" \in Faults
  /\ spc # "off"
  /\ spc' = "off"
  /\ left' = [sem |-> left.sem \cup {ssem},
              shm |-> IF HasShm THEN left.shm \cup {sshm} ELSE left.shm]
  /\ UNCHANGED <<ssem, sshm, starts, closing, semVars, shmVars, clientVars, lost>>

\* The stopped server is killed before it has removed its segment.
KillClosing ==
  /\ "kill" \in Faults
  /\ closing # 0
  /\ closing' = 0
  /\ left' = [left EXCEPT !.shm = @ \cup {closing}]
  /\ UNCHANGED <<spc, ssem, sshm, starts, semVars, shmVars, clientVars, lost>>

-----------------------------------------------------------------------------
\* A client: ipc_cmd_remote_init by keys, then one ipc_send_cmd.

Goto(c, l) == cpc' = [cpc EXCEPT ![c] = l]

Lookup(c) ==
  /\ cpc[c] = "idle" /\ tries[c] < MaxTries
  /\ Goto(c, "probe_sem")
  /\ tries' = [tries EXCEPT ![c] = @ + 1]
  /\ UNCHANGED <<semVars, shmVars, serverVars, csem, cshm, mapped, left, lost>>

\* ipc_find_sem: IPC_CREAT | IPC_EXCL.
ProbeSem(c) ==
  /\ cpc[c] = "probe_sem"
  /\ \/ semKey # 0 /\ Goto(c, "get_sem") /\ UNCHANGED <<semVars, csem>>
     \/ /\ semKey = 0 /\ NewSem
        /\ csem' = [csem EXCEPT ![c] = nsem'] /\ Goto(c, "undo_sem")
  /\ UNCHANGED <<shmVars, serverVars, cshm, mapped, tries, left, lost>>

UndoSem(c) ==
  /\ cpc[c] = "undo_sem"
  /\ RmSem(csem[c])
  /\ Goto(c, "idle")
  /\ UNCHANGED <<shmVars, serverVars, csem, cshm, mapped, tries, left, lost>>

\* Mutant: the second semget asks for an existing set only, and its -1 is used.
GetSem_Unchecked(c) ==
  /\ cpc[c] = "get_sem"
  /\ csem' = [csem EXCEPT ![c] = IF semKey # 0 THEN semKey ELSE -1]
  /\ Goto(c, "probe_shm")
  /\ UNCHANGED <<semVars, shmVars, serverVars, cshm, mapped, tries, left, lost>>

\* ipc_find_sem: IPC_CREAT alone, which creates the set if it has gone.
GetSem(c) ==
  /\ cpc[c] = "get_sem"
  /\ \/ semKey # 0 /\ UNCHANGED <<semVars, left>>
     \/ semKey = 0 /\ NewSem /\ left' = [left EXCEPT !.sem = @ \cup {nsem'}]
  /\ csem' = [csem EXCEPT ![c] = semKey']
  /\ Goto(c, "probe_shm")
  /\ UNCHANGED <<shmVars, serverVars, cshm, mapped, tries, lost>>

\* ipc_find_shm_by_key does the same with the segment.
ProbeShm(c) ==
  /\ cpc[c] = "probe_shm"
  /\ \/ shmKey # 0 /\ Goto(c, "get_shm") /\ UNCHANGED <<shmVars, cshm>>
     \/ /\ shmKey = 0 /\ NewShm
        /\ cshm' = [cshm EXCEPT ![c] = nshm'] /\ Goto(c, "undo_shm")
  /\ UNCHANGED <<semVars, serverVars, csem, mapped, tries, left, lost>>

UndoShm(c) ==
  /\ cpc[c] = "undo_shm"
  /\ RmShm(cshm[c])
  /\ Goto(c, "idle")
  /\ UNCHANGED <<semVars, serverVars, csem, cshm, mapped, tries, left, lost>>

GetShm(c) ==
  /\ cpc[c] = "get_shm"
  /\ \/ shmKey # 0 /\ UNCHANGED <<shmVars, left>>
     \/ shmKey = 0 /\ NewShm /\ left' = [left EXCEPT !.shm = @ \cup {nshm'}]
  /\ cshm' = [cshm EXCEPT ![c] = shmKey']
  /\ Goto(c, "shmat")
  /\ UNCHANGED <<semVars, serverVars, csem, mapped, tries, lost>>

\* A failing shmat is not noticed: buf < 0 is never true of a pointer.
Shmat(c) ==
  /\ cpc[c] = "shmat"
  /\ mapped' = [mapped EXCEPT ![c] = cshm[c] \in shmLive]
  /\ Goto(c, "p_send")
  /\ UNCHANGED <<semVars, shmVars, serverVars, csem, cshm, tries, left, lost>>

\* ipc_send_cmd: P(SEND) ...
Acquire(c) ==
  /\ cpc[c] = "p_send"
  /\ csem[c] \in semLive /\ sem[csem[c]][SEND] > 0
  /\ sem' = [sem EXCEPT ![csem[c]][SEND] = @ - 1]
  /\ Goto(c, "request")
  /\ UNCHANGED <<semKey, semLive, nsem, shmVars, serverVars, csem, cshm,
                 mapped, tries, left, lost>>

\* ... request_cb writes to buf, V(S_READ) ...
Post(c) ==
  /\ cpc[c] = "request"
  /\ csem[c] \in semLive
  /\ sem' = [sem EXCEPT ![csem[c]][S_READ] = @ + 1]
  /\ Goto(c, "wait")
  /\ UNCHANGED <<semKey, semLive, nsem, shmVars, serverVars, csem, cshm,
                 mapped, tries, left, lost>>

\* ... P(C_READ), response_cb, V(SEND).
Return(c) ==
  /\ cpc[c] = "wait"
  /\ csem[c] \in semLive /\ sem[csem[c]][C_READ] > 0
  /\ sem' = [sem EXCEPT ![csem[c]][C_READ] = @ - 1, ![csem[c]][SEND] = @ + 1]
  /\ Goto(c, "idle")
  /\ mapped' = [mapped EXCEPT ![c] = FALSE]
  /\ UNCHANGED <<semKey, semLive, nsem, shmVars, serverVars, csem, cshm,
                 tries, left, lost>>

\* semop on a set that has been removed.
Fail(c) ==
  /\ cpc[c] \in {"p_send", "request", "wait"}
  /\ csem[c] \notin semLive
  /\ Goto(c, "idle")
  /\ mapped' = [mapped EXCEPT ![c] = FALSE]
  /\ lost' = lost \ {c}
  /\ UNCHANGED <<semVars, shmVars, serverVars, csem, cshm, tries, left>>

\* A process is killed between its probe and the removal of what that created.
\* (Elsewhere in a lookup it leaves nothing; IpcCmd has the deaths of senders.)
KillLookup(c) ==
  /\ "kill" \in Faults
  /\ \/ cpc[c] = "undo_sem" /\ left' = [left EXCEPT !.sem = @ \cup {csem[c]}]
     \/ cpc[c] = "undo_shm" /\ left' = [left EXCEPT !.shm = @ \cup {cshm[c]}]
  /\ Goto(c, "idle")
  /\ UNCHANGED <<semVars, shmVars, serverVars, csem, cshm, mapped, tries, lost>>

-----------------------------------------------------------------------------
ServerStep ==
  \/ ipc_create_shm \/ GiveUp \/ ipc_init_sem \/ ServeTake \/ ServePost

ClientStep(c) ==
  \/ ProbeSem(c) \/ UndoSem(c) \/ GetSem(c) \/ ProbeShm(c) \/ UndoShm(c)
  \/ GetShm(c) \/ Shmat(c) \/ Acquire(c) \/ Post(c) \/ Return(c) \/ Fail(c)

Next ==
  \/ ipc_create_sem \/ ServerStep \/ StopSem \/ Kill \/ StopShm \/ KillClosing
  \/ \E c \in Clients : Lookup(c) \/ ClientStep(c) \/ KillLookup(c)

Spec == Init /\ [][Next]_vars

FairSpec ==
  /\ Spec
  /\ WF_vars(ServerStep) /\ WF_vars(StopShm)
  /\ \A c \in Clients : WF_vars(ClientStep(c)) /\ SF_vars(Acquire(c))

-----------------------------------------------------------------------------
Initialised == spc \in {"run", "busy"}

TypeOK ==
  /\ semKey \in {0} \cup semLive /\ shmKey \in {0} \cup shmLive
  /\ semLive \subseteq 1..nsem /\ shmLive \subseteq 1..nshm
  /\ nsem \in 0..MaxObj /\ nshm \in 0..MaxObj
  /\ sem \in [1..MaxObj -> [0..2 -> Nat]]
  /\ spc \in {"off", "create_shm", "give_up", "set0", "set1", "set2", "run",
              "busy"}
  /\ ssem \in 0..nsem /\ sshm \in 0..nshm /\ closing \in 0..nshm
  /\ starts \in 0..MaxStarts
  /\ cpc \in [Clients -> {"idle", "probe_sem", "undo_sem", "get_sem",
                          "probe_shm", "undo_shm", "get_shm", "shmat",
                          "p_send", "request", "wait"}]
  /\ csem \in [Clients -> 0..nsem] /\ cshm \in [Clients -> 0..nshm]
  /\ mapped \in [Clients -> BOOLEAN]
  /\ tries \in [Clients -> 0..MaxTries]
  /\ left \in [sem : SUBSET (1..nsem), shm : SUBSET (1..nshm)]
  /\ lost \subseteq Clients

\* Every object in the kernel has somebody who is going to remove it: the
\* server that created it, one that is stopping, or the lookup whose probe it
\* is.  The exceptions are what a killed process leaves and what the second
\* semget or shmget of a lookup created because the object went away after the
\* first.  Those keep every later server from starting: while one runs there
\* are none.
NoLeaks ==
  /\ \A o \in semLive :
       \/ o \in left.sem
       \/ o = ssem /\ spc # "off"
       \/ \E c \in Clients : cpc[c] = "undo_sem" /\ csem[c] = o
  /\ \A o \in shmLive :
       \/ o \in left.shm
       \/ o = sshm /\ HasShm
       \/ o = closing
       \/ \E c \in Clients : cpc[c] = "undo_shm" /\ cshm[c] = o
  /\ HasShm => left = [sem |-> {}, shm |-> {}]

\* request_cb and response_cb never run on a buffer that is not mapped.
NoWildAccess ==
  \A c \in Clients :
    cpc[c] \in {"request", "wait"} /\ csem[c] \in semLive => mapped[c]

\* That much is true: a client that got SEND and has looked up the segment of
\* the last server is attached to it.  An attach of the segment that came too
\* late goes unnoticed, but the segment is removed after the set, and such a
\* client fails in P(SEND).  It says nothing of a client that has SEND and found
\* the segment of the server before, on its way out, or another's probe.
NoWildServer ==
  \A c \in Clients :
    /\ cpc[c] \in {"request", "wait"} /\ csem[c] \in semLive
    /\ cshm[c] = sshm
    => mapped[c]

\* A request posted to a server is not lost: it is still posted, in the
\* server's hands, or answered.  The one exception is a request that was posted
\* before the server's SETVAL of S_READ, which wipes it out.
RequestKept ==
  Initialised =>
    \A c \in Clients \ lost :
      cpc[c] = "wait" /\ csem[c] = ssem =>
        sem[ssem][S_READ] + sem[ssem][C_READ] > 0 \/ spc = "busy"

\* The set of a running server is always found under its key, and never two
\* clients are in an exchange on it.
OneExchange ==
  Initialised =>
    /\ ssem = semKey /\ sshm = shmKey
    /\ \A c, d \in Clients :
         /\ cpc[c] \in {"request", "wait"} /\ csem[c] = ssem
         /\ cpc[d] \in {"request", "wait"} /\ csem[d] = ssem
         => c = d

\* A client that looked up a server whose semaphores are set gets its answer
\* or an error, unless the server is killed or has wiped out a request, whose
\* sender then keeps SEND.
LookupServed ==
  \A c \in Clients :
    (cpc[c] = "p_send" /\ csem[c] = ssem /\ Initialised)
      ~> (cpc[c] = "idle" \/ lost # {} \/ ssem \in left.sem)
============================================================================
