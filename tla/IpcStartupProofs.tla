-------------------------- MODULE IpcStartupProofs -------------------------
(***************************************************************************)
(* Proofs about IpcStartup for any number of clients, lookups, starts and  *)
(* objects and any faults: what the kernel keeps has an owner, a running   *)
(* server is found under its key and serves one client at a time, no       *)
(* request posted to it is lost except by its own SETVAL, and no client    *)
(* writes through a failed attach of its segment.                          *)
(*                                                                         *)
(* The argument.  All sets are created under one key, so at most one is    *)
(* alive, and so it is with the segments.  Whoever created the one that is *)
(* alive owns it: a server, one lookup that is going to remove it, or      *)
(* nobody any more (left).  Only the owner removes it.  SEND of a set is   *)
(* raised by the server only, and its segment outlives its set: while the  *)
(* server's segment is gone, every set there is is quiet.                  *)
(***************************************************************************)
EXTENDS IpcStartup, TLAPS

\* The states in which the server has a set to remove.
HasSem == {"create_shm", "give_up", "set0", "set1", "set2", "run", "busy"}

\* Who owns the set that is alive.
SemOwner ==
  /\ semLive \subseteq {semKey}
  /\ left.sem \subseteq semLive
  /\ spc \in HasSem => /\ ssem = semKey /\ semKey \in semLive \ left.sem
                       /\ \A c \in Clients : cpc[c] # "undo_sem"
  /\ spc = "off" /\ ssem \in semLive => ssem \in left.sem
  /\ \A c \in Clients : cpc[c] = "undo_sem" =>
       /\ csem[c] = semKey /\ semKey \in semLive \ left.sem
       /\ \A d \in Clients : cpc[d] = "undo_sem" => d = c
  /\ \A o \in semLive : \/ o \in left.sem \/ spc \in HasSem
                        \/ \E c \in Clients : cpc[c] = "undo_sem"

\* Who owns the segment that is alive.
ShmOwner ==
  /\ shmLive \subseteq {shmKey}
  /\ left.shm \subseteq shmLive
  /\ HasShm => sshm = shmKey /\ closing = 0
  /\ closing # 0 => sshm = closing /\ shmKey = closing
  /\ HasShm \/ closing # 0 => /\ shmKey \in shmLive \ left.shm
                             /\ \A c \in Clients : cpc[c] # "undo_shm"
  /\ ~HasShm /\ closing = 0 /\ sshm \in shmLive => sshm \in left.shm
  /\ \A c \in Clients : cpc[c] = "undo_shm" =>
       /\ cshm[c] = shmKey /\ shmKey \in shmLive \ left.shm
       /\ \A d \in Clients : cpc[d] = "undo_shm" => d = c
  /\ \A o \in shmLive : \/ o \in left.shm \/ HasShm \/ closing # 0
                        \/ \E c \in Clients : cpc[c] = "undo_shm"

\* c is in an exchange on the set o.
On(c, o) == cpc[c] \in {"request", "wait"} /\ csem[c] = o

\* Sets that do not exist yet are as the kernel will make them.
Fresh == \A o \in 1..MaxObj : o > nsem => \A i \in 0..2 : sem[o][i] = 0

\* SEND of the server's set: 0 until it is set, then 1 or held by one client.
OneHolder ==
  /\ spc \in {"create_shm", "give_up", "set0"} =>
       /\ \A i \in 0..2 : sem[ssem][i] = 0
       /\ \A c \in Clients : ~On(c, ssem)
  /\ spc \in {"set1", "set2", "run", "busy"} =>
       /\ sem[ssem][SEND] \in {0, 1}
       /\ \A c \in Clients : On(c, ssem) =>
            /\ sem[ssem][SEND] = 0
            /\ \A d \in Clients : On(d, ssem) => d = c

\* While the server's segment is gone, or about to go, nobody can get SEND.
Quiet ==
  closing # 0 \/ sshm \notin shmLive =>
    \A o \in semLive : sem[o][SEND] = 0 /\ \A c \in Clients : ~On(c, o)

\* A request that came before the SETVAL of S_READ is posted until then.
Early ==
  spc \in {"set1", "set2"} =>
    \A c \in Clients :
      cpc[c] = "wait" /\ csem[c] = ssem => sem[ssem][S_READ] > 0

\* A client whose attach of the server's segment failed ...
Late(c) == /\ cpc[c] \in {"p_send", "request", "wait"} /\ csem[c] \in semLive
           /\ cshm[c] = sshm /\ ~mapped[c]

\* ... cannot go on.
FailedAttach ==
  \A c \in Clients : Late(c) => cpc[c] = "p_send" /\ sshm \notin shmLive

IInv == /\ TypeOK /\ SemOwner /\ ShmOwner /\ Fresh /\ OneHolder /\ Quiet
        /\ Early /\ RequestKept /\ FailedAttach

\* The type invariant, by what it is about: the sets, the segments, the values
\* of the semaphores and the rest.
SemType == /\ semKey \in {0} \cup semLive /\ semLive \subseteq 1..nsem
           /\ nsem \in 0..MaxObj /\ ssem \in 0..nsem
           /\ csem \in [Clients -> 0..nsem] /\ left.sem \subseteq 1..nsem
ShmType == /\ shmKey \in {0} \cup shmLive /\ shmLive \subseteq 1..nshm
           /\ nshm \in 0..MaxObj /\ sshm \in 0..nshm /\ closing \in 0..nshm
           /\ cshm \in [Clients -> 0..nshm] /\ left.shm \subseteq 1..nshm
SemValues == sem \in [1..MaxObj -> [0..2 -> Nat]]
PcType == /\ spc \in {"off", "create_shm", "give_up", "set0", "set1", "set2",
                      "run", "busy"}
          /\ starts \in 0..MaxStarts
          /\ cpc \in [Clients -> {"idle", "probe_sem", "undo_sem", "get_sem",
                                  "probe_shm", "undo_shm", "get_shm", "shmat",
                                  "p_send", "request", "wait"}]
          /\ mapped \in [Clients -> BOOLEAN]
          /\ tries \in [Clients -> 0..MaxTries]
          /\ lost \subseteq Clients
IsLeft == left = [sem |-> left.sem, shm |-> left.shm]

\* TypeOK in these parts.
LEMMA TypeParts ==
  TypeOK <=> SemType /\ ShmType /\ SemValues /\ PcType /\ IsLeft
PROOF
  <1>1. left \in [sem : SUBSET (1..nsem), shm : SUBSET (1..nshm)] <=>
          /\ left.sem \subseteq 1..nsem /\ left.shm \subseteq 1..nshm
          /\ IsLeft
    BY DEF IsLeft
  <1> QED
    BY <1>1 DEF TypeOK, SemType, ShmType, SemValues, PcType

\* Where the processes are: every step of every process keeps its label, its
\* counters and its flags within their types.
LEMMA PcStep ==
  ASSUME PcType, [Next]_vars
  PROVE  PcType'
PROOF
  <1> USE StartupAssumption DEF serverVars, clientVars, semVars, shmVars,
     PcType
  <1>1. CASE ipc_create_sem
    BY <1>1 DEF ipc_create_sem, NewSem
  <1>2. CASE ipc_create_shm
    BY <1>2 DEF ipc_create_shm, NewShm
  <1>3. CASE GiveUp
    BY <1>3 DEF GiveUp, RmSem
  <1>4. CASE ipc_init_sem
    BY <1>4 DEF ipc_init_sem, SetPc, cmd_sem_value
  <1>5. CASE ServeTake
    BY <1>5 DEF ServeTake
  <1>6. CASE ServePost
    BY <1>6 DEF ServePost
  <1>7. CASE StopSem
    BY <1>7 DEF StopSem, RmSem
  <1>8. CASE StopShm
    BY <1>8 DEF StopShm, RmShm
  <1>9. CASE Kill
    BY <1>9 DEF Kill
  <1>10. ASSUME NEW c \in Clients, Lookup(c) PROVE PcType'
    BY <1>10 DEF Lookup, Goto
  <1>11. ASSUME NEW c \in Clients, ProbeSem(c) PROVE PcType'
    BY <1>11 DEF ProbeSem, NewSem, Goto
  <1>12. ASSUME NEW c \in Clients, UndoSem(c) PROVE PcType'
    BY <1>12 DEF UndoSem, RmSem, Goto
  <1>13. ASSUME NEW c \in Clients, GetSem(c) PROVE PcType'
    BY <1>13 DEF GetSem, NewSem, Goto
  <1>14. ASSUME NEW c \in Clients, ProbeShm(c) PROVE PcType'
    BY <1>14 DEF ProbeShm, NewShm, Goto
  <1>15. ASSUME NEW c \in Clients, UndoShm(c) PROVE PcType'
    BY <1>15 DEF UndoShm, RmShm, Goto
  <1>16. ASSUME NEW c \in Clients, GetShm(c) PROVE PcType'
    BY <1>16 DEF GetShm, NewShm, Goto
  <1>17. ASSUME NEW c \in Clients, Shmat(c) PROVE PcType'
    BY <1>17 DEF Shmat, Goto
  <1>18. ASSUME NEW c \in Clients, Acquire(c) PROVE PcType'
    BY <1>18 DEF Acquire, Goto
  <1>19. ASSUME NEW c \in Clients, Post(c) PROVE PcType'
    BY <1>19 DEF Post, Goto
  <1>20. ASSUME NEW c \in Clients, Return(c) PROVE PcType'
    BY <1>20 DEF Return, Goto
  <1>21. ASSUME NEW c \in Clients, Fail(c) PROVE PcType'
    BY <1>21 DEF Fail, Goto
  <1>22. CASE UNCHANGED vars
    BY <1>22 DEF vars
  <1>23. CASE KillClosing
    BY <1>23 DEF KillClosing
  <1>24. ASSUME NEW c \in Clients, KillLookup(c) PROVE PcType'
    BY <1>24 DEF KillLookup, Goto
  <1> QED
    BY <1>1, <1>2, <1>3, <1>4, <1>5, <1>6, <1>7, <1>8, <1>9, <1>10, <1>11,
       <1>12, <1>13, <1>14, <1>15, <1>16, <1>17, <1>18, <1>19, <1>20, <1>21,
       <1>22, <1>23, <1>24 DEF Next, ServerStep, ClientStep

\* The sets: a key, a set held and a set left are sets that were created.
LEMMA SemTypeStep ==
  ASSUME SemType, IsLeft, SemOwner, PcType, [Next]_vars
  PROVE  SemType' /\ IsLeft'
PROOF
  <1> USE StartupAssumption DEF serverVars, clientVars, semVars, shmVars,
     SemType, IsLeft
  <1>1. CASE ipc_create_sem
    BY <1>1 DEF ipc_create_sem, NewSem
  <1>2. CASE ipc_create_shm
    BY <1>2 DEF ipc_create_shm, NewShm
  <1>3. CASE GiveUp
    BY <1>3 DEF GiveUp, RmSem
  <1>4. CASE ipc_init_sem
    BY <1>4 DEF ipc_init_sem, SetPc, cmd_sem_value
  <1>5. CASE ServeTake
    BY <1>5 DEF ServeTake
  <1>6. CASE ServePost
    BY <1>6 DEF ServePost
  <1>7. CASE StopSem
    BY <1>7 DEF StopSem, RmSem
  <1>8. CASE StopShm
    BY <1>8 DEF StopShm, RmShm
  <1>9. CASE Kill
    <2>1. ssem \in 1..nsem
      BY <1>9 DEF Kill, PcType, SemOwner, HasSem
    <2> QED
      BY <1>9, <2>1 DEF Kill
  <1>10. ASSUME NEW c \in Clients, Lookup(c) PROVE SemType' /\ IsLeft'
    BY <1>10 DEF Lookup, Goto
  <1>11. ASSUME NEW c \in Clients, ProbeSem(c) PROVE SemType' /\ IsLeft'
    BY <1>11 DEF ProbeSem, NewSem, Goto
  <1>12. ASSUME NEW c \in Clients, UndoSem(c) PROVE SemType' /\ IsLeft'
    BY <1>12 DEF UndoSem, RmSem, Goto
  <1>13. ASSUME NEW c \in Clients, GetSem(c) PROVE SemType' /\ IsLeft'
    BY <1>13 DEF GetSem, NewSem, Goto
  <1>14. ASSUME NEW c \in Clients, ProbeShm(c) PROVE SemType' /\ IsLeft'
    BY <1>14 DEF ProbeShm, NewShm, Goto
  <1>15. ASSUME NEW c \in Clients, UndoShm(c) PROVE SemType' /\ IsLeft'
    BY <1>15 DEF UndoShm, RmShm, Goto
  <1>16. ASSUME NEW c \in Clients, GetShm(c) PROVE SemType' /\ IsLeft'
    BY <1>16 DEF GetShm, NewShm, Goto
  <1>17. ASSUME NEW c \in Clients, Shmat(c) PROVE SemType' /\ IsLeft'
    BY <1>17 DEF Shmat, Goto
  <1>18. ASSUME NEW c \in Clients, Acquire(c) PROVE SemType' /\ IsLeft'
    BY <1>18 DEF Acquire, Goto
  <1>19. ASSUME NEW c \in Clients, Post(c) PROVE SemType' /\ IsLeft'
    BY <1>19 DEF Post, Goto
  <1>20. ASSUME NEW c \in Clients, Return(c) PROVE SemType' /\ IsLeft'
    BY <1>20 DEF Return, Goto
  <1>21. ASSUME NEW c \in Clients, Fail(c) PROVE SemType' /\ IsLeft'
    BY <1>21 DEF Fail, Goto
  <1>22. CASE UNCHANGED vars
    BY <1>22 DEF vars
  <1>23. CASE KillClosing
    BY <1>23 DEF KillClosing
  <1>24. ASSUME NEW c \in Clients, KillLookup(c) PROVE SemType' /\ IsLeft'
    <2>1. cpc[c] = "undo_sem" => csem[c] \in 1..nsem
      BY DEF SemOwner
    <2> QED
      BY <1>24, <2>1 DEF KillLookup
  <1> QED
    BY <1>1, <1>2, <1>3, <1>4, <1>5, <1>6, <1>7, <1>8, <1>9, <1>10, <1>11,
       <1>12, <1>13, <1>14, <1>15, <1>16, <1>17, <1>18, <1>19, <1>20, <1>21,
       <1>22, <1>23, <1>24 DEF Next, ServerStep, ClientStep

\* The segments, likewise.
LEMMA ShmTypeStep ==
  ASSUME ShmType, IsLeft, ShmOwner, PcType, [Next]_vars
  PROVE  ShmType'
PROOF
  <1> USE StartupAssumption DEF serverVars, clientVars, semVars, shmVars,
     ShmType, IsLeft
  <1>1. CASE ipc_create_sem
    BY <1>1 DEF ipc_create_sem, NewSem
  <1>2. CASE ipc_create_shm
    BY <1>2 DEF ipc_create_shm, NewShm
  <1>3. CASE GiveUp
    BY <1>3 DEF GiveUp, RmSem
  <1>4. CASE ipc_init_sem
    BY <1>4 DEF ipc_init_sem, SetPc, cmd_sem_value
  <1>5. CASE ServeTake
    BY <1>5 DEF ServeTake
  <1>6. CASE ServePost
    BY <1>6 DEF ServePost
  <1>7. CASE StopSem
    BY <1>7 DEF StopSem, RmSem
  <1>8. CASE StopShm
    BY <1>8 DEF StopShm, RmShm
  <1>9. CASE Kill
    <2>1. HasShm => sshm \in 1..nshm
      BY DEF ShmOwner
    <2> QED
      BY <1>9, <2>1 DEF Kill
  <1>10. ASSUME NEW c \in Clients, Lookup(c) PROVE ShmType'
    BY <1>10 DEF Lookup, Goto
  <1>11. ASSUME NEW c \in Clients, ProbeSem(c) PROVE ShmType'
    BY <1>11 DEF ProbeSem, NewSem, Goto
  <1>12. ASSUME NEW c \in Clients, UndoSem(c) PROVE ShmType'
    BY <1>12 DEF UndoSem, RmSem, Goto
  <1>13. ASSUME NEW c \in Clients, GetSem(c) PROVE ShmType'
    BY <1>13 DEF GetSem, NewSem, Goto
  <1>14. ASSUME NEW c \in Clients, ProbeShm(c) PROVE ShmType'
    BY <1>14 DEF ProbeShm, NewShm, Goto
  <1>15. ASSUME NEW c \in Clients, UndoShm(c) PROVE ShmType'
    BY <1>15 DEF UndoShm, RmShm, Goto
  <1>16. ASSUME NEW c \in Clients, GetShm(c) PROVE ShmType'
    BY <1>16 DEF GetShm, NewShm, Goto
  <1>17. ASSUME NEW c \in Clients, Shmat(c) PROVE ShmType'
    BY <1>17 DEF Shmat, Goto
  <1>18. ASSUME NEW c \in Clients, Acquire(c) PROVE ShmType'
    BY <1>18 DEF Acquire, Goto
  <1>19. ASSUME NEW c \in Clients, Post(c) PROVE ShmType'
    BY <1>19 DEF Post, Goto
  <1>20. ASSUME NEW c \in Clients, Return(c) PROVE ShmType'
    BY <1>20 DEF Return, Goto
  <1>21. ASSUME NEW c \in Clients, Fail(c) PROVE ShmType'
    BY <1>21 DEF Fail, Goto
  <1>22. CASE UNCHANGED vars
    BY <1>22 DEF vars
  <1>23. CASE KillClosing
    BY <1>23 DEF KillClosing
  <1>24. ASSUME NEW c \in Clients, KillLookup(c) PROVE ShmType'
    <2>1. cpc[c] = "undo_shm" => cshm[c] \in 1..nshm
      BY DEF ShmOwner
    <2> QED
      BY <1>24, <2>1 DEF KillLookup
  <1> QED
    BY <1>1, <1>2, <1>3, <1>4, <1>5, <1>6, <1>7, <1>8, <1>9, <1>10, <1>11,
       <1>12, <1>13, <1>14, <1>15, <1>16, <1>17, <1>18, <1>19, <1>20, <1>21,
       <1>22, <1>23, <1>24 DEF Next, ServerStep, ClientStep

\* What one SETVAL or semop on one semaphore changes.
LEMMA SetVal ==
  ASSUME SemValues, NEW o \in 1..MaxObj, NEW i \in 0..2, NEW v \in Nat,
         sem' = [sem EXCEPT ![o][i] = v]
  PROVE  /\ SemValues'
         /\ sem'[o][i] = v
         /\ \A p \in 1..MaxObj, j \in 0..2 :
              p # o \/ j # i => sem'[p][j] = sem[p][j]
PROOF
  BY DEF SemValues

\* The server's set, while it has one, is alive.
LEMMA ServerSet ==
  ASSUME SemType, SemOwner, spc \in HasSem
  PROVE  ssem \in 1..MaxObj /\ ssem \in semLive
PROOF
  BY StartupAssumption DEF SemType, SemOwner

\* A set that is alive is numbered.
LEMMA LiveSet ==
  ASSUME SemType, NEW o \in semLive
  PROVE  o \in 1..MaxObj
PROOF
  <1>1. o \in 1..nsem /\ nsem \in 0..MaxObj
    BY DEF SemType
  <1> QED
    BY <1>1, StartupAssumption

\* A server that runs has a set under the key, and no other can start.
LEMMA NoSet ==
  ASSUME SemType, PcType, SemOwner, semKey = 0
  PROVE  spc = "off"
PROOF
  BY DEF SemType, PcType, SemOwner, HasSem

\* The values: P never takes a semaphore below 0.
LEMMA ValuesStep ==
  ASSUME SemType, SemValues, SemOwner, [Next]_vars
  PROVE  SemValues'
PROOF
  <1> USE DEF serverVars, clientVars, semVars, shmVars, SemValues, SEND,
     C_READ, S_READ
  <1>1. CASE ipc_create_sem
    BY <1>1 DEF ipc_create_sem, NewSem
  <1>2. CASE ipc_create_shm
    BY <1>2 DEF ipc_create_shm, NewShm
  <1>3. CASE GiveUp
    BY <1>3 DEF GiveUp, RmSem
  <1>4. CASE ipc_init_sem
    <2>1. PICK i \in 0..2 : /\ spc = SetPc[i + 1]
                           /\ sem' = [sem EXCEPT ![ssem][i] = cmd_sem_value[i]]
      BY <1>4 DEF ipc_init_sem
    <2>2. cmd_sem_value[i] \in Nat
      BY DEF cmd_sem_value
    <2>3. spc \in HasSem
      BY <2>1 DEF SetPc, HasSem
    <2> QED
      BY <2>1, <2>2, <2>3, ServerSet, SetVal
  <1>5. CASE ServeTake
    <2>1. spc \in HasSem /\ sem' = [sem EXCEPT ![ssem][S_READ] = @ - 1]
      BY <1>5 DEF ServeTake, HasSem
    <2>2. sem[ssem][S_READ] - 1 \in Nat
      BY <1>5, <2>1, ServerSet DEF ServeTake
    <2> QED
      BY <2>1, <2>2, ServerSet, SetVal
  <1>6. CASE ServePost
    <2>1. spc \in HasSem /\ sem' = [sem EXCEPT ![ssem][C_READ] = @ + 1]
      BY <1>6 DEF ServePost, HasSem
    <2>2. sem[ssem][C_READ] + 1 \in Nat
      BY <2>1, ServerSet
    <2> QED
      BY <2>1, <2>2, ServerSet, SetVal
  <1>7. CASE StopSem
    BY <1>7 DEF StopSem, RmSem
  <1>8. CASE StopShm
    BY <1>8 DEF StopShm, RmShm
  <1>9. CASE Kill
    BY <1>9 DEF Kill
  <1>10. ASSUME NEW c \in Clients, Lookup(c) PROVE SemValues'
    BY <1>10 DEF Lookup, Goto
  <1>11. ASSUME NEW c \in Clients, ProbeSem(c) PROVE SemValues'
    BY <1>11 DEF ProbeSem, NewSem, Goto
  <1>12. ASSUME NEW c \in Clients, UndoSem(c) PROVE SemValues'
    BY <1>12 DEF UndoSem, RmSem, Goto
  <1>13. ASSUME NEW c \in Clients, GetSem(c) PROVE SemValues'
    BY <1>13 DEF GetSem, NewSem, Goto
  <1>14. ASSUME NEW c \in Clients, ProbeShm(c) PROVE SemValues'
    BY <1>14 DEF ProbeShm, NewShm, Goto
  <1>15. ASSUME NEW c \in Clients, UndoShm(c) PROVE SemValues'
    BY <1>15 DEF UndoShm, RmShm, Goto
  <1>16. ASSUME NEW c \in Clients, GetShm(c) PROVE SemValues'
    BY <1>16 DEF GetShm, NewShm, Goto
  <1>17. ASSUME NEW c \in Clients, Shmat(c) PROVE SemValues'
    BY <1>17 DEF Shmat, Goto
  <1>18. ASSUME NEW c \in Clients, Acquire(c) PROVE SemValues'
    <2>1. csem[c] \in 1..MaxObj /\ sem[csem[c]][SEND] - 1 \in Nat
      BY <1>18, LiveSet DEF Acquire
    <2> QED
      BY <1>18, <2>1, SetVal DEF Acquire
  <1>19. ASSUME NEW c \in Clients, Post(c) PROVE SemValues'
    <2>1. csem[c] \in 1..MaxObj /\ sem[csem[c]][S_READ] + 1 \in Nat
      BY <1>19, LiveSet DEF Post
    <2> QED
      BY <1>19, <2>1, SetVal DEF Post
  <1>20. ASSUME NEW c \in Clients, Return(c) PROVE SemValues'
    <2>1. csem[c] \in 1..MaxObj /\ sem[csem[c]][C_READ] - 1 \in Nat
      BY <1>20, LiveSet DEF Return
    <2> QED
      BY <1>20, <2>1 DEF Return
  <1>21. ASSUME NEW c \in Clients, Fail(c) PROVE SemValues'
    BY <1>21 DEF Fail, Goto
  <1>22. CASE UNCHANGED vars
    BY <1>22 DEF vars
  <1>23. CASE KillClosing
    BY <1>23 DEF KillClosing
  <1>24. ASSUME NEW c \in Clients, KillLookup(c) PROVE SemValues'
    BY <1>24 DEF KillLookup, Goto
  <1> QED
    BY <1>1, <1>2, <1>3, <1>4, <1>5, <1>6, <1>7, <1>8, <1>9, <1>10, <1>11,
       <1>12, <1>13, <1>14, <1>15, <1>16, <1>17, <1>18, <1>19, <1>20, <1>21,
       <1>22, <1>23, <1>24 DEF Next, ServerStep, ClientStep

\* Every step keeps the type invariant.
LEMMA TypeStep ==
  ASSUME TypeOK, SemOwner, ShmOwner, [Next]_vars
  PROVE  TypeOK'
PROOF
  <1>1. SemType /\ ShmType /\ SemValues /\ PcType /\ IsLeft
    BY TypeParts
  <1>2. SemType' /\ ShmType' /\ SemValues' /\ PcType' /\ IsLeft'
    BY <1>1, SemTypeStep, ShmTypeStep, ValuesStep, PcStep
  <1> QED
    BY <1>2, TypeParts, PTL

\* A set is removed by its owner only: the server after its loop or when it
\* gives up, the lookup whose probe made it.
LEMMA SemOwnerStep ==
  ASSUME SemType, PcType, IsLeft, SemOwner, [Next]_vars
  PROVE  SemOwner'
PROOF
  <1> USE StartupAssumption DEF serverVars, clientVars, semVars, shmVars,
     SemType, PcType, IsLeft, SemOwner, HasSem
  <1>1. CASE ipc_create_sem
    BY <1>1 DEF ipc_create_sem, NewSem
  <1>2. CASE ipc_create_shm
    BY <1>2 DEF ipc_create_shm, NewShm
  <1>3. CASE GiveUp
    BY <1>3 DEF GiveUp, RmSem
  <1>4. CASE ipc_init_sem
    BY <1>4 DEF ipc_init_sem, SetPc, cmd_sem_value
  <1>5. CASE ServeTake
    BY <1>5 DEF ServeTake
  <1>6. CASE ServePost
    BY <1>6 DEF ServePost
  <1>7. CASE StopSem
    BY <1>7 DEF StopSem, RmSem
  <1>8. CASE StopShm
    BY <1>8 DEF StopShm, RmShm
  <1>9. CASE Kill
    BY <1>9 DEF Kill
  <1>10. ASSUME NEW c \in Clients, Lookup(c) PROVE SemOwner'
    BY <1>10 DEF Lookup, Goto
  <1>11. ASSUME NEW c \in Clients, ProbeSem(c) PROVE SemOwner'
    BY <1>11 DEF ProbeSem, NewSem, Goto
  <1>12. ASSUME NEW c \in Clients, UndoSem(c) PROVE SemOwner'
    BY <1>12 DEF UndoSem, RmSem, Goto
  <1>13. ASSUME NEW c \in Clients, GetSem(c) PROVE SemOwner'
    BY <1>13 DEF GetSem, NewSem, Goto
  <1>14. ASSUME NEW c \in Clients, ProbeShm(c) PROVE SemOwner'
    BY <1>14 DEF ProbeShm, NewShm, Goto
  <1>15. ASSUME NEW c \in Clients, UndoShm(c) PROVE SemOwner'
    BY <1>15 DEF UndoShm, RmShm, Goto
  <1>16. ASSUME NEW c \in Clients, GetShm(c) PROVE SemOwner'
    BY <1>16 DEF GetShm, NewShm, Goto
  <1>17. ASSUME NEW c \in Clients, Shmat(c) PROVE SemOwner'
    BY <1>17 DEF Shmat, Goto
  <1>18. ASSUME NEW c \in Clients, Acquire(c) PROVE SemOwner'
    BY <1>18 DEF Acquire, Goto
  <1>19. ASSUME NEW c \in Clients, Post(c) PROVE SemOwner'
    BY <1>19 DEF Post, Goto
  <1>20. ASSUME NEW c \in Clients, Return(c) PROVE SemOwner'
    BY <1>20 DEF Return, Goto
  <1>21. ASSUME NEW c \in Clients, Fail(c) PROVE SemOwner'
    BY <1>21 DEF Fail, Goto
  <1>22. CASE UNCHANGED vars
    BY <1>22 DEF vars
  <1>23. CASE KillClosing
    BY <1>23 DEF KillClosing
  <1>24. ASSUME NEW c \in Clients, KillLookup(c) PROVE SemOwner'
    BY <1>24 DEF KillLookup, Goto
  <1> QED
    BY <1>1, <1>2, <1>3, <1>4, <1>5, <1>6, <1>7, <1>8, <1>9, <1>10, <1>11,
       <1>12, <1>13, <1>14, <1>15, <1>16, <1>17, <1>18, <1>19, <1>20, <1>21,
       <1>22, <1>23, <1>24 DEF Next, ServerStep, ClientStep

\* So it is with the segments.
LEMMA ShmOwnerStep ==
  ASSUME ShmType, PcType, IsLeft, SemType, SemOwner, ShmOwner, [Next]_vars
  PROVE  ShmOwner'
PROOF
  <1> USE StartupAssumption DEF serverVars, clientVars, semVars, shmVars,
     ShmType, PcType, IsLeft, ShmOwner, HasShm
  <1>1. CASE ipc_create_sem
    <2>1. HasShm' <=> HasShm
      BY <1>1, NoSet DEF ipc_create_sem
    <2>2. UNCHANGED <<sshm, shmVars, clientVars, closing, left>>
      BY <1>1 DEF ipc_create_sem
    <2> QED
      BY <2>1, <2>2
  <1>2. CASE ipc_create_shm
    BY <1>2 DEF ipc_create_shm, NewShm
  <1>3. CASE GiveUp
    BY <1>3 DEF GiveUp, RmSem
  <1>4. CASE ipc_init_sem
    BY <1>4 DEF ipc_init_sem, SetPc, cmd_sem_value
  <1>5. CASE ServeTake
    BY <1>5 DEF ServeTake
  <1>6. CASE ServePost
    BY <1>6 DEF ServePost
  <1>7. CASE StopSem
    BY <1>7 DEF StopSem, RmSem
  <1>8. CASE StopShm
    BY <1>8 DEF StopShm, RmShm
  <1>9. CASE Kill
    BY <1>9 DEF Kill
  <1>10. ASSUME NEW c \in Clients, Lookup(c) PROVE ShmOwner'
    BY <1>10 DEF Lookup, Goto
  <1>11. ASSUME NEW c \in Clients, ProbeSem(c) PROVE ShmOwner'
    BY <1>11 DEF ProbeSem, NewSem, Goto
  <1>12. ASSUME NEW c \in Clients, UndoSem(c) PROVE ShmOwner'
    BY <1>12 DEF UndoSem, RmSem, Goto
  <1>13. ASSUME NEW c \in Clients, GetSem(c) PROVE ShmOwner'
    BY <1>13 DEF GetSem, NewSem, Goto
  <1>14. ASSUME NEW c \in Clients, ProbeShm(c) PROVE ShmOwner'
    BY <1>14 DEF ProbeShm, NewShm, Goto
  <1>15. ASSUME NEW c \in Clients, UndoShm(c) PROVE ShmOwner'
    BY <1>15 DEF UndoShm, RmShm, Goto
  <1>16. ASSUME NEW c \in Clients, GetShm(c) PROVE ShmOwner'
    BY <1>16 DEF GetShm, NewShm, Goto
  <1>17. ASSUME NEW c \in Clients, Shmat(c) PROVE ShmOwner'
    BY <1>17 DEF Shmat, Goto
  <1>18. ASSUME NEW c \in Clients, Acquire(c) PROVE ShmOwner'
    BY <1>18 DEF Acquire, Goto
  <1>19. ASSUME NEW c \in Clients, Post(c) PROVE ShmOwner'
    BY <1>19 DEF Post, Goto
  <1>20. ASSUME NEW c \in Clients, Return(c) PROVE ShmOwner'
    BY <1>20 DEF Return, Goto
  <1>21. ASSUME NEW c \in Clients, Fail(c) PROVE ShmOwner'
    BY <1>21 DEF Fail, Goto
  <1>22. CASE UNCHANGED vars
    BY <1>22 DEF vars
  <1>23. CASE KillClosing
    BY <1>23 DEF KillClosing
  <1>24. ASSUME NEW c \in Clients, KillLookup(c) PROVE ShmOwner'
    BY <1>24 DEF KillLookup, Goto
  <1> QED
    BY <1>1, <1>2, <1>3, <1>4, <1>5, <1>6, <1>7, <1>8, <1>9, <1>10, <1>11,
       <1>12, <1>13, <1>14, <1>15, <1>16, <1>17, <1>18, <1>19, <1>20, <1>21,
       <1>22, <1>23, <1>24 DEF Next, ServerStep, ClientStep

\* A set the kernel has just made: nobody knows it yet, its semaphores are 0,
\* and there is no other.
LEMMA NewSet ==
  ASSUME SemType, SemValues, SemOwner, Fresh, semKey = 0, NewSem
  PROVE  /\ semLive' = {nsem'} /\ nsem' \in 1..MaxObj /\ nsem' > nsem
         /\ \A i \in 0..2 : sem'[nsem'][i] = 0
         /\ ssem # nsem' /\ \A d \in Clients : csem[d] # nsem'
PROOF
  <1>1. nsem' = nsem + 1 /\ nsem' \in 1..MaxObj /\ sem' = sem
    BY StartupAssumption DEF SemType, NewSem
  <1>2. semLive = {}
    BY DEF SemType, SemOwner
  <1>3. ssem # nsem' /\ \A d \in Clients : csem[d] # nsem'
    BY <1>1 DEF SemType
  <1> QED
    BY <1>1, <1>2, <1>3 DEF SemType, Fresh, NewSem

\* A client on its way to the exchange: it brings nobody into one and changes
\* no semaphore and nothing of another client.
Approach(c) == \/ Lookup(c) \/ ProbeSem(c) \/ UndoSem(c) \/ GetSem(c)
               \/ ProbeShm(c) \/ UndoShm(c) \/ GetShm(c) \/ Shmat(c) \/ KillLookup(c)

LEMMA Outside ==
  ASSUME PcType, SemType, ShmType, NEW c \in Clients, Approach(c)
  PROVE  /\ UNCHANGED <<serverVars, sem, lost>>
         /\ cpc'[c] \notin {"request", "wait"}
         /\ \A d \in Clients \ {c} :
              /\ cpc'[d] = cpc[d] /\ csem'[d] = csem[d]
              /\ cshm'[d] = cshm[d] /\ mapped'[d] = mapped[d]
PROOF
  <1> USE DEF PcType, SemType, ShmType, Goto, serverVars, clientVars, semVars,
        shmVars
  <1>1. CASE Lookup(c)
    BY <1>1 DEF Lookup
  <1>2. CASE ProbeSem(c)
    BY <1>2 DEF ProbeSem, NewSem
  <1>3. CASE UndoSem(c)
    BY <1>3 DEF UndoSem, RmSem
  <1>4. CASE GetSem(c)
    BY <1>4 DEF GetSem, NewSem
  <1>5. CASE ProbeShm(c)
    BY <1>5 DEF ProbeShm, NewShm
  <1>6. CASE UndoShm(c)
    BY <1>6 DEF UndoShm, RmShm
  <1>7. CASE GetShm(c)
    BY <1>7 DEF GetShm, NewShm
  <1>8. CASE Shmat(c)
    BY <1>8 DEF Shmat
  <1>9. CASE KillLookup(c)
    BY <1>9 DEF KillLookup
  <1> QED
    BY <1>1, <1>2, <1>3, <1>4, <1>5, <1>6, <1>7, <1>8, <1>9 DEF Approach

\* What P(SEND) of a client does.
LEMMA AcquireEffect ==
  ASSUME SemType, SemValues, PcType, NEW c \in Clients, Acquire(c)
  PROVE  /\ csem[c] \in semLive /\ csem[c] \in 1..nsem /\ csem[c] \in 1..MaxObj
         /\ \A i \in 0..2 : sem[csem[c]][i] \in Nat
         /\ sem[csem[c]][SEND] > 0
         /\ sem'[csem[c]][SEND] = sem[csem[c]][SEND] - 1
         /\ sem'[csem[c]][C_READ] = sem[csem[c]][C_READ]
         /\ sem'[csem[c]][S_READ] = sem[csem[c]][S_READ]
         /\ \A o \in (1..MaxObj) \ {csem[c]} : sem'[o] = sem[o]
         /\ cpc[c] = "p_send" /\ cpc'[c] = "request"
         /\ \A d \in Clients \ {c} : cpc'[d] = cpc[d]
         /\ UNCHANGED <<semKey, semLive, nsem, shmVars, serverVars, csem, cshm>>
PROOF
  <1> USE DEF SEND, C_READ, S_READ
  <1>1. csem[c] \in 1..MaxObj /\ csem[c] \in 1..nsem
    BY StartupAssumption DEF Acquire, SemType
  <1>2. /\ cpc[c] = "p_send" /\ cpc'[c] = "request"
        /\ \A d \in Clients \ {c} : cpc'[d] = cpc[d]
    BY DEF Acquire, Goto, PcType
  <1> QED
    BY <1>1, <1>2 DEF Acquire, SemValues

\* What V(S_READ) of a client does.
LEMMA PostEffect ==
  ASSUME SemType, SemValues, PcType, NEW c \in Clients, Post(c)
  PROVE  /\ csem[c] \in semLive /\ csem[c] \in 1..nsem /\ csem[c] \in 1..MaxObj
         /\ \A i \in 0..2 : sem[csem[c]][i] \in Nat
         /\ sem'[csem[c]][S_READ] = sem[csem[c]][S_READ] + 1
         /\ sem'[csem[c]][SEND] = sem[csem[c]][SEND]
         /\ sem'[csem[c]][C_READ] = sem[csem[c]][C_READ]
         /\ \A o \in (1..MaxObj) \ {csem[c]} : sem'[o] = sem[o]
         /\ cpc[c] = "request" /\ cpc'[c] = "wait"
         /\ \A d \in Clients \ {c} : cpc'[d] = cpc[d]
         /\ UNCHANGED <<semKey, semLive, nsem, shmVars, serverVars, csem, cshm>>
PROOF
  <1> USE DEF SEND, C_READ, S_READ
  <1>1. csem[c] \in 1..MaxObj /\ csem[c] \in 1..nsem
    BY StartupAssumption DEF Post, SemType
  <1>2. /\ cpc[c] = "request" /\ cpc'[c] = "wait"
        /\ \A d \in Clients \ {c} : cpc'[d] = cpc[d]
    BY DEF Post, Goto, PcType
  <1> QED
    BY <1>1, <1>2 DEF Post, SemValues

\* What P(C_READ) and V(SEND) of a client do.
LEMMA ReturnEffect ==
  ASSUME SemType, SemValues, PcType, NEW c \in Clients, Return(c)
  PROVE  /\ csem[c] \in semLive /\ csem[c] \in 1..nsem /\ csem[c] \in 1..MaxObj
         /\ \A i \in 0..2 : sem[csem[c]][i] \in Nat
         /\ sem[csem[c]][C_READ] > 0
         /\ sem'[csem[c]][C_READ] = sem[csem[c]][C_READ] - 1
         /\ sem'[csem[c]][SEND] = sem[csem[c]][SEND] + 1
         /\ sem'[csem[c]][S_READ] = sem[csem[c]][S_READ]
         /\ \A o \in (1..MaxObj) \ {csem[c]} : sem'[o] = sem[o]
         /\ cpc[c] = "wait" /\ cpc'[c] = "idle"
         /\ \A d \in Clients \ {c} : cpc'[d] = cpc[d]
         /\ UNCHANGED <<semKey, semLive, nsem, shmVars, serverVars, csem, cshm>>
PROOF
  <1> USE DEF SEND, C_READ, S_READ
  <1>1. csem[c] \in 1..MaxObj /\ csem[c] \in 1..nsem
    BY StartupAssumption DEF Return, SemType
  <1>2. /\ cpc[c] = "wait" /\ cpc'[c] = "idle"
        /\ \A d \in Clients \ {c} : cpc'[d] = cpc[d]
    BY DEF Return, Goto, PcType
  <1> QED
    BY <1>1, <1>2 DEF Return, SemValues

\* A set that is new leaves the others as they are.
LEMMA FreshNew ==
  ASSUME SemType, Fresh, NewSem
  PROVE  Fresh'
PROOF
  <1>1. nsem \in Nat /\ nsem' = nsem + 1 /\ sem' = sem
    BY StartupAssumption DEF SemType, NewSem
  <1> QED
    BY <1>1 DEF Fresh

\* Semaphores are changed of sets that exist only.
LEMMA FreshStep ==
  ASSUME SemType, SemValues, PcType, SemOwner, Fresh, [Next]_vars
  PROVE  Fresh'
PROOF
  <1> USE StartupAssumption DEF serverVars, clientVars, semVars, shmVars,
     SEND, C_READ, S_READ, SemType, SemValues, SemOwner, HasSem, Fresh
  <1>1. CASE ipc_create_sem
    <2>1. CASE UNCHANGED semVars
      BY <2>1
    <2>2. CASE NewSem
      BY <2>2, FreshNew
    <2> QED
      BY <1>1, <2>1, <2>2 DEF ipc_create_sem
  <1>2. CASE ipc_create_shm
    BY <1>2 DEF ipc_create_shm, NewShm
  <1>3. CASE GiveUp
    BY <1>3 DEF GiveUp, RmSem
  <1>4. CASE ipc_init_sem
    <2>1. spc \in HasSem /\ nsem' = nsem
      BY <1>4 DEF ipc_init_sem, SetPc
    <2>2. ssem \in 1..nsem
      BY <2>1
    <2>3. \A o \in 1..MaxObj : o # ssem => sem'[o] = sem[o]
      BY <1>4 DEF ipc_init_sem
    <2> QED
      BY <2>1, <2>2, <2>3
  <1>5. CASE ServeTake
    <2>1. spc \in HasSem /\ nsem' = nsem
      BY <1>5 DEF ServeTake
    <2>2. ssem \in 1..nsem
      BY <2>1
    <2>3. \A o \in 1..MaxObj : o # ssem => sem'[o] = sem[o]
      BY <1>5 DEF ServeTake
    <2> QED
      BY <2>1, <2>2, <2>3
  <1>6. CASE ServePost
    <2>1. spc \in HasSem /\ nsem' = nsem
      BY <1>6 DEF ServePost
    <2>2. ssem \in 1..nsem
      BY <2>1
    <2>3. \A o \in 1..MaxObj : o # ssem => sem'[o] = sem[o]
      BY <1>6 DEF ServePost
    <2> QED
      BY <2>1, <2>2, <2>3
  <1>7. CASE StopSem
    BY <1>7 DEF StopSem, RmSem
  <1>8. CASE StopShm
    BY <1>8 DEF StopShm, RmShm
  <1>9. CASE Kill
    BY <1>9 DEF Kill
  <1>10. ASSUME NEW c \in Clients, Lookup(c) PROVE Fresh'
    BY <1>10 DEF Lookup, Goto
  <1>11. ASSUME NEW c \in Clients, ProbeSem(c) PROVE Fresh'
    <2>1. CASE UNCHANGED semVars
      BY <2>1
    <2>2. CASE NewSem
      BY <2>2, FreshNew
    <2> QED
      BY <1>11, <2>1, <2>2 DEF ProbeSem
  <1>12. ASSUME NEW c \in Clients, UndoSem(c) PROVE Fresh'
    BY <1>12 DEF UndoSem, RmSem, Goto
  <1>13. ASSUME NEW c \in Clients, GetSem(c) PROVE Fresh'
    <2>1. CASE UNCHANGED semVars
      BY <2>1
    <2>2. CASE NewSem
      BY <2>2, FreshNew
    <2> QED
      BY <1>13, <2>1, <2>2 DEF GetSem
  <1>14. ASSUME NEW c \in Clients, ProbeShm(c) PROVE Fresh'
    BY <1>14 DEF ProbeShm, NewShm, Goto
  <1>15. ASSUME NEW c \in Clients, UndoShm(c) PROVE Fresh'
    BY <1>15 DEF UndoShm, RmShm, Goto
  <1>16. ASSUME NEW c \in Clients, GetShm(c) PROVE Fresh'
    BY <1>16 DEF GetShm, NewShm, Goto
  <1>17. ASSUME NEW c \in Clients, Shmat(c) PROVE Fresh'
    BY <1>17 DEF Shmat, Goto
  <1>18. ASSUME NEW c \in Clients, Acquire(c) PROVE Fresh'
    <2> HIDE DEF SemType, SemValues, SemOwner
    <2>1. nsem' = nsem /\ nsem \in Nat /\ csem[c] \in 1..nsem
      BY <1>18, AcquireEffect DEF SemType
    <2>2. \A o \in (1..MaxObj) \ {csem[c]} : sem'[o] = sem[o]
      BY <1>18, AcquireEffect
    <2> QED
      BY <2>1, <2>2
  <1>19. ASSUME NEW c \in Clients, Post(c) PROVE Fresh'
    <2> HIDE DEF SemType, SemValues, SemOwner
    <2>1. nsem' = nsem /\ nsem \in Nat /\ csem[c] \in 1..nsem
      BY <1>19, PostEffect DEF SemType
    <2>2. \A o \in (1..MaxObj) \ {csem[c]} : sem'[o] = sem[o]
      BY <1>19, PostEffect
    <2> QED
      BY <2>1, <2>2
  <1>20. ASSUME NEW c \in Clients, Return(c) PROVE Fresh'
    <2> HIDE DEF SemType, SemValues, SemOwner
    <2>1. nsem' = nsem /\ nsem \in Nat /\ csem[c] \in 1..nsem
      BY <1>20, ReturnEffect DEF SemType
    <2>2. \A o \in (1..MaxObj) \ {csem[c]} : sem'[o] = sem[o]
      BY <1>20, ReturnEffect
    <2> QED
      BY <2>1, <2>2
  <1>21. ASSUME NEW c \in Clients, Fail(c) PROVE Fresh'
    BY <1>21 DEF Fail, Goto
  <1>22. CASE UNCHANGED vars
    BY <1>22 DEF vars
  <1>23. CASE KillClosing
    BY <1>23 DEF KillClosing
  <1>24. ASSUME NEW c \in Clients, KillLookup(c) PROVE Fresh'
    BY <1>24 DEF KillLookup, Goto
  <1> QED
    BY <1>1, <1>2, <1>3, <1>4, <1>5, <1>6, <1>7, <1>8, <1>9, <1>10, <1>11,
       <1>12, <1>13, <1>14, <1>15, <1>16, <1>17, <1>18, <1>19, <1>20, <1>21,
       <1>22, <1>23, <1>24 DEF Next, ServerStep, ClientStep

\* SEND is raised by the server, once, and by a client that held it.
LEMMA OneHolderStep ==
  ASSUME SemType, ShmType, SemValues, PcType, SemOwner, Fresh, OneHolder,
     [Next]_vars
  PROVE  OneHolder'
PROOF
  <1> USE StartupAssumption DEF serverVars, clientVars, semVars, shmVars,
     SEND, C_READ, S_READ, SemType, SemValues, PcType, SemOwner, HasSem,
     Fresh, OneHolder, On
  <1>1. CASE ipc_create_sem
    <2>1. CASE UNCHANGED <<spc, ssem, semVars>>
      BY <1>1, <2>1 DEF ipc_create_sem
    <2>2. CASE semKey = 0 /\ NewSem /\ spc' = "create_shm" /\ ssem' = nsem'
      BY <1>1, <2>2, NewSet DEF ipc_create_sem
    <2> QED
      BY <1>1, <2>1, <2>2 DEF ipc_create_sem
  <1>2. CASE ipc_create_shm
    BY <1>2 DEF ipc_create_shm, NewShm
  <1>3. CASE GiveUp
    BY <1>3 DEF GiveUp, RmSem
  <1>4. CASE ipc_init_sem
    BY <1>4 DEF ipc_init_sem, SetPc, cmd_sem_value
  <1>5. CASE ServeTake
    BY <1>5 DEF ServeTake
  <1>6. CASE ServePost
    BY <1>6 DEF ServePost
  <1>7. CASE StopSem
    BY <1>7 DEF StopSem, RmSem
  <1>8. CASE StopShm
    BY <1>8 DEF StopShm, RmShm
  <1>9. CASE Kill
    BY <1>9 DEF Kill
  <1>10. ASSUME NEW c \in Clients, Approach(c) PROVE OneHolder'
    <2>1. \A d \in Clients : On(d, ssem)' => On(d, ssem)
      BY <1>10, Outside
    <2>2. UNCHANGED <<spc, ssem, sem, lost>>
      BY <1>10, Outside
    <2> QED
      BY <2>1, <2>2
  <1>11. ASSUME NEW c \in Clients, Acquire(c) PROVE OneHolder'
    <2> HIDE DEF SemType, SemValues
    <2>1. CASE csem[c] = ssem
      <3>1. spc \notin {"create_shm", "give_up", "set0"}
        BY <1>11, <2>1, AcquireEffect
      <3>2. CASE spc \in {"set1", "set2", "run", "busy"}
        <4>1. sem[ssem][SEND] = 1 /\ \A d \in Clients : ~On(d, ssem)
          BY <1>11, <2>1, <3>2, AcquireEffect
        <4>2. sem'[ssem][SEND] = 0
          BY <1>11, <2>1, <4>1, AcquireEffect
        <4>3. \A d \in Clients : On(d, ssem)' => d = c
          BY <1>11, <4>1, AcquireEffect
        <4>4. UNCHANGED <<spc, ssem>>
          BY <1>11 DEF Acquire
        <4> QED
          BY <3>2, <4>2, <4>3, <4>4
      <3> QED
        BY <1>11, <3>1, <3>2, AcquireEffect
    <2>2. CASE csem[c] # ssem
      <3>1. \A d \in Clients : On(d, ssem)' => On(d, ssem)
        BY <1>11, <2>2, AcquireEffect
      <3>2. spc \in HasSem => sem'[ssem] = sem[ssem]
        BY <1>11, <2>2, AcquireEffect, ServerSet
      <3>3. UNCHANGED <<spc, ssem>>
        BY <1>11 DEF Acquire
      <3> QED
        BY <3>1, <3>2, <3>3
    <2> QED
      BY <2>1, <2>2
  <1>12. ASSUME NEW c \in Clients, Post(c) PROVE OneHolder'
    <2> HIDE DEF SemType, SemValues
    <2>1. \A d \in Clients : On(d, ssem)' <=> On(d, ssem)
      BY <1>12, PostEffect
    <2>2. spc \in HasSem => sem'[ssem][SEND] = sem[ssem][SEND]
      BY <1>12, PostEffect, ServerSet
    <2>3. spc \in {"create_shm", "give_up", "set0"} => sem'[ssem] = sem[ssem]
      BY <1>12, PostEffect, ServerSet
    <2>4. UNCHANGED <<spc, ssem, lost>>
      BY <1>12 DEF Post
    <2> QED
      BY <2>1, <2>2, <2>3, <2>4
  <1>13. ASSUME NEW c \in Clients, Return(c) PROVE OneHolder'
    <2> HIDE DEF SemType, SemValues
    <2>1. CASE csem[c] = ssem
      <3>1. spc \notin {"create_shm", "give_up", "set0"}
        BY <1>13, <2>1, ReturnEffect
      <3>2. CASE spc \in {"set1", "set2", "run", "busy"}
        <4>1. sem[ssem][SEND] = 0 /\ \A d \in Clients : On(d, ssem) => d = c
          BY <1>13, <2>1, <3>2, ReturnEffect
        <4>2. sem'[ssem][SEND] = 1
          BY <1>13, <2>1, <4>1, ReturnEffect
        <4>3. \A d \in Clients : ~On(d, ssem)'
          BY <1>13, <4>1, ReturnEffect
        <4>4. UNCHANGED <<spc, ssem>>
          BY <1>13 DEF Return
        <4> QED
          BY <3>2, <4>2, <4>3, <4>4
      <3> QED
        BY <1>13, <3>1, <3>2, ReturnEffect
    <2>2. CASE csem[c] # ssem
      <3>1. \A d \in Clients : On(d, ssem)' => On(d, ssem)
        BY <1>13, <2>2, ReturnEffect
      <3>2. spc \in HasSem => sem'[ssem] = sem[ssem]
        BY <1>13, <2>2, ReturnEffect, ServerSet
      <3>3. UNCHANGED <<spc, ssem>>
        BY <1>13 DEF Return
      <3> QED
        BY <3>1, <3>2, <3>3
    <2> QED
      BY <2>1, <2>2
  <1>14. ASSUME NEW c \in Clients, Fail(c) PROVE OneHolder'
    BY <1>14 DEF Fail, Goto
  <1>15. CASE UNCHANGED vars
    BY <1>15 DEF vars
  <1>16. CASE KillClosing
    BY <1>16 DEF KillClosing
  <1> QED
    BY <1>1, <1>2, <1>3, <1>4, <1>5, <1>6, <1>7, <1>8, <1>9, <1>10, <1>11,
       <1>12, <1>13, <1>14, <1>15, <1>16 DEF Next, ServerStep, ClientStep, Approach

\* A step that makes no set, wakes nobody and takes no segment of the server
\* away keeps the quiet.
LEMMA QuietFrame ==
  ASSUME Quiet, semLive' \subseteq semLive, sem' = sem,
         \/ closing # 0 \/ sshm \notin shmLive
         \/ closing' = 0 /\ sshm' \in shmLive',
         \A d \in Clients, o \in semLive : On(d, o)' => On(d, o)
  PROVE  Quiet'
PROOF
  BY DEF Quiet, On

\* A set that has just been made is quiet.
LEMMA QuietNew ==
  ASSUME SemType, SemValues, SemOwner, Fresh, semKey = 0, NewSem,
         \A d \in Clients : cpc'[d] \in {"request", "wait"} =>
                              csem'[d] = csem[d]
  PROVE  Quiet'
PROOF
  BY NewSet DEF Quiet, On, SEND

\* Where SEND can be taken, the server's segment is there to stay.
LEMMA NotQuiet ==
  ASSUME SemType, SemValues, Quiet, NEW o \in semLive, sem[o][SEND] > 0
  PROVE  closing = 0 /\ sshm \in shmLive
PROOF
  <1>1. sem[o][SEND] \in Nat
    BY LiveSet DEF SemValues, SEND
  <1>2. sem[o][SEND] # 0
    BY <1>1
  <1> QED
    BY <1>2 DEF Quiet

\* The server sets one semaphore after the other, and goes on to receive.
LEMMA SettingPc ==
  ASSUME ipc_init_sem
  PROVE  spc \in {"set0", "set1", "set2"} /\ spc' \in {"set1", "set2", "run"}
PROOF
  <1>1. PICK i \in 0..2 : spc = SetPc[i + 1] /\ spc' = SetPc[i + 2]
    BY DEF ipc_init_sem
  <1>2. i = 0 \/ i = 1 \/ i = 2
    BY <1>1
  <1> QED
    BY <1>1, <1>2 DEF SetPc

\* The server removes its segment after its set; until it has another segment,
\* it raises no SEND, and so nobody does.
LEMMA QuietStep ==
  ASSUME SemType, ShmType, SemValues, PcType, SemOwner, ShmOwner, Fresh,
         OneHolder, Quiet, [Next]_vars
  PROVE  Quiet'
PROOF
  <1> USE StartupAssumption DEF serverVars, clientVars, semVars, shmVars,
     SEND, C_READ, S_READ, SemType, ShmType, SemValues, PcType, SemOwner,
     HasSem, ShmOwner, HasShm, OneHolder, On, Quiet
  <1>1. CASE ipc_create_sem
    <2>1. CASE UNCHANGED <<spc, ssem, semVars>>
      BY <1>1, <2>1 DEF ipc_create_sem
    <2>2. CASE semKey = 0 /\ NewSem
      BY <1>1, <2>2, QuietNew DEF ipc_create_sem
    <2> QED
      BY <1>1, <2>1, <2>2 DEF ipc_create_sem
  <1>2. CASE ipc_create_shm
    BY <1>2 DEF ipc_create_shm, NewShm
  <1>3. CASE GiveUp
    BY <1>3 DEF GiveUp, RmSem
  <1>4. CASE ipc_init_sem
    <2>1. HasShm
      <3>1. spc \in {"set0", "set1", "set2"}
        BY <1>4, SettingPc
      <3> QED
        BY ONLY <3>1 DEF HasShm
    <2>2. closing' = 0 /\ sshm' \in shmLive'
      BY <1>4, <2>1 DEF ipc_init_sem
    <2> QED
      BY <2>1, <2>2
  <1>5. CASE ServeTake
    BY <1>5 DEF ServeTake
  <1>6. CASE ServePost
    BY <1>6 DEF ServePost
  <1>7. CASE StopSem
    BY <1>7 DEF StopSem, RmSem
  <1>8. CASE StopShm
    BY <1>8 DEF StopShm, RmShm
  <1>9. CASE Kill
    BY <1>9 DEF Kill
  <1>10. ASSUME NEW c \in Clients, Lookup(c) PROVE Quiet'
    BY <1>10, Outside, QuietFrame DEF Approach, Lookup
  <1>11. ASSUME NEW c \in Clients, ProbeSem(c) PROVE Quiet'
    <2>1. CASE UNCHANGED semVars
      BY <1>11, <2>1, Outside, QuietFrame DEF Approach, ProbeSem
    <2>2. CASE semKey = 0 /\ NewSem
      BY <1>11, <2>2, Outside, QuietNew DEF Approach
    <2> QED
      BY <1>11, <2>1, <2>2 DEF ProbeSem
  <1>12. ASSUME NEW c \in Clients, UndoSem(c) PROVE Quiet'
    BY <1>12 DEF UndoSem, RmSem, Goto
  <1>13. ASSUME NEW c \in Clients, GetSem(c) PROVE Quiet'
    <2>1. CASE UNCHANGED semVars
      BY <1>13, <2>1, Outside, QuietFrame DEF Approach, GetSem
    <2>2. CASE semKey = 0 /\ NewSem
      BY <1>13, <2>2, Outside, QuietNew DEF Approach
    <2> QED
      BY <1>13, <2>1, <2>2 DEF GetSem
  <1>14. ASSUME NEW c \in Clients, ProbeShm(c) PROVE Quiet'
    BY <1>14, Outside, QuietFrame DEF Approach, ProbeShm, NewShm
  <1>15. ASSUME NEW c \in Clients, UndoShm(c) PROVE Quiet'
    <2>1. sshm \in shmLive => sshm # cshm[c]
      <3> HIDE DEF SemType, SemValues, SemOwner, OneHolder, Quiet
      <3> QED
        BY <1>15 DEF UndoShm
    <2> QED
      BY <1>15, <2>1, Outside, QuietFrame DEF Approach, UndoShm, RmShm
  <1>16. ASSUME NEW c \in Clients, GetShm(c) PROVE Quiet'
    BY <1>16, Outside, QuietFrame DEF Approach, GetShm, NewShm
  <1>17. ASSUME NEW c \in Clients, Shmat(c) PROVE Quiet'
    BY <1>17 DEF Shmat, Goto
  <1>18. ASSUME NEW c \in Clients, Acquire(c) PROVE Quiet'
    <2> HIDE DEF SemType, SemValues, SemOwner, ShmOwner, OneHolder, Quiet
    <2>1. closing = 0 /\ sshm \in shmLive
      BY <1>18, NotQuiet DEF Acquire
    <2>2. UNCHANGED <<closing, sshm, shmLive>>
      BY <1>18 DEF Acquire
    <2> QED
      BY <2>1, <2>2 DEF Quiet
  <1>19. ASSUME NEW c \in Clients, Post(c) PROVE Quiet'
    BY <1>19 DEF Post, Goto
  <1>20. ASSUME NEW c \in Clients, Return(c) PROVE Quiet'
    BY <1>20 DEF Return, Goto
  <1>21. ASSUME NEW c \in Clients, Fail(c) PROVE Quiet'
    <2>1. \A d \in Clients, o \in semLive : On(d, o)' => On(d, o)
      BY <1>21 DEF Fail, Goto
    <2>2. UNCHANGED <<semLive, sem, closing, sshm, shmLive>>
      BY <1>21 DEF Fail
    <2> QED
      BY <2>1, <2>2, QuietFrame
  <1>22. CASE UNCHANGED vars
    BY <1>22 DEF vars
  <1>23. CASE KillClosing
    BY <1>23 DEF KillClosing
  <1>24. ASSUME NEW c \in Clients, KillLookup(c) PROVE Quiet'
    BY <1>24, Outside, QuietFrame DEF Approach, KillLookup
  <1> QED
    BY <1>1, <1>2, <1>3, <1>4, <1>5, <1>6, <1>7, <1>8, <1>9, <1>10, <1>11,
       <1>12, <1>13, <1>14, <1>15, <1>16, <1>17, <1>18, <1>19, <1>20, <1>21,
       <1>22, <1>23, <1>24 DEF Next, ServerStep, ClientStep

\* Until the SETVAL of S_READ nobody takes a request away.
LEMMA EarlyStep ==
  ASSUME SemType, ShmType, SemValues, PcType, SemOwner, OneHolder, Early,
     [Next]_vars
  PROVE  Early'
PROOF
  <1> USE StartupAssumption DEF serverVars, clientVars, semVars, shmVars,
     SEND, C_READ, S_READ, SemType, SemValues, PcType, SemOwner, HasSem,
     OneHolder, On, Early
  <1>1. CASE ipc_create_sem
    BY <1>1 DEF ipc_create_sem, NewSem
  <1>2. CASE ipc_create_shm
    BY <1>2 DEF ipc_create_shm, NewShm
  <1>3. CASE GiveUp
    BY <1>3 DEF GiveUp, RmSem
  <1>4. CASE ipc_init_sem
    <2>1. PICK i \in 0..2 :
            /\ spc = SetPc[i + 1] /\ spc' = SetPc[i + 2]
            /\ sem' = [sem EXCEPT ![ssem][i] = cmd_sem_value[i]]
      BY <1>4 DEF ipc_init_sem
    <2>2. UNCHANGED <<cpc, csem, ssem>>
      BY <1>4 DEF ipc_init_sem
    <2>3. CASE i = 0
      <3>1. spc = "set0"
        BY ONLY <2>1, <2>3 DEF SetPc
      <3> QED
        BY <2>2, <3>1
    <2>4. CASE i = 1
      <3>1. spc = "set1"
        BY ONLY <2>1, <2>4 DEF SetPc
      <3>2. sem'[ssem][S_READ] = sem[ssem][S_READ]
        BY <2>1, <2>4, <3>1
      <3> QED
        BY <2>2, <3>1, <3>2
    <2>5. CASE i = 2
      <3>1. spc' = "run"
        BY ONLY <2>1, <2>5 DEF SetPc
      <3> QED
        BY <3>1
    <2> QED
      BY <2>1, <2>3, <2>4, <2>5
  <1>5. CASE ServeTake
    BY <1>5 DEF ServeTake
  <1>6. CASE ServePost
    BY <1>6 DEF ServePost
  <1>7. CASE StopSem
    BY <1>7 DEF StopSem, RmSem
  <1>8. CASE StopShm
    BY <1>8 DEF StopShm, RmShm
  <1>9. CASE Kill
    BY <1>9 DEF Kill
  <1>10. ASSUME NEW c \in Clients, Approach(c) PROVE Early'
    <2>1. UNCHANGED <<spc, ssem, sem, lost>>
      BY <1>10, Outside
    <2>2. \A d \in Clients : cpc'[d] = "wait" /\ csem'[d] = ssem
                               => cpc[d] = "wait" /\ csem[d] = ssem
      BY <1>10, Outside
    <2> QED
      BY <2>1, <2>2
  <1>11. ASSUME NEW c \in Clients, Acquire(c) PROVE Early'
    <2> HIDE DEF SemType, SemValues
    <2>1. UNCHANGED <<spc, ssem>>
      BY <1>11 DEF Acquire
    <2>2. \A d \in Clients : cpc'[d] = "wait" /\ csem'[d] = ssem
                               => cpc[d] = "wait" /\ csem[d] = ssem
      BY <1>11, AcquireEffect
    <2>3. spc \in HasSem => sem'[ssem][S_READ] = sem[ssem][S_READ]
      BY <1>11, AcquireEffect, ServerSet
    <2> QED
      BY <2>1, <2>2, <2>3
  <1>12. ASSUME NEW c \in Clients, Post(c) PROVE Early'
    <2> HIDE DEF SemType, SemValues
    <2>1. UNCHANGED <<spc, ssem, lost>>
      BY <1>12 DEF Post
    <2>2. CASE csem[c] = ssem
      <3>1. sem'[ssem][S_READ] > 0
        BY <1>12, <2>2, PostEffect
      <3> QED
        BY <2>1, <3>1
    <2>3. CASE csem[c] # ssem
      <3>1. \A d \in Clients : cpc'[d] = "wait" /\ csem'[d] = ssem
                                 => cpc[d] = "wait" /\ csem[d] = ssem
        BY <1>12, <2>3, PostEffect
      <3>2. spc \in HasSem => sem'[ssem] = sem[ssem]
        BY <1>12, <2>3, PostEffect, ServerSet
      <3> QED
        BY <2>1, <3>1, <3>2
    <2> QED
      BY <2>2, <2>3
  <1>13. ASSUME NEW c \in Clients, Return(c) PROVE Early'
    <2> HIDE DEF SemType, SemValues
    <2>1. UNCHANGED <<spc, ssem>>
      BY <1>13 DEF Return
    <2>2. \A d \in Clients : cpc'[d] = "wait" /\ csem'[d] = ssem
                               => cpc[d] = "wait" /\ csem[d] = ssem
      BY <1>13, ReturnEffect
    <2>3. spc \in HasSem => sem'[ssem][S_READ] = sem[ssem][S_READ]
      BY <1>13, ReturnEffect, ServerSet
    <2> QED
      BY <2>1, <2>2, <2>3
  <1>14. ASSUME NEW c \in Clients, Fail(c) PROVE Early'
    BY <1>14 DEF Fail, Goto
  <1>15. CASE UNCHANGED vars
    BY <1>15 DEF vars
  <1>16. CASE KillClosing
    BY <1>16 DEF KillClosing
  <1> QED
    BY <1>1, <1>2, <1>3, <1>4, <1>5, <1>6, <1>7, <1>8, <1>9, <1>10, <1>11,
       <1>12, <1>13, <1>14, <1>15, <1>16 DEF Next, ServerStep, ClientStep,
       Approach

\* The only client in an exchange is the one that takes the answer.
LEMMA RequestStep ==
  ASSUME SemType, ShmType, SemValues, PcType, SemOwner, OneHolder, Early,
     RequestKept, [Next]_vars
  PROVE  RequestKept'
PROOF
  <1> USE StartupAssumption DEF serverVars, clientVars, semVars, shmVars,
     SEND, C_READ, S_READ, SemType, SemValues, PcType, SemOwner, HasSem,
     OneHolder, On, RequestKept, Initialised
  <1>1. CASE ipc_create_sem
    BY <1>1 DEF ipc_create_sem, NewSem
  <1>2. CASE ipc_create_shm
    BY <1>2 DEF ipc_create_shm, NewShm
  <1>3. CASE GiveUp
    BY <1>3 DEF GiveUp, RmSem
  <1>4. CASE ipc_init_sem
    <2>1. UNCHANGED <<cpc, csem, ssem>> /\ spc' # "busy"
      BY <1>4 DEF ipc_init_sem, SetPc
    <2>2. ASSUME spc' = "run", NEW d \in Clients, cpc[d] = "wait",
                 csem[d] = ssem
          PROVE  d \in lost'
      <3>1. PICK i \in 0..2 :
              /\ spc = SetPc[i + 1] /\ spc' = SetPc[i + 2]
              /\ lost' = IF i = S_READ /\ sem[ssem][i] > 0
                         THEN lost \cup {c \in Clients :
                                          cpc[c] = "wait" /\ csem[c] = ssem}
                         ELSE lost
        BY <1>4 DEF ipc_init_sem
      <3>2. i = 2 /\ spc = "set2"
        BY ONLY <2>2, <3>1 DEF SetPc
      <3>3. sem[ssem][S_READ] > 0
        BY <2>2, <3>2 DEF Early
      <3> QED
        BY ONLY <2>2, <3>1, <3>2, <3>3 DEF S_READ
    <2> QED
      BY <2>1, <2>2
  <1>5. CASE ServeTake
    BY <1>5 DEF ServeTake
  <1>6. CASE ServePost
    <2>1. ssem' = ssem /\ sem'[ssem][C_READ] = sem[ssem][C_READ] + 1
          /\ sem'[ssem][S_READ] = sem[ssem][S_READ]
      BY <1>6 DEF ServePost
    <2>2. sem[ssem][C_READ] \in Nat /\ sem[ssem][S_READ] \in Nat
      BY <1>6 DEF ServePost
    <2> HIDE DEF SemType, SemValues, SemOwner, OneHolder
    <2>3. sem'[ssem'][S_READ] + sem'[ssem'][C_READ] > 0
      BY <2>1, <2>2
    <2> QED
      BY <2>3
  <1>7. CASE StopSem
    BY <1>7 DEF StopSem, RmSem
  <1>8. CASE StopShm
    BY <1>8 DEF StopShm, RmShm
  <1>9. CASE Kill
    BY <1>9 DEF Kill
  <1>10. ASSUME NEW c \in Clients, Approach(c) PROVE RequestKept'
    <2>1. UNCHANGED <<spc, ssem, sem, lost>>
      BY <1>10, Outside
    <2>2. \A d \in Clients : cpc'[d] = "wait" /\ csem'[d] = ssem
                               => cpc[d] = "wait" /\ csem[d] = ssem
      BY <1>10, Outside
    <2> QED
      BY <2>1, <2>2
  <1>11. ASSUME NEW c \in Clients, Acquire(c) PROVE RequestKept'
    <2> HIDE DEF SemType, SemValues
    <2>1. UNCHANGED <<spc, ssem, lost>>
      BY <1>11 DEF Acquire
    <2>2. \A d \in Clients : cpc'[d] = "wait" /\ csem'[d] = ssem
                               => cpc[d] = "wait" /\ csem[d] = ssem
      BY <1>11, AcquireEffect
    <2>3. spc \in HasSem => /\ sem'[ssem][S_READ] = sem[ssem][S_READ]
                            /\ sem'[ssem][C_READ] = sem[ssem][C_READ]
      BY <1>11, AcquireEffect, ServerSet
    <2> QED
      BY <2>1, <2>2, <2>3
  <1>12. ASSUME NEW c \in Clients, Post(c) PROVE RequestKept'
    <2> HIDE DEF SemType, SemValues
    <2>1. UNCHANGED <<spc, ssem, lost>>
      BY <1>12 DEF Post
    <2>2. CASE csem[c] = ssem
      <3>1. sem'[ssem][S_READ] + sem'[ssem][C_READ] > 0
        BY <1>12, <2>2, PostEffect
      <3> QED
        BY <2>1, <3>1
    <2>3. CASE csem[c] # ssem
      <3>1. \A d \in Clients : cpc'[d] = "wait" /\ csem'[d] = ssem
                                 => cpc[d] = "wait" /\ csem[d] = ssem
        BY <1>12, <2>3, PostEffect
      <3>2. spc \in HasSem => sem'[ssem] = sem[ssem]
        BY <1>12, <2>3, PostEffect, ServerSet
      <3> QED
        BY <2>1, <3>1, <3>2
    <2> QED
      BY <2>2, <2>3
  <1>13. ASSUME NEW c \in Clients, Return(c) PROVE RequestKept'
    BY <1>13 DEF Return, Goto
  <1>14. ASSUME NEW c \in Clients, Fail(c) PROVE RequestKept'
    BY <1>14 DEF Fail, Goto
  <1>15. CASE UNCHANGED vars
    BY <1>15 DEF vars
  <1>16. CASE KillClosing
    BY <1>16 DEF KillClosing
  <1> QED
    BY <1>1, <1>2, <1>3, <1>4, <1>5, <1>6, <1>7, <1>8, <1>9, <1>10, <1>11,
       <1>12, <1>13, <1>14, <1>15, <1>16 DEF Next, ServerStep, ClientStep, Approach

\* A step that makes no client late and no late client move keeps it so.
LEMMA AttachFrame ==
  ASSUME FailedAttach, sshm' = sshm,
         sshm \notin shmLive => sshm \notin shmLive',
         \A d \in Clients : Late(d)' => Late(d) /\ cpc'[d] = cpc[d]
  PROVE  FailedAttach'
PROOF
  BY DEF FailedAttach

\* A client that attached too late finds no SEND to take.
LEMMA AttachStep ==
  ASSUME SemType, ShmType, SemValues, PcType, SemOwner, ShmOwner, Quiet,
         FailedAttach, [Next]_vars
  PROVE  FailedAttach'
PROOF
  <1> USE StartupAssumption DEF serverVars, clientVars, semVars, shmVars,
     SEND, C_READ, S_READ, SemType, ShmType, PcType, SemOwner, ShmOwner,
     HasSem, HasShm, Late
  <1>1. CASE ipc_create_sem
    <2>1. sshm' = sshm /\ (sshm \notin shmLive => sshm \notin shmLive')
      BY <1>1 DEF ipc_create_sem, NewSem
    <2>2. \A d \in Clients : Late(d)' => Late(d) /\ cpc'[d] = cpc[d]
      BY <1>1 DEF ipc_create_sem, NewSem
    <2> QED
      BY <2>1, <2>2, AttachFrame
  <1>2. CASE ipc_create_shm
    <2>1. CASE UNCHANGED <<sshm, shmVars>>
      BY <1>2, <2>1 DEF ipc_create_shm, FailedAttach
    <2>2. CASE NewShm /\ sshm' = nshm'
      <3>1. \A d \in Clients : cshm'[d] # sshm'
        BY <1>2, <2>2 DEF ipc_create_shm, NewShm
      <3> QED
        BY <3>1 DEF FailedAttach
    <2> QED
      BY <1>2, <2>1, <2>2 DEF ipc_create_shm
  <1>3. CASE GiveUp
    <2>1. sshm' = sshm /\ (sshm \notin shmLive => sshm \notin shmLive')
      BY <1>3 DEF GiveUp, RmSem
    <2>2. \A d \in Clients : Late(d)' => Late(d) /\ cpc'[d] = cpc[d]
      BY <1>3 DEF GiveUp, RmSem
    <2> QED
      BY <2>1, <2>2, AttachFrame
  <1>4. CASE ipc_init_sem
    <2>1. sshm' = sshm /\ (sshm \notin shmLive => sshm \notin shmLive')
      BY <1>4 DEF ipc_init_sem
    <2>2. \A d \in Clients : Late(d)' => Late(d) /\ cpc'[d] = cpc[d]
      BY <1>4 DEF ipc_init_sem
    <2> QED
      BY <2>1, <2>2, AttachFrame
  <1>5. CASE ServeTake
    <2>1. sshm' = sshm /\ (sshm \notin shmLive => sshm \notin shmLive')
      BY <1>5 DEF ServeTake
    <2>2. \A d \in Clients : Late(d)' => Late(d) /\ cpc'[d] = cpc[d]
      BY <1>5 DEF ServeTake
    <2> QED
      BY <2>1, <2>2, AttachFrame
  <1>6. CASE ServePost
    <2>1. sshm' = sshm /\ (sshm \notin shmLive => sshm \notin shmLive')
      BY <1>6 DEF ServePost
    <2>2. \A d \in Clients : Late(d)' => Late(d) /\ cpc'[d] = cpc[d]
      BY <1>6 DEF ServePost
    <2> QED
      BY <2>1, <2>2, AttachFrame
  <1>7. CASE StopSem
    <2>1. sshm' = sshm /\ (sshm \notin shmLive => sshm \notin shmLive')
      BY <1>7 DEF StopSem, RmSem
    <2>2. \A d \in Clients : Late(d)' => Late(d) /\ cpc'[d] = cpc[d]
      BY <1>7 DEF StopSem, RmSem
    <2> QED
      BY <2>1, <2>2, AttachFrame
  <1>8. CASE StopShm
    <2>1. sshm' = sshm /\ (sshm \notin shmLive => sshm \notin shmLive')
      BY <1>8 DEF StopShm, RmShm
    <2>2. \A d \in Clients : Late(d)' => Late(d) /\ cpc'[d] = cpc[d]
      BY <1>8 DEF StopShm, RmShm
    <2> QED
      BY <2>1, <2>2, AttachFrame
  <1>9. CASE Kill
    <2>1. sshm' = sshm /\ (sshm \notin shmLive => sshm \notin shmLive')
      BY <1>9 DEF Kill
    <2>2. \A d \in Clients : Late(d)' => Late(d) /\ cpc'[d] = cpc[d]
      BY <1>9 DEF Kill
    <2> QED
      BY <2>1, <2>2, AttachFrame
  <1>10. ASSUME NEW c \in Clients, Lookup(c) PROVE FailedAttach'
    <2>1. sshm' = sshm /\ (sshm \notin shmLive => sshm \notin shmLive')
      BY <1>10 DEF Lookup
    <2>2. \A d \in Clients : Late(d)' => Late(d) /\ cpc'[d] = cpc[d]
      BY <1>10 DEF Lookup, Goto
    <2> QED
      BY <2>1, <2>2, AttachFrame
  <1>11. ASSUME NEW c \in Clients, ProbeSem(c) PROVE FailedAttach'
    <2>1. sshm' = sshm /\ (sshm \notin shmLive => sshm \notin shmLive')
      BY <1>11 DEF ProbeSem
    <2>2. \A d \in Clients : Late(d)' => Late(d) /\ cpc'[d] = cpc[d]
      BY <1>11, Outside DEF Approach, ProbeSem, NewSem, Goto
    <2> QED
      BY <2>1, <2>2, AttachFrame
  <1>12. ASSUME NEW c \in Clients, UndoSem(c) PROVE FailedAttach'
    <2>1. sshm' = sshm /\ (sshm \notin shmLive => sshm \notin shmLive')
      BY <1>12 DEF UndoSem, RmSem
    <2>2. \A d \in Clients : Late(d)' => Late(d) /\ cpc'[d] = cpc[d]
      BY <1>12 DEF UndoSem, RmSem, Goto
    <2> QED
      BY <2>1, <2>2, AttachFrame
  <1>13. ASSUME NEW c \in Clients, GetSem(c) PROVE FailedAttach'
    <2>1. sshm' = sshm /\ (sshm \notin shmLive => sshm \notin shmLive')
      BY <1>13 DEF GetSem
    <2>2. \A d \in Clients : Late(d)' => Late(d) /\ cpc'[d] = cpc[d]
      BY <1>13 DEF GetSem, NewSem, Goto
    <2> QED
      BY <2>1, <2>2, AttachFrame
  <1>14. ASSUME NEW c \in Clients, ProbeShm(c) PROVE FailedAttach'
    <2>1. sshm' = sshm /\ (sshm \notin shmLive => sshm \notin shmLive')
      BY <1>14 DEF ProbeShm, NewShm
    <2>2. \A d \in Clients : Late(d)' => Late(d) /\ cpc'[d] = cpc[d]
      BY <1>14 DEF ProbeShm, NewShm, Goto
    <2> QED
      BY <2>1, <2>2, AttachFrame
  <1>15. ASSUME NEW c \in Clients, UndoShm(c) PROVE FailedAttach'
    <2>1. sshm' = sshm /\ (sshm \notin shmLive => sshm \notin shmLive')
      BY <1>15 DEF UndoShm, RmShm
    <2>2. \A d \in Clients : Late(d)' => Late(d) /\ cpc'[d] = cpc[d]
      BY <1>15 DEF UndoShm, RmShm, Goto
    <2> QED
      BY <2>1, <2>2, AttachFrame
  <1>16. ASSUME NEW c \in Clients, GetShm(c) PROVE FailedAttach'
    <2>1. sshm' = sshm /\ (sshm \notin shmLive => sshm \notin shmLive')
      BY <1>16 DEF GetShm, NewShm
    <2>2. \A d \in Clients : Late(d)' => Late(d) /\ cpc'[d] = cpc[d]
      BY <1>16 DEF GetShm, NewShm, Goto
    <2> QED
      BY <2>1, <2>2, AttachFrame
  <1>17. ASSUME NEW c \in Clients, Shmat(c) PROVE FailedAttach'
    <2>1. \A d \in Clients \ {c} : Late(d)' => Late(d) /\ cpc'[d] = cpc[d]
      BY <1>17 DEF Shmat, Goto
    <2>2. Late(c)' => cpc'[c] = "p_send" /\ sshm' \notin shmLive'
      <3>1. mapped'[c] <=> cshm[c] \in shmLive
        BY <1>17 DEF Shmat
      <3>2. cpc'[c] = "p_send" /\ UNCHANGED <<cshm, sshm, shmLive>>
        BY <1>17 DEF Shmat, Goto
      <3> QED
        BY <3>1, <3>2
    <2> QED
      BY <1>17, <2>1, <2>2 DEF Shmat, FailedAttach
  <1>18. ASSUME NEW c \in Clients, Acquire(c) PROVE FailedAttach'
    <2>1. closing = 0 /\ sshm \in shmLive
      BY <1>18, NotQuiet DEF Acquire
    <2>2. ~Late(c)
      BY <1>18, <2>1 DEF FailedAttach
    <2>3. \A d \in Clients : Late(d)' => Late(d) /\ cpc'[d] = cpc[d]
      BY <1>18, <2>2 DEF Acquire, Goto
    <2> QED
      BY <1>18, <2>3, AttachFrame DEF Acquire
  <1>19. ASSUME NEW c \in Clients, Post(c) PROVE FailedAttach'
    <2>1. ~Late(c)
      BY <1>19 DEF Post, FailedAttach
    <2>2. \A d \in Clients : Late(d)' => Late(d) /\ cpc'[d] = cpc[d]
      BY <1>19, <2>1 DEF Post, Goto
    <2> QED
      BY <1>19, <2>2, AttachFrame DEF Post
  <1>20. ASSUME NEW c \in Clients, Return(c) PROVE FailedAttach'
    <2>1. sshm' = sshm /\ (sshm \notin shmLive => sshm \notin shmLive')
      BY <1>20 DEF Return
    <2>2. \A d \in Clients : Late(d)' => Late(d) /\ cpc'[d] = cpc[d]
      BY <1>20 DEF Return, Goto
    <2> QED
      BY <2>1, <2>2, AttachFrame
  <1>21. ASSUME NEW c \in Clients, Fail(c) PROVE FailedAttach'
    <2>1. sshm' = sshm /\ (sshm \notin shmLive => sshm \notin shmLive')
      BY <1>21 DEF Fail
    <2>2. \A d \in Clients : Late(d)' => Late(d) /\ cpc'[d] = cpc[d]
      BY <1>21 DEF Fail, Goto
    <2> QED
      BY <2>1, <2>2, AttachFrame
  <1>22. CASE UNCHANGED vars
    BY <1>22 DEF vars, FailedAttach
  <1>23. CASE KillClosing
    <2>1. sshm' = sshm /\ (sshm \notin shmLive => sshm \notin shmLive')
      BY <1>23 DEF KillClosing
    <2>2. \A d \in Clients : Late(d)' => Late(d) /\ cpc'[d] = cpc[d]
      BY <1>23 DEF KillClosing
    <2> QED
      BY <2>1, <2>2, AttachFrame
  <1>24. ASSUME NEW c \in Clients, KillLookup(c) PROVE FailedAttach'
    <2>1. sshm' = sshm /\ (sshm \notin shmLive => sshm \notin shmLive')
      BY <1>24 DEF KillLookup
    <2>2. \A d \in Clients : Late(d)' => Late(d) /\ cpc'[d] = cpc[d]
      BY <1>24 DEF KillLookup, Goto
    <2> QED
      BY <2>1, <2>2, AttachFrame
  <1> QED
    BY <1>1, <1>2, <1>3, <1>4, <1>5, <1>6, <1>7, <1>8, <1>9, <1>10, <1>11,
       <1>12, <1>13, <1>14, <1>15, <1>16, <1>17, <1>18, <1>19, <1>20, <1>21,
       <1>22, <1>23, <1>24 DEF Next, ServerStep, ClientStep

\* The three facts about the inductive invariant.
LEMMA Initial == Init => IInv
PROOF
  <1> SUFFICES ASSUME Init PROVE IInv
    OBVIOUS
  <1> USE StartupAssumption DEF Init
  <1>1. SemType /\ ShmType /\ SemValues /\ PcType /\ IsLeft
    <2>1. SemType /\ ShmType
      BY DEF SemType, ShmType
    <2>2. SemValues
      BY DEF SemValues
    <2>3. PcType
      <3>1. mapped \in [Clients -> BOOLEAN]
        OBVIOUS
      <3> QED
        BY <3>1 DEF PcType
    <2>4. IsLeft
      BY DEF IsLeft
    <2> QED
      BY <2>1, <2>2, <2>3, <2>4
  <1>2. SemOwner /\ ShmOwner
    BY DEF SemOwner, ShmOwner, HasSem, HasShm
  <1>3. Fresh /\ OneHolder /\ Quiet /\ Early /\ RequestKept /\ FailedAttach
    BY DEF Fresh, OneHolder, Quiet, Early, RequestKept, Initialised, FailedAttach,
           Late
  <1> QED
    BY <1>1, <1>2, <1>3, TypeParts DEF IInv

LEMMA Inductive == IInv /\ [Next]_vars => IInv'
PROOF
  <1> SUFFICES ASSUME IInv, [Next]_vars PROVE IInv'
    OBVIOUS
  <1>1. SemType /\ ShmType /\ SemValues /\ PcType /\ IsLeft
    BY TypeParts DEF IInv
  <1>2. TypeOK' /\ SemOwner' /\ ShmOwner' /\ Fresh'
    BY <1>1, TypeStep, SemOwnerStep, ShmOwnerStep, FreshStep DEF IInv
  <1>3. OneHolder' /\ Quiet' /\ Early' /\ RequestKept' /\ FailedAttach'
    BY <1>1, OneHolderStep, QuietStep, EarlyStep, RequestStep, AttachStep
       DEF IInv
  <1> QED
    BY <1>2, <1>3 DEF IInv

LEMMA Invariance == Spec => []IInv
PROOF
  BY Initial, Inductive, PTL DEF Spec

-----------------------------------------------------------------------------
\* The variables keep their types whatever servers and clients do in whatever
\* order: no key names an object that does not exist, nobody holds a number the
\* kernel has not given out, no semaphore falls below 0.
THEOREM TypeCorrect == Spec => []TypeOK
PROOF
  BY Invariance, PTL DEF IInv

\* Every set and every segment in the kernel has one that will remove it, but
\* for those in left: what a killed server or lookup had created, and what the
\* second semget or shmget of a lookup created.  ipc_create_cmd cleans up on its
\* error path, and no lookup takes away an object that is not its own.  While a
\* server runs, nothing is left: what is left keeps every server from starting.
THEOREM ObjectsOwned == Spec => []NoLeaks
PROOF
  <1>1. IInv => NoLeaks
    <2> SUFFICES ASSUME IInv PROVE NoLeaks
      OBVIOUS
    <2>1. \A o \in semLive :
            \/ o \in left.sem
            \/ o = ssem /\ spc # "off"
            \/ \E c \in Clients : cpc[c] = "undo_sem" /\ csem[c] = o
      BY DEF IInv, SemOwner, HasSem
    <2>2. \A o \in shmLive :
            \/ o \in left.shm
            \/ o = sshm /\ HasShm
            \/ o = closing
            \/ \E c \in Clients : cpc[c] = "undo_shm" /\ cshm[c] = o
      BY DEF IInv, ShmOwner
    <2>3. HasShm => left = [sem |-> {}, shm |-> {}]
      <3>1. HasShm => left.sem = {}
        BY DEF IInv, SemOwner, HasSem, HasShm
      <3>2. HasShm => left.shm = {}
        BY DEF IInv, ShmOwner
      <3>3. left = [sem |-> left.sem, shm |-> left.shm]
        BY TypeParts DEF IInv, IsLeft
      <3> QED
        BY <3>1, <3>2, <3>3
    <2> QED
      BY <2>1, <2>2, <2>3 DEF NoLeaks
  <1> QED
    BY <1>1, Invariance, PTL

\* Once ipc_create_cmd has set the semaphores, the keys lead to the server's
\* set and segment, and one client at most is between P(SEND) and V(SEND),
\* however many lookups race with the start and with each other.
THEOREM ExchangesExclude == Spec => []OneExchange
PROOF
  <1>1. IInv => OneExchange
    BY DEF IInv, OneExchange, Initialised, SemOwner, ShmOwner, HasSem, HasShm,
           OneHolder, On
  <1> QED
    BY <1>1, Invariance, PTL

\* A request posted to a running server is posted, in its hands or answered,
\* but for the one that ipc_init_sem itself wipes out: a client that got SEND
\* after the first SETVAL and posted before the third.
THEOREM RequestsKept == Spec => []RequestKept
PROOF
  BY Invariance, PTL DEF IInv

\* A client that has got SEND and found the segment of the last server is
\* attached to it: ipc_destroy_local_cmd removes the set before the segment, so
\* a client whose shmat came too late fails in P(SEND) before it writes through
\* the pointer.  Clients that found another segment are not covered.
THEOREM ServerSegmentMapped == Spec => []NoWildServer
PROOF
  <1>1. IInv => NoWildServer
    BY DEF IInv, FailedAttach, Late, NoWildServer
  <1> QED
    BY <1>1, Invariance, PTL
============================================================================
