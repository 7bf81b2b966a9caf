----------------------------- MODULE ProcMutex ------------------------------
(***************************************************************************)
(* The inter-process mutexes of os/unix/proc_mutex.c, in their four        *)
(* schemes: System V semaphores with SEM_UNDO, posix semaphores, a locked  *)
(* file with a pthread mutex for the threads of one process, and robust    *)
(* pthread mutexes in a table in shared memory.  Threads of several        *)
(* processes lock and unlock, processes die with the mutex, and the        *)
(* monitor repairs the pthread mutexes after a crash, without stopping     *)
(* anyone.                                                                 *)
(***************************************************************************)
EXTENDS Naturals, FiniteSets

CONSTANTS
  MtxThreads,
  ProcOf,         \* the process of each thread
  Mutexes,        \* the mutexes the program initialises
  TableSize,      \* PThreadMaxMutexes
  LockingSchemes, \* the schemes to start with
  Free            \* the owner of a free mutex

ASSUME ProcMutexAssumption ==
  /\ \A t \in MtxThreads : t \in DOMAIN ProcOf
  /\ TableSize \in Nat /\ LockingSchemes \subseteq {"sysv", "posix", "file", "pthread"}
  /\ Free \notin MtxThreads

VARIABLES
  scheme,         \* InterProcessLockingScheme
  mtxId,          \* pthread: the table entry of each mutex, 0 before init
  mtxState,       \* pthread: MTX_STATE_UNUSED or MTX_STATE_OK of each entry
  owner,          \* who has the semaphore, the file or the pthread mutex
  local,          \* file: who has the process's pthread mutex
  mtxPc,          \* what each thread does with which mutex
  dead,           \* processes that have died
  repair,         \* pthread: what the monitor's repair is doing
  rebuilt         \* ghost: mutexes that have been initialised again

pmVars == <<scheme, mtxId, mtxState, owner, local, mtxPc, dead, repair, rebuilt>>

MtxProcs == {ProcOf[t] : t \in MtxThreads}
Ids == 1..TableSize
Outside == [pc |-> "out"]
Resting == [pc |-> "rest"]

ProcMutexInit ==
  /\ scheme \in LockingSchemes
  /\ mtxId = [m \in Mutexes |-> 0]
  /\ mtxState = [i \in Ids |-> "unused"]
  /\ owner = [m \in Mutexes |-> Free]
  /\ local = [p \in MtxProcs |-> [m \in Mutexes |-> Free]]
  /\ mtxPc = [t \in MtxThreads |-> Outside]
  /\ dead = {}
  /\ repair = Resting
  /\ rebuilt = {}

(* pthread_proc_mutex_init takes the first unused entry of the table, and  *)
(* fails if there is none.  (The other schemes get an object of their own  *)
(* from the system.)  The father initialises mutexes before it forks.      *)
FirstUnused == {i \in Ids : mtxState[i] = "unused" /\ \A j \in 1..(i - 1) : mtxState[j] # "unused"}

ci_proc_mutex_init(m) ==
  /\ mtxId[m] = 0 /\ mtxPc = [t \in MtxThreads |-> Outside] /\ dead = {}
  /\ \E i \in FirstUnused :
       /\ mtxId' = [mtxId EXCEPT ![m] = i]
       /\ mtxState' = [mtxState EXCEPT ![i] = "ok"]
  /\ owner' = [owner EXCEPT ![m] = Free]
  /\ UNCHANGED <<scheme, local, mtxPc, dead, repair, rebuilt>>

(* ci_proc_mutex_destroy, by the father when nobody uses the mutex.        *)
ci_proc_mutex_destroy(m) ==
  /\ mtxId[m] # 0 /\ dead = {}
  /\ \A t \in MtxThreads : mtxPc[t].pc = "out"
  /\ mtxState' = [mtxState EXCEPT ![mtxId[m]] = "unused"]
  /\ mtxId' = [mtxId EXCEPT ![m] = 0]
  /\ UNCHANGED <<scheme, owner, local, mtxPc, dead, repair, rebuilt>>

Alive(t) == ProcOf[t] \notin dead

(* ci_proc_mutex_lock, up to the call that blocks.  In the file scheme the *)
(* thread first gets the mutex of its own process.                         *)
StartLock(t, m) ==
  /\ Alive(t) /\ mtxPc[t].pc = "out" /\ mtxId[m] # 0
  /\ IF scheme = "file"
     THEN /\ local[ProcOf[t]][m] = Free
          /\ local' = [local EXCEPT ![ProcOf[t]][m] = t]
     ELSE UNCHANGED local
  /\ mtxPc' = [mtxPc EXCEPT ![t] = [pc |-> "wait", mtx |-> m]]
  /\ UNCHANGED <<scheme, mtxId, mtxState, owner, dead, repair, rebuilt>>

(* Who can be given the mutex now.  A robust pthread mutex whose owner     *)
(* died is given to the next one with EOWNERDEAD, which makes it           *)
(* consistent again.  A file lock belongs to a process.                    *)
OwnerDied(m) == owner[m] # Free /\ ~Alive(owner[m])
Obtainable(m, t) ==
  \/ owner[m] = Free
  \/ scheme = "pthread" /\ OwnerDied(m)
  \/ scheme = "file" /\ owner[m] # Free /\ ProcOf[owner[m]] = ProcOf[t]

ci_proc_mutex_lock(t) ==
  /\ Alive(t) /\ mtxPc[t].pc = "wait"
  /\ Obtainable(mtxPc[t].mtx, t)
  /\ owner' = [owner EXCEPT ![mtxPc[t].mtx] = t]
  /\ mtxPc' = [mtxPc EXCEPT ![t].pc = "in"]
  /\ UNCHANGED <<scheme, mtxId, mtxState, local, dead, repair, rebuilt>>

(* semop, sem_wait or fcntl are interrupted: the call returns 0.           *)
LockInterrupted(t) ==
  /\ Alive(t) /\ mtxPc[t].pc = "wait" /\ scheme # "pthread"
  /\ mtxPc' = [mtxPc EXCEPT ![t] = Outside]
  /\ local' = IF scheme = "file" THEN [local EXCEPT ![ProcOf[t]][mtxPc[t].mtx] = Free] ELSE local
  /\ UNCHANGED <<scheme, mtxId, mtxState, owner, dead, repair, rebuilt>>

(* ci_proc_mutex_unlock.  A robust mutex that has been initialised again   *)
(* in between is not this thread's any more and stays as it is.            *)
ci_proc_mutex_unlock(t) ==
  /\ Alive(t) /\ mtxPc[t].pc = "in"
  /\ LET m == mtxPc[t].mtx IN
       /\ owner' = IF owner[m] = t \/ scheme # "pthread" THEN [owner EXCEPT ![m] = Free] ELSE owner
       /\ local' = IF scheme = "file" THEN [local EXCEPT ![ProcOf[t]][m] = Free] ELSE local
  /\ mtxPc' = [mtxPc EXCEPT ![t] = Outside]
  /\ UNCHANGED <<scheme, mtxId, mtxState, dead, repair, rebuilt>>

(* Mutant: semaphore operations without SEM_UNDO.                          *)
ProcessDies_NoUndo(p) ==
  /\ p \notin dead /\ \E t \in MtxThreads : Alive(t) /\ ProcOf[t] # p
  /\ dead' = dead \union {p}
  /\ owner' = [m \in Mutexes |->
                 IF scheme = "file" /\ owner[m] # Free /\ ProcOf[owner[m]] = p
                 THEN Free ELSE owner[m]]
  /\ mtxPc' = [t \in MtxThreads |-> IF ProcOf[t] = p THEN Outside ELSE mtxPc[t]]
  /\ UNCHANGED <<scheme, mtxId, mtxState, local, repair, rebuilt>>

(* A process dies.  The kernel undoes its semaphore operations (SEM_UNDO)  *)
(* and drops its file locks; it leaves a posix semaphore as it is and      *)
(* marks a robust mutex, whose owner stays on record.                      *)
ProcessDies(p) ==
  /\ p \notin dead /\ \E t \in MtxThreads : Alive(t) /\ ProcOf[t] # p
  /\ dead' = dead \union {p}
  /\ owner' = [m \in Mutexes |->
                 IF scheme \in {"sysv", "file"} /\ owner[m] # Free /\ ProcOf[owner[m]] = p
                 THEN Free ELSE owner[m]]
  /\ mtxPc' = [t \in MtxThreads |-> IF ProcOf[t] = p THEN Outside ELSE mtxPc[t]]
  /\ UNCHANGED <<scheme, mtxId, mtxState, local, repair, rebuilt>>

(***************************************************************************)
(* pthread_mutex_recover_after_crash, which the monitor calls when a child *)
(* has crashed, for one mutex after the other.                             *)
(***************************************************************************)
(* EOWNERDEAD: consistent again, and unlocked.  EBUSY: nothing to do.      *)
RepairTry(m) ==
  /\ scheme = "pthread" /\ dead # {} /\ mtxId[m] # 0
  /\ repair = Resting
  /\ \/ /\ OwnerDied(m)
        /\ owner' = [owner EXCEPT ![m] = Free]
        /\ UNCHANGED repair
     \/ /\ owner[m] = Free
        /\ repair' = [pc |-> "rebuild", mtx |-> m]
        /\ UNCHANGED owner
  /\ UNCHANGED <<scheme, mtxId, mtxState, local, mtxPc, dead, rebuilt>>

(* trylock succeeded, and the mutex has been unlocked: 0 is not EBUSY, so  *)
(* it is destroyed and initialised, whoever has it by now.                 *)
RepairRebuild ==
  /\ repair.pc = "rebuild"
  /\ owner' = [owner EXCEPT ![repair.mtx] = Free]
  /\ rebuilt' = rebuilt \union {repair.mtx}
  /\ repair' = Resting
  /\ UNCHANGED <<scheme, mtxId, mtxState, local, mtxPc, dead>>

ProcMutexNext ==
  \/ \E m \in Mutexes : ci_proc_mutex_init(m) \/ ci_proc_mutex_destroy(m) \/ RepairTry(m)
  \/ \E t \in MtxThreads : \/ \E m \in Mutexes : StartLock(t, m)
                           \/ ci_proc_mutex_lock(t) \/ LockInterrupted(t) \/ ci_proc_mutex_unlock(t)
  \/ \E p \in MtxProcs : ProcessDies(p)
  \/ RepairRebuild

ProcMutexSpec == ProcMutexInit /\ [][ProcMutexNext]_pmVars

(***************************************************************************)
(* Properties                                                              *)
(***************************************************************************)
Inside(m) == {t \in MtxThreads : mtxPc[t].pc = "in" /\ mtxPc[t].mtx = m}

(* Two threads, of one process or of two, are never inside the same mutex  *)
(* at once, in any scheme, over interrupted calls and deaths of owners, as *)
(* long as the monitor's repair has not initialised the mutex again; and   *)
(* in every scheme but that of posix semaphores, a mutex that nobody alive *)
(* is inside can be had by whoever waits for it: neither the death of an   *)
(* owner nor an interrupted call leaves it locked (ci_proc_mutex_lock,     *)
(* ci_proc_mutex_unlock, pthread_mutex_recover_after_crash).               *)
MutexSound ==
  /\ \A m \in Mutexes \ rebuilt : Cardinality(Inside(m)) <= 1
  /\ scheme # "posix" =>
       \A t \in MtxThreads :
         Alive(t) /\ mtxPc[t].pc = "wait" /\ Inside(mtxPc[t].mtx) = {} => Obtainable(mtxPc[t].mtx, t)
=============================================================================
