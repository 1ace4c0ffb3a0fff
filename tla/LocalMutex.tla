------------------------------ MODULE LocalMutex ------------------------------
(***************************************************************************)
(* framework::system::LocalMutex (include/framework/Mutex.hpp,             *)
(* src/framework/Mutex.cpp): a POSIX mutex with three atomic flags that    *)
(* other threads may poll.                                                 *)
(*                                                                         *)
(* A call is not atomic: a flag is stored before or after the pthread call *)
(* it belongs to, and other threads run in between.  stage[t] says how far *)
(* thread t is inside its current call.  The mutex is the default kind     *)
(* (PTHREAD_MUTEX_INITIALIZER), so EDEADLK is never reported and a thread  *)
(* that locks twice blocks for ever.                                       *)
(***************************************************************************)

CONSTANTS Threads,   \* the threads that use the mutex
          NoThread   \* the owner of a free mutex

ASSUME NoThreadAssumption == NoThread \notin Threads

VARIABLES
  owner,                  \* the thread that holds the pthread mutex
  isRequestForMutexLock,  \* the three std::atomic_bool flags
  isAlreadyLocked,
  isAlreadyUnlocked,
  stage                   \* where each thread is inside the mutex calls

mutexVars == <<owner, isRequestForMutexLock, isAlreadyLocked, isAlreadyUnlocked, stage>>

(* "lock", "trylock" and "timedlock": inside the pthread call;             *)
(* "acquired": the call succeeded, isAlreadyLocked is not stored yet;      *)
(* "released": unlocked, isAlreadyUnlocked is not stored yet.              *)
Stages == {"out", "lock", "trylock", "timedlock", "acquired", "held", "released"}

MutexTypeOK ==
  /\ owner \in Threads \cup {NoThread}
  /\ isRequestForMutexLock \in BOOLEAN
  /\ isAlreadyLocked \in BOOLEAN
  /\ isAlreadyUnlocked \in BOOLEAN
  /\ stage \in [Threads -> Stages]

MutexInit ==
  /\ owner = NoThread
  /\ isRequestForMutexLock = FALSE
  /\ isAlreadyLocked = FALSE
  /\ isAlreadyUnlocked = FALSE
  /\ stage = [t \in Threads |-> "out"]

-----------------------------------------------------------------------------
(* Every locking call first announces its request, then enters pthread.    *)
Request(t, call) ==
  /\ isRequestForMutexLock' = TRUE
  /\ stage' = [stage EXCEPT ![t] = call]
  /\ UNCHANGED <<owner, isAlreadyLocked, isAlreadyUnlocked>>

Lock(t)         == stage[t] \in {"out", "held"} /\ Request(t, "lock")
TryLock(t)      == stage[t] = "out" /\ Request(t, "trylock")
TryLockUntil(t) == stage[t] = "out" /\ Request(t, "timedlock")

(* Mutant: every result of the pthread call counts as success.             *)
AcquireAnyResult(t) ==
  /\ stage[t] \in {"lock", "trylock", "timedlock"}
  /\ owner' = t
  /\ stage' = [stage EXCEPT ![t] = "acquired"]
  /\ UNCHANGED <<isRequestForMutexLock, isAlreadyLocked, isAlreadyUnlocked>>

(* The pthread call returns 0.                                             *)
Acquire(t) ==
  /\ stage[t] \in {"lock", "trylock", "timedlock"}
  /\ owner = NoThread
  /\ owner' = t
  /\ stage' = [stage EXCEPT ![t] = "acquired"]
  /\ UNCHANGED <<isRequestForMutexLock, isAlreadyLocked, isAlreadyUnlocked>>

(* isAlreadyLocked.store(true), the last thing a successful call does.     *)
StoreLocked(t) ==
  /\ stage[t] = "acquired"
  /\ isAlreadyLocked' = TRUE
  /\ stage' = [stage EXCEPT ![t] = "held"]
  /\ UNCHANGED <<owner, isRequestForMutexLock, isAlreadyUnlocked>>

(* pthread_mutex_trylock finds the mutex taken, or pthread_mutex_timedlock *)
(* reaches its deadline while the mutex is taken: the call returns FALSE.  *)
GiveUp(t) ==
  /\ stage[t] \in {"trylock", "timedlock"}
  /\ owner # NoThread
  /\ stage' = [stage EXCEPT ![t] = "out"]
  /\ UNCHANGED <<owner, isRequestForMutexLock, isAlreadyLocked, isAlreadyUnlocked>>

(* Mutant: the flag is stored while the mutex is still held.               *)
UnlockStoresFirst(t) ==
  /\ stage[t] = "held"
  /\ isAlreadyUnlocked' = TRUE
  /\ stage' = [stage EXCEPT ![t] = "released"]
  /\ UNCHANGED <<owner, isRequestForMutexLock, isAlreadyLocked>>

(* pthread_mutex_unlock by the holder; the flag is stored afterwards, when *)
(* another thread may already own the mutex.                               *)
Unlock(t) ==
  /\ stage[t] = "held"
  /\ owner' = NoThread
  /\ stage' = [stage EXCEPT ![t] = "released"]
  /\ UNCHANGED <<isRequestForMutexLock, isAlreadyLocked, isAlreadyUnlocked>>

(* Mutant: Unlock stores into the wrong flag.                              *)
StoreUnlockedWrongFlag(t) ==
  /\ stage[t] = "released"
  /\ isAlreadyLocked' = TRUE
  /\ stage' = [stage EXCEPT ![t] = "out"]
  /\ UNCHANGED <<owner, isRequestForMutexLock, isAlreadyUnlocked>>

StoreUnlocked(t) ==
  /\ stage[t] = "released"
  /\ isAlreadyUnlocked' = TRUE
  /\ stage' = [stage EXCEPT ![t] = "out"]
  /\ UNCHANGED <<owner, isRequestForMutexLock, isAlreadyLocked>>

(* The framework resets a flag only from the thread that holds the mutex.  *)
ResetLockedFlag(t) ==
  /\ stage[t] = "held"
  /\ isAlreadyLocked' = FALSE
  /\ UNCHANGED <<owner, isRequestForMutexLock, isAlreadyUnlocked, stage>>

ResetUnlockedFlag(t) ==
  /\ stage[t] = "held"
  /\ isAlreadyUnlocked' = FALSE
  /\ UNCHANGED <<owner, isRequestForMutexLock, isAlreadyLocked, stage>>

ResetRequestFlag(t) ==
  /\ stage[t] = "held"
  /\ isRequestForMutexLock' = FALSE
  /\ UNCHANGED <<owner, isAlreadyLocked, isAlreadyUnlocked, stage>>

-----------------------------------------------------------------------------
(* Threads that use the mutex properly: none locks what it holds already.  *)
MutexNext ==
  \E t \in Threads :
    \/ stage[t] = "out" /\ Lock(t)
    \/ TryLock(t) \/ TryLockUntil(t)
    \/ Acquire(t) \/ StoreLocked(t) \/ GiveUp(t)
    \/ Unlock(t) \/ StoreUnlocked(t)
    \/ ResetLockedFlag(t) \/ ResetUnlockedFlag(t) \/ ResetRequestFlag(t)

MutexSpec == MutexInit /\ [][MutexNext]_mutexVars

-----------------------------------------------------------------------------
(* The mutex belongs to exactly the thread that is between a successful    *)
(* locking call and its unlocking one.                                     *)
MutualExclusion ==
  \A t \in Threads : (owner = t) <=> (stage[t] \in {"acquired", "held"})

(* What a poller may conclude from a flag that turns true: isAlreadyLocked *)
(* comes from the thread that owns the mutex at that moment, never late    *)
(* from one that has lost it; isAlreadyUnlocked comes from a thread that   *)
(* no longer owns it, although by then another thread may (Mutex.cpp:21,   *)
(* 33, 43).  The thread that stores a flag is the one whose stage changes. *)
FlagsTrueWhenRaised ==
  [][LET Storing == {t \in Threads : stage'[t] # stage[t]}
     IN /\ ~isAlreadyLocked /\ isAlreadyLocked' =>
             \E t \in Threads : Storing = {t} /\ owner = t /\ owner' = t
        /\ ~isAlreadyUnlocked /\ isAlreadyUnlocked' =>
             \E t \in Threads : Storing = {t} /\ owner # t /\ owner' # t]_mutexVars

=============================================================================
