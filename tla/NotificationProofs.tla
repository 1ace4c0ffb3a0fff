------------------------- MODULE NotificationProofs --------------------------
(***************************************************************************)
(* For any set of threads: exclusion and the meaning of two flags of       *)
(* LocalMutex; and, for any set of values too, type correctness and the    *)
(* three safety invariants of Notification, which is built on LocalMutex.  *)
(***************************************************************************)
EXTENDS Notification, TLAPS

-----------------------------------------------------------------------------
(* LocalMutex                                                              *)

(* A thread owns the mutex from the pthread call that got it to the one    *)
(* that gives it up, whatever the flags say in between.                    *)
MInv == MutexTypeOK /\ MutualExclusion

LEMMA InitMInv == MutexInit => MInv
  BY NoThreadAssumption DEF MutexInit, MInv, MutexTypeOK, Stages, MutualExclusion

LEMMA MInvStep == MInv /\ [MutexNext]_mutexVars => MInv'
  <1> SUFFICES ASSUME MInv, [MutexNext]_mutexVars
               PROVE  MInv'
    OBVIOUS
  <1> USE NoThreadAssumption DEF MInv, MutexTypeOK, Stages, MutualExclusion
  <1>1. ASSUME NEW t \in Threads, stage[t] = "out" /\ Lock(t)
        PROVE  MInv'
    BY <1>1 DEF Lock, Request
  <1>2. ASSUME NEW t \in Threads, TryLock(t)
        PROVE  MInv'
    BY <1>2 DEF TryLock, Request
  <1>3. ASSUME NEW t \in Threads, TryLockUntil(t)
        PROVE  MInv'
    BY <1>3 DEF TryLockUntil, Request
  <1>4. ASSUME NEW t \in Threads, Acquire(t)
        PROVE  MInv'
    BY <1>4 DEF Acquire
  <1>5. ASSUME NEW t \in Threads, StoreLocked(t)
        PROVE  MInv'
    BY <1>5 DEF StoreLocked
  <1>6. ASSUME NEW t \in Threads, GiveUp(t)
        PROVE  MInv'
    BY <1>6 DEF GiveUp
  <1>7. ASSUME NEW t \in Threads, Unlock(t)
        PROVE  MInv'
    BY <1>7 DEF Unlock
  <1>8. ASSUME NEW t \in Threads, StoreUnlocked(t)
        PROVE  MInv'
    BY <1>8 DEF StoreUnlocked
  <1>9. ASSUME NEW t \in Threads,
               ResetLockedFlag(t) \/ ResetUnlockedFlag(t) \/ ResetRequestFlag(t)
        PROVE  MInv'
    BY <1>9 DEF ResetLockedFlag, ResetUnlockedFlag, ResetRequestFlag
  <1>10. CASE UNCHANGED mutexVars
    BY <1>10 DEF mutexVars
  <1>11. QED
    BY <1>1, <1>2, <1>3, <1>4, <1>5, <1>6, <1>7, <1>8, <1>9, <1>10 DEF MutexNext

(* The mutex belongs to the thread between its locking call and its        *)
(* unlocking one, although flags are stored before and after both.         *)
THEOREM Exclusion == MutexSpec => []MutualExclusion
  <1>1. MInv => MutualExclusion
    BY DEF MInv
  <1>2. QED
    BY <1>1, InitMInv, MInvStep, PTL DEF MutexSpec

(* A flag that turns true is stored by the one thread that moves in the    *)
(* step: isAlreadyLocked by the owner, isAlreadyUnlocked by a thread that  *)
(* has given the mutex up, whoever owns it by then (Mutex.cpp:15-45).      *)
THEOREM FlagsStoredTruly == MutexSpec => FlagsTrueWhenRaised
  <1> DEFINE Storing == {t \in Threads : stage'[t] # stage[t]}
             LockedByOwner ==
               ~isAlreadyLocked /\ isAlreadyLocked' =>
                 \E t \in Threads : Storing = {t} /\ owner = t /\ owner' = t
             UnlockedByFormer ==
               ~isAlreadyUnlocked /\ isAlreadyUnlocked' =>
                 \E t \in Threads : Storing = {t} /\ owner # t /\ owner' # t
  <1>1. ASSUME MInv, MutexNext PROVE LockedByOwner
    <2> SUFFICES ASSUME ~isAlreadyLocked, isAlreadyLocked'
                 PROVE  \E t \in Threads : Storing = {t} /\ owner = t /\ owner' = t
      OBVIOUS
    <2>1. PICK t \in Threads : StoreLocked(t)
      BY <1>1 DEF MutexNext, Lock, TryLock, TryLockUntil, Request, Acquire, GiveUp, Unlock,
             StoreUnlocked, ResetLockedFlag, ResetUnlockedFlag, ResetRequestFlag
    <2>2. owner = t /\ owner' = t
      BY <1>1, <2>1 DEF StoreLocked, MInv, MutualExclusion
    <2>3. Storing = {t}
      BY <1>1, <2>1 DEF StoreLocked, MInv, MutexTypeOK
    <2>4. QED
      BY <2>2, <2>3
  <1>2. ASSUME MInv, MutexNext PROVE UnlockedByFormer
    <2> SUFFICES ASSUME ~isAlreadyUnlocked, isAlreadyUnlocked'
                 PROVE  \E t \in Threads : Storing = {t} /\ owner # t /\ owner' # t
      OBVIOUS
    <2>1. PICK t \in Threads : StoreUnlocked(t)
      BY <1>2 DEF MutexNext, Lock, TryLock, TryLockUntil, Request, Acquire, GiveUp, Unlock,
             StoreLocked, ResetLockedFlag, ResetUnlockedFlag, ResetRequestFlag
    <2>2. owner # t /\ owner' # t
      BY <1>2, <2>1 DEF StoreUnlocked, MInv, MutualExclusion
    <2>3. Storing = {t}
      BY <1>2, <2>1 DEF StoreUnlocked, MInv, MutexTypeOK
    <2>4. QED
      BY <2>2, <2>3
  <1>3. MInv /\ [MutexNext]_mutexVars => [LockedByOwner /\ UnlockedByFormer]_mutexVars
    BY <1>1, <1>2
  <1>4. QED
    BY <1>3, InitMInv, MInvStep, PTL DEF MutexSpec, FlagsTrueWhenRaised

-----------------------------------------------------------------------------
(* Notification                                                            *)

(* Where a thread may own the mutex, and what that says of its caller.     *)
Holding == {"acquired", "held"}

MutexHeld ==
  \A t \in Threads : (owner = t) <=> (stage[t] \in Holding)

(* The subject gives the mutex up only between Notify's unlock and relock. *)
SubjectStage ==
  /\ pc[Subject] \in {"idle", "writing", "unlock"} => stage[Subject] = "held"
  /\ pc[Subject] = "spin" => stage[Subject] \in {"released", "out"}
  /\ pc[Subject] = "relock" => stage[Subject] \in {"lock", "acquired"}

(* An observer reads and leaves with the mutex in its hands.               *)
ObserverStage ==
  \A o \in Observers :
    /\ pc[o] = "idle" => stage[o] = "out"
    /\ pc[o] = "wait" => stage[o] \in {"lock", "timedlock", "acquired", "held"}
    /\ pc[o] = "reading" => stage[o] = "held"
    /\ pc[o] = "leaving" => stage[o] \in {"held", "released"}

(* An observer that owns the mutex and has not read yet will read before   *)
(* it can give the mutex up.                                               *)
AboutToRead(o) == owner = o /\ pc[o] \in {"wait", "reading"}

(* The flag that the subject polls stands for a reader, past or coming.    *)
FlagMeansReader ==
  /\ pc[Subject] = "unlock" => ~isAlreadyLocked
  /\ pc[Subject] = "relock" \/ (pc[Subject] = "spin" /\ isAlreadyLocked) =>
       served # {} \/ \E o \in Observers : AboutToRead(o)

(* While the mutex is open nobody writes: what was read is still current.  *)
ReadIsCurrent ==
  pc[Subject] \in {"spin", "relock"} => \A o \in served : output[o] = internalValue

IInv ==
  /\ TypeOK
  /\ MutexHeld
  /\ SubjectStage
  /\ ObserverStage
  /\ FlagMeansReader
  /\ ReadIsCurrent

-----------------------------------------------------------------------------
(* The constructors establish the inductive invariant.                     *)
LEMMA InitIInv == Init => IInv
  BY NoThreadAssumption, NotificationAssumption
     DEF Init, IInv, TypeOK, MutexTypeOK, Stages, SubjectLabels, ObserverLabels,
         Observers, MutexHeld, Holding, SubjectStage, ObserverStage,
         FlagMeansReader, ReadIsCurrent

(* Every step keeps the types.                                             *)
LEMMA TypeStep == TypeOK /\ [Next]_vars => TypeOK'
  <1> SUFFICES ASSUME TypeOK, [Next]_vars
               PROVE  TypeOK'
    OBVIOUS
  <1> USE NotificationAssumption
      DEF TypeOK, MutexTypeOK, Stages, SubjectLabels, ObserverLabels, Observers, Goto
  <1>1. CASE SetValue
    BY <1>1 DEF SetValue, mutexVars
  <1>2. ASSUME NEW v \in Values, SetValueDone(v)
        PROVE  TypeOK'
    BY <1>2 DEF SetValueDone, mutexVars
  <1>3. CASE Notify
    BY <1>3 DEF Notify, ResetLockedFlag
  <1>4. CASE NotifyUnlock
    BY <1>4 DEF NotifyUnlock, Unlock
  <1>5. CASE NotifyUnlocked
    BY <1>5 DEF NotifyUnlocked, StoreUnlocked, notificationVars
  <1>6. CASE NotifySeen
    BY <1>6 DEF NotifySeen, Lock, Request
  <1>7. CASE NotifyRelock
    BY <1>7 DEF NotifyRelock, Acquire, notificationVars
  <1>8. CASE NotifyReturn
    BY <1>8 DEF NotifyReturn, StoreLocked
  <1>9. ASSUME NEW o \in Observers, ObserverNext(o)
        PROVE  TypeOK'
    <2>1. CASE Wait(o)
      BY <2>1 DEF Wait, Lock, Request
    <2>2. CASE WaitUntil(o)
      BY <2>2 DEF WaitUntil, TryLockUntil, Request
    <2>3. CASE WaitTimeout(o)
      BY <2>3 DEF WaitTimeout, GiveUp
    <2>4. CASE WaitLock(o)
      BY <2>4 DEF WaitLock, Acquire, StoreLocked, notificationVars
    <2>5. CASE WaitRead(o)
      BY <2>5 DEF WaitRead, mutexVars
    <2>6. CASE WaitReadDone(o)
      BY <2>6 DEF WaitReadDone, mutexVars
    <2>7. CASE WaitUnlock(o)
      BY <2>7 DEF WaitUnlock, Unlock, notificationVars
    <2>8. CASE WaitReturn(o)
      BY <2>8 DEF WaitReturn, StoreUnlocked
    <2>9. QED
      BY <1>9, <2>1, <2>2, <2>3, <2>4, <2>5, <2>6, <2>7, <2>8 DEF ObserverNext, WaitStep
  <1>10. CASE UNCHANGED vars
    BY <1>10 DEF vars, mutexVars, notificationVars
  <1>11. QED
    BY <1>1, <1>2, <1>3, <1>4, <1>5, <1>6, <1>7, <1>8, <1>9, <1>10
       DEF Next, SubjectNext, NotifyStep

(* Every step keeps the rest of the inductive invariant.                   *)
LEMMA IInvStep == IInv /\ [Next]_vars => IInv'
  <1> SUFFICES ASSUME IInv, [Next]_vars
               PROVE  IInv'
    OBVIOUS
  <1>0. TypeOK'
    BY TypeStep DEF IInv
  <1> USE <1>0, NoThreadAssumption, NotificationAssumption
      DEF IInv, TypeOK, MutexTypeOK, SubjectLabels, ObserverLabels, Observers, Goto,
          MutexHeld, Holding, SubjectStage, ObserverStage, FlagMeansReader,
          AboutToRead, ReadIsCurrent
  <1>1. CASE SetValue
    BY <1>1 DEF SetValue, mutexVars
  <1>2. ASSUME NEW v \in Values, SetValueDone(v)
        PROVE  IInv'
    BY <1>2 DEF SetValueDone, mutexVars
  <1>3. CASE Notify
    BY <1>3 DEF Notify, ResetLockedFlag
  <1>4. CASE NotifyUnlock
    BY <1>4 DEF NotifyUnlock, Unlock
  <1>5. CASE NotifyUnlocked
    BY <1>5 DEF NotifyUnlocked, StoreUnlocked, notificationVars
  <1>6. CASE NotifySeen
    BY <1>6 DEF NotifySeen, Lock, Request
  <1>7. CASE NotifyRelock
    BY <1>7 DEF NotifyRelock, Acquire, notificationVars
  <1>8. CASE NotifyReturn
    BY <1>8 DEF NotifyReturn, StoreLocked
  <1>9. ASSUME NEW o \in Observers, ObserverNext(o)
        PROVE  IInv'
    <2>1. CASE Wait(o)
      BY <1>9, <2>1 DEF Wait, Lock, Request
    <2>2. CASE WaitUntil(o)
      BY <1>9, <2>2 DEF WaitUntil, TryLockUntil, Request
    <2>3. CASE WaitTimeout(o)
      BY <1>9, <2>3 DEF WaitTimeout, GiveUp
    <2>4. CASE WaitLock(o)
      <3>1. CASE Acquire(o)
        BY <1>9, <2>4, <3>1 DEF WaitLock, Acquire, notificationVars
      <3>2. CASE StoreLocked(o)
        BY <1>9, <2>4, <3>2 DEF WaitLock, StoreLocked, notificationVars
      <3>3. QED
        BY <2>4, <3>1, <3>2 DEF WaitLock
    <2>5. CASE WaitRead(o)
      BY <1>9, <2>5 DEF WaitRead, mutexVars
    <2>6. CASE WaitReadDone(o)
      BY <1>9, <2>6 DEF WaitReadDone, mutexVars
    <2>7. CASE WaitUnlock(o)
      BY <1>9, <2>7 DEF WaitUnlock, Unlock, notificationVars
    <2>8. CASE WaitReturn(o)
      BY <1>9, <2>8 DEF WaitReturn, StoreUnlocked
    <2>9. QED
      BY <1>9, <2>1, <2>2, <2>3, <2>4, <2>5, <2>6, <2>7, <2>8 DEF ObserverNext, WaitStep
  <1>10. CASE UNCHANGED vars
    BY <1>10 DEF vars, mutexVars, notificationVars
  <1>11. QED
    BY <1>1, <1>2, <1>3, <1>4, <1>5, <1>6, <1>7, <1>8, <1>9, <1>10
       DEF Next, SubjectNext, NotifyStep

LEMMA IInvAlways == Spec => []IInv
  BY InitIInv, IInvStep, PTL DEF Spec

-----------------------------------------------------------------------------
(* Every variable keeps its type, whatever the threads call.               *)
THEOREM TypeCorrect == Spec => []TypeOK
  <1>1. IInv => TypeOK
    BY DEF IInv
  <1>2. QED
    BY <1>1, IInvAlways, PTL

(* An observer that copies the value owns the mutex, so the subject, whose *)
(* stage is "held" outside Notify, is inside Notify.                       *)
LEMMA ReaderMeansNotify ==
  ASSUME IInv, NEW o \in Observers, pc[o] = "reading"
  PROVE  pc[Subject] \in {"spin", "relock"}
  <1>1. owner = o
    BY DEF IInv, ObserverStage, MutexHeld, Holding, Observers
  <1>2. o # Subject /\ owner # Subject
    BY <1>1 DEF Observers
  <1>3. stage[Subject] # "held"
    BY <1>2, NotificationAssumption DEF IInv, MutexHeld, Holding
  <1>4. QED
    BY <1>3 DEF IInv, SubjectStage, TypeOK, SubjectLabels

(* Values are handed out only while a Notify has the mutex open.           *)
THEOREM EventsAfterSignals == Spec => []NoEventBeforeSignal
  <1>1. IInv => NoEventBeforeSignal
    BY ReaderMeansNotify DEF NoEventBeforeSignal
  <1>2. QED
    BY <1>1, IInvAlways, PTL

(* SetValue never runs while an observer copies the value.                 *)
THEOREM RaceFree == Spec => []NoDataRace
  <1>1. IInv => NoDataRace
    BY ReaderMeansNotify DEF NoDataRace
  <1>2. QED
    BY <1>1, IInvAlways, PTL

(* A Notify that has the mutex back has told somebody the current value.   *)
THEOREM NotifyTells == Spec => []SignalDelivered
  <1>1. ASSUME IInv, pc[Subject] = "relock", owner = Subject
        PROVE  \E o \in served : output[o] = internalValue
    <2>1. \A o \in Observers : ~AboutToRead(o)
      BY <1>1 DEF AboutToRead, Observers
    <2>2. served # {}
      BY <1>1, <2>1 DEF IInv, FlagMeansReader
    <2>3. \A o \in served : output[o] = internalValue
      BY <1>1 DEF IInv, ReadIsCurrent
    <2>4. QED
      BY <2>2, <2>3
  <1>2. IInv => SignalDelivered
    BY <1>1 DEF SignalDelivered
  <1>3. QED
    BY <1>2, IInvAlways, PTL
=============================================================================
