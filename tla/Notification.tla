---------------------------- MODULE Notification -----------------------------
(***************************************************************************)
(* framework::task::Notification (include/framework/Notification.hpp): one *)
(* subject thread publishes a value to the observer threads.               *)
(*                                                                         *)
(* The whole protocol is a LocalMutex that the subject owns from its       *)
(* constructor on.  Notify opens the mutex, spins until the isAlreadyLocked*)
(* flag shows that somebody got in, and takes the mutex back.  SetValue    *)
(* takes no lock: that it never races with a reader is a promise of the    *)
(* protocol and not of a guard.                                            *)
(***************************************************************************)
EXTENDS LocalMutex

CONSTANTS Subject,   \* the thread that constructed the NotificationInit object
          Values     \* what the template's Type ranges over

ASSUME NotificationAssumption == Subject \in Threads /\ Values # {}

Observers == Threads \ {Subject}

VARIABLES
  internalValue,  \* the value shared by all threads
  pc,             \* where each thread is inside the notification calls
  output,         \* what each observer's last successful call returned
  served          \* history: who has read since Notify last opened the mutex

notificationVars == <<internalValue, pc, output, served>>
vars == <<mutexVars, notificationVars>>

(* Subject: "writing" in SetValue; "unlock", "spin" and "relock" in Notify.*)
(* Observers: "wait" until the mutex is held, "reading" while the value is *)
(* copied, "leaving" while the mutex is given back.                        *)
SubjectLabels  == {"idle", "writing", "unlock", "spin", "relock"}
ObserverLabels == {"idle", "wait", "reading", "leaving"}

TypeOK ==
  /\ MutexTypeOK
  /\ internalValue \in Values
  /\ pc \in [Threads -> SubjectLabels \cup ObserverLabels]
  /\ pc[Subject] \in SubjectLabels
  /\ \A o \in Observers : pc[o] \in ObserverLabels
  /\ output \in [Observers -> Values]
  /\ served \in SUBSET Observers

(* Mutant: the subject's constructor does not lock the mutex.              *)
InitUnlocked ==
  /\ MutexInit
  /\ internalValue \in Values
  /\ pc = [t \in Threads |-> "idle"]
  /\ output = [o \in Observers |-> internalValue]
  /\ served = {}

(* The constructors: NotificationSubject locks the mutex.  The value is    *)
(* arbitrary: the most derived class NotificationInit does not hand its    *)
(* argument to the virtual base, which default-initialises internalValue.  *)
Init ==
  /\ owner = Subject
  /\ isRequestForMutexLock = TRUE
  /\ isAlreadyLocked = TRUE
  /\ isAlreadyUnlocked = FALSE
  /\ stage = [t \in Threads |-> IF t = Subject THEN "held" ELSE "out"]
  /\ internalValue \in Values
  /\ pc = [t \in Threads |-> "idle"]
  /\ output = [o \in Observers |-> internalValue]
  /\ served = {}

Goto(t, label) == pc' = [pc EXCEPT ![t] = label]

-----------------------------------------------------------------------------
(* NotificationSubject                                                     *)

(* SetValue: an assignment of an arbitrary Type, not atomic.               *)
SetValue ==
  /\ pc[Subject] = "idle"
  /\ Goto(Subject, "writing")
  /\ UNCHANGED <<mutexVars, internalValue, output, served>>

SetValueDone(v) ==
  /\ pc[Subject] = "writing"
  /\ internalValue' = v
  /\ Goto(Subject, "idle")
  /\ UNCHANGED <<mutexVars, output, served>>

(* Mutant: Notify does not reset the flag.                                 *)
NotifyKeepsFlag ==
  /\ pc[Subject] = "idle"
  /\ Goto(Subject, "unlock")
  /\ UNCHANGED <<mutexVars, internalValue, output, served>>

(* Notify: forget that the mutex was locked ...                            *)
Notify ==
  /\ pc[Subject] = "idle"
  /\ ResetLockedFlag(Subject)
  /\ Goto(Subject, "unlock")
  /\ UNCHANGED <<internalValue, output, served>>

(* ... open it ...                                                         *)
NotifyUnlock ==
  /\ pc[Subject] = "unlock"
  /\ Unlock(Subject)
  /\ served' = {}
  /\ Goto(Subject, "spin")
  /\ UNCHANGED <<internalValue, output>>

(* Mutant: the flag is reset after the mutex was opened.                   *)
NotifyResetsLate ==
  /\ pc[Subject] = "spin"
  /\ stage[Subject] = "released"
  /\ isAlreadyUnlocked' = TRUE
  /\ isAlreadyLocked' = FALSE
  /\ stage' = [stage EXCEPT ![Subject] = "out"]
  /\ UNCHANGED <<owner, isRequestForMutexLock, notificationVars>>

NotifyUnlocked ==
  /\ pc[Subject] = "spin"
  /\ StoreUnlocked(Subject)
  /\ UNCHANGED notificationVars

(* Mutant: Notify returns without the mutex.                               *)
NotifySeenReturns ==
  /\ pc[Subject] = "spin"
  /\ stage[Subject] = "out"
  /\ isAlreadyLocked
  /\ Goto(Subject, "idle")
  /\ UNCHANGED <<mutexVars, internalValue, output, served>>

(* ... leave the empty loop once the flag is up, and ask for the mutex ... *)
NotifySeen ==
  /\ pc[Subject] = "spin"
  /\ stage[Subject] = "out"
  /\ isAlreadyLocked
  /\ Lock(Subject)
  /\ Goto(Subject, "relock")
  /\ UNCHANGED <<internalValue, output, served>>

(* ... get it, and return.                                                 *)
NotifyRelock ==
  /\ pc[Subject] = "relock"
  /\ Acquire(Subject)
  /\ UNCHANGED notificationVars

NotifyReturn ==
  /\ pc[Subject] = "relock"
  /\ StoreLocked(Subject)
  /\ Goto(Subject, "idle")
  /\ UNCHANGED <<internalValue, output, served>>

-----------------------------------------------------------------------------
(* NotificationObserver                                                    *)

Wait(o) ==
  /\ pc[o] = "idle"
  /\ Lock(o)
  /\ Goto(o, "wait")
  /\ UNCHANGED <<internalValue, output, served>>

(* WaitUntil and WaitFor.                                                  *)
WaitUntil(o) ==
  /\ pc[o] = "idle"
  /\ TryLockUntil(o)
  /\ Goto(o, "wait")
  /\ UNCHANGED <<internalValue, output, served>>

(* WaitUntil returns FALSE.                                                *)
WaitTimeout(o) ==
  /\ pc[o] = "wait"
  /\ GiveUp(o)
  /\ Goto(o, "idle")
  /\ UNCHANGED <<internalValue, output, served>>

WaitLock(o) ==
  /\ pc[o] = "wait"
  /\ Acquire(o) \/ StoreLocked(o)
  /\ UNCHANGED notificationVars

WaitRead(o) ==
  /\ pc[o] = "wait"
  /\ stage[o] = "held"
  /\ Goto(o, "reading")
  /\ UNCHANGED <<mutexVars, internalValue, output, served>>

WaitReadDone(o) ==
  /\ pc[o] = "reading"
  /\ output' = [output EXCEPT ![o] = internalValue]
  /\ served' = served \cup {o}
  /\ Goto(o, "leaving")
  /\ UNCHANGED <<mutexVars, internalValue>>

(* Mutant: Wait returns with the mutex locked.                             *)
WaitReturnsLocked(o) ==
  /\ pc[o] = "leaving"
  /\ Goto(o, "idle")
  /\ UNCHANGED <<mutexVars, internalValue, output, served>>

WaitUnlock(o) ==
  /\ pc[o] = "leaving"
  /\ Unlock(o)
  /\ UNCHANGED notificationVars

WaitReturn(o) ==
  /\ pc[o] = "leaving"
  /\ StoreUnlocked(o)
  /\ Goto(o, "idle")
  /\ UNCHANGED <<internalValue, output, served>>

-----------------------------------------------------------------------------
NotifyStep ==
  NotifyUnlock \/ NotifyUnlocked \/ NotifySeen \/ NotifyRelock \/ NotifyReturn

SubjectNext ==
  SetValue \/ (\E v \in Values : SetValueDone(v)) \/ Notify \/ NotifyStep

(* The steps of a call that has begun, its timeout apart.                  *)
WaitStep(o) ==
  WaitLock(o) \/ WaitRead(o) \/ WaitReadDone(o) \/ WaitUnlock(o) \/ WaitReturn(o)

ObserverNext(o) == Wait(o) \/ WaitUntil(o) \/ WaitTimeout(o) \/ WaitStep(o)

Next == SubjectNext \/ \E o \in Observers : ObserverNext(o)

(* A thread that is inside a call and can run is scheduled again; nobody   *)
(* has to call anything, and no timeout has to expire.  pthread mutexes    *)
(* are not fair: NotifyRelock is not strongly fair.                        *)
Spec ==
  /\ Init /\ [][Next]_vars
  /\ WF_vars(NotifyStep)
  /\ \A o \in Observers : WF_vars(WaitStep(o))

-----------------------------------------------------------------------------
(* Properties                                                              *)

(* SetValue writes without a lock of its own; still no observer copies the *)
(* value while it is being written (Notification.hpp:182-185, 76-99).      *)
NoDataRace ==
  pc[Subject] = "writing" => \A o \in Observers : pc[o] # "reading"

(* Wait and WaitUntil hand out a value only between a Notify's unlock and  *)
(* its return, never a value that the subject has not signalled yet        *)
(* (Notification.hpp:74, 85-87).                                           *)
NoEventBeforeSignal ==
  \A o \in Observers : pc[o] = "reading" => pc[Subject] \in {"spin", "relock"}

(* When Notify has the mutex back, some observer has read the value that   *)
(* is still current: Notify never returns with nobody told, although all   *)
(* it looks at is a flag (Notification.hpp:187-198).                       *)
SignalDelivered ==
  pc[Subject] = "relock" /\ owner = Subject =>
    \E o \in served : output[o] = internalValue

(* An observer blocked in Wait makes Notify leave its spin loop, whatever  *)
(* the other observers' timeouts do (Notification.hpp:194).                *)
WaiterEndsSpin ==
  (pc[Subject] = "spin" /\ \E o \in Observers : stage[o] = "lock")
    ~> (pc[Subject] # "spin")

(* Once it has been seen, Notify returns unless observers keep taking the  *)
(* mutex in front of it for ever (Notification.hpp:197).                   *)
NotifyReturns ==
  \/ []<>(\E o \in Observers : stage[o] = "acquired")
  \/ (pc[Subject] = "relock" ~> pc[Subject] = "idle")
=============================================================================
