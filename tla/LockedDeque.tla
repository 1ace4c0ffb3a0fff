----------------------------- MODULE LockedDeque -----------------------------
(***************************************************************************)
(* types::LockedDeque (include/framework/LockedDeque.hpp): a std::deque    *)
(* behind a std::mutex, used by several threads at once.                   *)
(*                                                                         *)
(* The body of a call is two steps, one that reads the deques and one that *)
(* writes them, so that only the mutexes make the call atomic.  A call on  *)
(* two LockedDeques takes both mutexes through std::scoped_lock, which     *)
(* locks one, tries the other, and lets go of the first one when that      *)
(* fails.                                                                  *)
(***************************************************************************)
EXTENDS DequeCalls

CONSTANTS MaxCalls,  \* bound: how many calls a thread makes
          NoThread   \* the owner of a free mutex

ASSUME LockedDequeAssumption ==
  /\ MaxCalls \in Nat
  /\ NoThread \notin Threads
  /\ Elements = Threads \X (1 .. MaxCalls)

VARIABLES
  deque,    \* contents of every LockedDeque
  mutex,    \* owner of every LockedDeque's mutex
  local,    \* the std::deque each thread passes to Move and Swap
  answer,   \* what each thread's last call returned
  pc,       \* where each thread is in its call
  call,     \* the call it is in
  seen,     \* what the body of that call has read
  made,     \* how many calls each thread has begun
  taken,    \* history: the elements that PopBack and PopFront handed out, in order
  queues    \* history: the deques used with Push and PopBack only

vars == <<deque, mutex, local, answer, pc, call, seen, made, taken, queues>>

QueueMethods == {"Push", "PopBack", "Throws", "Size", "IsEmpty"}

NoCall == [name |-> "none"]
NotSeen == [this |-> <<>>, other |-> <<>>]

TypeOK ==
  /\ deque \in [Deques -> Seq(Elements)]
  /\ mutex \in [Deques -> Threads \cup {NoThread}]
  /\ local \in [Threads -> Seq(Elements)]
  /\ answer \in [Threads -> [ok : BOOLEAN, elements : Seq(Elements), size : Nat]]
  /\ pc \in [Threads -> {"idle", "lock", "trylock", "read", "write", "unlock"}]
  /\ call \in [Threads -> Calls \cup {NoCall}]
  /\ seen \in [Threads -> [this : Seq(Elements), other : Seq(Elements)]]
  /\ made \in [Threads -> 0 .. MaxCalls]
  /\ taken \in Seq([value : Elements, from : Deques])
  /\ queues \in SUBSET Deques

Init ==
  /\ deque = [d \in Deques |-> <<>>]
  /\ mutex = [d \in Deques |-> NoThread]
  /\ local = [t \in Threads |-> <<>>]
  /\ answer = [t \in Threads |-> Nothing]
  /\ pc = [t \in Threads |-> "idle"]
  /\ call = [t \in Threads |-> NoCall]
  /\ seen = [t \in Threads |-> NotSeen]
  /\ made = [t \in Threads |-> 0]
  /\ taken = <<>>
  /\ queues = Deques

Goto(t, label) == pc' = [pc EXCEPT ![t] = label]

-----------------------------------------------------------------------------
(* A thread calls a method; the element it pushes is the one it has made   *)
(* for this call.                                                          *)
Begin(t, method, this, other) ==
  /\ pc[t] = "idle"
  /\ made[t] < MaxCalls
  /\ made' = [made EXCEPT ![t] = @ + 1]
  /\ method \in OneDeque => other = this
  /\ call' = [call EXCEPT ![t] =
                [name |-> method, this |-> this, other |-> other, value |-> <<t, made[t] + 1>>]]
  /\ queues' = IF method \in QueueMethods THEN queues ELSE queues \ {this, other}
  /\ Goto(t, "lock")
  /\ UNCHANGED <<deque, mutex, local, answer, seen, taken>>

ReturnOnItself(t) ==
  /\ pc[t] = "lock"
  /\ OnItself(call[t])
  /\ answer' = [answer EXCEPT ![t] = Returned(TRUE, <<>>, 0)]
  /\ call' = [call EXCEPT ![t] = NoCall]
  /\ Goto(t, "idle")
  /\ UNCHANGED <<deque, mutex, local, seen, made, taken, queues>>

(* std::lock_guard, or the first half of std::scoped_lock: either mutex    *)
(* may be the one it starts with.                                          *)
LockOne(t, d) ==
  /\ pc[t] = "lock"
  /\ ~OnItself(call[t])
  /\ d \in {call[t].this, call[t].other}
  /\ mutex[d] = NoThread
  /\ mutex' = [mutex EXCEPT ![d] = t]
  /\ Goto(t, IF call[t].name \in TwoDeques THEN "trylock" ELSE "read")
  /\ UNCHANGED <<deque, local, answer, call, seen, made, taken, queues>>

(* Mutant: only one of the two mutexes is locked.                          *)
LockBothLocksOne(t) ==
  /\ pc[t] = "trylock"
  /\ Goto(t, "read")
  /\ UNCHANGED <<deque, mutex, local, answer, call, seen, made, taken, queues>>

(* The second half: the other mutex is free ...                            *)
LockBoth(t) ==
  /\ pc[t] = "trylock"
  /\ \E d \in {call[t].this, call[t].other} :
       /\ mutex[d] = NoThread
       /\ mutex' = [mutex EXCEPT ![d] = t]
  /\ Goto(t, "read")
  /\ UNCHANGED <<deque, local, answer, call, seen, made, taken, queues>>

(* Mutant: the first mutex is kept.                                        *)
BackOffKeepsFirst(t) ==
  /\ pc[t] = "trylock"
  /\ \A d \in {call[t].this, call[t].other} : mutex[d] # NoThread
  /\ Goto(t, "lock")
  /\ UNCHANGED <<deque, mutex, local, answer, call, seen, made, taken, queues>>

(* ... or it is not, and the first one is released.                        *)
BackOff(t) ==
  /\ pc[t] = "trylock"
  /\ \A d \in {call[t].this, call[t].other} : mutex[d] # NoThread
  /\ mutex' = [d \in Deques |-> IF mutex[d] = t THEN NoThread ELSE mutex[d]]
  /\ Goto(t, "lock")
  /\ UNCHANGED <<deque, local, answer, call, seen, made, taken, queues>>

Read(t) ==
  /\ pc[t] = "read"
  /\ seen' = [seen EXCEPT ![t] = [this |-> deque[call[t].this], other |-> deque[call[t].other]]]
  /\ Goto(t, "write")
  /\ UNCHANGED <<deque, mutex, local, answer, call, made, taken, queues>>

Write(t) ==
  /\ pc[t] = "write"
  /\ LET c == call[t]
         e == Effect(c, seen[t].this, seen[t].other, local[t])
     IN  /\ deque' = [deque EXCEPT ![c.other] = e.other, ![c.this] = e.this]
         /\ local' = [local EXCEPT ![t] = e.local]
         /\ answer' = [answer EXCEPT ![t] = e.ret]
         /\ taken' = taken \o [i \in DOMAIN e.ret.elements |->
                                [value |-> e.ret.elements[i], from |-> c.this]]
  /\ Goto(t, "unlock")
  /\ UNCHANGED <<mutex, call, seen, made, queues>>

(* The guard's destructor, and the return.                                 *)
UnlockReturn(t) ==
  /\ pc[t] = "unlock"
  /\ mutex' = [d \in Deques |-> IF mutex[d] = t THEN NoThread ELSE mutex[d]]
  /\ call' = [call EXCEPT ![t] = NoCall]
  /\ seen' = [seen EXCEPT ![t] = NotSeen]
  /\ Goto(t, "idle")
  /\ UNCHANGED <<deque, local, answer, made, taken, queues>>

-----------------------------------------------------------------------------
(* The steps of a thread inside a call.                                    *)
Step(t) ==
  \/ ReturnOnItself(t)
  \/ \E d \in Deques : LockOne(t, d)
  \/ LockBoth(t) \/ BackOff(t)
  \/ Read(t) \/ Write(t) \/ UnlockReturn(t)

Next ==
  \E t \in Threads :
    \/ Step(t)
    \/ \E method \in OneDeque \cup TwoDeques, this, other \in Deques : Begin(t, method, this, other)

(* Threads inside a call keep running.  std::scoped_lock's back-off may    *)
(* fail any number of times but not for ever: the trylock is strongly fair.*)
Spec ==
  /\ Init /\ [][Next]_vars
  /\ \A t \in Threads : WF_vars(Step(t)) /\ SF_vars(LockBoth(t))

-----------------------------------------------------------------------------
(* Properties                                                              *)

(* "concurrency wrapper over STL deque class to work in parallel threads"  *)
(* (LockedDeque.hpp:24): every call takes effect at one instant, and       *)
(* returns what the deque held at that instant.                            *)
Atomic == INSTANCE AtomicDeque
Linearizable == Atomic!AtomicSpec

(* "Use this method for pop the oldest value in the deque"                 *)
(* (LockedDeque.hpp:223): a deque used with Push and PopBack alone gives   *)
(* every producer's elements out in the order in which it pushed them.     *)
OldestFirst ==
  \A i, j \in DOMAIN taken :
    /\ i < j
    /\ taken[i].from = taken[j].from /\ taken[i].from \in queues
    /\ taken[i].value[1] = taken[j].value[1]
    => taken[i].value[2] < taken[j].value[2]

(* Two threads that swap the same two deques in opposite directions do not *)
(* block each other: every call returns.                                   *)
CallsReturn == \A t \in Threads : pc[t] = "lock" ~> pc[t] = "idle"
=============================================================================
