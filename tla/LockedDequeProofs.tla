-------------------------- MODULE LockedDequeProofs --------------------------
(***************************************************************************)
(* LockedDeque implements AtomicDeque, and a deque used as a queue hands   *)
(* the elements out oldest first, for any sets of threads and deques and   *)
(* any number of calls.                                                    *)
(***************************************************************************)
EXTENDS LockedDeque, TLAPS

(* The two deques of a call (the same one twice for most methods).         *)
Used(t) == {call[t].this, call[t].other}

Types ==
  /\ DOMAIN deque = Deques
  /\ DOMAIN seen = Threads
  /\ mutex \in [Deques -> Threads \cup {NoThread}]
  /\ pc \in [Threads -> {"idle", "lock", "trylock", "read", "write", "unlock"}]
  /\ call \in [Threads -> Calls \cup {NoCall}]
  /\ made \in [Threads -> 0 .. MaxCalls]

InCall == \A t \in Threads : pc[t] # "idle" => call[t] \in Calls

(* std::scoped_lock holds one of two mutexes while it tries the other; the *)
(* body of a call runs with all of them.                                   *)
HalfLocked ==
  \A t \in Threads : pc[t] = "trylock" =>
    /\ call[t].this # call[t].other
    /\ \E d \in Used(t) : mutex[d] = t

Locked ==
  \A t \in Threads : pc[t] \in {"read", "write", "unlock"} =>
    \A d \in Used(t) : mutex[d] = t

(* What the body has read is still there when it writes.                   *)
SeenIsCurrent ==
  \A t \in Threads : pc[t] = "write" =>
    /\ seen[t].this = deque[call[t].this]
    /\ seen[t].other = deque[call[t].other]

(* A call on the object itself has returned before it locks.               *)
NotOnItself ==
  \A t \in Threads : pc[t] \in {"trylock", "read", "write"} => ~OnItself(call[t])

IInv == Types /\ InCall /\ HalfLocked /\ Locked /\ SeenIsCurrent /\ NotOnItself

-----------------------------------------------------------------------------
LEMMA InitIInv == Init => IInv
  BY LockedDequeAssumption
     DEF Init, IInv, Types, InCall, HalfLocked, Locked, SeenIsCurrent, NotOnItself, NoCall

(* What a call works on are deques.                                        *)
LEMMA UsedDeques ==
  ASSUME NEW c \in Calls
  PROVE  /\ c.this \in Deques /\ c.other \in Deques
         /\ c.name \in OneDeque => c.other = c.this
         /\ c.name \in OneDeque \cup TwoDeques
  BY DEF Calls

LEMMA IInvStep == IInv /\ [Next]_vars => IInv'
  <1> SUFFICES ASSUME IInv, [Next]_vars
               PROVE  IInv'
    OBVIOUS
  <1> USE LockedDequeAssumption DEF Goto
  <1>1. ASSUME NEW t \in Threads, NEW method \in OneDeque \cup TwoDeques,
               NEW this \in Deques, NEW other \in Deques, Begin(t, method, this, other)
        PROVE  IInv'
    <2> DEFINE c == [name |-> method, this |-> this, other |-> other, value |-> <<t, made[t] + 1>>]
    <2>1. c \in Calls
      <3>1. made[t] + 1 \in 1 .. MaxCalls
        BY <1>1 DEF Begin, IInv, Types
      <3>2. <<t, made[t] + 1>> \in Elements
        BY <3>1
      <3>3. method \in OneDeque => other = this
        BY <1>1 DEF Begin
      <3>4. QED
        BY <3>2, <3>3 DEF Calls
    <2>2. call' = [call EXCEPT ![t] = c] /\ pc' = [pc EXCEPT ![t] = "lock"]
          /\ UNCHANGED <<deque, mutex, seen>>
      BY <1>1 DEF Begin
    <2>3. made' \in [Threads -> 0 .. MaxCalls]
      BY <1>1 DEF Begin, IInv, Types
    <2> HIDE DEF c
    <2>4. Types'
      BY <2>1, <2>2, <2>3 DEF IInv, Types
    <2>5. InCall'
      BY <2>1, <2>2 DEF IInv, Types, InCall
    <2>6. HalfLocked' /\ Locked' /\ SeenIsCurrent' /\ NotOnItself'
      BY <2>2 DEF IInv, Types, HalfLocked, Locked, SeenIsCurrent, NotOnItself, Used, OnItself
    <2>7. QED
      BY <2>4, <2>5, <2>6 DEF IInv
  <1>2. ASSUME NEW t \in Threads, ReturnOnItself(t)
        PROVE  IInv'
    BY <1>2 DEF ReturnOnItself, IInv, Types, InCall, HalfLocked, Locked, SeenIsCurrent, NotOnItself, Used, OnItself
  <1>3. ASSUME NEW t \in Threads, NEW d \in Deques, LockOne(t, d)
        PROVE  IInv'
    <2>1. call[t] \in Calls /\ d \in Used(t)
      BY <1>3 DEF LockOne, IInv, InCall, Used
    <2>2. call[t].name \in TwoDeques => call[t].this # call[t].other
      BY <1>3 DEF LockOne, OnItself
    <2>3. call[t].name \notin TwoDeques => call[t].this = d /\ call[t].other = d
      BY <2>1, UsedDeques DEF Used
    <2>4. Types' /\ InCall'
      BY <1>3 DEF LockOne, IInv, Types, InCall
    <2>5. HalfLocked'
      BY <1>3, <2>1, <2>2 DEF LockOne, IInv, Types, HalfLocked, Used
    <2>6. Locked'
      BY <1>3, <2>1, <2>3 DEF LockOne, IInv, Types, Locked, Used
    <2>7. SeenIsCurrent' /\ NotOnItself'
      BY <1>3 DEF LockOne, IInv, Types, SeenIsCurrent, NotOnItself, OnItself
    <2>8. QED
      BY <2>4, <2>5, <2>6, <2>7 DEF IInv
  <1>4. ASSUME NEW t \in Threads, LockBoth(t)
        PROVE  IInv'
    <2>1. PICK d \in Used(t) : mutex[d] = NoThread /\ mutex' = [mutex EXCEPT ![d] = t]
      BY <1>4 DEF LockBoth, Used
    <2>2. PICK e \in Used(t) : mutex[e] = t
      BY <1>4 DEF LockBoth, IInv, HalfLocked
    <2>3. d # e /\ Used(t) = {d, e} /\ d \in Deques /\ e \in Deques
      BY <1>4, <2>1, <2>2, UsedDeques DEF LockBoth, IInv, InCall, Used
    <2>4. Types' /\ InCall'
      BY <1>4, <2>1, <2>3 DEF LockBoth, IInv, Types, InCall
    <2>5. HalfLocked'
      BY <1>4, <2>1, <2>3 DEF LockBoth, IInv, Types, HalfLocked, Used
    <2>6. Locked'
      BY <1>4, <2>1, <2>2, <2>3 DEF LockBoth, IInv, Types, Locked, Used
    <2>7. SeenIsCurrent' /\ NotOnItself'
      BY <1>4 DEF LockBoth, IInv, Types, SeenIsCurrent, HalfLocked, NotOnItself, OnItself
    <2>8. QED
      BY <2>4, <2>5, <2>6, <2>7 DEF IInv
  <1>5. ASSUME NEW t \in Threads, BackOff(t) \/ UnlockReturn(t)
        PROVE  IInv'
    <2>1. /\ mutex' = [d \in Deques |-> IF mutex[d] = t THEN NoThread ELSE mutex[d]]
          /\ \A u \in Threads \ {t} : call'[u] = call[u] /\ pc'[u] = pc[u] /\ seen'[u] = seen[u]
          /\ pc'[t] \in {"idle", "lock"} /\ (pc'[t] = "lock" => call'[t] = call[t] /\ pc[t] # "idle")
          /\ UNCHANGED deque
      BY <1>5 DEF BackOff, UnlockReturn, IInv, Types
    <2>2. Types'
      BY <1>5 DEF BackOff, UnlockReturn, IInv, Types
    <2>3. InCall'
      BY <2>1 DEF IInv, InCall
    <2>4. HalfLocked' /\ Locked'
      BY <2>1, UsedDeques DEF IInv, InCall, HalfLocked, Locked, Used
    <2>5. SeenIsCurrent' /\ NotOnItself'
      BY <2>1 DEF IInv, SeenIsCurrent, NotOnItself, OnItself
    <2>6. QED
      BY <2>2, <2>3, <2>4, <2>5 DEF IInv
  <1>6. ASSUME NEW t \in Threads, Read(t)
        PROVE  IInv'
    BY <1>6 DEF Read, IInv, Types, InCall, HalfLocked, Locked, SeenIsCurrent, NotOnItself, Used, OnItself
  <1>7. ASSUME NEW t \in Threads, Write(t)
        PROVE  IInv'
    <2>1. /\ DOMAIN deque' = Deques
          /\ \A d \in Deques \ Used(t) : deque'[d] = deque[d]
      BY <1>7 DEF Write, IInv, Types, Used
    <2>2. \A d \in Used(t) : mutex[d] = t
      BY <1>7 DEF Write, IInv, Locked
    <2>3. /\ pc[t] = "write" /\ pc' = [pc EXCEPT ![t] = "unlock"]
          /\ UNCHANGED <<mutex, call, seen, made>>
      BY <1>7 DEF Write
    <2>4. Types' /\ InCall' /\ HalfLocked' /\ NotOnItself'
      BY <2>1, <2>3 DEF IInv, Types, InCall, HalfLocked, NotOnItself, Used, OnItself
    <2>5. Locked'
      BY <2>2, <2>3 DEF IInv, Types, Locked, Used
    <2>6. ASSUME NEW u \in Threads, pc'[u] = "write"
          PROVE  /\ seen'[u].this = deque'[call'[u].this]
                 /\ seen'[u].other = deque'[call'[u].other]
      <3>1. u # t /\ pc[u] = "write"
        BY <2>3, <2>6 DEF IInv, Types
      <3>2. Used(u) \subseteq Deques \ Used(t)
        BY <2>2, <3>1, UsedDeques DEF IInv, InCall, Locked, Used
      <3>3. QED
        BY <2>1, <2>3, <3>1, <3>2 DEF IInv, SeenIsCurrent, Used
    <2>7. QED
      BY <2>4, <2>5, <2>6 DEF IInv, SeenIsCurrent
  <1>8. CASE UNCHANGED vars
    BY <1>8 DEF vars, IInv, Types, InCall, HalfLocked, Locked, SeenIsCurrent, NotOnItself, Used, OnItself
  <1>9. QED
    BY <1>1, <1>2, <1>3, <1>4, <1>5, <1>6, <1>7, <1>8 DEF Next, Step

LEMMA IInvAlways == Spec => []IInv
  BY InitIInv, IInvStep, PTL DEF Spec

-----------------------------------------------------------------------------
(* The abstract module's operators, instantiated, are this module's.       *)
LEMMA SameCalls ==
  ASSUME NEW c, NEW q, NEW r, NEW l
  PROVE  /\ Atomic!Effect(c, q, r, l) = Effect(c, q, r, l)
         /\ Atomic!OnItself(c) <=> OnItself(c)
         /\ Atomic!Calls = Calls
         /\ Atomic!Returned(TRUE, <<>>, 0) = Returned(TRUE, <<>>, 0)
         /\ Atomic!Nothing = Nothing
  <1> USE DEF Returned, Atomic!Returned, Nothing, Atomic!Nothing,
              OneDeque, TwoDeques, Atomic!OneDeque, Atomic!TwoDeques
  <1>1. Atomic!Effect(c, q, r, l) = Effect(c, q, r, l)
    BY DEF Effect, Atomic!Effect, Front, Atomic!Front, Pushed, Atomic!Pushed, Size, Atomic!Size
  <1>2. Atomic!OnItself(c) <=> OnItself(c)
    BY DEF OnItself, Atomic!OnItself
  <1>3. Atomic!Calls = Calls
    BY DEF Calls, Atomic!Calls
  <1>4. QED
    BY <1>1, <1>2, <1>3

LEMMA InitRefines == Init => Atomic!AtomicInit
  BY SameCalls DEF Init, Atomic!AtomicInit

(* A call takes effect in the step that writes; a call on the object       *)
(* itself when it returns; no other step is seen from outside.             *)
LEMMA StepRefines == IInv /\ [Next]_vars => [Atomic!AtomicNext]_(Atomic!atomicVars)
  <1> SUFFICES ASSUME IInv, [Next]_vars
               PROVE  Atomic!AtomicNext \/ UNCHANGED <<deque, local, answer>>
    BY DEF Atomic!atomicVars
  <1>1. ASSUME NEW t \in Threads, Write(t)
        PROVE  Atomic!AtomicNext
    <2>1. pc[t] = "write" /\ call[t] \in Calls /\ ~OnItself(call[t])
      BY <1>1 DEF Write, IInv, InCall, NotOnItself
    <2> DEFINE c == call[t]
               e == Effect(c, deque[c.this], deque[c.other], local[t])
    <2>2. /\ deque' = [deque EXCEPT ![c.other] = e.other, ![c.this] = e.this]
          /\ local' = [local EXCEPT ![t] = e.local]
          /\ answer' = [answer EXCEPT ![t] = e.ret]
      <3>1. seen[t].this = deque[c.this] /\ seen[t].other = deque[c.other]
        BY <2>1 DEF IInv, SeenIsCurrent
      <3>2. e = Effect(c, seen[t].this, seen[t].other, local[t])
        BY <3>1
      <3> HIDE DEF e
      <3>3. QED
        BY <1>1, <3>2, Zenon DEF Write
    <2>3. Atomic!Effect(c, deque[c.this], deque[c.other], local[t]) = e
      BY SameCalls
    <2>4. Atomic!Perform(t, c)
      <3> HIDE DEF e
      <3> QED
        BY <2>2, <2>3, Zenon DEF Atomic!Perform
    <2>5. QED
      BY <2>1, <2>4, SameCalls DEF Atomic!AtomicNext
  <1>2. ASSUME NEW t \in Threads, ReturnOnItself(t)
        PROVE  Atomic!AtomicNext
    <2>1. call[t] \in Calls /\ OnItself(call[t])
      BY <1>2 DEF ReturnOnItself, IInv, InCall
    <2>2. Atomic!PerformOnItself(t)
      BY <1>2, SameCalls DEF ReturnOnItself, Atomic!PerformOnItself
    <2>3. QED
      BY <2>1, <2>2, SameCalls DEF Atomic!AtomicNext
  <1>3. ASSUME NEW t \in Threads,
               \/ \E d \in Deques : LockOne(t, d)
               \/ LockBoth(t) \/ BackOff(t) \/ Read(t) \/ UnlockReturn(t)
               \/ \E method \in OneDeque \cup TwoDeques, this, other \in Deques :
                    Begin(t, method, this, other)
        PROVE  UNCHANGED <<deque, local, answer>>
    BY <1>3 DEF LockOne, LockBoth, BackOff, Read, UnlockReturn, Begin
  <1>4. CASE UNCHANGED vars
    BY <1>4 DEF vars
  <1>5. QED
    BY <1>1, <1>2, <1>3, <1>4 DEF Next, Step

(* Every method of LockedDeque takes effect at one instant between its     *)
(* call and its return, whatever the threads, the deques and the number of *)
(* calls: the locked implementation implements the atomic deque.           *)
THEOREM ImplementsAtomicDeque == Spec => Linearizable
  <1>1. Spec => Atomic!AtomicInit /\ [][Atomic!AtomicNext]_(Atomic!atomicVars)
    BY InitRefines, StepRefines, IInvAlways, PTL DEF Spec
  <1>2. QED
    BY <1>1 DEF Linearizable, Atomic!AtomicSpec
-----------------------------------------------------------------------------
(* The order of a deque that is used with Push and PopBack alone.          *)

(* A producer makes its elements in the order of their numbers.            *)
Before(x, y) == x[1] = y[1] => x[2] < y[2]

(* The elements pushed so far, and perhaps taken again; the one that a     *)
(* thread is about to push is not among them.                              *)
Pushing == {"lock", "trylock", "read", "write"}
Made ==
  {x \in Elements : x[2] <= made[x[1]] /\ (pc[x[1]] \in Pushing => x[2] < made[x[1]])}

Handed == [value : Elements, from : Deques]

DataTypes ==
  /\ deque \in [Deques -> Seq(Elements)]
  /\ local \in [Threads -> Seq(Elements)]
  /\ taken \in Seq(Handed)

Calling ==
  \A t \in Threads : pc[t] # "idle" =>
    /\ call[t].value = <<t, made[t]>>
    /\ call[t].name \notin QueueMethods => Used(t) \cap queues = {}

(* From front to back the deque d, with the contents q, gets older, and    *)
(* what it has given out is older still; E has all these elements.         *)
Ordered(d, q, s, E) ==
  /\ \A k \in DOMAIN q : q[k] \in E
  /\ \A k, l \in DOMAIN q : k < l => Before(q[l], q[k])
  /\ \A i \in DOMAIN s : s[i].from = d =>
       /\ s[i].value \in E
       /\ \A k \in DOMAIN q : Before(s[i].value, q[k])
       /\ \A j \in DOMAIN s : i < j /\ s[j].from = d => Before(s[i].value, s[j].value)

QInv ==
  /\ DataTypes /\ Calling
  /\ queues \subseteq Deques /\ \A d \in queues : Ordered(d, deque[d], taken, Made)

LEMMA SeqFacts ==
  ASSUME NEW S, NEW s \in Seq(S)
  PROVE  Len(s) \in Nat /\ DOMAIN s = 1 .. Len(s) /\ \A i \in DOMAIN s : s[i] \in S
  OBVIOUS

LEMMA JoinedFacts ==
  ASSUME NEW S, NEW s \in Seq(S), NEW u \in Seq(S)
  PROVE  /\ s \o u \in Seq(S)
         /\ DOMAIN (s \o u) = 1 .. Len(s) + Len(u)
         /\ \A i \in DOMAIN s : (s \o u)[i] = s[i]
         /\ \A i \in DOMAIN u : (s \o u)[Len(s) + i] = u[i]
         /\ \A i \in DOMAIN (s \o u) :
              i \in DOMAIN s \/ (i - Len(s) \in DOMAIN u /\ (s \o u)[i] = u[i - Len(s)])
  OBVIOUS

(* What Write adds to taken.                                               *)
LEMMA HandedOut ==
  ASSUME NEW s \in Seq(Elements), NEW d \in Deques
  PROVE  [i \in DOMAIN s |-> [value |-> s[i], from |-> d]] \in Seq(Handed)
  <1> DEFINE f == [i \in 1 .. Len(s) |-> [value |-> s[i], from |-> d]]
  <1>1. Len(s) \in Nat /\ DOMAIN s = 1 .. Len(s) /\ \A i \in 1 .. Len(s) : s[i] \in Elements
    BY SeqFacts
  <1>2. f \in [1 .. Len(s) -> Handed]
    BY <1>1 DEF Handed
  <1> HIDE DEF f
  <1>3. f \in Seq(Handed)
    BY <1>1, <1>2
  <1>4. QED
    BY <1>1, <1>3 DEF f

LEMMA OrderedStays ==
  ASSUME NEW d, NEW q, NEW s, NEW E, NEW F, Ordered(d, q, s, E), E \subseteq F
  PROVE  Ordered(d, q, s, F)
  BY DEF Ordered

LEMMA OrderedPush ==
  ASSUME NEW d, NEW q \in Seq(Elements), NEW s, NEW E, Ordered(d, q, s, E),
         NEW v \in Elements, \A x \in E : Before(x, v)
  PROVE  Ordered(d, <<v>> \o q, s, E \cup {v})
  <1> DEFINE p == <<v>> \o q
  <1>1. /\ Len(q) \in Nat /\ DOMAIN q = 1 .. Len(q) /\ DOMAIN p = 1 .. Len(q) + 1 /\ p[1] = v
        /\ \A k \in DOMAIN p : k # 1 => k - 1 \in DOMAIN q /\ p[k] = q[k - 1]
    OBVIOUS
  <1> HIDE DEF p
  <1>2. \A k \in DOMAIN p : p[k] = v \/ p[k] \in E
    BY <1>1 DEF Ordered
  <1>3. ASSUME NEW k \in DOMAIN p, NEW l \in DOMAIN p, k < l
        PROVE  Before(p[l], p[k])
    <2>1. l # 1 /\ l - 1 \in DOMAIN q /\ p[l] = q[l - 1] /\ p[l] \in E
      BY <1>1, <1>3 DEF Ordered
    <2>2. CASE k = 1
      BY <1>1, <2>1, <2>2
    <2>3. CASE k # 1
      <3>1. k - 1 \in DOMAIN q /\ p[k] = q[k - 1] /\ k - 1 < l - 1
        BY <1>1, <1>3, <2>3
      <3>2. QED
        BY <2>1, <3>1 DEF Ordered
    <2>4. QED
      BY <2>2, <2>3
  <1>4. ASSUME NEW i \in DOMAIN s, s[i].from = d, NEW k \in DOMAIN p
        PROVE  Before(s[i].value, p[k])
    BY <1>1, <1>4 DEF Ordered
  <1>5. Ordered(d, p, s, E \cup {v})
    BY <1>2, <1>3, <1>4 DEF Ordered
  <1>6. QED
    BY <1>5 DEF p

LEMMA OrderedOthers ==
  ASSUME NEW d, NEW q, NEW s \in Seq(Handed), NEW E, Ordered(d, q, s, E),
         NEW u \in Seq(Handed), \A i \in DOMAIN u : u[i].from # d
  PROVE  Ordered(d, q, s \o u, E)
  <1> DEFINE w == s \o u
  <1>1. \A i \in DOMAIN w : w[i].from = d => i \in DOMAIN s /\ w[i] = s[i]
    BY JoinedFacts
  <1> HIDE DEF w
  <1>2. Ordered(d, q, w, E)
    BY <1>1 DEF Ordered
  <1>3. QED
    BY <1>2 DEF w

LEMMA OrderedPop ==
  ASSUME NEW d \in Deques, NEW q \in Seq(Elements), q # <<>>, NEW s \in Seq(Handed), NEW E,
         Ordered(d, q, s, E)
  PROVE  Ordered(d, SubSeq(q, 1, Len(q) - 1), s \o <<[value |-> q[Len(q)], from |-> d]>>, E)
  <1> DEFINE n == Len(q)
             p == SubSeq(q, 1, n - 1)
             last == [value |-> q[n], from |-> d]
             w == s \o <<last>>
  <1>1. n \in Nat \ {0} /\ DOMAIN q = 1 .. n /\ n \in DOMAIN q /\ q[n] \in Elements
    OBVIOUS
  <1>2. DOMAIN p = 1 .. n - 1 /\ \A k \in 1 .. n - 1 : p[k] = q[k] /\ k \in DOMAIN q /\ k < n
    BY <1>1
  <1>3. /\ DOMAIN w = 1 .. Len(s) + 1 /\ DOMAIN s = 1 .. Len(s) /\ Len(s) \in Nat
        /\ \A i \in DOMAIN s : w[i] = s[i]
        /\ w[Len(s) + 1] = last
    <2>1. last \in Handed
      BY <1>1 DEF Handed
    <2> HIDE DEF last
    <2>2. <<last>> \in Seq(Handed) /\ Len(<<last>>) = 1 /\ DOMAIN <<last>> = {1} /\ <<last>>[1] = last
      BY <2>1
    <2>3. QED
      BY <2>2, JoinedFacts, SeqFacts
  <1>4. last.value = q[n] /\ last.from = d
    OBVIOUS
  <1> HIDE DEF n, p, last, w
  <1>5. /\ \A k \in DOMAIN p : p[k] \in E
        /\ \A k, l \in DOMAIN p : k < l => Before(p[l], p[k])
    BY <1>2 DEF Ordered
  <1>6. /\ q[n] \in E
        /\ \A k \in DOMAIN p : Before(q[n], p[k])
        /\ \A i \in DOMAIN s : s[i].from = d => Before(s[i].value, q[n])
    BY <1>1, <1>2 DEF Ordered
  <1>7. ASSUME NEW i \in DOMAIN w, w[i].from = d
        PROVE  /\ w[i].value \in E
               /\ \A k \in DOMAIN p : Before(w[i].value, p[k])
               /\ \A j \in DOMAIN w : i < j /\ w[j].from = d => Before(w[i].value, w[j].value)
    <2>1. CASE i = Len(s) + 1
      BY <1>3, <1>4, <1>6, <2>1
    <2>2. CASE i \in DOMAIN s
      <3>1. w[i] = s[i] /\ s[i].from = d
        BY <1>3, <1>7, <2>2
      <3>2. s[i].value \in E /\ \A k \in DOMAIN p : Before(s[i].value, p[k])
        BY <1>2, <2>2, <3>1 DEF Ordered
      <3>3. ASSUME NEW j \in DOMAIN w, i < j, w[j].from = d
            PROVE  Before(s[i].value, w[j].value)
        <4>1. CASE j = Len(s) + 1
          BY <1>3, <1>4, <1>6, <2>2, <3>1, <4>1
        <4>2. CASE j \in DOMAIN s
          <5>1. w[j] = s[j]
            BY <1>3, <4>2
          <5>2. QED
            BY <2>2, <3>1, <3>3, <4>2, <5>1 DEF Ordered
        <4>3. QED
          BY <1>3, <4>1, <4>2
      <3>4. QED
        BY <3>1, <3>2, <3>3
    <2>3. QED
      BY <1>3, <2>1, <2>2
  <1>8. Ordered(d, p, w, E)
    BY <1>5, <1>7 DEF Ordered
  <1>9. QED
    BY <1>8 DEF n, p, last, w

LEMMA InitQInv == Init => QInv
  <1> SUFFICES ASSUME Init PROVE QInv
    OBVIOUS
  <1>1. deque = [d \in Deques |-> <<>>] /\ local = [t \in Threads |-> <<>>] /\ taken = <<>>
    BY DEF Init
  <1>2. DataTypes
    BY <1>1 DEF DataTypes
  <1>3. ASSUME NEW d \in Deques
        PROVE  Ordered(d, deque[d], taken, Made)
    <2>1. DOMAIN deque[d] = {} /\ DOMAIN taken = {}
      BY <1>1
    <2>2. QED
      BY <2>1 DEF Ordered
  <1>4. QED
    BY <1>2, <1>3 DEF Init, QInv, Calling

(* Whatever a body does to sequences of elements leaves such sequences.    *)
LEMMA EffectTypes ==
  ASSUME NEW c \in Calls, NEW q \in Seq(Elements), NEW r \in Seq(Elements), NEW l \in Seq(Elements)
  PROVE  LET e == Effect(c, q, r, l)
         IN  /\ e.this \in Seq(Elements) /\ e.other \in Seq(Elements) /\ e.local \in Seq(Elements)
             /\ e.ret.elements \in Seq(Elements)
  <1> DEFINE e == Effect(c, q, r, l)
  <1> USE DEF Returned, Nothing
  <1>1. CASE c.name = "Push"
    <2>1. e.this = Pushed(q, c.value) /\ e.other = r /\ e.local = l /\ e.ret.elements = <<>>
      BY <1>1 DEF Effect
    <2>2. QED
      BY <2>1 DEF Pushed, Calls
  <1>2. CASE c.name = "PopBack" /\ q # <<>>
    <2>1. e.this = Front(q) /\ e.other = r /\ e.local = l /\ e.ret.elements = <<q[Len(q)]>>
      BY <1>2 DEF Effect
    <2>2. QED
      BY <1>2, <2>1 DEF Front
  <1>3. CASE c.name = "PopFront" /\ q # <<>>
    <2>1. e.this = Tail(q) /\ e.other = r /\ e.local = l /\ e.ret.elements = <<Head(q)>>
      BY <1>3 DEF Effect
    <2>2. QED
      BY <1>3, <2>1
  <1>4. CASE \/ c.name \in {"PopBack", "PopFront"} /\ q = <<>>
             \/ c.name \in {"Throws", "Move", "SwapLocal", "Clear", "Size", "IsEmpty", "Swap", "MoveAssign"}
    <2>1. e.this \in {q, r, l, <<>>} /\ e.other \in {q, r, <<>>} /\ e.local \in {q, l} /\ e.ret.elements = <<>>
      BY <1>4 DEF Effect, Size
    <2> HIDE DEF e
    <2>2. <<>> \in Seq(Elements)
      OBVIOUS
    <2>3. \A s \in {q, r, l, <<>>} : s \in Seq(Elements)
      BY <2>2
    <2>4. /\ e.this \in Seq(Elements) /\ e.other \in Seq(Elements) /\ e.local \in Seq(Elements)
          /\ e.ret.elements \in Seq(Elements)
      BY <2>1, <2>3
    <2>5. QED
      BY <2>4 DEF e
  <1>5. QED
    BY <1>1, <1>2, <1>3, <1>4, UsedDeques DEF OneDeque, TwoDeques

(* What the calls of a queue do: push in front, take from the back, or     *)
(* nothing.                                                                *)
LEMMA QueueEffect ==
  ASSUME NEW c \in Calls, c.name \in QueueMethods, NEW q \in Seq(Elements), NEW r, NEW l
  PROVE  LET e == Effect(c, q, r, l)
         IN  \/ e.this = <<c.value>> \o q /\ e.ret.elements = <<>>
             \/ q # <<>> /\ e.this = SubSeq(q, 1, Len(q) - 1) /\ e.ret.elements = <<q[Len(q)]>>
             \/ e.this = q /\ e.ret.elements = <<>>
  BY DEF Effect, QueueMethods, Returned, Nothing, Size, Pushed, Front

(* The steps in which no deque changes.                                    *)
LEMMA OtherSteps ==
  ASSUME IInv, QInv, UNCHANGED <<deque, local, taken, made, queues>>,
         \A t \in Threads : pc'[t] # "idle" => pc[t] # "idle" /\ call'[t] = call[t],
         \A t \in Threads : pc'[t] \in Pushing => pc[t] \in Pushing
  PROVE  QInv'
  <1>1. DataTypes' /\ Calling'
    BY DEF QInv, DataTypes, Calling, Used
  <1>2. Made \subseteq Made'
    BY LockedDequeAssumption DEF Made
  <1>3. ASSUME NEW d \in queues
        PROVE  Ordered(d, deque'[d], taken', Made')
    BY <1>2, <1>3, OrderedStays DEF QInv
  <1>4. QED
    BY <1>1, <1>3 DEF QInv

LEMMA BeginQInv ==
  ASSUME IInv, QInv, NEW t \in Threads, NEW method, NEW this \in Deques, NEW other \in Deques,
         Begin(t, method, this, other)
  PROVE  QInv'
  <1>1. /\ UNCHANGED <<deque, local, taken>> /\ pc[t] = "idle"
        /\ made' = [made EXCEPT ![t] = @ + 1] /\ pc' = [pc EXCEPT ![t] = "lock"]
        /\ call' = [call EXCEPT ![t] = [name |-> method, this |-> this, other |-> other,
                                        value |-> <<t, made[t] + 1>>]]
        /\ queues' \subseteq queues /\ (method \notin QueueMethods => {this, other} \cap queues' = {})
    BY DEF Begin, Goto
  <1>2. made \in [Threads -> 0 .. MaxCalls] /\ DOMAIN pc = Threads /\ DOMAIN call = Threads
    BY DEF IInv, Types
  <1>3. DataTypes'
    BY <1>1 DEF QInv, DataTypes
  <1>4. Calling'
    <2> SUFFICES ASSUME NEW u \in Threads, pc'[u] # "idle"
                 PROVE  /\ call'[u].value = <<u, made'[u]>>
                        /\ call'[u].name \notin QueueMethods => {call'[u].this, call'[u].other} \cap queues' = {}
      BY DEF Calling, Used
    <2>1. CASE u = t
      BY <1>1, <1>2, <2>1
    <2>2. CASE u # t
      BY <1>1, <1>2, <2>2 DEF QInv, Calling, Used
    <2>3. QED
      BY <2>1, <2>2
  <1>5. Made \subseteq Made'
    <2> SUFFICES ASSUME NEW x \in Made
                 PROVE  x[2] <= made'[x[1]] /\ (pc'[x[1]] \in Pushing => x[2] < made'[x[1]])
      BY DEF Made
    <2>1. /\ x[1] \in Threads /\ x[2] \in 1 .. MaxCalls /\ MaxCalls \in Nat
          /\ x[2] <= made[x[1]] /\ (pc[x[1]] \in Pushing => x[2] < made[x[1]])
      BY LockedDequeAssumption DEF Made
    <2>2. CASE x[1] = t
      BY <1>1, <1>2, <2>1, <2>2
    <2>3. CASE x[1] # t
      BY <1>1, <1>2, <2>1, <2>3
    <2>4. QED
      BY <2>2, <2>3
  <1>6. ASSUME NEW d \in queues
        PROVE  Ordered(d, deque'[d], taken', Made')
    BY <1>1, <1>5, <1>6, OrderedStays DEF QInv
  <1>7. QED
    BY <1>1, <1>3, <1>4, <1>6 DEF QInv

LEMMA WriteQInv ==
  ASSUME IInv, QInv, NEW t \in Threads, Write(t)
  PROVE  QInv'
  <1> DEFINE c == call[t]
             e == Effect(c, seen[t].this, seen[t].other, local[t])
             s == e.ret.elements
             new == [i \in DOMAIN s |-> [value |-> s[i], from |-> c.this]]
  <1>1. /\ c \in Calls /\ c.this \in Deques /\ c.other \in Deques /\ pc[t] = "write"
        /\ seen[t].this = deque[c.this] /\ seen[t].other = deque[c.other]
    BY UsedDeques DEF Write, IInv, InCall, SeenIsCurrent
  <1>2. /\ deque' = [deque EXCEPT ![c.other] = e.other, ![c.this] = e.this]
        /\ local' = [local EXCEPT ![t] = e.local]
        /\ taken' = taken \o new
        /\ pc' = [pc EXCEPT ![t] = "unlock"] /\ UNCHANGED <<call, made, queues>>
    BY DEF Write, Goto
  <1>3. /\ deque \in [Deques -> Seq(Elements)] /\ local \in [Threads -> Seq(Elements)]
        /\ taken \in Seq(Handed)
        /\ made \in [Threads -> 0 .. MaxCalls] /\ DOMAIN pc = Threads
    BY DEF QInv, DataTypes, IInv, Types
  <1>4. /\ e.this \in Seq(Elements) /\ e.other \in Seq(Elements) /\ e.local \in Seq(Elements)
        /\ s \in Seq(Elements)
    BY <1>1, <1>3, EffectTypes
  <1> HIDE DEF s
  <1>5. new \in Seq(Handed) /\ \A i \in DOMAIN new : new[i].from = c.this
    <2>1. new \in Seq(Handed)
      BY <1>1, <1>4, HandedOut
    <2>2. QED
      BY <2>1
  <1> HIDE DEF c, e, new
  <1>6. DataTypes'
    <2>1. deque' \in [Deques -> Seq(Elements)] /\ local' \in [Threads -> Seq(Elements)]
      BY <1>2, <1>3, <1>4
    <2>2. taken' \in Seq(Handed)
      BY <1>2, <1>3, <1>5, JoinedFacts
    <2>3. QED
      BY <2>1, <2>2 DEF DataTypes
  <1>7. Calling'
    BY <1>1, <1>2, <1>3 DEF QInv, Calling, Used
  <1>8. Made \subseteq Made'
    BY <1>2, <1>3, LockedDequeAssumption DEF Made, Pushing
  <1>9. ASSUME NEW d \in queues, d \notin {c.this, c.other}
        PROVE  Ordered(d, deque'[d], taken', Made')
    <2>1. d \in Deques /\ Ordered(d, deque[d], taken, Made)
      BY DEF QInv
    <2>2. deque'[d] = deque[d]
      BY <1>2, <1>3, <1>9, <2>1
    <2>3. Ordered(d, deque[d], taken \o new, Made)
      BY <1>3, <1>5, <1>9, <2>1, OrderedOthers
    <2>4. QED
      BY <1>2, <1>8, <2>2, <2>3, OrderedStays
  <1>10. ASSUME NEW d \in queues, d \in {c.this, c.other}
         PROVE  Ordered(d, deque'[d], taken', Made')
    <2>1. c.name \in QueueMethods /\ c.value = <<t, made[t]>> /\ c.value \in Elements
      BY <1>1, <1>10 DEF QInv, Calling, Used, c, Calls
    <2>2. c.this = d /\ c.other = d
      BY <1>1, <1>10, <2>1, UsedDeques DEF QueueMethods, OneDeque
    <2> DEFINE q == deque[d]
    <2>3. q \in Seq(Elements) /\ d \in Deques /\ Ordered(d, q, taken, Made)
      BY <1>1, <1>3, <2>2 DEF QInv
    <2>4. deque'[d] = e.this
      BY <1>2, <1>3, <2>2, <2>3
    <2>5. \/ e.this = <<c.value>> \o q /\ s = <<>>
          \/ q # <<>> /\ e.this = SubSeq(q, 1, Len(q) - 1) /\ s = <<q[Len(q)]>>
          \/ e.this = q /\ s = <<>>
      BY <1>1, <2>1, <2>2, <2>3, QueueEffect DEF e, s
    <2> HIDE DEF q
    <2>6. s = <<>> => taken' = taken
      <3>1. ASSUME s = <<>> PROVE new = <<>>
        BY <3>1 DEF new
      <3>2. QED
        BY <1>2, <1>3, <3>1
    <2>7. CASE e.this = q /\ s = <<>>
      BY <1>8, <2>3, <2>4, <2>6, <2>7, OrderedStays
    <2>8. CASE e.this = <<c.value>> \o q /\ s = <<>>
      <3>1. ASSUME NEW x \in Made
            PROVE  Before(x, c.value)
        BY <1>1, <2>1 DEF Made, Before, Pushing
      <3>2. Ordered(d, <<c.value>> \o q, taken, Made \cup {c.value})
        BY <2>1, <2>3, <3>1, OrderedPush
      <3>3. c.value \in Made'
        BY <1>2, <1>3, <2>1 DEF Made, Pushing
      <3>4. QED
        BY <1>8, <2>4, <2>6, <2>8, <3>2, <3>3, OrderedStays
    <2>9. CASE q # <<>> /\ e.this = SubSeq(q, 1, Len(q) - 1) /\ s = <<q[Len(q)]>>
      <3> DEFINE last == [value |-> q[Len(q)], from |-> d]
      <3>1. new = <<last>>
        <4>1. DOMAIN s = {1} /\ s[1] = q[Len(q)]
          BY <2>9
        <4>2. new = [i \in {1} |-> last]
          BY <2>2, <4>1 DEF new
        <4>3. QED
          BY <4>2
      <3>2. Ordered(d, SubSeq(q, 1, Len(q) - 1), taken \o <<last>>, Made)
        BY <1>3, <2>3, <2>9, OrderedPop
      <3> HIDE DEF last
      <3>3. QED
        BY <1>2, <1>8, <2>4, <2>9, <3>1, <3>2, OrderedStays
    <2>10. QED
      BY <2>5, <2>7, <2>8, <2>9
  <1>11. QED
    BY <1>2, <1>6, <1>7, <1>9, <1>10 DEF QInv

LEMMA QInvStep == IInv /\ QInv /\ [Next]_vars => QInv'
  <1> SUFFICES ASSUME IInv, QInv, [Next]_vars
               PROVE  QInv'
    OBVIOUS
  <1>1. ASSUME NEW t \in Threads, ReturnOnItself(t) \/ UnlockReturn(t)
        PROVE  QInv'
    <2>1. /\ UNCHANGED <<deque, local, taken, made, queues>> /\ pc'[t] = "idle"
          /\ \A u \in Threads \ {t} : pc'[u] = pc[u] /\ call'[u] = call[u]
      BY <1>1 DEF ReturnOnItself, UnlockReturn, Goto, IInv, Types
    <2>2. QED
      BY <2>1, OtherSteps DEF Pushing
  <1>2. ASSUME NEW t \in Threads,
               (\E d \in Deques : LockOne(t, d)) \/ LockBoth(t) \/ BackOff(t) \/ Read(t)
        PROVE  QInv'
    <2>1. /\ UNCHANGED <<deque, local, taken, call, made, queues>>
          /\ pc[t] \in Pushing /\ \A u \in Threads \ {t} : pc'[u] = pc[u]
      BY <1>2 DEF LockOne, LockBoth, BackOff, Read, Goto, IInv, Types, Pushing
    <2>2. QED
      BY <2>1, OtherSteps DEF Pushing
  <1>3. CASE UNCHANGED vars
    BY <1>3, OtherSteps DEF vars
  <1>4. QED
    BY <1>1, <1>2, <1>3, BeginQInv, WriteQInv DEF Next, Step

(* A deque used with Push and PopBack alone gives every producer's         *)
(* elements out in the order in which it pushed them, whatever the         *)
(* threads, the deques and the number of calls (LockedDeque.hpp:223).      *)
THEOREM QueuesKeepOrder == Spec => []OldestFirst
  <1>1. Spec => []QInv
    BY InitQInv, QInvStep, IInvAlways, PTL DEF Spec
  <1>2. QInv => OldestFirst
    BY DEF QInv, Ordered, Before, OldestFirst
  <1>3. QED
    BY <1>1, <1>2, PTL
=============================================================================
