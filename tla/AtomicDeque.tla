---------------------------- MODULE AtomicDeque ------------------------------
(***************************************************************************)
(* What types::LockedDeque promises ("thread-safe deque"): every call      *)
(* happens at one instant between its beginning and its return.            *)
(***************************************************************************)
EXTENDS DequeCalls

VARIABLES deque,    \* contents of every LockedDeque
          local,    \* the std::deque each thread passes to Move and Swap
          answer    \* what each thread's last call returned

atomicVars == <<deque, local, answer>>

AtomicInit ==
  /\ deque = [d \in Deques |-> <<>>]
  /\ local = [t \in Threads |-> <<>>]
  /\ answer = [t \in Threads |-> Nothing]

Perform(t, call) ==
  LET e == Effect(call, deque[call.this], deque[call.other], local[t])
  IN  /\ deque' = [deque EXCEPT ![call.other] = e.other, ![call.this] = e.this]
      /\ local' = [local EXCEPT ![t] = e.local]
      /\ answer' = [answer EXCEPT ![t] = e.ret]

PerformOnItself(t) ==
  /\ answer' = [answer EXCEPT ![t] = Returned(TRUE, <<>>, 0)]
  /\ UNCHANGED <<deque, local>>

AtomicNext ==
  \E t \in Threads, call \in Calls :
    IF OnItself(call) THEN PerformOnItself(t) ELSE Perform(t, call)

AtomicSpec == AtomicInit /\ [][AtomicNext]_atomicVars
=============================================================================
