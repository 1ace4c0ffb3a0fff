----------------------------- MODULE DequeCalls ------------------------------
(***************************************************************************)
(* What one call of types::LockedDeque (include/framework/LockedDeque.hpp) *)
(* does to the std::deque objects it works on, locks left out.  A deque is *)
(* a sequence from front to back.                                          *)
(*                                                                         *)
(* The copy constructor and the copy assignment are not here: they lock    *)
(* the mutex of a const object, so no program that uses them compiles.     *)
(***************************************************************************)
EXTENDS Naturals, Sequences

CONSTANTS Deques,    \* the LockedDeque objects
          Threads,   \* the threads that use them
          Elements   \* what Type ranges over

(* The calls that work on one LockedDeque, on one and a std::deque of the  *)
(* caller ("Move", "SwapLocal"), and on two LockedDeques.  "Throws" is a   *)
(* Push or a PopBack in which copying the element throws: FALSE.  PopFront *)
(* catches std::system_error only (LockedDeque.hpp:259): there the program *)
(* ends, and no call follows.                                              *)
OneDeque  == {"Push", "PopBack", "PopFront", "Throws",
              "Move", "SwapLocal", "Clear", "Size", "IsEmpty"}
TwoDeques == {"Swap", "MoveAssign"}

(* A call that works on one deque has other = this.                        *)
Calls ==
  {c \in [name : OneDeque \cup TwoDeques, this : Deques, other : Deques, value : Elements] :
     c.name \in OneDeque => c.other = c.this}

(* Swap and operator= compare the addresses first: on the object itself    *)
(* they return without locking or changing anything.                       *)
OnItself(call) == call.name \in TwoDeques /\ call.this = call.other

(* What a call returns: its bool (or TRUE), the element it stored through  *)
(* its output parameter, and the size.                                     *)
Returned(ok, elements, size) == [ok |-> ok, elements |-> elements, size |-> size]
Nothing == Returned(FALSE, <<>>, 0)

Front(q) == SubSeq(q, 1, Len(q) - 1)

(* Push adds at the front, so that PopBack takes the oldest element.       *)
PushedToBack(q, x) == Append(q, x)  \* mutant: the wrong end
Pushed(q, x) == <<x>> \o q

Size(q) == Returned(TRUE, <<>>, Len(q))

(* Effect of a call on *this (q), the other LockedDeque (r) and the        *)
(* caller's std::deque (l).                                                *)
Effect(call, q, r, l) ==
  LET Result(q1, r1, l1, ret) == [this |-> q1, other |-> r1, local |-> l1, ret |-> ret]
      Fails == Result(q, r, l, Nothing)
  IN  CASE call.name = "Push"       -> Result(Pushed(q, call.value), r, l, Returned(TRUE, <<>>, 0))
        [] call.name = "PopBack"    -> IF q = <<>> THEN Fails
                                       ELSE Result(Front(q), r, l, Returned(TRUE, <<q[Len(q)]>>, 0))
        [] call.name = "PopFront"   -> IF q = <<>> THEN Fails
                                       ELSE Result(Tail(q), r, l, Returned(TRUE, <<Head(q)>>, 0))
        [] call.name = "Throws"     -> Fails
        [] call.name = "Move"       -> IF q = <<>> THEN Fails
                                       ELSE Result(<<>>, r, q, Returned(TRUE, <<>>, 0))
        [] call.name = "SwapLocal"  -> Result(l, r, q, Returned(TRUE, <<>>, 0))
        [] call.name = "Clear"      -> Result(<<>>, r, l, Returned(TRUE, <<>>, 0))
        [] call.name = "Size"       -> Result(q, r, l, Size(q))
        [] call.name = "IsEmpty"    -> Result(q, r, l, Returned(q = <<>>, <<>>, 0))
        [] call.name = "Swap"       -> Result(r, q, l, Returned(TRUE, <<>>, 0))
        [] call.name = "MoveAssign" -> Result(r, <<>>, l, Returned(TRUE, <<>>, 0))
=============================================================================
