----------------------------- MODULE BitVector -----------------------------
(***************************************************************************)
(* What the bit and byte interfaces of BinaryDataEngine promise: a vector  *)
(* of bits, bit 0 the least significant one when the data depends on the   *)
(* endian and the leftmost one when it does not, whatever the endian the   *)
(* bytes are stored in.  A call is a record; its effect on the vector and  *)
(* its answer follow from the call and the vector alone.                   *)
(***************************************************************************)
EXTENDS BitForms, Sequences

VARIABLES
    bits,       \* the vector: [0..(n - 1) -> bit]
    dependent,  \* the data handling mode: endian dependent or not
    call,       \* the last call
    reply       \* the answer of the last call: the bits it is made from

vvars == <<bits, dependent, call, reply>>

Last(v) == IF DOMAIN v = {} THEN -1 ELSE CHOOSE i \in DOMAIN v : i + 1 \notin DOMAIN v

\* "Left" is towards the higher indexes in the endian dependent mode.
Source(c, i) ==
    IF (c.op \in {"ShiftLeft", "RoundShiftLeft"}) = dependent THEN i - c.shift ELSE i + c.shift

Within(c, v) == c.first <= c.last /\ c.last \in DOMAIN v

\* The vector extended with zeros to the length of w.
Extended(v, w) == [i \in DOMAIN v \cup DOMAIN w |-> IF i \in DOMAIN v THEN v[i] ELSE Zero]

\* The part of the vector that w has too.
Common(v, w) == [i \in DOMAIN v \cap DOMAIN w |-> v[i]]

Combine(op, a, b) ==
    CASE op = "And" -> And(a, b) [] op = "Or" -> Or(a, b) [] op = "Xor" -> Xor(a, b)

\* Bit by bit. Where the operator may change the length, the result has that of
\* the lesser operand for And and of the largest one for Or and Xor, as the
\* comments of the operators say (BinaryDataEngine.hpp:780, :810, :840); where it
\* may not, a shorter right operand is extended with zeros and a longer one cut.
Combined(c, v, w) ==
    LET u == IF ~c.grow THEN v ELSE IF c.with = "And" THEN Common(v, w) ELSE Extended(v, w)
    IN  [i \in DOMAIN u |-> Combine(c.with, u[i], IF i \in DOMAIN w THEN w[i] ELSE Zero)]

\* The vector after the call.
Result(c, v) ==
    CASE c.op \in {"ShiftLeft", "ShiftRight"} ->
           [i \in DOMAIN v |-> IF Source(c, i) \in DOMAIN v THEN v[Source(c, i)] ELSE c.fill]
      [] c.op \in {"RoundShiftLeft", "RoundShiftRight"} ->
           [i \in DOMAIN v |-> v[Source(c, i) % (Last(v) + 1)]]
      [] c.op = "Set" ->
           [i \in DOMAIN v |-> IF i \in c.first..c.last THEN c.fill ELSE v[i]]
      [] c.op = "InvertBlock" /\ Within(c, v) ->
           [i \in DOMAIN v |-> IF i \in c.first..c.last THEN Not(v[i]) ELSE v[i]]
      [] c.op = "Reverse" /\ Within(c, v) ->
           [i \in DOMAIN v |-> IF i \in c.first..c.last THEN v[c.first + c.last - i] ELSE v[i]]
      [] c.op = "Assign" -> Combined(c, v, c.other)
      [] OTHER -> v

\* The answer to the call: the indexes of the bits a predicate looks at, the
\* indexes in the order they are scanned or printed, the bits of a new value.
Answer(c, v) ==
    CASE c.op \in {"Any", "All", "None", "Count"} /\ Within(c, v) -> <<c.first..c.last>>
      [] c.op = "GetFirstIndex" /\ Within(c, v) ->
           <<[k \in 1..(c.last - c.first + 1) |-> c.first + k - 1]>>
      [] c.op = "GetLastIndex" /\ Within(c, v) ->
           <<[k \in 1..(c.last - c.first + 1) |-> c.last - k + 1]>>
      [] c.op = "ToString" /\ Within(c, v) ->
           <<[k \in 1..(c.last - c.first + 1) |->
               IF dependent THEN c.last - k + 1 ELSE c.first + k - 1]>>
      [] c.op = "Convert" /\ Within(c, v) ->
           <<[k \in 0..(8 * c.size - 1) |-> IF k <= c.last - c.first THEN v[c.first + k] ELSE Zero]>>
      [] c.op = "Operator" -> <<Combined(c, v, c.other)>>
      [] c.op = "Copied"   -> <<Result(c.on, v)>>
      [] OTHER -> <<>>

Init == /\ dependent \in BOOLEAN
        /\ call = [op |-> "New"]
        /\ reply = <<>>

Next == /\ call'.op # "New"
        /\ bits' = Result(call', bits)
        /\ reply' = Answer(call', bits)
        /\ UNCHANGED dependent

Spec == Init /\ [][Next]_vvars
=============================================================================
