------------------------------ MODULE BitForms ------------------------------
(***************************************************************************)
(* Bits and bytes whose values are not known.  A bit is a sum modulo 2 of  *)
(* labels: {} is 0, {-1} is 1, {k} is the k-th bit of the input.  One step *)
(* of an operation on labelled bytes shows what the operation does to      *)
(* every value the bytes can have.  A conjunction or disjunction of two    *)
(* different labels becomes a label of its own.                            *)
(***************************************************************************)
EXTENDS Integers

Bit  == SUBSET Int
Zero == {}
One  == {-1}

Xor(a, b) == (a \ b) \cup (b \ a)
Not(a)    == Xor(a, One)

\* The label of "a combined with b"; 100 * 99 + 99 < 10000 keeps the codes of
\* the operators apart.
Pair(code, a, b) ==
    {code + 100 * (CHOOSE x \in a : TRUE) + (CHOOSE x \in b : TRUE)}

Or(a, b) ==
    CASE a = b               -> a
      [] a = Zero \/ b = One -> b
      [] b = Zero \/ a = One -> a
      [] OTHER               -> Pair(10000, a, b)

And(a, b) ==
    CASE a = b               -> a
      [] a = Zero \/ b = One -> a
      [] b = Zero \/ a = One -> b
      [] OTHER               -> Pair(20000, a, b)

-----------------------------------------------------------------------------
(* Bytes: position 0 is the least significant bit. *)

BitOf == 0..7
Byte  == [BitOf -> Bit]

LowByte  == [p \in BitOf |-> Zero]
HighByte == [p \in BitOf |-> One]

Shl(byte, n) == [p \in BitOf |-> IF p - n \in BitOf THEN byte[p - n] ELSE Zero]
Shr(byte, n) == [p \in BitOf |-> IF p + n \in BitOf THEN byte[p + n] ELSE Zero]

\* The byte with only the bits of the mask kept.
Masked(byte, mask) == [p \in BitOf |-> IF p \in mask THEN byte[p] ELSE Zero]

Bytewise(Op(_, _), a, b) == [p \in BitOf |-> Op(a[p], b[p])]

\* A block of bytes whose bits are all labelled, from the label base on.
Labelled(size, base) ==
    [j \in 0..(size - 1) |-> [p \in BitOf |-> {base + 8 * j + p}]]
=============================================================================
