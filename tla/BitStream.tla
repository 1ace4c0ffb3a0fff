----------------------------- MODULE BitStream -----------------------------
(***************************************************************************)
(* The bit and byte engines of BinaryDataEngine on the bytes they store:   *)
(* which byte and mask a bit index means, the shifts that move whole bytes *)
(* with two pointers and then the bits left over, the conversions between  *)
(* endians, the predicates that read words and bytes instead of bits, and  *)
(* the logical operators on operands of any two lengths.                   *)
(*                                                                         *)
(* The bytes are labelled (BitForms), so one call from an initial state    *)
(* shows what it does to every content of a block of that size.  A buffer  *)
(* is a record with the members of the class that these engines read.  The *)
(* system is little endian: CheckSystemEndian answers so on every machine. *)
(***************************************************************************)
EXTENDS BitForms, Sequences, FiniteSets

CONSTANTS
    StreamSizes,    \* block sizes, in bytes, for every call
    ReadSizes,      \* block sizes, in bytes, for the predicates only
    MaxCalls,       \* bound on the number of calls
    StreamDefects   \* whether the calls listed in Defect are made too

ASSUME BitStreamAssumption ==
    /\ StreamSizes \subseteq Nat \ {0} /\ ReadSizes \subseteq Nat \ {0}
    /\ MaxCalls \in Nat /\ StreamDefects \in BOOLEAN

LE  == "DATA_LITTLE_ENDIAN"
BE  == "DATA_BIG_ENDIAN"
RBE == "DATA_REVERSE_BIG_ENDIAN"
Endians == {LE, BE, RBE}

VARIABLES
    buffer,   \* [data, endian, dependent, safe]
    call,     \* the last call
    reply,    \* what the last call answered: <<>> or <<answer>>
    calls     \* the number of calls made (history, for the bound)

streamVars == <<buffer, call, reply, calls>>

Size(b)   == Cardinality(DOMAIN b.data)
Length(b) == 8 * Size(b)

Buffers(sizes, base) ==
    {[data |-> Labelled(n, base), endian |-> e, dependent |-> d, safe |-> s] :
        n \in sizes, e \in Endians, d \in BOOLEAN, s \in BOOLEAN}

-----------------------------------------------------------------------------
(* Positions. *)

GetByteIndex(b, i) ==
    IF b.dependent /\ b.endian # LE THEN Size(b) - (i \div 8) - 1 ELSE i \div 8

\* The byte of bit i and its place in the byte (the mask of the code).
GetBitPosition(b, i) ==
    <<GetByteIndex(b, i),
      IF b.dependent /\ b.endian # RBE THEN i % 8 ELSE 7 - (i % 8)>>

GetBytePosition(b, j) ==
    IF b.endian = LE \/ ~b.dependent THEN j ELSE Size(b) - j - 1

GetBitValue(b, i) == LET at == GetBitPosition(b, i) IN b.data[at[1]][at[2]]

SetBit(b, i, Value(_)) ==
    LET at == GetBitPosition(b, i) IN [b EXCEPT !.data[at[1]][at[2]] = Value(@)]

-----------------------------------------------------------------------------
(* Byte shifts: two pointers run over the block, upwards for step 1 and    *)
(* downwards for step -1; end is the element following the last one.       *)

\* Bytes change places until the pointers meet.  head advances in every turn, so
\* that this happens within the size of the block.
SwapBytes(m, head, newHead, end, step) ==
    LET turn(x) ==
            LET h == x.head + step
                n == x.next + step
            IN  [m |-> [x.m EXCEPT ![x.head] = x.m[x.next], ![x.next] = x.m[x.head]],
                 head |-> h,
                 next |-> IF n = end THEN x.newHead ELSE n,
                 newHead |-> IF n # end /\ h = x.newHead THEN n ELSE x.newHead]
        after[k \in 0..Cardinality(DOMAIN m)] ==
            IF k = 0 THEN [m |-> m, head |-> head, next |-> newHead, newHead |-> newHead]
            ELSE LET x == after[k - 1] IN IF x.head = x.next THEN x ELSE turn(x)
    IN  after[Cardinality(DOMAIN m)].m

\* The bytes from next on are copied to head, what is left behind is filled.
CopyBytes(m, head, next, end, step, fill) ==
    LET turns == (end - next) * step
        copied[k \in 0..turns] ==
            IF k = 0 THEN m
            ELSE LET c == copied[k - 1]
                 IN  [c EXCEPT ![head + (k - 1) * step] = c[next + (k - 1) * step]]
    IN  [j \in DOMAIN m |-> IF (j - head) * step < turns THEN copied[turns][j] ELSE fill]

leftRoundBytesShiftBE(m, shift) ==
    LET n == Cardinality(DOMAIN m)
    IN  IF shift \notin 1..(n - 1) THEN m ELSE SwapBytes(m, 0, shift, n, 1)

rightRoundBytesShiftBE(m, shift) ==
    LET n == Cardinality(DOMAIN m)
    IN  IF shift \notin 1..(n - 1) THEN m
        ELSE SwapBytes(m, n - 1, n - shift - 1, -1, -1)

leftDirectBytesShiftBE(m, shift, fill) ==
    LET n == Cardinality(DOMAIN m)
    IN  IF shift \notin 1..(n - 1) THEN m ELSE CopyBytes(m, 0, shift, n, 1, fill)

rightDirectBytesShiftBE(m, shift, fill) ==
    LET n == Cardinality(DOMAIN m)
    IN  IF shift \notin 1..(n - 1) THEN m
        ELSE CopyBytes(m, n - 1, n - shift - 1, -1, -1, fill)

\* The little endian forms are the big endian forms of the other direction.
leftRoundBytesShiftLE(m, shift)         == rightRoundBytesShiftBE(m, shift)
rightRoundBytesShiftLE(m, shift)        == leftRoundBytesShiftBE(m, shift)
leftDirectBytesShiftLE(m, shift, fill)  == rightDirectBytesShiftBE(m, shift, fill)
rightDirectBytesShiftLE(m, shift, fill) == leftDirectBytesShiftBE(m, shift, fill)

Stored(b) == IF b.dependent THEN b.endian ELSE "independent"

ByteShiftLeft(b, shift, fill) ==
    [b EXCEPT !.data =
        IF shift >= Size(b) THEN [j \in DOMAIN @ |-> fill]
        ELSE IF Stored(b) = LE THEN leftDirectBytesShiftLE(@, shift, fill)
                               ELSE leftDirectBytesShiftBE(@, shift, fill)]

ByteShiftRight(b, shift, fill) ==
    [b EXCEPT !.data =
        IF shift >= Size(b) THEN [j \in DOMAIN @ |-> fill]
        ELSE IF Stored(b) = LE THEN rightDirectBytesShiftLE(@, shift, fill)
                               ELSE rightDirectBytesShiftBE(@, shift, fill)]

ByteRoundShiftLeft(b, shift) ==
    [b EXCEPT !.data = IF Stored(b) = LE THEN leftRoundBytesShiftLE(@, shift % Size(b))
                                         ELSE leftRoundBytesShiftBE(@, shift % Size(b))]

ByteRoundShiftRight(b, shift) ==
    [b EXCEPT !.data = IF Stored(b) = LE THEN rightRoundBytesShiftLE(@, shift % Size(b))
                                         ELSE rightRoundBytesShiftBE(@, shift % Size(b))]

-----------------------------------------------------------------------------
(* Bit shifts: whole bytes first, then the rest of the shift in each byte, *)
(* with the bits that leave the neighbour at distance step; edge stands    *)
(* for the neighbour of the byte that has none.                            *)

\* Mutant: the bits of the neighbour are fetched with the shift of the byte itself.
TailShiftSameAmount(b, step, up, tail, edge) ==
    [b EXCEPT !.data = [j \in DOMAIN @ |->
        LET next == IF j + step \in DOMAIN @ THEN @[j + step] ELSE edge
        IN  IF up THEN Bytewise(Or, Shr(next, tail), Shl(@[j], tail))
            ELSE Bytewise(Or, Shl(next, tail), Shr(@[j], tail))]]

TailShift(b, step, up, tail, edge) ==
    [b EXCEPT !.data = [j \in DOMAIN @ |->
        LET next == IF j + step \in DOMAIN @ THEN @[j + step] ELSE edge
        IN  IF up THEN Bytewise(Or, Shr(next, 8 - tail), Shl(@[j], tail))
            ELSE Bytewise(Or, Shl(next, 8 - tail), Shr(@[j], tail))]]

Filled(c) == [p \in BitOf |-> c.fill]

ShiftLeft(b, c) ==
    LET s    == ByteShiftLeft(b, c.shift \div 8, Filled(c))
        tail == c.shift % 8
        up   == Stored(b) \in {LE, "independent"}
    IN  IF tail = 0 \/ c.shift >= Length(b) \/ Stored(b) = BE THEN s
        ELSE TailShift(s, IF Stored(b) = LE THEN -1 ELSE 1, up, tail, Filled(c))

ShiftRight(b, c) ==
    LET s    == ByteShiftRight(b, c.shift \div 8, Filled(c))
        tail == c.shift % 8
    IN  IF tail = 0 \/ c.shift >= Length(b) THEN s
        ELSE TailShift(s, IF Stored(b) = LE THEN 1 ELSE -1, FALSE, tail, Filled(c))

RoundShiftLeft(b, c) ==
    LET shift == c.shift % Length(b)
        s     == ByteRoundShiftLeft(b, shift \div 8)
    IN  IF shift % 8 = 0 THEN s
        ELSE TailShift(s, IF Stored(b) = LE THEN -1 ELSE 1, TRUE, shift % 8,
                       s.data[IF Stored(b) = LE THEN Size(b) - 1 ELSE 0])

\* In the little endian form the byte saved as "first" is the last one.
RoundShiftRight(b, c) ==
    LET shift == c.shift % Length(b)
        s     == ByteRoundShiftRight(b, shift \div 8)
    IN  IF shift % 8 = 0 THEN s
        ELSE TailShift(s, IF Stored(b) = LE THEN 1 ELSE -1, FALSE, shift % 8, s.data[Size(b) - 1])

\* What a shift call does to the buffer.
Shifted(b, c) ==
    CASE c.unit = "byte" /\ c.op = "ShiftLeft"       -> ByteShiftLeft(b, c.shift, Filled(c))
      [] c.unit = "byte" /\ c.op = "ShiftRight"      -> ByteShiftRight(b, c.shift, Filled(c))
      [] c.unit = "byte" /\ c.op = "RoundShiftLeft"  -> ByteRoundShiftLeft(b, c.shift)
      [] c.unit = "byte" /\ c.op = "RoundShiftRight" -> ByteRoundShiftRight(b, c.shift)
      [] c.unit = "bit"  /\ c.op = "ShiftLeft"       -> ShiftLeft(b, c)
      [] c.unit = "bit"  /\ c.op = "ShiftRight"      -> ShiftRight(b, c)
      [] c.unit = "bit"  /\ c.op = "RoundShiftLeft"  -> RoundShiftLeft(b, c)
      [] c.unit = "bit"  /\ c.op = "RoundShiftRight" -> RoundShiftRight(b, c)

-----------------------------------------------------------------------------
(* Single bits and blocks of bits. *)

Set(b, i, bit) == IF i >= Length(b) THEN b ELSE SetBit(b, i, LAMBDA old : bit)
Invert(b, i)   == IF i >= Length(b) THEN b ELSE SetBit(b, i, Not)

InRange(b, first, last) == first <= last /\ last < Length(b)

InvertBlock(b, first, last) ==
    LET turns == last - first + 1
        inverted[k \in 0..turns] == IF k = 0 THEN b ELSE Invert(inverted[k - 1], first + k - 1)
    IN  IF InRange(b, first, last) THEN inverted[turns] ELSE b

\* Two bits that differ are both inverted: they change places.
Exchanged(b, i, j) ==
    LET differ == Xor(GetBitValue(b, i), GetBitValue(b, j))
    IN  SetBit(SetBit(b, i, LAMBDA old : Xor(old, differ)), j, LAMBDA old : Xor(old, differ))

Reverse(b, first, last) ==
    LET turns == (last - first + 1) \div 2
        reversed[k \in 0..turns] ==
            IF k = 0 THEN b ELSE Exchanged(reversed[k - 1], first + k - 1, last - k + 1)
    IN  IF InRange(b, first, last) THEN reversed[turns] ELSE b

\* The first bits of one buffer become the bits first..last of another one.
CopyBits(to, from, first, last) ==
    LET turns == last - first + 1
        copied[k \in 0..turns] ==
            IF k = 0 THEN to ELSE Set(copied[k - 1], k - 1, GetBitValue(from, first + k - 1))
    IN  copied[turns]

\* The value is a wrapper of c.size zero bytes in the requested endian.
Convert(b, c) ==
    LET zero == [data |-> [j \in 0..(c.size - 1) |-> LowByte],
                 endian |-> c.endian, dependent |-> TRUE, safe |-> TRUE]
    IN  IF InRange(b, c.first, c.last) /\ c.last - c.first < 8 * c.size
        THEN <<CopyBits(zero, b, c.first, c.last)>> ELSE <<>>

-----------------------------------------------------------------------------
(* Conversion between endians. *)

\* Halves, pairs and neighbours change places: the byte is reversed.
ReverseBits(byte) ==
    LET swap(x, high, n) ==
            Bytewise(Or, Shr(Masked(x, high), n), Shl(Masked(x, BitOf \ high), n))
    IN  swap(swap(swap(byte, {4, 5, 6, 7}, 4), {2, 3, 6, 7}, 2), {1, 3, 5, 7}, 1)

\* Three exclusive ors change two bytes in place.
XorSwap(m, i, j) ==
    LET m1 == [m  EXCEPT ![i] = Bytewise(Xor, m[i], m[j])]
        m2 == [m1 EXCEPT ![j] = Bytewise(Xor, m1[j], m1[i])]
    IN  [m2 EXCEPT ![i] = Bytewise(Xor, m2[i], m2[j])]

SwapHalves(m, reverse) ==
    LET n == Cardinality(DOMAIN m)
        turn(s, i) ==
            XorSwap(IF reverse
                    THEN [s EXCEPT ![i] = ReverseBits(@), ![n - i - 1] = ReverseBits(@)]
                    ELSE s, i, n - i - 1)
        swapped[i \in 0..(n \div 2)] == IF i = 0 THEN m ELSE turn(swapped[i - 1], i - 1)
    IN  swapped[n \div 2]

Converted(m, from, to) ==
    CASE {from, to} = {LE, BE}  -> SwapHalves(m, FALSE)
      [] {from, to} = {BE, RBE} -> [j \in DOMAIN m |-> ReverseBits(m[j])]
      [] {from, to} = {LE, RBE} -> IF Cardinality(DOMAIN m) = 1
                                   THEN [j \in DOMAIN m |-> ReverseBits(m[j])]
                                   ELSE SwapHalves(m, TRUE)
      [] OTHER -> m

SetDataEndianType(b, c) ==
    [b EXCEPT !.data = IF c.convert THEN Converted(@, b.endian, c.endian) ELSE @,
              !.endian = c.endian]

-----------------------------------------------------------------------------
(* Predicates: the answer follows from the bits at the positions they read. *)

BitsOfByte(j) == {<<j, p>> : p \in BitOf}

\* Bytes are compared as long as they lie in the range from its beginning on.
WholeBytes(first, last) ==
    IF first % 8 = 0 /\ last - first + 1 >= 8 THEN (last - first + 1) \div 8 ELSE 0

BitsFrom(b, first, last) == {GetBitPosition(b, i) : i \in first..last}

All(b, first, last) ==
    LET n == WholeBytes(first, last)
    IN  (UNION {BitsOfByte(GetBitPosition(b, first + 8 * k)[1]) : k \in 0..(n - 1)})
            \cup BitsFrom(b, first + 8 * n, last)

None(b, first, last) ==
    LET n == WholeBytes(first, last)
    IN  (UNION {BitsOfByte(GetByteIndex(b, first + 8 * k)) : k \in 0..(n - 1)})
            \cup BitsFrom(b, first + 8 * n, last)

Count(b, first, last) == BitsFrom(b, first, last)

\* A word of 32 bits, each one the position it was loaded from or <<>>.
WordShl(w, n) == [p \in 0..31 |-> IF p - n \in 0..31 THEN w[p - n] ELSE <<>>]
WordShr(w, n) == [p \in 0..31 |-> IF p + n \in 0..31 THEN w[p + n] ELSE <<>>]
htonl(w)      == [p \in 0..31 |-> w[8 * (3 - p \div 8) + (p % 8)]]
Loaded(w)     == {w[p] : p \in 0..31} \ {<<>>}

\* Mutant: the range needs not begin at a byte to be loaded as four bytes.
FitsWordAnywhere(first, last) == last - first + 1 <= 32

FitsWord(first, last) ==
    \/ last - first + 1 <= 24
    \/ first % 8 = 0 /\ last - first + 1 <= 32

\* The bytes loaded as a word: the first one and the one after the last.
WordBytes(b, first, last) ==
    LET i == GetByteIndex(b, first)
        j == GetByteIndex(b, last)
    IN  IF b.endian = LE \/ ~b.dependent THEN <<i, j + 1>> ELSE <<j, i + 1>>

AnyInWord(b, first, last) ==
    LET n     == last - first + 1
        from  == WordBytes(b, first, last)[1]
        to    == WordBytes(b, first, last)[2]
        value == [p \in 0..31 |-> IF p \div 8 < to - from THEN <<from + (p \div 8), p % 8>> ELSE <<>>]
    IN  CASE ~b.dependent -> WordShr(WordShl(htonl(value), first % 8), 32 - n)
          [] b.dependent /\ b.endian = LE -> WordShl(WordShr(value, first % 8), 32 - n)
          [] b.dependent /\ b.endian = BE ->
               WordShr(WordShl(htonl(value), 8 - (last % 8) - 1), 32 - n)
          [] OTHER -> WordShl(WordShr(value, 8 - (last % 8)), 32 - n)

Any(b, first, last) ==
    LET n     == WholeBytes(first, last)
        start == IF b.endian = LE \/ ~b.dependent THEN GetByteIndex(b, first)
                 ELSE GetByteIndex(b, first + 8 * n - 1)
    IN  IF FitsWord(first, last) THEN Loaded(AnyInWord(b, first, last))
        ELSE (UNION {BitsOfByte(start + k) : k \in 0..(n - 1)})
                 \cup BitsFrom(b, first + 8 * n, last)

\* The byte predicates test one byte after the other.
ByteTests(b, first, last) == UNION {BitsOfByte(GetBytePosition(b, j)) : j \in first..last}

Upwards(b, first, last)   == [k \in 1..(last - first + 1) |-> GetBitPosition(b, first + k - 1)]
Downwards(b, first, last) == [k \in 1..(last - first + 1) |-> GetBitPosition(b, last - k + 1)]

GetFirstIndex(b, first, last) == Upwards(b, first, last)
GetLastIndex(b, first, last)  == Downwards(b, first, last)

\* Downwards while the index is not 0, and bit 0 whenever the loop ends there.
ToString(b, first, last) ==
    IF b.dependent
    THEN Downwards(b, IF first = 0 THEN 1 ELSE first, last)
             \o (IF first <= 1 THEN <<GetBitPosition(b, 0)>> ELSE <<>>)
    ELSE Upwards(b, first, last)

\* The output operator writes the whole vector.
Output(b) ==
    IF b.dependent THEN Downwards(b, 1, Length(b) - 1) \o <<GetBitPosition(b, 0)>>
    ELSE Upwards(b, 0, Length(b) - 1)

\* The answer of a predicate.
Asked(b, c) ==
    CASE c.op = "Any"           -> Any(b, c.first, c.last)
      [] c.op = "All"           -> All(b, c.first, c.last)
      [] c.op = "None"          -> None(b, c.first, c.last)
      [] c.op = "Count"         -> Count(b, c.first, c.last)
      [] c.op = "GetFirstIndex" -> GetFirstIndex(b, c.first, c.last)
      [] c.op = "GetLastIndex"  -> GetLastIndex(b, c.first, c.last)
      [] c.op = "ToString"      -> ToString(b, c.first, c.last)

-----------------------------------------------------------------------------
(* Logical operators. *)

Combine(op, a, b) ==
    CASE op = "And" -> Bytewise(And, a, b)
      [] op = "Or"  -> Bytewise(Or, a, b)
      [] op = "Xor" -> Bytewise(Xor, a, b)

\* The operand moved to a block of the other one's length.
Grown(b, n) ==
    LET diff == n - Size(b)
        from(j) == IF b.endian = LE THEN j ELSE j - diff
    IN  [b EXCEPT !.data = [j \in 0..(n - 1) |-> IF from(j) \in DOMAIN @ THEN @[from(j)] ELSE LowByte]]

BitStreamAssign(b, op, other) ==
    LET left == IF Size(b) < Size(other) /\ ~b.safe THEN Grown(b, Size(other)) ELSE b
        pos(k) == GetBytePosition(left, k)
        index(j) == CHOOSE k \in DOMAIN left.data : pos(k) = j
    IN  [left EXCEPT !.data = [j \in DOMAIN @ |->
            IF index(j) < Size(other)
            THEN Combine(op, @[j], other.data[GetBytePosition(other, index(j))])
            ELSE IF op = "And" THEN LowByte ELSE @[j]]]

SameShape(b, other) == b.endian = other.endian /\ Size(b) = Size(other)

\* Four bytes at a time, then byte by byte; the word form of &= uses ^=.
BinaryDataAssign(b, op, other) ==
    IF ~SameShape(b, other) THEN BitStreamAssign(b, op, other)
    ELSE [b EXCEPT !.data = [j \in DOMAIN @ |->
            Combine(IF op = "And" /\ j < 4 * (Size(b) \div 4) THEN "Xor" ELSE op,
                    @[j], other.data[j])]]

\* The operators that make a new object work on a copy of the left operand.
BitStreamOperator(b, op, other) == BitStreamAssign(b, op, other)

BinaryDataOperator(b, op, other) ==
    IF ~SameShape(b, other) THEN BitStreamAssign(b, op, other)
    ELSE [b EXCEPT !.data = [j \in DOMAIN @ |-> Combine(op, @[j], other.data[j])]]

-----------------------------------------------------------------------------
(* Calls. *)

Spans(n) == {s \in (0..(n - 1)) \X (0..n) : s[1] <= s[2] + 1}

\* The layouts for which a call does not do what the interface says.
Defect(b, c) ==
    LET tail == c.unit = "bit" /\ c.shift % 8 # 0
        odd  == Size(b) % 2 = 1 /\ Size(b) > 1
    IN  b.dependent /\
        CASE c.op = "ShiftLeft"  -> b.endian = BE /\ tail /\ c.shift < Length(b)
          [] c.op = "ShiftRight" -> b.endian = RBE /\ tail /\ c.shift < Length(b)
          [] c.op = "RoundShiftLeft"  -> b.endian = RBE /\ tail
          [] c.op = "RoundShiftRight" -> b.endian # BE /\ tail
          [] c.op = "SetDataEndianType" -> odd /\ {b.endian, c.endian} = {LE, RBE}
          [] c.op = "Any"        -> c.unit = "bit" /\ b.endian = RBE /\ FitsWord(c.first, c.last)
          [] c.op = "ToString"   -> c.first = 1
          [] OTHER -> FALSE

\* The operands for which an operator does not do what the interface says; And
\* outside the safe mode never shortens the left operand (BitStreamEngine.cpp:550).
DefectOfOperands(b, c) ==
    \/ c.op = "Assign" /\ c.unit = "data" /\ c.with = "And" /\ SameShape(b, c.other) /\ Size(b) >= 4
    \/ b.dependent /\ b.endian # c.other.endian /\ RBE \in {b.endian, c.other.endian}
    \/ ~b.dependent /\ b.endian # LE /\ ~b.safe /\ Size(b) < Size(c.other)
    \/ c.with = "And" /\ ~b.safe /\ Size(b) # Size(c.other)

Make(c, after, answer) ==
    /\ calls' = calls + 1
    /\ call' = c
    /\ buffer' = after
    /\ reply' = answer

Full == Size(buffer) \in StreamSizes

Shift ==
    /\ calls < MaxCalls
    /\ \E op \in {"ShiftLeft", "ShiftRight", "RoundShiftLeft", "RoundShiftRight"},
          unit \in {"bit", "byte"}, shift \in 1..(Length(buffer) + 1), fill \in {Zero, One} :
           LET c == [op |-> op, unit |-> unit, shift |-> shift, fill |-> fill]
           IN  /\ Full
               /\ StreamDefects \/ ~Defect(buffer, c)
               /\ Make(c, Shifted(buffer, c), <<>>)

\* The operators <<, >> and ~ do their work on a copy of the operand.
Copied ==
    /\ calls < MaxCalls
    /\ \E op \in {"ShiftLeft", "ShiftRight"}, shift \in 1..(Length(buffer) + 1) :
           LET c == [op |-> op, unit |-> "bit", shift |-> shift, fill |-> Zero]
           IN  /\ Full
               /\ StreamDefects \/ ~Defect(buffer, c)
               /\ Make([op |-> "Copied", unit |-> "bit", on |-> c], buffer, <<Shifted(buffer, c)>>)

\* The byte engine sets a byte without comparing its index with the length.
SetOne ==
    /\ calls < MaxCalls
    /\ \E unit \in {"bit", "byte"}, i \in 0..Length(buffer), fill \in {Zero, One} :
           /\ Full
           /\ unit = "byte" => i < Size(buffer)
           /\ Make([op |-> "Set", unit |-> unit, first |-> i, last |-> i, fill |-> fill],
                   IF unit = "bit" THEN Set(buffer, i, fill)
                   ELSE [buffer EXCEPT !.data[GetBytePosition(buffer, i)] = [p \in BitOf |-> fill]], <<>>)

Block ==
    /\ calls < MaxCalls
    /\ \E op \in {"InvertBlock", "Reverse"}, s \in Spans(Length(buffer)) :
           /\ Full
           /\ Make([op |-> op, unit |-> "bit", first |-> s[1], last |-> s[2]],
                   IF op = "Reverse" THEN Reverse(buffer, s[1], s[2])
                   ELSE InvertBlock(buffer, s[1], s[2]), <<>>)

ConvertTo ==
    /\ calls < MaxCalls
    /\ \E s \in Spans(Length(buffer)), size \in {1, 2}, e \in Endians :
           LET c == [op |-> "Convert", unit |-> "bit", first |-> s[1], last |-> s[2],
                     size |-> size, endian |-> e]
           IN  /\ Full /\ s[2] - s[1] < 8 * size
               /\ Make(c, buffer, Convert(buffer, c))

ChangeEndian ==
    /\ calls < MaxCalls
    /\ \E e \in Endians :
           LET c == [op |-> "SetDataEndianType", unit |-> "bit", endian |-> e, convert |-> TRUE]
           IN  /\ Full /\ buffer.dependent
               /\ StreamDefects \/ ~Defect(buffer, c)
               /\ Make(c, SetDataEndianType(buffer, c), <<>>)

\* The interface asks for operands of the same mode.
Operate ==
    /\ calls < MaxCalls
    /\ \E op \in {"Assign", "Operator"}, unit \in {"bit", "data"}, with \in {"And", "Or", "Xor"},
          other \in {o \in Buffers(StreamSizes, 50) : o.safe /\ o.dependent = buffer.dependent} :
           LET c == [op |-> op, unit |-> unit, with |-> with, other |-> other, grow |-> ~buffer.safe]
               r == CASE unit = "bit" /\ op = "Assign" -> BitStreamAssign(buffer, with, other)
                      [] unit = "bit" /\ op = "Operator" -> BitStreamOperator(buffer, with, other)
                      [] unit = "data" /\ op = "Assign" -> BinaryDataAssign(buffer, with, other)
                      [] OTHER -> BinaryDataOperator(buffer, with, other)
           IN  /\ Full
               /\ StreamDefects \/ ~DefectOfOperands(buffer, c)
               /\ IF op = "Assign" THEN Make(c, r, <<>>) ELSE Make(c, buffer, <<r>>)

Ask ==
    /\ calls < MaxCalls
    /\ \E op \in {"Any", "All", "None", "Count", "GetFirstIndex", "GetLastIndex", "ToString"},
          s \in Spans(Length(buffer)) :
           LET c == [op |-> op, unit |-> "bit", first |-> s[1], last |-> s[2]]
           IN  /\ StreamDefects \/ ~Defect(buffer, c)
               /\ Make(c, buffer, IF InRange(buffer, s[1], s[2]) THEN <<Asked(buffer, c)>> ELSE <<>>)

Write ==
    /\ calls < MaxCalls
    /\ Make([op |-> "ToString", unit |-> "bit", first |-> 0, last |-> Length(buffer) - 1],
            buffer, <<Output(buffer)>>)

AskBytes ==
    /\ calls < MaxCalls
    /\ \E op \in {"Any", "All", "None"}, s \in Spans(Size(buffer)) :
           Make([op |-> op, unit |-> "byte", first |-> s[1], last |-> s[2]], buffer,
                IF s[1] <= s[2] /\ s[2] < Size(buffer) THEN <<ByteTests(buffer, s[1], s[2])>> ELSE <<>>)

StreamInit ==
    /\ buffer \in Buffers(StreamSizes \cup ReadSizes, 0)
    /\ call = [op |-> "New"]
    /\ reply = <<>>
    /\ calls = 0

StreamNext == \/ Shift \/ Copied \/ SetOne \/ Block \/ ConvertTo
        \/ ChangeEndian \/ Operate \/ Ask \/ Write \/ AskBytes

StreamSpec == StreamInit /\ [][StreamNext]_streamVars

-----------------------------------------------------------------------------
(* The vector that the stored bytes stand for, as BinaryDataEngine.hpp     *)
(* draws it for each endian: where bit i is, and the bit at a place.       *)

Drawn(b, i) ==
    CASE ~b.dependent   -> <<i \div 8, 7 - (i % 8)>>
      [] b.dependent /\ b.endian = LE -> <<i \div 8, i % 8>>
      [] b.dependent /\ b.endian = BE -> <<Size(b) - 1 - (i \div 8), i % 8>>
      [] OTHER -> <<Size(b) - 1 - (i \div 8), 7 - (i % 8)>>

DrawnAt(b, at) == CHOOSE i \in 0..(Length(b) - 1) : Drawn(b, i) = at

Vector(b) == [i \in 0..(Length(b) - 1) |-> LET at == Drawn(b, i) IN b.data[at[1]][at[2]]]

\* A call on bytes is the call on their bits.
VectorCall(c) ==
    CASE c.op = "New" -> c
      [] c.op # "New" /\ c.unit = "byte" /\ "shift" \in DOMAIN c -> [c EXCEPT !.shift = 8 * @]
      [] c.op # "New" /\ c.unit = "byte" /\ "first" \in DOMAIN c ->
           [c EXCEPT !.first = 8 * @, !.last = 8 * @ + 7]
      [] c.op \in {"Assign", "Operator"} -> [c EXCEPT !.other = Vector(@)]
      [] OTHER -> c

VectorReply(c, r) ==
    CASE r = <<>> -> r
      [] r # <<>> /\ c.op \in {"Any", "All", "None", "Count"} -> <<{DrawnAt(buffer, at) : at \in r[1]}>>
      [] r # <<>> /\ c.op \in {"GetFirstIndex", "GetLastIndex", "ToString"} ->
           <<[k \in DOMAIN r[1] |-> DrawnAt(buffer, r[1][k])]>>
      [] OTHER -> <<Vector(r[1])>>

BitVector == INSTANCE BitVector WITH
    bits <- Vector(buffer), dependent <- buffer.dependent,
    call <- VectorCall(call), reply <- VectorReply(call, reply)

-----------------------------------------------------------------------------
(* Properties. *)

\* Type invariant: a block never loses bytes and grows only by an operator that
\* may change its length; every bit is a sum of labels.
BufferOf(n) ==
    [data : [0..(n - 1) -> Byte], endian : Endians, dependent : BOOLEAN, safe : BOOLEAN]

StreamTypeOK ==
    /\ \E n \in StreamSizes \cup ReadSizes : buffer \in BufferOf(n)
    /\ calls \in 0..MaxCalls

\* Every call changes and answers exactly what the same call on the vector of
\* bits does, whatever the endian, the mode, the length and the content: the
\* byte moves, the shifts within bytes, the conversions, the word and byte
\* shortcuts of the predicates and the operators are invisible to the caller.
ImplementsBitVector == BitVector!Spec

\* Any never loads more than the four bytes of its word, nor bytes outside the
\* block: the conditions on the number of bits imply the one on the bytes.
WordHoldsItsBytes ==
    call.op = "Any" /\ call.unit = "bit" /\ reply # <<>> /\ FitsWord(call.first, call.last) =>
        LET w == WordBytes(buffer, call.first, call.last)
        IN  /\ 0 <= w[1] /\ w[2] <= Size(buffer)
            /\ w[2] - w[1] \in 1..4

\* A round shift by any number of bits loses no bit: BinaryDataEngine.hpp says
\* of RoundShiftRight that it "performs round right bit shift by a specified
\* bit offset".
RoundShiftKeepsBits ==
    call.op \in {"RoundShiftLeft", "RoundShiftRight"} =>
        {{k} : k \in 0..(Length(buffer) - 1)}
            \subseteq {buffer.data[j][p] : j \in DOMAIN buffer.data, p \in BitOf}
=============================================================================
