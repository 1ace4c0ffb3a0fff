----------------------------- MODULE BinaryData -----------------------------
(***************************************************************************)
(* Who owns the memory of BinaryDataEngine objects: construction, copies,  *)
(* moves, assignment, references to memory of the caller, growth by the    *)
(* logical operators, the literals, Clear, Reset and destruction, with     *)
(* allocations that fail.  data is a unique_ptr, so assigning it deletes   *)
(* what it held, and only Clear looks at DATA_MODE_NO_ALLOCATION first.    *)
(***************************************************************************)
EXTENDS Integers

CONSTANTS
    Objects,      \* BinaryDataEngine objects
    Blocks,       \* addresses of memory blocks
    Caller,       \* the blocks the caller owns and may lend
    NoBlock,      \* nullptr
    Sizes,        \* sizes in bytes
    Contents,     \* what a block can hold
    WithDefects   \* whether the calls that Callers excludes are made too

ASSUME BinaryDataAssumption ==
    /\ Caller \subseteq Blocks /\ NoBlock \notin Blocks
    /\ Sizes \subseteq Nat /\ WithDefects \in BOOLEAN

VARIABLES
    object,   \* [live, data, length, borrows]; borrows: DATA_MODE_NO_ALLOCATION
    block,    \* [kind, size, content]
    touched,  \* the objects the last call may change (history)
    errno     \* whether errno is ERANGE: set by strtoull, reset by nobody

vars == <<object, block, touched, errno>>

Hold(b, n, borrows) == [live |-> TRUE, data |-> b, length |-> n, borrows |-> borrows]
Destroyed == [live |-> FALSE, data |-> NoBlock, length |-> 0, borrows |-> FALSE]

IsTrue(o)   == object[o].data # NoBlock /\ object[o].length # 0
Content(o)  == block[object[o].data].content
Value(o)    == IF IsTrue(o) THEN <<object[o].length, Content(o)>> ELSE <<>>
FreeBlocks  == {b \in Blocks : block[b].kind = "free"}

Unused == [kind |-> "free", size |-> 0, content |-> "garbage"]

\* delete[] and new[]: deleting what was not allocated corrupts the heap.
Delete(blocks, b) ==
    IF b = NoBlock THEN blocks
    ELSE [blocks EXCEPT ![b] = IF @.kind = "new" THEN Unused ELSE [@ EXCEPT !.kind = "corrupt"]]

Allocate(blocks, b, n, content) ==
    IF b = NoBlock THEN blocks
    ELSE [blocks EXCEPT ![b] = [kind |-> "new", size |-> n, content |-> content]]

\* The calls of the passing run: memory that is borrowed is let go by Clear or
\* Reset before it is replaced.
MayReplace(o) == WithDefects \/ ~object[o].borrows \/ object[o].data = NoBlock

\* What allocMemoryForArray may return.
Allocated == FreeBlocks \cup {NoBlock}

Touch(objects) == touched' = objects /\ UNCHANGED errno

AsNew(o) == [object EXCEPT ![o] = Hold(NoBlock, 0, FALSE)]

-----------------------------------------------------------------------------
(* Constructors. *)

Construct(o, mode) ==
    /\ ~object[o].live
    /\ object' = [object EXCEPT ![o] = Hold(NoBlock, 0, mode)]
    /\ UNCHANGED block
    /\ Touch({o})

ConstructSize(o, n, mode, content) ==
    /\ ~object[o].live
    /\ \E b \in Allocated :
          /\ block' = Allocate(block, b, n, content)
          /\ object' = [object EXCEPT ![o] =
                            IF b = NoBlock THEN Hold(NoBlock, 0, mode) ELSE Hold(b, n, FALSE)]
    /\ Touch({o})

\* A block that a constructor or AssignReference gets: the caller's own one, or
\* one that the caller has just allocated and hands over.
Offered(b, n, destruct) ==
    IF destruct THEN block[b].kind = "free"
    ELSE block[b].kind = "lent" /\ block[b].size = n

Received(b, n, destruct, content) ==
    IF destruct THEN Allocate(block, b, n, content) ELSE block

\* Mutant: the constructor leaves the mode to the caller.
ConstructMemoryAnyMode(o, b, n, mode, destruct, content) ==
    /\ ~object[o].live
    /\ Offered(b, n, destruct)
    /\ WithDefects \/ (n # 0 /\ ~(destruct /\ mode))
    /\ block' = Received(b, n, destruct, content)
    /\ object' = [object EXCEPT ![o] = Hold(b, n, mode)]
    /\ Touch({o})

ConstructMemory(o, b, n, mode, destruct, content) ==
    /\ ~object[o].live
    /\ Offered(b, n, destruct)
    /\ WithDefects \/ (n # 0 /\ ~(destruct /\ mode))
    /\ block' = Received(b, n, destruct, content)
    /\ object' = [object EXCEPT ![o] =
                      IF n # 0 THEN Hold(b, n, ~destruct \/ mode) ELSE Hold(b, 0, mode)]
    /\ Touch({o})

CopyConstruct(o, other) ==
    /\ ~object[o].live /\ object[other].live
    /\ IF ~IsTrue(other)
       THEN object' = AsNew(o) /\ UNCHANGED block
       ELSE \E b \in Allocated :
               /\ block' = Allocate(block, b, object[other].length, Content(other))
               /\ object' = [object EXCEPT ![o] =
                                 Hold(b, IF b = NoBlock THEN 0 ELSE object[other].length, FALSE)]
    /\ Touch({o})

\* The mode of the other object stays what it was.
MovedFrom(other) == Hold(NoBlock, 0, object[other].borrows)

MoveConstruct(o, other) ==
    /\ ~object[o].live /\ object[other].live
    /\ object' = IF IsTrue(other)
                 THEN [object EXCEPT ![o] = object[other], ![other] = MovedFrom(other)]
                 ELSE AsNew(o)
    /\ UNCHANGED block
    /\ Touch({o, other})

-----------------------------------------------------------------------------
(* Assignments: the new memory is allocated before the old one is deleted. *)

\* What a failed allocation leaves: the length of memory that is gone.
Emptied(o) == Hold(NoBlock, object[o].length, object[o].borrows)

\* Mutant: the old pointer is overwritten, not released by its unique_ptr.
CopyAssignForgets(o, other) ==
    /\ object[o].live /\ object[other].live /\ o # other /\ IsTrue(other)
    /\ MayReplace(o)
    /\ \E b \in Allocated :
          /\ block' = Allocate(block, b, object[other].length, Content(other))
          /\ object' = [object EXCEPT ![o] =
                            IF b = NoBlock THEN Emptied(o)
                            ELSE Hold(b, object[other].length, FALSE)]
    /\ Touch({o})

\* Mutant: the two objects share the block.
CopyAssignShares(o, other) ==
    /\ object[o].live /\ object[other].live /\ o # other /\ IsTrue(other)
    /\ MayReplace(o)
    /\ block' = Delete(block, object[o].data)
    /\ object' = [object EXCEPT ![o] = [object[other] EXCEPT !.borrows = FALSE]]
    /\ Touch({o})

CopyAssign(o, other) ==
    /\ object[o].live /\ object[other].live /\ o # other /\ IsTrue(other)
    /\ MayReplace(o)
    /\ \E b \in Allocated :
          /\ block' = Delete(Allocate(block, b, object[other].length, Content(other)),
                             object[o].data)
          /\ object' = [object EXCEPT ![o] =
                            IF b = NoBlock THEN Emptied(o)
                            ELSE Hold(b, object[other].length, FALSE)]
    /\ Touch({o})

MoveAssign(o, other) ==
    /\ object[o].live /\ object[other].live /\ o # other /\ IsTrue(other)
    /\ MayReplace(o)
    /\ block' = Delete(block, object[o].data)
    /\ object' = [object EXCEPT ![o] = object[other], ![other] = MovedFrom(other)]
    /\ Touch({o, other})

\* Only destruct = FALSE sets a mode.
AssignReference(o, b, n, destruct, content) ==
    /\ object[o].live
    /\ Offered(b, n, destruct)
    /\ MayReplace(o) /\ (WithDefects \/ ~destruct \/ ~object[o].borrows)
    /\ block' = Delete(Received(b, n, destruct, content), object[o].data)
    /\ object' = [object EXCEPT ![o] = Hold(b, n, ~destruct \/ @.borrows)]
    /\ Touch({o})

\* A null pointer: the length stays.
AssignNothing(o) ==
    /\ object[o].live
    /\ MayReplace(o)
    /\ block' = Delete(block, object[o].data)
    /\ object' = [object EXCEPT ![o] = Emptied(o)]
    /\ Touch({o})

\* Mutant: the length is not stored with the new memory.
AssignDataOldLength(o, n, content) ==
    /\ object[o].live /\ n # object[o].length /\ MayReplace(o)
    /\ \E b \in FreeBlocks :
          /\ block' = Delete(Allocate(block, b, n, content), object[o].data)
          /\ object' = [object EXCEPT ![o] = Hold(b, @.length, FALSE)]
    /\ Touch({o})

\* Other lengths than the stored one take new memory; with the same length the
\* bytes are overwritten in place, wherever they are.
AssignData(o, n, content) ==
    /\ object[o].live
    /\ \/ /\ n # object[o].length
          /\ MayReplace(o)
          /\ \E b \in Allocated :
                /\ block' = Delete(Allocate(block, b, n, content), object[o].data)
                /\ object' = [object EXCEPT ![o] =
                                  IF b = NoBlock THEN Emptied(o)
                                  ELSE Hold(b, n, FALSE)]
       \/ /\ n = object[o].length
          /\ object[o].data # NoBlock
          /\ block' = [block EXCEPT ![object[o].data].content = IF n = 0 THEN @ ELSE content]
          /\ UNCHANGED object
    /\ Touch({o})

\* A logical operator that may change the length moves a shorter left operand
\* to a block of the other one's length; the mode stays.
Grow(o, n, content) ==
    /\ object[o].live /\ IsTrue(o) /\ n > object[o].length
    /\ MayReplace(o)
    /\ \E b \in FreeBlocks :
          /\ block' = Delete(Allocate(block, b, n, content), object[o].data)
          /\ object' = [object EXCEPT ![o] = Hold(b, n, @.borrows)]
    /\ Touch({o})

\* A call of the byte or bit engine that changes bytes in place.
Transform(o, content) ==
    /\ object[o].live /\ IsTrue(o)
    /\ block' = [block EXCEPT ![object[o].data].content = content]
    /\ UNCHANGED object
    /\ Touch({o})

\* SetDataModeType with one of the two allocation modes.
SetDataModeType(o, borrows) ==
    /\ object[o].live
    /\ WithDefects \/ object[o].data = NoBlock
    /\ object' = [object EXCEPT ![o].borrows = borrows]
    /\ UNCHANGED block
    /\ Touch({o})

-----------------------------------------------------------------------------
(* Clear, Reset and the destructor. *)

\* The blocks after Clear: borrowed memory is released, not deleted.
Cleared(o) == IF object[o].borrows THEN block ELSE Delete(block, object[o].data)

Clear(o) ==
    /\ object[o].live
    /\ block' = Cleared(o)
    /\ object' = [object EXCEPT ![o] = MovedFrom(o)]
    /\ Touch({o})

Reset(o) ==
    /\ object[o].live
    /\ block' = Cleared(o)
    /\ object' = AsNew(o)
    /\ Touch({o})

Destruct(o) ==
    /\ object[o].live
    /\ block' = Cleared(o)
    /\ object' = [object EXCEPT ![o] = Destroyed]
    /\ Touch({o})

-----------------------------------------------------------------------------
(* Literals. *)

\* How a text converts: strtoull stops early, or the number does not fit the
\* type, or not even 64 bits, which strtoull reports in errno.
Texts == {"fits", "too wide", "overflows", "not a number"}

\* The 64-bit literals ask errno alone whether the number fits.
Accepted(text, bits64) ==
    IF bits64 THEN text # "not a number" /\ ~errno' ELSE text = "fits"

\* The object is made with the size of the type, so AssignData overwrites it in
\* place; when that allocation failed, AssignData tries once more.
Literal(o, text, bits64, n, content) ==
    /\ ~object[o].live
    /\ n # 0
    /\ bits64 => text # "too wide"
    /\ errno' = (errno \/ text = "overflows")
    /\ touched' = {o}
    /\ \/ /\ Accepted(text, bits64)
          /\ \E b \in FreeBlocks :
                /\ block' = Allocate(block, b, n, content)
                /\ object' = [object EXCEPT ![o] = Hold(b, n, FALSE)]
       \/ UNCHANGED <<object, block>>

\* The caller resets errno.
ResetErrno ==
    /\ errno
    /\ errno' = FALSE
    /\ touched' = {}
    /\ UNCHANGED <<object, block>>

-----------------------------------------------------------------------------
Init ==
    /\ object = [o \in Objects |-> Destroyed]
    /\ \E size \in [Caller -> Sizes], content \in [Caller -> Contents] :
          block = [b \in Blocks |->
                      IF b \in Caller
                      THEN [kind |-> "lent", size |-> size[b], content |-> content[b]] ELSE Unused]
    /\ touched = {}
    /\ errno = FALSE

Step(o) ==
    \/ \E mode \in BOOLEAN : Construct(o, mode) \/ SetDataModeType(o, mode)
    \/ \E n \in Sizes, c \in Contents :
          \/ \E mode \in BOOLEAN : ConstructSize(o, n, mode, c)
          \/ \E b \in Blocks, destruct \in BOOLEAN :
                \/ \E mode \in BOOLEAN : ConstructMemory(o, b, n, mode, destruct, c)
                \/ AssignReference(o, b, n, destruct, c)
          \/ AssignData(o, n, c)
          \/ Grow(o, n, c)
          \/ \E text \in Texts, bits64 \in BOOLEAN : Literal(o, text, bits64, n, c)
    \/ \E other \in Objects :
          \/ CopyConstruct(o, other) \/ MoveConstruct(o, other)
          \/ CopyAssign(o, other) \/ MoveAssign(o, other)
    \/ \E c \in Contents : Transform(o, c)
    \/ AssignNothing(o) \/ Clear(o) \/ Reset(o) \/ Destruct(o)

Next == ResetErrno \/ \E o \in Objects : Step(o)

Spec == Init /\ [][Next]_vars

-----------------------------------------------------------------------------
(* Properties. *)

\* Type invariant; no block is ever deleted that was not allocated, or twice.
TypeOK ==
    /\ object \in [Objects -> [live : BOOLEAN, data : Blocks \cup {NoBlock},
                               length : Sizes \cup {0}, borrows : BOOLEAN]]
    /\ block \in [Blocks -> [kind : {"free", "new", "lent"},
                             size : Sizes \cup {0}, content : Contents \cup {"garbage"}]]
    /\ touched \subseteq Objects
    /\ errno \in BOOLEAN

Owns(o) == object[o].live /\ ~object[o].borrows /\ object[o].data # NoBlock

\* Each allocated block belongs to exactly one live object: no sequence of
\* copies, moves, assignments and failed allocations leaks one or gives it to
\* two objects, whose destructors would delete it twice.
OneOwner ==
    /\ \A b \in Blocks : block[b].kind = "new" => \E o \in Objects : Owns(o) /\ object[o].data = b
    /\ \A o \in Objects : Owns(o) => block[object[o].data].kind = "new"
    /\ \A o, p \in Objects : Owns(o) /\ Owns(p) /\ object[o].data = object[p].data => o = p

\* Memory that an object only refers to is never deleted (BinaryDataEngine.hpp:
\* "The memory is not cleared in the destructor."), nor taken for its own.
BorrowedSurvives ==
    /\ \A b \in Blocks : block[b].kind = "lent" <=> b \in Caller
    /\ \A o \in Objects : object[o].live /\ object[o].borrows /\ object[o].data # NoBlock
                             => object[o].data \in Caller

\* An object that converts to true has all its bytes, after failed allocations
\* and null references too, which leave a length without memory.
TrueHasBytes ==
    \A o \in Objects : object[o].live /\ IsTrue(o) => block[object[o].data].size = object[o].length

\* A call changes the value of its own operands only, unless the memory is lent
\* by the caller, who may have lent it twice.
OthersKeepTheirValue ==
    [][\A o \in Objects \ touched' :
          object[o].live /\ object[o].data \notin Caller => Value(o)' = Value(o)]_vars
=============================================================================
