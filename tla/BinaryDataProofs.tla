-------------------------- MODULE BinaryDataProofs --------------------------
(***************************************************************************)
(* The ownership of the memory of BinaryDataEngine objects, for any        *)
(* objects, blocks, sizes and contents and any number of calls; and the    *)
(* bit and byte engines on one object, for any sizes and any number of     *)
(* calls.                                                                  *)
(***************************************************************************)
EXTENDS BinaryData, BitStream, WellFoundedInduction, FiniteSetTheorems, SequenceTheorems, TLAPS

(* What the invariants rest on: an object that is not there holds nothing. *)
NothingHeld == \A o \in Objects : ~object[o].live => object[o].data = NoBlock

Inv == TypeOK /\ OneOwner /\ BorrowedSurvives /\ TrueHasBytes /\ NothingHeld

LEMMA InitInv == Init => Inv
  <1> SUFFICES ASSUME Init PROVE Inv
    OBVIOUS
  <1> PICK size \in [Caller -> Sizes], content \in [Caller -> Contents] :
          block = [b \in Blocks |->
                      IF b \in Caller
                      THEN [kind |-> "lent", size |-> size[b], content |-> content[b]] ELSE Unused]
    BY DEF Init
  <1>1. TypeOK
    BY BinaryDataAssumption DEF Init, TypeOK, Destroyed, Unused
  <1>2. OneOwner /\ BorrowedSurvives /\ TrueHasBytes /\ NothingHeld
    BY BinaryDataAssumption
    DEF Init, OneOwner, Owns, BorrowedSurvives, TrueHasBytes, NothingHeld, Destroyed, Unused, IsTrue
  <1>3. QED
    BY <1>1, <1>2 DEF Inv

(* The pattern of every assignment: the object lets go of memory that it    *)
(* owns, and gets a fresh block of its own or, when there is none, nothing. *)
LEMMA Replacing ==
  ASSUME Inv, NEW o \in Objects,
         ~object[o].borrows \/ object[o].data = NoBlock,
         NEW b \in Blocks \cup {NoBlock}, b # NoBlock => block[b].kind = "free",
         NEW n \in Sizes \cup {0}, NEW c \in Contents \cup {"garbage"}, NEW length \in Sizes \cup {0}, NEW borrows \in BOOLEAN,
         b # NoBlock => length = n /\ ~borrows,
         object' = [object EXCEPT ![o] = Hold(b, length, borrows)],
         block' = Delete(Allocate(block, b, n, c), object[o].data),
         touched' = {o}, errno' \in BOOLEAN
  PROVE  Inv'
  <1> USE BinaryDataAssumption DEF Inv, TypeOK, Hold, Delete, Allocate, Unused
  <1> DEFINE old == object[o].data
  <1>1. old # b \/ b = NoBlock
    BY DEF OneOwner, Owns, NothingHeld
  <1>2. old # NoBlock => block[old].kind = "new" /\ object[o].live /\ ~object[o].borrows
    BY DEF OneOwner, Owns, NothingHeld
  <1>3. \A p \in Objects \ {o} : object'[p] = object[p]
    OBVIOUS
  <1>4. object'[o] = Hold(b, length, borrows)
    OBVIOUS
  <1>5. \A x \in Blocks : x # b /\ x # old => block'[x] = block[x]
    <2>1. CASE b = NoBlock
      BY <2>1
    <2>2. CASE b # NoBlock
      BY <2>2
    <2>3. QED
      BY <2>1, <2>2
  <1>6. b # NoBlock => block'[b] = [kind |-> "new", size |-> n, content |-> c]
    BY <1>1
  <1>7. old # NoBlock => block'[old] = Unused
    <2>1. CASE b = NoBlock
      BY <2>1, <1>2
    <2>2. CASE b # NoBlock
      BY <2>2, <1>1, <1>2
    <2>3. QED
      BY <2>1, <2>2
  <1>8. TypeOK'
    <2>1. object' \in [Objects -> [live : BOOLEAN, data : Blocks \cup {NoBlock},
                                   length : Sizes \cup {0}, borrows : BOOLEAN]]
      BY <1>4
    <2>2. block' \in [Blocks -> [kind : {"free", "new", "lent"},
                                 size : Sizes \cup {0}, content : Contents \cup {"garbage"}]]
      <3>1. CASE b = NoBlock
        BY <3>1, <1>2
      <3>2. CASE b # NoBlock
        BY <3>2, <1>1, <1>2
      <3>3. QED
        BY <3>1, <3>2
    <2>3. QED
      BY <2>1, <2>2
  <1> HIDE DEF Delete, Allocate, old
  <1>9. OneOwner'
    <2>1. ASSUME NEW x \in Blocks, block'[x].kind = "new"
          PROVE  \E p \in Objects : Owns(p)' /\ object'[p].data = x
      <3>1. CASE x = b
        BY <3>1, <1>4 DEF Owns
      <3>2. CASE x # b
        BY <2>1, <3>2, <1>2, <1>3, <1>5, <1>7 DEF OneOwner, Owns, old
      <3>3. QED
        BY <3>1, <3>2
    <2>2. ASSUME NEW p \in Objects, Owns(p)' PROVE block'[object'[p].data].kind = "new"
      BY <2>2, <1>1, <1>2, <1>3, <1>4, <1>5, <1>6, <1>8 DEF OneOwner, Owns, old
    <2>3. ASSUME NEW p \in Objects, NEW q \in Objects, Owns(p)', Owns(q)',
                 object'[p].data = object'[q].data
          PROVE  p = q
      BY <2>3, <1>1, <1>2, <1>3, <1>4 DEF OneOwner, Owns, old
    <2>4. QED
      BY <2>1, <2>2, <2>3 DEF OneOwner
  <1>10. BorrowedSurvives'
    <2>1. old # NoBlock => old \notin Caller
      BY <1>2 DEF BorrowedSurvives, old
    <2>2. b # NoBlock => b \notin Caller
      BY DEF BorrowedSurvives
    <2>3. (old # NoBlock => block'[old].kind = "free") /\ (b # NoBlock => block'[b].kind = "new")
      BY <1>6, <1>7
    <2>4. \A x \in Blocks : block'[x].kind = "lent" <=> x \in Caller
      BY <1>5, <2>1, <2>2, <2>3 DEF BorrowedSurvives, old
    <2>5. ASSUME NEW p \in Objects, object'[p].live, object'[p].borrows, object'[p].data # NoBlock
          PROVE  object'[p].data \in Caller
      BY <2>5, <1>3, <1>4 DEF BorrowedSurvives
    <2>6. QED
      BY <2>4, <2>5 DEF BorrowedSurvives
  <1>11. TrueHasBytes'
    BY <1>1, <1>2, <1>3, <1>4, <1>5, <1>6, <1>7, <1>8
    DEF TrueHasBytes, IsTrue, OneOwner, BorrowedSurvives, Owns, old
  <1>12. NothingHeld'
    BY <1>3, <1>4, <1>8 DEF NothingHeld
  <1>13. QED
    BY <1>8, <1>9, <1>10, <1>11, <1>12

LEMMA TypeFacts ==
  ASSUME Inv, NEW o \in Objects
  PROVE  /\ object[o].data \in Blocks \cup {NoBlock}
         /\ object[o].length \in Sizes \cup {0}
         /\ object[o].borrows \in BOOLEAN
         /\ object[o] = [live |-> object[o].live, data |-> object[o].data,
                         length |-> object[o].length, borrows |-> object[o].borrows]
         /\ object[o].data # NoBlock =>
               /\ object[o].live
               /\ Content(o) \in Contents \cup {"garbage"}
  BY DEF Inv, TypeOK, NothingHeld, Content

(* Deleting nothing. *)
LEMMA DeleteNothing == \A blocks : Delete(blocks, NoBlock) = blocks
  BY DEF Delete

LEMMA ConstructSizeInv ==
  ASSUME Inv, NEW o \in Objects, NEW n \in Sizes, NEW c \in Contents, NEW mode \in BOOLEAN,
         ConstructSize(o, n, mode, c)
  PROVE  Inv'
  <1>1. PICK b \in Allocated :
           /\ block' = Allocate(block, b, n, c)
           /\ object' = [object EXCEPT ![o] =
                             IF b = NoBlock THEN Hold(NoBlock, 0, mode) ELSE Hold(b, n, FALSE)]
    BY DEF ConstructSize
  <1>2. object[o].data = NoBlock /\ touched' = {o} /\ errno' \in BOOLEAN
    BY DEF ConstructSize, Touch, Inv, TypeOK, NothingHeld
  <1>3. block' = Delete(Allocate(block, b, n, c), object[o].data)
    BY <1>1, <1>2, DeleteNothing
  <1>4. b \in Blocks \cup {NoBlock} /\ (b # NoBlock => block[b].kind = "free")
    BY DEF Allocated, FreeBlocks
  <1>5. CASE b = NoBlock
    BY <1>1, <1>2, <1>3, <1>4, <1>5, Replacing
  <1>6. CASE b # NoBlock
    BY <1>1, <1>2, <1>3, <1>4, <1>6, Replacing
  <1>7. QED
    BY <1>5, <1>6

LEMMA CopyConstructInv ==
  ASSUME Inv, NEW o \in Objects, NEW other \in Objects, CopyConstruct(o, other)
  PROVE  Inv'
  <1>1. object[o].data = NoBlock /\ touched' = {o} /\ errno' \in BOOLEAN
    BY DEF CopyConstruct, Touch, Inv, TypeOK, NothingHeld
  <1>2. CASE ~IsTrue(other)
    <2>1. block' = Delete(Allocate(block, NoBlock, 0, "garbage"), object[o].data)
      BY <1>1, <1>2, DeleteNothing DEF CopyConstruct, Allocate
    <2>2. object' = [object EXCEPT ![o] = Hold(NoBlock, 0, FALSE)]
      BY <1>2 DEF CopyConstruct, AsNew
    <2>3. QED
      BY <1>1, <2>1, <2>2, Replacing
  <1>3. CASE IsTrue(other)
    <2>1. PICK b \in Allocated :
             /\ block' = Allocate(block, b, object[other].length, Content(other))
             /\ object' = [object EXCEPT ![o] =
                               Hold(b, IF b = NoBlock THEN 0 ELSE object[other].length, FALSE)]
      BY <1>3 DEF CopyConstruct
    <2>2. block' = Delete(Allocate(block, b, object[other].length, Content(other)), object[o].data)
      BY <1>1, <2>1, DeleteNothing
    <2>3. b \in Blocks \cup {NoBlock} /\ (b # NoBlock => block[b].kind = "free")
      BY DEF Allocated, FreeBlocks
    <2>4. /\ object[other].length \in Sizes \cup {0}
          /\ Content(other) \in Contents \cup {"garbage"}
      BY <1>3, TypeFacts DEF IsTrue
    <2>5. CASE b = NoBlock
      BY <1>1, <2>1, <2>2, <2>3, <2>4, <2>5, Replacing
    <2>6. CASE b # NoBlock
      BY <1>1, <2>1, <2>2, <2>3, <2>4, <2>6, Replacing
    <2>7. QED
      BY <2>5, <2>6
  <1>4. QED
    BY <1>2, <1>3

LEMMA CopyAssignInv ==
  ASSUME ~WithDefects, Inv, NEW o \in Objects, NEW other \in Objects, CopyAssign(o, other)
  PROVE  Inv'
  <1>1. PICK b \in Allocated :
           /\ block' = Delete(Allocate(block, b, object[other].length, Content(other)),
                              object[o].data)
           /\ object' = [object EXCEPT ![o] =
                             IF b = NoBlock THEN Emptied(o)
                             ELSE Hold(b, object[other].length, FALSE)]
    BY DEF CopyAssign
  <1>2. /\ object[o].live /\ touched' = {o} /\ errno' \in BOOLEAN
        /\ ~object[o].borrows \/ object[o].data = NoBlock
    BY DEF CopyAssign, Touch, Inv, TypeOK, MayReplace
  <1>3. b \in Blocks \cup {NoBlock} /\ (b # NoBlock => block[b].kind = "free")
    BY DEF Allocated, FreeBlocks
  <1>4. /\ object[other].length \in Sizes \cup {0}
        /\ Content(other) \in Contents \cup {"garbage"}
    BY TypeFacts DEF CopyAssign, IsTrue
  <1>5. CASE b = NoBlock
    <2>1. object' = [object EXCEPT ![o] = Hold(b, object[o].length, object[o].borrows)]
      BY <1>1, <1>5 DEF Emptied
    <2>2. object[o].length \in Sizes \cup {0} /\ object[o].borrows \in BOOLEAN
      BY <1>2, TypeFacts
    <2>3. QED
      BY <1>1, <1>2, <1>3, <1>4, <1>5, <2>1, <2>2, Replacing, ZenonT(60)
  <1>6. CASE b # NoBlock
    BY <1>1, <1>2, <1>3, <1>4, <1>6, Replacing
  <1>7. QED
    BY <1>5, <1>6

LEMMA AssignDataInv ==
  ASSUME ~WithDefects, Inv, NEW o \in Objects, NEW n \in Sizes, NEW c \in Contents,
         AssignData(o, n, c)
  PROVE  Inv'
  <1>1. object[o].live /\ touched' = {o} /\ errno' \in BOOLEAN
    BY DEF AssignData, Touch, Inv, TypeOK
  <1>2. CASE n # object[o].length
    <2>1. PICK b \in Allocated :
             /\ block' = Delete(Allocate(block, b, n, c), object[o].data)
             /\ object' = [object EXCEPT ![o] =
                               IF b = NoBlock THEN Emptied(o)
                               ELSE Hold(b, n, FALSE)]
      BY <1>2 DEF AssignData
    <2>2. ~object[o].borrows \/ object[o].data = NoBlock
      BY <1>2 DEF AssignData, MayReplace
    <2>3. b \in Blocks \cup {NoBlock} /\ (b # NoBlock => block[b].kind = "free")
      BY DEF Allocated, FreeBlocks
    <2>4. CASE b = NoBlock
      <3>1. object' = [object EXCEPT ![o] = Hold(b, object[o].length, object[o].borrows)]
        BY <2>1, <2>4 DEF Emptied
      <3>2. object[o].length \in Sizes \cup {0} /\ object[o].borrows \in BOOLEAN
        BY <1>1, TypeFacts
      <3>3. QED
        BY <1>1, <2>1, <2>2, <2>3, <2>4, <3>1, <3>2, Replacing
    <2>5. CASE b # NoBlock
      BY <1>1, <2>1, <2>2, <2>3, <2>5, Replacing
    <2>6. QED
      BY <2>4, <2>5
  <1>3. CASE n = object[o].length
    <2>1. /\ object' = object /\ object[o].data \in Blocks
          /\ block' = [block EXCEPT ![object[o].data].content = IF n = 0 THEN @ ELSE c]
      BY <1>3, TypeFacts DEF AssignData
    <2>2. \A b \in Blocks : block'[b].kind = block[b].kind /\ block'[b].size = block[b].size
      BY <2>1 DEF Inv, TypeOK
    <2>3. TypeOK'
      <3>1. block[object[o].data] \in [kind : {"free", "new", "lent"},
                                      size : Sizes \cup {0}, content : Contents \cup {"garbage"}]
        BY <2>1 DEF Inv, TypeOK
      <3>2. QED
        BY <1>1, <2>1, <3>1 DEF Inv, TypeOK
    <2>4. QED
      BY <2>1, <2>2, <2>3
      DEF Inv, TypeOK, OneOwner, Owns, BorrowedSurvives, TrueHasBytes, IsTrue, NothingHeld
  <1>4. QED
    BY <1>2, <1>3

LEMMA GrowInv ==
  ASSUME ~WithDefects, Inv, NEW o \in Objects, NEW n \in Sizes, NEW c \in Contents,
         Grow(o, n, c)
  PROVE  Inv'
  <1>1. PICK b \in FreeBlocks :
           /\ block' = Delete(Allocate(block, b, n, c), object[o].data)
           /\ object' = [object EXCEPT ![o] = Hold(b, n, object[o].borrows)]
    BY DEF Grow
  <1>2. /\ object[o].live /\ touched' = {o} /\ errno' \in BOOLEAN /\ ~object[o].borrows
        /\ b \in Blocks /\ block[b].kind = "free"
    BY DEF Grow, Touch, Inv, TypeOK, MayReplace, IsTrue, FreeBlocks
  <1>3. object' = [object EXCEPT ![o] = Hold(b, n, FALSE)]
    BY <1>1, <1>2, TypeFacts
  <1>4. QED
    BY <1>1, <1>2, <1>3, Replacing

LEMMA LiteralInv ==
  ASSUME Inv, NEW o \in Objects, NEW n \in Sizes, NEW c \in Contents, NEW text \in Texts,
         NEW bits64 \in BOOLEAN, Literal(o, text, bits64, n, c)
  PROVE  Inv'
  <1>1. object[o].data = NoBlock /\ touched' = {o} /\ errno' \in BOOLEAN
    BY DEF Literal, Inv, NothingHeld, TypeOK
  <1>2. CASE UNCHANGED <<object, block>>
    BY <1>1, <1>2
    DEF Inv, TypeOK, OneOwner, Owns, BorrowedSurvives, TrueHasBytes, IsTrue, NothingHeld
  <1>3. ASSUME NEW b \in FreeBlocks, block' = Allocate(block, b, n, c),
               object' = [object EXCEPT ![o] = Hold(b, n, FALSE)]
        PROVE  Inv'
    <2>1. block' = Delete(Allocate(block, b, n, c), object[o].data)
      BY <1>1, <1>3, DeleteNothing
    <2>2. b \in Blocks /\ block[b].kind = "free"
      BY DEF FreeBlocks
    <2>3. QED
      BY <1>1, <1>3, <2>1, <2>2, Replacing
  <1>4. QED
    BY <1>2, <1>3 DEF Literal

(* Memory of the caller: nothing is allocated, and nothing else refers to   *)
(* it as its own.                                                          *)
LEMMA Borrowing ==
  ASSUME Inv, NEW o \in Objects, NEW b \in Blocks, block[b].kind = "lent",
         ~object[o].borrows \/ object[o].data = NoBlock,
         object' = [object EXCEPT ![o] = Hold(b, block[b].size, TRUE)],
         block' = Delete(block, object[o].data),
         touched' = {o}, errno' \in BOOLEAN
  PROVE  Inv'
  <1> USE BinaryDataAssumption
      DEF Inv, TypeOK, OneOwner, Owns, BorrowedSurvives, TrueHasBytes, NothingHeld, IsTrue,
          Hold, Delete, Unused
  <1>1. CASE object[o].data = NoBlock
    BY <1>1
  <1>2. CASE object[o].data # NoBlock
    <2>1. object[o].live /\ ~object[o].borrows /\ object[o].data \in Blocks
      BY <1>2
    <2>2. block' = [block EXCEPT ![object[o].data] = Unused]
      BY <1>2, <2>1
    <2>3. QED
      BY <1>2, <2>1, <2>2
  <1>3. QED
    BY <1>1, <1>2

LEMMA ReferenceInv ==
  ASSUME ~WithDefects, Inv, NEW o \in Objects, NEW n \in Sizes, NEW c \in Contents,
         NEW b \in Blocks, NEW destruct \in BOOLEAN,
         \/ AssignReference(o, b, n, destruct, c)
         \/ \E mode \in BOOLEAN : ConstructMemory(o, b, n, mode, destruct, c)
  PROVE  Inv'
  <1>1. touched' = {o} /\ errno' \in BOOLEAN
    BY DEF AssignReference, ConstructMemory, Touch, Inv, TypeOK
  <1>2. ~object[o].borrows \/ object[o].data = NoBlock
    BY DEF AssignReference, ConstructMemory, MayReplace, Inv, NothingHeld
  <1>3. block' = Delete(Received(b, n, destruct, c), object[o].data)
    BY DeleteNothing DEF AssignReference, ConstructMemory, Inv, NothingHeld
  <1>4. object' = [object EXCEPT ![o] = Hold(b, n, ~destruct)]
    BY TypeFacts DEF AssignReference, ConstructMemory
  <1>5. CASE destruct
    BY <1>1, <1>2, <1>3, <1>4, <1>5, Replacing, BinaryDataAssumption
    DEF AssignReference, ConstructMemory, Offered, Received
  <1>6. CASE ~destruct
    BY <1>1, <1>2, <1>3, <1>4, <1>6, Borrowing
    DEF AssignReference, ConstructMemory, Offered, Received
  <1>7. QED
    BY <1>5, <1>6

LEMMA MoveAssignInv ==
  ASSUME ~WithDefects, Inv, NEW o \in Objects, NEW other \in Objects, MoveAssign(o, other)
  PROVE  Inv'
  <1> USE BinaryDataAssumption
      DEF Inv, TypeOK, OneOwner, Owns, BorrowedSurvives, TrueHasBytes, NothingHeld, IsTrue,
          Hold, Unused
  <1>1. /\ object[o].live /\ object[other].live /\ o # other /\ object[other].data \in Blocks
        /\ object' = [object EXCEPT ![o] = object[other],
                                    ![other] = Hold(NoBlock, 0, object[other].borrows)]
        /\ touched' = {o, other} /\ errno' = errno
    BY DEF MoveAssign, Touch, MovedFrom
  <1>2. /\ object'[o] = object[other]
        /\ object'[other] = Hold(NoBlock, 0, object[other].borrows)
        /\ \A p \in Objects \ {o, other} : object'[p] = object[p]
    BY <1>1
  <1>3. object' \in [Objects -> [live : BOOLEAN, data : Blocks \cup {NoBlock},
                                 length : Sizes \cup {0}, borrows : BOOLEAN]]
    BY <1>1
  <1>4. CASE object[o].data = NoBlock
    <2>1. block' = block
      BY <1>4, DeleteNothing DEF MoveAssign
    <2>2. TypeOK' /\ NothingHeld' /\ TrueHasBytes'
      BY <1>1, <1>2, <1>3, <2>1
    <2>3. BorrowedSurvives'
      BY <1>2, <2>1
    <2>4. OneOwner'
      <3>1. ASSUME NEW x \in Blocks, block'[x].kind = "new"
            PROVE  \E p \in Objects : Owns(p)' /\ object'[p].data = x
        <4>1. PICK p \in Objects : Owns(p) /\ object[p].data = x
          BY <3>1, <2>1
        <4>2. CASE p = other
          BY <4>1, <4>2, <1>1, <1>2
        <4>3. CASE p # other
          BY <4>1, <4>3, <1>2, <1>4
        <4>4. QED
          BY <4>2, <4>3
      <3>2. ASSUME NEW p \in Objects, Owns(p)' PROVE block'[object'[p].data].kind = "new"
        BY <3>2, <1>1, <1>2, <2>1
      <3>3. ASSUME NEW p \in Objects, NEW q \in Objects, Owns(p)', Owns(q)',
                   object'[p].data = object'[q].data
            PROVE  p = q
        BY <3>3, <1>1, <1>2
      <3>4. QED
        BY <3>1, <3>2, <3>3
    <2>5. QED
      BY <2>2, <2>3, <2>4
  <1>5. CASE object[o].data # NoBlock
    <2>1. ~object[o].borrows /\ object[o].data \in Blocks /\ object[o].data # object[other].data
          /\ block[object[o].data].kind = "new"
      BY <1>1, <1>5 DEF MoveAssign, MayReplace
    <2>2. block' = [block EXCEPT ![object[o].data] = Unused]
      BY <1>1, <1>5, <2>1 DEF MoveAssign, Delete
    <2>3. /\ block'[object[o].data] = Unused
          /\ \A b \in Blocks \ {object[o].data} : block'[b] = block[b]
          /\ TypeOK'
      BY <1>1, <1>3, <2>1, <2>2
    <2>4. OneOwner'
      <3>1. ASSUME NEW x \in Blocks, block'[x].kind = "new"
            PROVE  \E p \in Objects : Owns(p)' /\ object'[p].data = x
        <4>1. PICK p \in Objects : Owns(p) /\ object[p].data = x
          BY <3>1, <2>3
        <4>2. CASE p = other
          BY <4>1, <4>2, <1>1, <1>2
        <4>3. CASE p # other
          BY <4>1, <4>3, <1>2, <2>3, <3>1
        <4>4. QED
          BY <4>2, <4>3
      <3>2. ASSUME NEW p \in Objects, Owns(p)' PROVE block'[object'[p].data].kind = "new"
        BY <3>2, <1>1, <1>2, <2>1, <2>3
      <3>3. ASSUME NEW p \in Objects, NEW q \in Objects, Owns(p)', Owns(q)',
                   object'[p].data = object'[q].data
            PROVE  p = q
        BY <3>3, <1>1, <1>2, <2>1
      <3>4. QED
        BY <3>1, <3>2, <3>3
    <2>5. BorrowedSurvives'
      <3>1. \A b \in Blocks : block'[b].kind = block[b].kind \/ b = object[o].data
        BY <2>3
      <3>2. object[o].data \notin Caller
        BY <2>1
      <3>3. ASSUME NEW p \in Objects, object'[p].live, object'[p].borrows,
                   object'[p].data # NoBlock
            PROVE  object'[p].data \in Caller
        BY <3>3, <1>1, <1>2
      <3>4. block'[object[o].data].kind = "free"
        BY <2>3
      <3>5. \A b \in Blocks : block'[b].kind = "lent" <=> b \in Caller
        BY <3>1, <3>2, <3>4
      <3>6. QED
        BY <3>3, <3>5
    <2>6. TrueHasBytes'
      BY <1>1, <1>2, <2>1, <2>3
    <2>7. NothingHeld'
      BY <1>1, <1>2
    <2>8. QED
      BY <2>3, <2>4, <2>5, <2>6, <2>7
  <1>6. QED
    BY <1>4, <1>5

LEMMA StepInv ==
  ASSUME ~WithDefects, Inv, NEW o \in Objects, Step(o)
  PROVE  Inv'
  <1> USE BinaryDataAssumption
      DEF Inv, TypeOK, OneOwner, Owns, BorrowedSurvives, TrueHasBytes, NothingHeld,
          Hold, Destroyed, Unused, IsTrue, Content, Touch, AsNew,
          Delete, MayReplace, MovedFrom, Cleared
  <1>1. ASSUME NEW mode \in BOOLEAN, Construct(o, mode) PROVE Inv'
    BY <1>1 DEF Construct
  <1>2. ASSUME NEW mode \in BOOLEAN, SetDataModeType(o, mode) PROVE Inv'
    BY <1>2 DEF SetDataModeType
  <1>3. ASSUME NEW other \in Objects, MoveConstruct(o, other) PROVE Inv'
    BY <1>3 DEF MoveConstruct
  <1>4. ASSUME NEW c \in Contents, Transform(o, c) PROVE Inv'
    BY <1>4 DEF Transform
  <1>5. ASSUME AssignNothing(o) PROVE Inv'
    BY <1>5 DEF AssignNothing, Emptied
  <1>6. ASSUME Clear(o) PROVE Inv'
    BY <1>6 DEF Clear
  <1>7. ASSUME Reset(o) PROVE Inv'
    BY <1>7 DEF Reset
  <1>8. ASSUME Destruct(o) PROVE Inv'
    BY <1>8 DEF Destruct
  <1> HIDE DEF Inv
  <1>9. QED
    BY <1>1, <1>2, <1>3, <1>4, <1>5, <1>6, <1>7, <1>8, ConstructSizeInv, CopyConstructInv,
       CopyAssignInv, AssignDataInv, GrowInv, LiteralInv, ReferenceInv, MoveAssignInv
    DEF Step

LEMMA NextInv == ASSUME ~WithDefects PROVE Inv /\ [Next]_vars => Inv'
  <1> SUFFICES ASSUME Inv, [Next]_vars PROVE Inv'
    OBVIOUS
  <1>1. CASE ResetErrno \/ UNCHANGED vars
    <2>1. object' = object /\ block' = block /\ touched' \subseteq Objects /\ errno' \in BOOLEAN
      BY <1>1 DEF ResetErrno, vars, Inv, TypeOK
    <2>2. TypeOK'
      BY <2>1 DEF Inv, TypeOK
    <2>3. OneOwner' /\ BorrowedSurvives'
      BY <2>1 DEF Inv, OneOwner, Owns, BorrowedSurvives
    <2>4. TrueHasBytes' /\ NothingHeld'
      BY <2>1 DEF Inv, TrueHasBytes, IsTrue, NothingHeld
    <2>5. QED
      BY <2>2, <2>3, <2>4 DEF Inv
  <1>2. CASE \E o \in Objects : Step(o)
    BY <1>2, StepInv
  <1>3. QED
    BY <1>1, <1>2 DEF Next

(* However objects are made, copied, moved, assigned and destroyed, and     *)
(* whichever allocations fail: every allocated block has one owner, which   *)
(* deletes it once.                                                         *)
THEOREM Ownership == ASSUME ~WithDefects PROVE Spec => []OneOwner
  <1>1. Inv => OneOwner
    BY DEF Inv
  <1>2. QED
    BY <1>1, InitInv, NextInv, PTL DEF Spec

(* Memory of the caller that an object refers to is never deleted, and no   *)
(* object takes it for its own.                                             *)
THEOREM CallersKeepTheirMemory == ASSUME ~WithDefects PROVE Spec => []BorrowedSurvives
  <1>1. Inv => BorrowedSurvives
    BY DEF Inv
  <1>2. QED
    BY <1>1, InitInv, NextInv, PTL DEF Spec

(* An object that converts to true has all the bytes of its length, also    *)
(* after an allocation that failed.                                         *)
THEOREM TrueIsUsable == ASSUME ~WithDefects PROVE Spec => []TrueHasBytes
  <1>1. Inv => TrueHasBytes
    BY DEF Inv
  <1>2. QED
    BY <1>1, InitInv, NextInv, PTL DEF Spec

(* The types of the state.                                                  *)
THEOREM Types == ASSUME ~WithDefects PROVE Spec => []TypeOK
  <1>1. Inv => TypeOK
    BY DEF Inv
  <1>2. QED
    BY <1>1, InitInv, NextInv, PTL DEF Spec

(* A call changes the objects it touches, free blocks, and the block that   *)
(* its object held.                                                        *)
LEMMA Frame ==
  ASSUME Inv, NEW o \in Objects, Step(o)
  PROVE  /\ o \in touched'
         /\ \A q \in Objects \ touched' : object'[q] = object[q]
         /\ \A b \in Blocks : block[b].kind # "free" /\ b # object[o].data => block'[b] = block[b]
  <1> USE DEF Inv, TypeOK, Hold, IsTrue, FreeBlocks, Allocated, Touch, AsNew,
              Delete, Allocate, MovedFrom, Cleared
  <1> DEFINE Framed == /\ o \in touched'
                       /\ \A q \in Objects \ touched' : object'[q] = object[q]
                       /\ \A b \in Blocks : block[b].kind # "free" /\ b # object[o].data
                                                => block'[b] = block[b]
  <1>1. ASSUME NEW mode \in BOOLEAN, Construct(o, mode) \/ SetDataModeType(o, mode) PROVE Framed
    BY <1>1 DEF Construct, SetDataModeType
  <1>2. ASSUME NEW n \in Sizes, NEW c \in Contents, NEW mode \in BOOLEAN,
               ConstructSize(o, n, mode, c)
        PROVE  Framed
    BY <1>2 DEF ConstructSize
  <1>3. ASSUME NEW n \in Sizes, NEW c \in Contents, NEW b \in Blocks, NEW destruct \in BOOLEAN,
               \/ AssignReference(o, b, n, destruct, c)
               \/ \E mode \in BOOLEAN : ConstructMemory(o, b, n, mode, destruct, c)
        PROVE  Framed
    BY <1>3 DEF AssignReference, ConstructMemory, Offered, Received
  <1>4. ASSUME NEW n \in Sizes, NEW c \in Contents, AssignData(o, n, c) PROVE Framed
    BY <1>4 DEF AssignData
  <1>5. ASSUME NEW n \in Sizes, NEW c \in Contents, Grow(o, n, c) PROVE Framed
    BY <1>5 DEF Grow
  <1>6. ASSUME NEW n \in Sizes, NEW c \in Contents, NEW text \in Texts, NEW bits64 \in BOOLEAN,
               Literal(o, text, bits64, n, c)
        PROVE  Framed
    BY <1>6 DEF Literal
  <1>7. ASSUME NEW other \in Objects, CopyConstruct(o, other) \/ MoveConstruct(o, other)
        PROVE  Framed
    BY <1>7 DEF CopyConstruct, MoveConstruct
  <1>8. ASSUME NEW other \in Objects, CopyAssign(o, other) \/ MoveAssign(o, other)
        PROVE  Framed
    BY <1>8 DEF CopyAssign, MoveAssign
  <1>9. ASSUME NEW c \in Contents, Transform(o, c) PROVE Framed
    BY <1>9 DEF Transform
  <1>10. ASSUME AssignNothing(o) \/ Clear(o) \/ Reset(o) \/ Destruct(o) PROVE Framed
    BY <1>10 DEF AssignNothing, Clear, Reset, Destruct
  <1> HIDE DEF Framed
  <1>11. Framed
    BY <1>1, <1>2, <1>3, <1>4, <1>5, <1>6, <1>7, <1>8, <1>9, <1>10 DEF Step
  <1>12. QED
    BY <1>11 DEF Framed

(* No call reaches into an object that is not its operand.                  *)
THEOREM Isolation == ASSUME ~WithDefects PROVE Spec => OthersKeepTheirValue
  <1> DEFINE Kept == \A o \in Objects \ touched' :
                        object[o].live /\ object[o].data \notin Caller => Value(o)' = Value(o)
  <1>1. Inv /\ Inv' /\ [Next]_vars => [Kept]_vars
    <2> SUFFICES ASSUME Inv, Inv', Next, NEW q \in Objects \ touched',
                        object[q].live, object[q].data \notin Caller
                 PROVE  Value(q)' = Value(q)
      BY DEF Kept
    <2>1. CASE ResetErrno
      BY <2>1 DEF ResetErrno, Value, IsTrue, Content
    <2>2. CASE object'[q] = object[q] /\ (IsTrue(q) => block'[object[q].data] = block[object[q].data])
      BY <2>2 DEF Value, IsTrue, Content
    <2>3. CASE \E o \in Objects : Step(o)
      <3>1. PICK o \in Objects : Step(o)
        BY <2>3
      <3>2. object'[q] = object[q] /\ q # o
        BY <3>1, Frame
      <3>3. ASSUME IsTrue(q) PROVE block'[object[q].data] = block[object[q].data]
        <4>1. Owns(q) /\ object[q].data \in Blocks
          BY <3>3 DEF Owns, Inv, TypeOK, BorrowedSurvives, IsTrue
        <4>2. block[object[q].data].kind = "new"
          BY <4>1 DEF Inv, OneOwner
        <4>3. object[o].data # object[q].data
          BY <4>1, <3>2 DEF Inv, OneOwner, Owns, BorrowedSurvives, NothingHeld
        <4>4. QED
          BY <3>1, <4>1, <4>2, <4>3, Frame
      <3>4. QED
        BY <2>2, <3>2, <3>3
    <2>4. QED
      BY <2>1, <2>3 DEF Next
  <1>2. QED
    BY <1>1, InitInv, NextInv, PTL DEF Spec, OthersKeepTheirValue

\* A non-empty set of natural numbers has a least element.
LEMMA LeastExists ==
  ASSUME NEW T \in SUBSET Nat, T # {}
  PROVE  \E x \in T : \A y \in T : x <= y
  <1> DEFINE R == OpToRel(<, Nat)
  <1>1. IsWellFoundedOn(R, Nat)
    BY NatLessThanWellFounded
  <1>2. \E x \in T : \A y \in T : <<y, x>> \notin R
    <2> HIDE DEF R
    <2> QED
      BY <1>1, WFMin
  <1>3. PICK x \in T : \A y \in T : ~ (y < x)
    BY <1>2 DEF OpToRel
  <1>4. QED
    BY <1>3

\* Induction on a set instead of a predicate: what 0 is in, and k + 1 with k.
LEMMA Induction ==
  ASSUME NEW S, 0 \in S, \A n \in Nat : n \in S => n + 1 \in S
  PROVE  \A n \in Nat : n \in S
  <1> DEFINE T == Nat \ S
  <1> SUFFICES ASSUME T # {} PROVE FALSE
    OBVIOUS
  <1>1. PICK x \in T : \A y \in T : x <= y
    <2> HIDE DEF T
    <2>1. T \in SUBSET Nat
      BY DEF T
    <2> QED
      BY <2>1, LeastExists
  <1>2. x # 0 /\ x - 1 \in Nat /\ x - 1 < x
    OBVIOUS
  <1>3. x - 1 \in S
    BY <1>1, <1>2
  <1>4. QED
    BY <1>2, <1>3

-----------------------------------------------------------------------------
(* Positions                                                               *)

\* The members of a buffer of n bytes that the code computes lengths from.
LEMMA SizeIs ==
  ASSUME NEW n \in Nat, NEW b \in BufferOf(n)
  PROVE  Size(b) = n /\ Length(b) = 8 * n /\ DOMAIN b.data = 0 .. n - 1
  <1>1. DOMAIN b.data = 0 .. n - 1
    BY DEF BufferOf
  <1>2. Cardinality(0 .. n - 1) = n
    BY FS_Interval
  <1>3. QED
    BY <1>1, <1>2 DEF Size, Length

(* Division by 8 splits an index into a byte and a place in it.            *)
LEMMA Eight ==
  ASSUME NEW n \in Nat, NEW i \in 0 .. 8 * n - 1
  PROVE  i \div 8 \in 0 .. n - 1 /\ i % 8 \in BitOf /\ i = 8 * (i \div 8) + (i % 8)
  BY DEF BitOf

\* A byte and a place in it make an index.
LEMMA EightTimes ==
  ASSUME NEW n \in Nat, NEW q \in 0 .. n - 1, NEW p \in BitOf
  PROVE  8 * q + p \in 0 .. 8 * n - 1 /\ (8 * q + p) \div 8 = q /\ (8 * q + p) % 8 = p
  BY DEF BitOf

(* The place of a bit in the vector.                                       *)
ByteOf(b, n, q) == IF b.dependent /\ b.endian # LE THEN n - 1 - q ELSE q
PlaceOf(b, p)   == IF b.dependent /\ b.endian # RBE THEN p ELSE 7 - p
IndexOf(b, n, j, p) == 8 * ByteOf(b, n, j) + PlaceOf(b, p)

\* Turning the order of bytes, or of the bits in a byte, twice changes nothing.
LEMMA Mirrored ==
  ASSUME NEW n \in Nat, NEW b \in BufferOf(n)
  PROVE  /\ \A q \in 0 .. n - 1 : ByteOf(b, n, q) \in 0 .. n - 1 /\ ByteOf(b, n, ByteOf(b, n, q)) = q
         /\ \A p \in BitOf : PlaceOf(b, p) \in BitOf /\ PlaceOf(b, PlaceOf(b, p)) = p
  BY DEF ByteOf, PlaceOf, BitOf

\* The position that GetBitPosition computes, in terms of the turned orders.
LEMMA PositionOfIndex ==
  ASSUME NEW n \in Nat, NEW b \in BufferOf(n), NEW i \in 0 .. 8 * n - 1
  PROVE  GetBitPosition(b, i) = <<ByteOf(b, n, i \div 8), PlaceOf(b, i % 8)>>
  <1>1. i \div 8 \in 0 .. n - 1 /\ i % 8 \in BitOf
    BY Eight
  <1>2. Size(b) = n
    BY SizeIs
  <1> DEFINE q == i \div 8
             p == i % 8
  <1>3. GetByteIndex(b, i) = ByteOf(b, n, q)
    <2>1. n - q - 1 = n - 1 - q
      BY <1>1
    <2>2. QED
      BY <1>2, <2>1 DEF GetByteIndex, ByteOf
  <1>4. QED
    BY <1>3 DEF GetBitPosition, PlaceOf

\* GetBitPosition finds the bits where the header draws them.
LEMMA PositionDrawn ==
  ASSUME NEW n \in Nat, NEW b \in BufferOf(n), NEW i \in 0 .. 8 * n - 1
  PROVE  Drawn(b, i) = GetBitPosition(b, i)
  <1>1. i \div 8 \in 0 .. n - 1 /\ i % 8 \in BitOf
    BY Eight
  <1>2. Size(b) = n
    BY SizeIs
  <1> DEFINE q == i \div 8
             p == i % 8
  <1>3. n - q - 1 = n - 1 - q
    BY <1>1
  <1>4. b.endian \in {LE, BE, RBE} /\ b.dependent \in BOOLEAN
    BY DEF BufferOf, Endians
  <1>5. LE # BE /\ LE # RBE /\ BE # RBE
    BY DEF LE, BE, RBE
  <1> HIDE DEF q, p
  <1>6. QED
    BY <1>2, <1>3, <1>4, <1>5 DEF Drawn, GetBitPosition, GetByteIndex, q, p

(* A bit of the vector is at one position, and a position has one bit.     *)
LEMMA Positions ==
  ASSUME NEW n \in Nat, NEW b \in BufferOf(n)
  PROVE  /\ \A i \in 0 .. 8 * n - 1 :
              \E j \in 0 .. n - 1, p \in BitOf :
                GetBitPosition(b, i) = <<j, p>> /\ Drawn(b, i) = <<j, p>> /\ IndexOf(b, n, j, p) = i
         /\ \A j \in 0 .. n - 1, p \in BitOf :
              /\ IndexOf(b, n, j, p) \in 0 .. 8 * n - 1
              /\ GetBitPosition(b, IndexOf(b, n, j, p)) = <<j, p>>
  <1>1. ASSUME NEW i \in 0 .. 8 * n - 1
        PROVE  \E j \in 0 .. n - 1, p \in BitOf :
                 GetBitPosition(b, i) = <<j, p>> /\ Drawn(b, i) = <<j, p>> /\ IndexOf(b, n, j, p) = i
    <2> DEFINE q == i \div 8
               r == i % 8
               j == ByteOf(b, n, q)
               p == PlaceOf(b, r)
    <2>1. q \in 0 .. n - 1 /\ r \in BitOf /\ i = 8 * q + r
      BY Eight
    <2>2. GetBitPosition(b, i) = <<j, p>> /\ Drawn(b, i) = <<j, p>>
      BY PositionOfIndex, PositionDrawn
    <2> HIDE DEF q, r
    <2>3. j \in 0 .. n - 1 /\ p \in BitOf /\ ByteOf(b, n, j) = q /\ PlaceOf(b, p) = r
      BY <2>1, Mirrored
    <2> HIDE DEF j, p
    <2>4. IndexOf(b, n, j, p) = i
      BY <2>1, <2>3 DEF IndexOf
    <2>5. QED
      BY <2>2, <2>3, <2>4
  <1>2. ASSUME NEW j \in 0 .. n - 1, NEW p \in BitOf
        PROVE  /\ IndexOf(b, n, j, p) \in 0 .. 8 * n - 1
               /\ GetBitPosition(b, IndexOf(b, n, j, p)) = <<j, p>>
    <2> DEFINE q == ByteOf(b, n, j)
               r == PlaceOf(b, p)
               i == IndexOf(b, n, j, p)
    <2>1. /\ q \in 0 .. n - 1 /\ r \in BitOf /\ ByteOf(b, n, q) = j /\ PlaceOf(b, r) = p
          /\ i = 8 * q + r
      BY Mirrored DEF IndexOf
    <2> HIDE DEF q, r, i
    <2>2. i \in 0 .. 8 * n - 1 /\ i \div 8 = q /\ i % 8 = r
      BY <2>1, EightTimes
    <2>3. GetBitPosition(b, i) = <<j, p>>
      BY <2>1, <2>2, PositionOfIndex
    <2>4. QED
      BY <2>2, <2>3 DEF i
  <1>3. QED
    BY <1>1, <1>2

-----------------------------------------------------------------------------
(* Vectors                                                                 *)

\* Vectors of 8n bits, and the buffer laid out like b that holds a vector.
Bits(n) == [0 .. 8 * n - 1 -> Bit]
Patched(b, n, v) == [b EXCEPT !.data = [j \in 0 .. n - 1 |-> [p \in BitOf |-> v[IndexOf(b, n, j, p)]]]]

\* The vector of a buffer has the bits that the engine reads.
LEMMA VectorIs ==
  ASSUME NEW n \in Nat, NEW b \in BufferOf(n)
  PROVE  /\ Vector(b) \in Bits(n)
         /\ \A i \in 0 .. 8 * n - 1 : Vector(b)[i] = GetBitValue(b, i)
         /\ \A j \in 0 .. n - 1, p \in BitOf : Vector(b)[IndexOf(b, n, j, p)] = b.data[j][p]
  <1>1. Length(b) = 8 * n
    BY SizeIs
  <1>2. b.data \in [0 .. n - 1 -> [BitOf -> Bit]]
    BY DEF BufferOf, Byte
  <1>3. ASSUME NEW i \in 0 .. 8 * n - 1
        PROVE  Vector(b)[i] = GetBitValue(b, i) /\ Vector(b)[i] \in Bit
    <2>1. PICK j \in 0 .. n - 1, p \in BitOf : GetBitPosition(b, i) = <<j, p>> /\ Drawn(b, i) = <<j, p>>
      BY Positions
    <2>2. Vector(b)[i] = b.data[j][p]
      BY <1>1, <2>1 DEF Vector
    <2>3. GetBitValue(b, i) = b.data[j][p]
      BY <2>1 DEF GetBitValue
    <2>4. QED
      BY <1>2, <2>2, <2>3
  <1>4. Vector(b) \in Bits(n)
    <2>1. Vector(b) = [i \in 0 .. 8 * n - 1 |-> Vector(b)[i]]
      BY <1>1 DEF Vector
    <2>2. QED
      BY <1>3, <2>1 DEF Bits
  <1>5. ASSUME NEW j \in 0 .. n - 1, NEW p \in BitOf
        PROVE  Vector(b)[IndexOf(b, n, j, p)] = b.data[j][p]
    <2> DEFINE i == IndexOf(b, n, j, p)
    <2>1. i \in 0 .. 8 * n - 1 /\ GetBitPosition(b, i) = <<j, p>>
      BY Positions
    <2> HIDE DEF i
    <2>2. Vector(b)[i] = b.data[j][p]
      BY <1>3, <2>1 DEF GetBitValue
    <2>3. QED
      BY <2>2 DEF i
  <1>6. QED
    BY <1>3, <1>4, <1>5

\* Positions depend on the endian and the mode alone.
LEMMA LayoutSame ==
  ASSUME NEW b, NEW d, b.endian = d.endian, b.dependent = d.dependent
  PROVE  /\ \A n, j, p : IndexOf(b, n, j, p) = IndexOf(d, n, j, p)
         /\ Stored(b) = Stored(d)
  BY DEF IndexOf, ByteOf, PlaceOf, Stored

\* Two buffers of a layout whose vectors agree are the same.
LEMMA VectorDetermines ==
  ASSUME NEW n \in Nat, NEW b \in BufferOf(n), NEW v \in Bits(n),
         \A j \in 0 .. n - 1, p \in BitOf : b.data[j][p] = v[IndexOf(b, n, j, p)]
  PROVE  Vector(b) = v
  <1>1. ASSUME NEW i \in 0 .. 8 * n - 1
        PROVE  Vector(b)[i] = v[i]
    <2>1. PICK j \in 0 .. n - 1, p \in BitOf : IndexOf(b, n, j, p) = i
      BY Positions
    <2>2. QED
      BY <2>1, VectorIs
  <1>2. Vector(b) \in Bits(n)
    BY VectorIs
  <1>3. QED
    BY <1>1, <1>2 DEF Bits

\* A buffer made of a vector has this vector.
LEMMA PatchedIs ==
  ASSUME NEW n \in Nat, NEW b \in BufferOf(n), NEW v \in Bits(n)
  PROVE  /\ Patched(b, n, v) \in BufferOf(n)
         /\ Patched(b, n, v).endian = b.endian /\ Patched(b, n, v).dependent = b.dependent
         /\ Patched(b, n, v).safe = b.safe
         /\ Vector(Patched(b, n, v)) = v
  <1> DEFINE d == [j \in 0 .. n - 1 |-> [p \in BitOf |-> v[IndexOf(b, n, j, p)]]]
             c == Patched(b, n, v)
  <1>1. d \in [0 .. n - 1 -> [BitOf -> Bit]]
    <2>1. \A j \in 0 .. n - 1, p \in BitOf : v[IndexOf(b, n, j, p)] \in Bit
      BY Positions DEF Bits
    <2>2. QED
      BY <2>1
  <1>2. c = [b EXCEPT !.data = d]
    BY DEF Patched
  <1> HIDE DEF c
  <1>3. c \in BufferOf(n) /\ c.data = d /\ c.endian = b.endian /\ c.dependent = b.dependent /\ c.safe = b.safe
    <2> HIDE DEF d
    <2> QED
      BY <1>1, <1>2 DEF BufferOf, Byte
  <1>4. Vector(c) = v
    <2>1. \A j \in 0 .. n - 1, p \in BitOf : c.data[j][p] = v[IndexOf(b, n, j, p)]
      BY <1>3
    <2>2. \A j \in 0 .. n - 1, p \in BitOf : IndexOf(b, n, j, p) = IndexOf(c, n, j, p)
      BY <1>3, LayoutSame
    <2>3. \A j \in 0 .. n - 1, p \in BitOf : c.data[j][p] = v[IndexOf(c, n, j, p)]
      BY <2>1, <2>2
    <2>4. QED
      BY <1>3, <2>3, VectorDetermines
  <1>5. QED
    BY <1>3, <1>4 DEF c

\* A buffer is made of its own vector.
LEMMA PatchedVector ==
  ASSUME NEW n \in Nat, NEW b \in BufferOf(n)
  PROVE  Patched(b, n, Vector(b)) = b
  <1> DEFINE d == [j \in 0 .. n - 1 |-> [p \in BitOf |-> Vector(b)[IndexOf(b, n, j, p)]]]
  <1>1. b.data \in [0 .. n - 1 -> [BitOf -> Bit]]
    BY DEF BufferOf, Byte
  <1>2. d = [j \in 0 .. n - 1 |-> [p \in BitOf |-> b.data[j][p]]]
    BY VectorIs
  <1>3. d = b.data
    BY <1>1, <1>2
  <1>4. Patched(b, n, Vector(b)) = [b EXCEPT !.data = b.data]
    BY <1>3 DEF Patched
  <1>5. QED
    BY <1>4 DEF BufferOf

\* A bit is read, and stored.
LEMMA BitRead ==
  ASSUME NEW n \in Nat, NEW b \in BufferOf(n), NEW v \in Bits(n), NEW i \in 0 .. 8 * n - 1,
         NEW c, c = Patched(b, n, v), NEW at, at = GetBitPosition(c, i)
  PROVE  c.data[at[1]][at[2]] = v[i] /\ GetBitValue(c, i) = v[i]
  <1>1. c \in BufferOf(n) /\ Vector(c) = v
    BY PatchedIs
  <1>2. QED
    BY <1>1, VectorIs DEF GetBitValue

\* The buffer with one bit stored.
With(b, i, x) == LET at == GetBitPosition(b, i) IN [b EXCEPT !.data[at[1]][at[2]] = x]

\* Storing a bit changes one element of the vector.
LEMMA BitStored ==
  ASSUME NEW n \in Nat, NEW b \in BufferOf(n), NEW v \in Bits(n), NEW i \in 0 .. 8 * n - 1, NEW x \in Bit
  PROVE  With(Patched(b, n, v), i, x) = Patched(b, n, [v EXCEPT ![i] = x])
  <1> DEFINE c  == Patched(b, n, v)
             at == GetBitPosition(c, i)
             w  == [v EXCEPT ![i] = x]
             e  == Patched(b, n, w)
  <1>1. c \in BufferOf(n) /\ c.endian = b.endian /\ c.dependent = b.dependent /\ Vector(c) = v
    BY PatchedIs
  <1>2. c.data = [j \in 0 .. n - 1 |-> [p \in BitOf |-> v[IndexOf(b, n, j, p)]]]
    BY DEF Patched, BufferOf
  <1>3. e.data = [j \in 0 .. n - 1 |-> [p \in BitOf |-> w[IndexOf(b, n, j, p)]]]
    BY DEF Patched, BufferOf
  <1>4. PICK k \in 0 .. n - 1, r \in BitOf : at = <<k, r>> /\ IndexOf(c, n, k, r) = i
    BY <1>1, Positions
  <1> HIDE DEF at
  <1>5. \A j \in 0 .. n - 1, p \in BitOf : IndexOf(b, n, j, p) = IndexOf(c, n, j, p)
    BY <1>1, LayoutSame
  <1>6. \A j \in 0 .. n - 1, p \in BitOf : IndexOf(b, n, j, p) = i => j = k /\ p = r
    <2> SUFFICES ASSUME NEW j \in 0 .. n - 1, NEW p \in BitOf, IndexOf(b, n, j, p) = i
                 PROVE  j = k /\ p = r
      OBVIOUS
    <2>1. at = <<j, p>>
      BY <1>1, <1>5, Positions DEF at
    <2>2. <<j, p>> = <<k, r>>
      BY <1>4, <2>1
    <2>3. QED
      BY <2>2
  <1>7. \A j \in 0 .. n - 1, p \in BitOf :
          w[IndexOf(b, n, j, p)] = IF j = k /\ p = r THEN x ELSE v[IndexOf(b, n, j, p)]
    <2> SUFFICES ASSUME NEW j \in 0 .. n - 1, NEW p \in BitOf
                 PROVE  w[IndexOf(b, n, j, p)] = IF j = k /\ p = r THEN x ELSE v[IndexOf(b, n, j, p)]
      OBVIOUS
    <2>1. IndexOf(b, n, j, p) \in 0 .. 8 * n - 1
      BY Positions
    <2>2. IndexOf(b, n, j, p) = i <=> j = k /\ p = r
      BY <1>4, <1>5, <1>6
    <2>3. QED
      BY <2>1, <2>2 DEF Bits
  <1>8. [c EXCEPT !.data[k][r] = x] = e
    <2>1. [c EXCEPT !.data[k][r] = x] = [b EXCEPT !.data = [c.data EXCEPT ![k][r] = x]]
      <3>1. c = [b EXCEPT !.data = c.data]
        BY <1>2 DEF Patched
      <3>2. DOMAIN b = {"data", "endian", "dependent", "safe"}
        BY DEF BufferOf
      <3>3. QED
        BY <3>1, <3>2
    <2>2. [c.data EXCEPT ![k][r] = x] = e.data
      <3> DEFINE f == [j \in 0 .. n - 1 |-> [p \in BitOf |-> v[IndexOf(b, n, j, p)]]]
                 g == [j \in 0 .. n - 1 |-> [p \in BitOf |-> w[IndexOf(b, n, j, p)]]]
      <3> HIDE DEF w
      <3>1. g = [j \in 0 .. n - 1 |-> [p \in BitOf |-> IF j = k /\ p = r THEN x ELSE v[IndexOf(b, n, j, p)]]]
        BY <1>7
      <3>2. [f EXCEPT ![k][r] = x] = g
        <4>1. [f EXCEPT ![k][r] = x] = [f EXCEPT ![k] = [@ EXCEPT ![r] = x]]
          OBVIOUS
        <4>2. [f EXCEPT ![k][r] = x] = [j \in 0 .. n - 1 |-> IF j = k THEN [f[k] EXCEPT ![r] = x] ELSE f[j]]
          OBVIOUS
        <4>3. [f[k] EXCEPT ![r] = x] = [p \in BitOf |-> IF p = r THEN x ELSE f[k][p]]
          OBVIOUS
        <4>4. \A j \in 0 .. n - 1 : g[j] = IF j = k THEN [f[k] EXCEPT ![r] = x] ELSE f[j]
          BY <3>1, <4>3
        <4>5. QED
          BY <4>2, <4>4
      <3>3. QED
        BY <1>2, <1>3, <3>2
    <2>3. e = [b EXCEPT !.data = e.data]
      BY <1>3 DEF Patched
    <2>4. QED
      BY <2>1, <2>2, <2>3
  <1>9. QED
    BY <1>4, <1>8 DEF With, at

-----------------------------------------------------------------------------
(* Single bits and blocks of bits                                          *)

\* The operators on single bits give bits.
LEMMA BitsClosed ==
  /\ Zero \in Bit /\ One \in Bit
  /\ \A x, y \in Bit : Xor(x, y) \in Bit /\ Not(x) \in Bit
  BY DEF Bit, Zero, One, Xor, Not

\* Set on a buffer is Set on its vector.
LEMMA OneSet ==
  ASSUME NEW n \in Nat, NEW b \in BufferOf(n), NEW v \in Bits(n), NEW i \in Nat, NEW x \in Bit
  PROVE  Set(Patched(b, n, v), i, x) = Patched(b, n, [v EXCEPT ![i] = x])
  <1> DEFINE c == Patched(b, n, v)
             at == GetBitPosition(c, i)
  <1>1. Length(c) = 8 * n
    BY PatchedIs, SizeIs
  <1>2. CASE i >= 8 * n
    <2>1. [v EXCEPT ![i] = x] = v
      BY <1>2 DEF Bits
    <2>2. QED
      BY <1>1, <1>2, <2>1 DEF Set
  <1>3. CASE i \in 0 .. 8 * n - 1
    <2>1. Set(c, i, x) = With(c, i, x)
      BY <1>1, <1>3 DEF Set, SetBit, With
    <2>2. QED
      BY <1>3, <2>1, BitStored
  <1>4. QED
    BY <1>2, <1>3

\* Invert on a buffer is Invert on its vector.
LEMMA OneInverted ==
  ASSUME NEW n \in Nat, NEW b \in BufferOf(n), NEW v \in Bits(n), NEW i \in 0 .. 8 * n - 1
  PROVE  Invert(Patched(b, n, v), i) = Patched(b, n, [v EXCEPT ![i] = Not(v[i])])
  <1> DEFINE c == Patched(b, n, v)
             at == GetBitPosition(c, i)
  <1>1. Length(c) = 8 * n
    BY PatchedIs, SizeIs
  <1>2. v[i] \in Bit /\ Not(v[i]) \in Bit
    BY BitsClosed DEF Bits
  <1>3. c.data[at[1]][at[2]] = v[i]
    BY BitRead
  <1>4. Invert(c, i) = With(c, i, Not(v[i]))
    BY <1>1, <1>3 DEF Invert, SetBit, With
  <1>5. QED
    BY <1>2, <1>3, <1>4, BitStored

\* A function with two of its values exchanged.
Swapped(v, i, j) == [v EXCEPT ![i] = v[j], ![j] = v[i]]

\* Two conditional inversions exchange two bits.
LEMMA TwoExchanged ==
  ASSUME NEW n \in Nat, NEW b \in BufferOf(n), NEW v \in Bits(n),
         NEW i \in 0 .. 8 * n - 1, NEW j \in 0 .. 8 * n - 1, i # j
  PROVE  Exchanged(Patched(b, n, v), i, j) = Patched(b, n, Swapped(v, i, j))
  <1> DEFINE c == Patched(b, n, v)
             at == GetBitPosition(c, i)
             x == Xor(v[i], v[j])
             w == [v EXCEPT ![i] = Xor(v[i], x)]
             d == Patched(b, n, w)
             to == GetBitPosition(d, j)
  <1>1. v[i] \in Bit /\ v[j] \in Bit /\ x \in Bit /\ Xor(v[i], x) \in Bit /\ Xor(v[j], x) \in Bit
    BY BitsClosed DEF Bits
  <1>2. w \in Bits(n) /\ w[j] = v[j]
    BY <1>1 DEF Bits
  <1>3. GetBitValue(c, i) = v[i] /\ GetBitValue(c, j) = v[j]
    BY BitRead
  <1>4. Exchanged(c, i, j) = SetBit(SetBit(c, i, LAMBDA old : Xor(old, x)), j, LAMBDA old : Xor(old, x))
    BY <1>3 DEF Exchanged
  <1>5. SetBit(c, i, LAMBDA old : Xor(old, x)) = d
    <2>1. SetBit(c, i, LAMBDA old : Xor(old, x)) = With(c, i, Xor(v[i], x))
      <3>1. c.data[at[1]][at[2]] = v[i]
        BY BitRead
      <3> HIDE DEF x, c
      <3>2. QED
        BY <3>1 DEF SetBit, With
    <2>2. QED
      BY <1>1, <2>1, BitStored
  <1>6. SetBit(d, j, LAMBDA old : Xor(old, x)) = Patched(b, n, [w EXCEPT ![j] = Xor(v[j], x)])
    <2> HIDE DEF w, x
    <2>1. d.data[to[1]][to[2]] = v[j]
      BY <1>2, BitRead
    <2>2. SetBit(d, j, LAMBDA old : Xor(old, x)) = With(d, j, Xor(v[j], x))
      <3> HIDE DEF d
      <3> QED
        BY <2>1 DEF SetBit, With
    <2>3. QED
      BY <1>1, <1>2, <2>2, BitStored
  <1>7. Xor(v[i], x) = v[j] /\ Xor(v[j], x) = v[i]
    BY DEF Xor
  <1>8. [w EXCEPT ![j] = Xor(v[j], x)] = Swapped(v, i, j)
    BY <1>7 DEF Swapped
  <1>9. QED
    BY <1>4, <1>5, <1>6, <1>8

-----------------------------------------------------------------------------
(* Loops over bits.  A loop is what its closed form says in every turn,    *)
(* since the closed form satisfies the equation of the loop, which has one *)
(* solution.                                                               *)

\* Two functions that begin alike and in each turn depend on the turn before alone.
LEMMA OneSolution ==
  ASSUME NEW n \in Nat, NEW f, NEW g, f[0] = g[0],
         \A k \in 1 .. n : f[k - 1] = g[k - 1] => f[k] = g[k]
  PROVE  f[n] = g[n]
  <1> DEFINE D == {k \in Nat : k <= n => f[k] = g[k]}
  <1>1. 0 \in D
    OBVIOUS
  <1>2. ASSUME NEW k \in Nat, k \in D
        PROVE  k + 1 \in D
    <2> SUFFICES ASSUME k + 1 <= n PROVE f[k + 1] = g[k + 1]
      OBVIOUS
    <2>1. k + 1 \in 1 .. n /\ (k + 1) - 1 = k /\ f[k] = g[k]
      BY <1>2
    <2>2. QED
      BY <2>1
  <1>3. \A k \in Nat : k \in D
    <2> HIDE DEF D
    <2> QED
      BY <1>1, <1>2, Induction
  <1>4. QED
    BY <1>3

\* The bits after k turns of the loop of InvertBlock.
Inverted(n, v, first, k) ==
  [i \in 0 .. 8 * n - 1 |-> IF i \in first .. first + k - 1 THEN Not(v[i]) ELSE v[i]]

\* InvertBlock inverts the bits of the range, and no other.
LEMMA BlockInverted ==
  ASSUME NEW n \in Nat, NEW b \in BufferOf(n), NEW first \in Nat, NEW last \in Nat, InRange(b, first, last)
  PROVE  InvertBlock(b, first, last) = Patched(b, n, Inverted(n, Vector(b), first, last - first + 1))
  <1> DEFINE v == Vector(b)
             turns == last - first + 1
             w(k) == Inverted(n, v, first, k)
             Loop(f) == f = [k \in 0 .. turns |-> IF k = 0 THEN b ELSE Invert(f[k - 1], first + k - 1)]
             g == [k \in 0 .. turns |-> Patched(b, n, w(k))]
             f == CHOOSE f : Loop(f)
  <1>1. turns \in Nat /\ first + turns <= 8 * n /\ v \in Bits(n)
    BY SizeIs, VectorIs DEF InRange
  <1> HIDE DEF v, turns
  <1>2. \A k \in 0 .. turns : w(k) \in Bits(n)
    BY <1>1, BitsClosed DEF Bits, Inverted
  <1>3. w(0) = v
    BY <1>1 DEF Bits, Inverted
  <1>4. ASSUME NEW k \in 1 .. turns
        PROVE  Invert(g[k - 1], first + k - 1) = g[k]
    <2> DEFINE i == first + k - 1
               u == w(k - 1)
    <2>1. i \in 0 .. 8 * n - 1 /\ k - 1 \in 0 .. turns /\ u \in Bits(n)
      BY <1>1, <1>2
    <2>2. u[i] = v[i]
      BY <1>1, <2>1 DEF Inverted
    <2>3. w(k) = [u EXCEPT ![i] = Not(u[i])]
      <3>1. \A q \in 0 .. 8 * n - 1 : w(k)[q] = IF q = i THEN Not(v[i]) ELSE u[q]
        BY <1>1, <2>1 DEF Inverted
      <3>2. QED
        BY <1>2, <2>1, <2>2, <3>1 DEF Bits, Inverted
    <2> HIDE DEF i, u
    <2>4. Invert(Patched(b, n, u), i) = Patched(b, n, [u EXCEPT ![i] = Not(u[i])])
      BY <2>1, OneInverted
    <2>5. QED
      BY <2>1, <2>3, <2>4 DEF i, u
  <1>5. g[0] = b
    BY <1>1, <1>3, PatchedVector DEF v
  <1>6. Loop(g)
    <2>1. ASSUME NEW k \in 0 .. turns
          PROVE  g[k] = IF k = 0 THEN b ELSE Invert(g[k - 1], first + k - 1)
      <3> HIDE DEF g
      <3>1. k = 0 \/ k \in 1 .. turns
        BY <1>1
      <3>2. QED
        BY <1>4, <1>5, <3>1
    <2>2. g = [k \in 0 .. turns |-> g[k]]
      OBVIOUS
    <2> HIDE DEF g
    <2>3. QED
      BY <2>1, <2>2
  <1>7. Loop(f)
    <2> HIDE DEF g
    <2> QED
      BY <1>6
  <1>8. f[turns] = g[turns]
    <2> HIDE DEF f
    <2>1. f[0] = g[0]
      BY <1>1, <1>5, <1>7
    <2>2. \A k \in 1 .. turns : f[k - 1] = g[k - 1] => f[k] = g[k]
      <3> SUFFICES ASSUME NEW k \in 1 .. turns, f[k - 1] = g[k - 1] PROVE f[k] = g[k]
        OBVIOUS
      <3> HIDE DEF g
      <3>1. k \in 0 .. turns /\ k # 0
        BY <1>1
      <3>2. f[k] = Invert(f[k - 1], first + k - 1)
        BY <1>7, <3>1
      <3>3. QED
        BY <1>4, <3>2
    <2> HIDE DEF g
    <2>3. QED
      BY <1>1, <2>1, <2>2, OneSolution
  <1>9. InvertBlock(b, first, last) = f[turns]
    BY DEF InvertBlock, turns
  <1>10. g[turns] = Patched(b, n, w(turns))
    BY <1>1
  <1>11. QED
    BY <1>8, <1>9, <1>10 DEF v, turns

\* The bits after k turns of the loop of Reverse.
Reversed(n, v, first, last, k) ==
  [i \in 0 .. 8 * n - 1 |->
     IF i \in first .. first + k - 1 \/ i \in last - k + 1 .. last THEN v[first + last - i] ELSE v[i]]

\* Reverse mirrors the range, whether its length is even or odd.
LEMMA BlockReversed ==
  ASSUME NEW n \in Nat, NEW b \in BufferOf(n), NEW first \in Nat, NEW last \in Nat, InRange(b, first, last)
  PROVE  Reverse(b, first, last) =
           Patched(b, n, [i \in 0 .. 8 * n - 1 |->
             IF i \in first .. last THEN Vector(b)[first + last - i] ELSE Vector(b)[i]])
  <1> DEFINE v == Vector(b)
             turns == (last - first + 1) \div 2
             w(k) == Reversed(n, v, first, last, k)
             Loop(f) == f = [k \in 0 .. turns |->
                               IF k = 0 THEN b ELSE Exchanged(f[k - 1], first + k - 1, last - k + 1)]
             g == [k \in 0 .. turns |-> Patched(b, n, w(k))]
             f == CHOOSE f : Loop(f)
  <1>1. turns \in Nat /\ last < 8 * n /\ 2 * turns <= last - first + 1 /\ last - first <= 2 * turns /\ v \in Bits(n)
    <2>1. first <= last /\ last < 8 * n
      BY SizeIs DEF InRange
    <2>2. v \in Bits(n)
      BY VectorIs
    <2> HIDE DEF v
    <2>3. QED
      BY <2>1, <2>2
  <1> HIDE DEF v, turns
  <1>2. \A k \in 0 .. turns : w(k) \in Bits(n)
    <2> SUFFICES ASSUME NEW k \in 0 .. turns, NEW i \in 0 .. 8 * n - 1,
                        i \in first .. first + k - 1 \/ i \in last - k + 1 .. last
                 PROVE  first + last - i \in 0 .. 8 * n - 1
      BY <1>1 DEF Bits, Reversed
    <2> QED
      BY <1>1
  <1>3. w(0) = v
    BY <1>1 DEF Bits, Reversed
  <1>4. ASSUME NEW k \in 1 .. turns
        PROVE  Exchanged(g[k - 1], first + k - 1, last - k + 1) = g[k]
    <2> DEFINE i == first + k - 1
               j == last - k + 1
               u == w(k - 1)
    <2>1. /\ i \in 0 .. 8 * n - 1 /\ j \in 0 .. 8 * n - 1 /\ i # j /\ i < j
          /\ k - 1 \in 0 .. turns /\ u \in Bits(n)
          /\ first + last - i = j /\ first + last - j = i
      BY <1>1, <1>2
    <2>2. u[i] = v[i] /\ u[j] = v[j]
      <3>1. /\ ~ (i \in first .. first + (k - 1) - 1 \/ i \in last - (k - 1) + 1 .. last)
            /\ ~ (j \in first .. first + (k - 1) - 1 \/ j \in last - (k - 1) + 1 .. last)
        BY <1>1, <2>1
      <3> HIDE DEF i, j
      <3>2. QED
        BY <2>1, <3>1 DEF Reversed
    <2>3. w(k) = Swapped(u, i, j)
      <3>1. \A q \in 0 .. 8 * n - 1 : w(k)[q] = IF q = j THEN v[i] ELSE IF q = i THEN v[j] ELSE u[q]
        <4> SUFFICES ASSUME NEW q \in 0 .. 8 * n - 1
                     PROVE  w(k)[q] = IF q = j THEN v[i] ELSE IF q = i THEN v[j] ELSE u[q]
          OBVIOUS
        <4>1. CASE q = i \/ q = j
          <5>1. (q \in first .. first + k - 1 \/ q \in last - k + 1 .. last) /\ first + last - q = IF q = i THEN j ELSE i
            BY <1>1, <2>1, <4>1
          <5>2. w(k)[q] = v[first + last - q]
            BY <5>1 DEF Reversed
          <5> HIDE DEF i, j
          <5>3. QED
            BY <2>1, <4>1, <5>1, <5>2
        <4>2. CASE q # i /\ q # j
          <5>1. /\ q \in first .. first + k - 1 <=> q \in first .. first + (k - 1) - 1
                /\ q \in last - k + 1 .. last <=> q \in last - (k - 1) + 1 .. last
            BY <1>1, <2>1, <4>2
          <5>2. QED
            BY <4>2, <5>1 DEF Reversed
        <4>3. QED
          BY <4>1, <4>2
      <3>2. QED
        <4>1. w(k) = [q \in 0 .. 8 * n - 1 |-> w(k)[q]] /\ u = [q \in 0 .. 8 * n - 1 |-> u[q]]
          BY DEF Reversed
        <4> HIDE DEF i, j, u, w
        <4>2. Swapped(u, i, j) = [q \in 0 .. 8 * n - 1 |-> IF q = j THEN v[i] ELSE IF q = i THEN v[j] ELSE u[q]]
          BY <2>1, <2>2, <4>1 DEF Swapped
        <4>3. QED
          BY <3>1, <4>1, <4>2
    <2> HIDE DEF i, j, u, w
    <2>4. Exchanged(Patched(b, n, u), i, j) = Patched(b, n, Swapped(u, i, j))
      BY <2>1, TwoExchanged
    <2>5. g[k - 1] = Patched(b, n, u) /\ g[k] = Patched(b, n, w(k))
      BY <2>1 DEF u
    <2> HIDE DEF g
    <2>6. QED
      BY <2>3, <2>4, <2>5 DEF i, j
  <1>5. g[0] = b
    BY <1>1, <1>3, PatchedVector DEF v
  <1>6. Loop(g)
    <2>1. ASSUME NEW k \in 0 .. turns
          PROVE  g[k] = IF k = 0 THEN b ELSE Exchanged(g[k - 1], first + k - 1, last - k + 1)
      <3> HIDE DEF g
      <3>1. k = 0 \/ k \in 1 .. turns
        BY <1>1
      <3>2. QED
        BY <1>4, <1>5, <3>1
    <2>2. g = [k \in 0 .. turns |-> g[k]]
      OBVIOUS
    <2> HIDE DEF g
    <2>3. QED
      BY <2>1, <2>2
  <1>7. Loop(f)
    <2> HIDE DEF g
    <2> QED
      BY <1>6
  <1>8. f[turns] = g[turns]
    <2> HIDE DEF f
    <2>1. f[0] = g[0]
      BY <1>1, <1>5, <1>7
    <2>2. ASSUME NEW k \in 1 .. turns, f[k - 1] = g[k - 1]
          PROVE  f[k] = g[k]
      <3> HIDE DEF g
      <3>1. k \in 0 .. turns /\ k # 0
        BY <1>1
      <3>2. f[k] = Exchanged(f[k - 1], first + k - 1, last - k + 1)
        BY <1>7, <3>1
      <3>3. QED
        BY <1>4, <2>2, <3>2
    <2> HIDE DEF g
    <2>3. QED
      BY <1>1, <2>1, <2>2, OneSolution
  <1>9. Reverse(b, first, last) = f[turns]
    BY DEF Reverse, turns
  <1>10. w(turns) = [i \in 0 .. 8 * n - 1 |-> IF i \in first .. last THEN v[first + last - i] ELSE v[i]]
    <2>1. ASSUME NEW i \in 0 .. 8 * n - 1
          PROVE  w(turns)[i] = IF i \in first .. last THEN v[first + last - i] ELSE v[i]
      <3>1. CASE i \in first .. first + turns - 1 \/ i \in last - turns + 1 .. last
        BY <1>1, <3>1 DEF Reversed
      <3>2. CASE i \in first .. last /\ ~ (i \in first .. first + turns - 1 \/ i \in last - turns + 1 .. last)
        <4>1. first + last - i = i
          BY <1>1, <3>2
        <4>2. QED
          BY <3>2, <4>1 DEF Reversed
      <3>3. CASE i \notin first .. last
        <4>1. ~ (i \in first .. first + turns - 1 \/ i \in last - turns + 1 .. last)
          BY <1>1, <3>3
        <4>2. QED
          BY <3>3, <4>1 DEF Reversed
      <3>4. QED
        BY <3>1, <3>2, <3>3
    <2>2. QED
      BY <2>1 DEF Reversed
  <1>11. g[turns] = Patched(b, n, w(turns))
    BY <1>1
  <1>12. QED
    BY <1>8, <1>9, <1>10, <1>11 DEF v

\* The bits after k turns of the loop of Convert.
CopiedBits(m, u, v, first, k) ==
  [i \in 0 .. 8 * m - 1 |-> IF i \in 0 .. k - 1 THEN v[first + i] ELSE u[i]]

\* Convert copies the range to the low end of its result.
LEMMA BitsCopied ==
  ASSUME NEW n \in Nat, NEW b \in BufferOf(n), NEW m \in Nat, NEW d \in BufferOf(m),
         NEW first \in Nat, NEW last \in Nat, InRange(b, first, last), last - first < 8 * m
  PROVE  /\ CopiedBits(m, Vector(d), Vector(b), first, last - first + 1) \in Bits(m)
         /\ CopyBits(d, b, first, last) = Patched(d, m, CopiedBits(m, Vector(d), Vector(b), first, last - first + 1))
  <1> DEFINE v == Vector(b)
             y == Vector(d)
             turns == last - first + 1
             w(k) == CopiedBits(m, y, v, first, k)
             Loop(f) == f = [k \in 0 .. turns |->
                               IF k = 0 THEN d ELSE Set(f[k - 1], k - 1, GetBitValue(b, first + k - 1))]
             g == [k \in 0 .. turns |-> Patched(d, m, w(k))]
             f == CHOOSE f : Loop(f)
  <1>1. turns \in Nat /\ first + turns <= 8 * n /\ turns <= 8 * m /\ v \in Bits(n) /\ y \in Bits(m)
    BY SizeIs, VectorIs DEF InRange
  <1>2. \A i \in 0 .. 8 * n - 1 : GetBitValue(b, i) = v[i]
    BY VectorIs
  <1> HIDE DEF v, y, turns
  <1>3. \A k \in 0 .. turns : w(k) \in Bits(m)
    <2> SUFFICES ASSUME NEW k \in 0 .. turns, NEW i \in 0 .. k - 1
                 PROVE  first + i \in 0 .. 8 * n - 1
      BY <1>1 DEF Bits, CopiedBits
    <2> QED
      BY <1>1
  <1>4. w(0) = y
    BY <1>1 DEF Bits, CopiedBits
  <1>5. ASSUME NEW k \in 1 .. turns
        PROVE  Set(g[k - 1], k - 1, GetBitValue(b, first + k - 1)) = g[k]
    <2> DEFINE i == k - 1
               u == w(k - 1)
               x == GetBitValue(b, first + k - 1)
    <2>1. i \in Nat /\ i \in 0 .. 8 * m - 1 /\ k - 1 \in 0 .. turns /\ u \in Bits(m)
      BY <1>1, <1>3
    <2>2. x = v[first + i] /\ x \in Bit
      <3>1. first + k - 1 \in 0 .. 8 * n - 1 /\ first + k - 1 = first + i
        BY <1>1
      <3>2. QED
        BY <1>1, <1>2, <3>1 DEF Bits
    <2>3. w(k) = [u EXCEPT ![i] = x]
      <3>1. \A q \in 0 .. 8 * m - 1 : w(k)[q] = IF q = i THEN v[first + i] ELSE u[q]
        BY <1>1, <2>1 DEF CopiedBits
      <3>2. QED
        BY <1>3, <2>1, <2>2, <3>1 DEF Bits, CopiedBits
    <2> HIDE DEF i, u, x
    <2>4. Set(Patched(d, m, u), i, x) = Patched(d, m, [u EXCEPT ![i] = x])
      BY <2>1, <2>2, OneSet
    <2>5. QED
      BY <2>1, <2>3, <2>4 DEF i, u, x
  <1>6. g[0] = d
    BY <1>1, <1>4, PatchedVector DEF y
  <1>7. Loop(g)
    <2>1. ASSUME NEW k \in 0 .. turns
          PROVE  g[k] = IF k = 0 THEN d ELSE Set(g[k - 1], k - 1, GetBitValue(b, first + k - 1))
      <3> HIDE DEF g
      <3>1. k = 0 \/ k \in 1 .. turns
        BY <1>1
      <3>2. QED
        BY <1>5, <1>6, <3>1
    <2>2. g = [k \in 0 .. turns |-> g[k]]
      OBVIOUS
    <2> HIDE DEF g
    <2>3. QED
      BY <2>1, <2>2
  <1>8. Loop(f)
    <2> HIDE DEF g
    <2> QED
      BY <1>7
  <1>9. f[turns] = g[turns]
    <2> HIDE DEF f
    <2>1. f[0] = g[0]
      BY <1>1, <1>6, <1>8
    <2>2. ASSUME NEW k \in 1 .. turns, f[k - 1] = g[k - 1]
          PROVE  f[k] = g[k]
      <3> HIDE DEF g
      <3>1. k \in 0 .. turns /\ k # 0
        BY <1>1
      <3>2. f[k] = Set(f[k - 1], k - 1, GetBitValue(b, first + k - 1))
        BY <1>8, <3>1
      <3>3. QED
        BY <1>5, <2>2, <3>2
    <2> HIDE DEF g
    <2>3. QED
      BY <1>1, <2>1, <2>2, OneSolution
  <1>10. CopyBits(d, b, first, last) = f[turns]
    BY DEF CopyBits, turns
  <1>11. g[turns] = Patched(d, m, w(turns)) /\ w(turns) \in Bits(m)
    BY <1>1, <1>3
  <1>12. QED
    BY <1>9, <1>10, <1>11 DEF v, y, turns

-----------------------------------------------------------------------------
(* Loops over bytes                                                        *)

\* Blocks of n bytes; the two directions of the pointers.
ByteBlocks(n) == [0 .. n - 1 -> Byte]

\* The directions: upwards, downwards.
Steps == {1, -1}

\* The q-th byte a pointer passes.
At(n, step, q) == IF step = 1 THEN q ELSE n - 1 - q

\* The pointers pass every byte of the block, once.
LEMMA Passed ==
  ASSUME NEW n \in Nat, NEW step \in Steps, NEW q \in Int
  PROVE  /\ At(n, step, q) \in Int /\ At(n, step, At(n, step, q)) = q
         /\ At(n, step, q) \in 0 .. n - 1 <=> q \in 0 .. n - 1
  BY DEF At, Steps

\* A step takes a pointer to the next byte.
LEMMA PassedNext ==
  ASSUME NEW n \in Nat, NEW step \in Steps, NEW q \in Int
  PROVE  At(n, step, q) + step = At(n, step, q + 1)
  BY DEF At, Steps

\* The distance of two pointers, in steps.
LEMMA Distance ==
  ASSUME NEW n \in Nat, NEW step \in Steps, NEW q \in Int, NEW r \in Int
  PROVE  (At(n, step, q) - At(n, step, r)) * step = q - r
  <1>1. CASE step = 1
    BY <1>1 DEF At
  <1>2. CASE step = -1
    BY <1>2 DEF At
  <1>3. QED
    BY <1>1, <1>2 DEF Steps

\* Where a pointer is after r steps.
LEMMA PassedAfter ==
  ASSUME NEW n \in Nat, NEW step \in Steps, NEW q \in Int, NEW r \in Int
  PROVE  At(n, step, q) + r * step = At(n, step, q + r)
  <1>1. CASE step = 1
    BY <1>1 DEF At
  <1>2. CASE step = -1
    BY <1>2 DEF At
  <1>3. QED
    BY <1>1, <1>2 DEF Steps

\* The block after k turns of the loop of CopyBytes.
Moved(n, m, s, step, k) ==
  [j \in 0 .. n - 1 |-> IF At(n, step, j) < k THEN m[At(n, step, At(n, step, j) + s)] ELSE m[j]]

\* CopyBytes moves every byte s places against the direction of the pointers, and fills the rest.
LEMMA BytesMoved ==
  ASSUME NEW n \in Nat, NEW m \in ByteBlocks(n), NEW s \in 1 .. n - 1, NEW step \in Steps, NEW fill
  PROVE  CopyBytes(m, At(n, step, 0), At(n, step, s), At(n, step, n), step, fill) =
           [j \in 0 .. n - 1 |->
              IF At(n, step, j) < n - s THEN m[At(n, step, At(n, step, j) + s)] ELSE fill]
  <1> DEFINE head == At(n, step, 0)
             next == At(n, step, s)
             end == At(n, step, n)
             turns == (end - next) * step
             w(k) == Moved(n, m, s, step, k)
             Loop(f) == f = [k \in 0 .. turns |->
                               IF k = 0 THEN m
                               ELSE [f[k - 1] EXCEPT ![head + (k - 1) * step] = f[k - 1][next + (k - 1) * step]]]
             g == [k \in 0 .. turns |-> w(k)]
             f == CHOOSE f : Loop(f)
  <1>1. turns = n - s /\ turns \in Nat
    BY Distance
  <1>2. \A k \in Int : head + (k - 1) * step = At(n, step, k - 1) /\ next + (k - 1) * step = At(n, step, s + (k - 1))
    <2> SUFFICES ASSUME NEW k \in Int
                 PROVE  head + (k - 1) * step = At(n, step, k - 1) /\ next + (k - 1) * step = At(n, step, s + (k - 1))
      OBVIOUS
    <2>1. k - 1 \in Int /\ 0 + (k - 1) = k - 1
      OBVIOUS
    <2>2. At(n, step, 0) + (k - 1) * step = At(n, step, 0 + (k - 1)) /\ At(n, step, s) + (k - 1) * step = At(n, step, s + (k - 1))
      BY <2>1, PassedAfter
    <2>3. QED
      BY <2>1, <2>2
  <1>3. \A j \in DOMAIN m : (j - head) * step = At(n, step, j)
    <2> SUFFICES ASSUME NEW j \in 0 .. n - 1
                 PROVE  (j - head) * step = At(n, step, j)
      BY DEF ByteBlocks
    <2> DEFINE q == At(n, step, j)
    <2>1. q \in Int /\ At(n, step, q) = j
      BY Passed
    <2> HIDE DEF q
    <2>2. (At(n, step, q) - At(n, step, 0)) * step = q - 0
      BY <2>1, Distance
    <2>3. QED
      BY <2>1, <2>2 DEF q
  <1>4. DOMAIN m = 0 .. n - 1
    BY DEF ByteBlocks
  <1> HIDE DEF head, next, end, turns
  <1>5. w(0) = m
    <2>1. \A j \in 0 .. n - 1 : ~ (At(n, step, j) < 0)
      BY Passed
    <2>2. QED
      BY <1>4, <2>1 DEF Moved, ByteBlocks
  <1>6. ASSUME NEW k \in 1 .. turns
        PROVE  [g[k - 1] EXCEPT ![head + (k - 1) * step] = g[k - 1][next + (k - 1) * step]] = g[k]
    <2> DEFINE u == w(k - 1)
               i == At(n, step, k - 1)
               r == At(n, step, s + (k - 1))
    <2>1. k - 1 \in 0 .. turns /\ k \in 0 .. turns /\ k - 1 \in 0 .. n - 1 /\ s + (k - 1) \in 0 .. n - 1
      BY <1>1
    <2>2. i \in 0 .. n - 1 /\ r \in 0 .. n - 1 /\ At(n, step, i) = k - 1 /\ At(n, step, r) = s + (k - 1)
      BY <2>1, Passed
    <2>3. head + (k - 1) * step = i /\ next + (k - 1) * step = r
      BY <1>2
    <2>4. g[k - 1] = u /\ g[k] = w(k)
      BY <2>1
    <2> HIDE DEF i, r
    <2>5. u[r] = m[r]
      <3>1. ~ (s + (k - 1) < k - 1)
        BY <2>1
      <3>2. QED
        BY <2>2, <3>1 DEF Moved
    <2>6. w(k) = [u EXCEPT ![i] = m[r]]
      <3>1. ASSUME NEW j \in 0 .. n - 1
            PROVE  w(k)[j] = IF j = i THEN m[r] ELSE u[j]
        <4> DEFINE q == At(n, step, j)
        <4>1. q \in 0 .. n - 1 /\ (q = k - 1 <=> j = i)
          <5>1. q \in 0 .. n - 1 /\ At(n, step, q) = j
            BY Passed
          <5>2. q = k - 1 => j = i
            BY <5>1 DEF i
          <5>3. j = i => q = k - 1
            BY <2>2
          <5>4. QED
            BY <5>1, <5>2, <5>3
        <4>2. w(k)[j] = IF q < k THEN m[At(n, step, q + s)] ELSE m[j]
          BY DEF Moved
        <4>3. u[j] = IF q < k - 1 THEN m[At(n, step, q + s)] ELSE m[j]
          BY DEF Moved
        <4> HIDE DEF q, u, w
        <4>4. CASE j = i
          <5>1. q < k /\ q + s = s + (k - 1)
            BY <2>1, <4>1, <4>4
          <5>2. QED
            BY <4>2, <4>4, <5>1 DEF r
        <4>5. CASE j # i
          <5>1. q < k <=> q < k - 1
            BY <2>1, <4>1, <4>5
          <5>2. QED
            BY <4>2, <4>3, <4>5, <5>1
        <4>6. QED
          BY <4>4, <4>5
      <3>2. w(k) = [j \in 0 .. n - 1 |-> w(k)[j]] /\ u = [j \in 0 .. n - 1 |-> u[j]]
        BY DEF Moved
      <3> HIDE DEF u, w
      <3>3. QED
        BY <2>2, <3>1, <3>2
    <2> HIDE DEF u, w, g
    <2>7. QED
      BY <2>3, <2>4, <2>5, <2>6
  <1>7. Loop(g)
    <2>1. ASSUME NEW k \in 0 .. turns
          PROVE  g[k] = IF k = 0 THEN m
                        ELSE [g[k - 1] EXCEPT ![head + (k - 1) * step] = g[k - 1][next + (k - 1) * step]]
      <3>1. k = 0 \/ k \in 1 .. turns
        BY <1>1
      <3>2. g[0] = m
        BY <1>1, <1>5
      <3> HIDE DEF g
      <3>3. QED
        BY <1>6, <3>1, <3>2
    <2>2. g = [k \in 0 .. turns |-> g[k]]
      OBVIOUS
    <2> HIDE DEF g
    <2>3. QED
      BY <2>1, <2>2
  <1>8. Loop(f)
    <2> HIDE DEF g
    <2> QED
      BY <1>7
  <1>9. f[turns] = w(turns)
    <2>1. g[0] = m /\ g[turns] = w(turns)
      BY <1>1, <1>5
    <2> HIDE DEF f, g, w
    <2>2. f[0] = g[0]
      BY <1>1, <1>8, <2>1
    <2>3. ASSUME NEW k \in 1 .. turns, f[k - 1] = g[k - 1]
          PROVE  f[k] = g[k]
      <3>1. k \in 0 .. turns /\ k # 0
        BY <1>1
      <3>2. f[k] = [f[k - 1] EXCEPT ![head + (k - 1) * step] = f[k - 1][next + (k - 1) * step]]
        BY <1>8, <3>1
      <3>3. QED
        BY <1>6, <2>3, <3>2
    <2>4. QED
      BY <1>1, <2>1, <2>2, <2>3, OneSolution
  <1>10. CopyBytes(m, head, next, end, step, fill) =
           [j \in DOMAIN m |-> IF (j - head) * step < turns THEN f[turns][j] ELSE fill]
    BY DEF CopyBytes, turns
  <1> HIDE DEF f
  <1>11. \A j \in 0 .. n - 1 : At(n, step, j) < turns => w(turns)[j] = m[At(n, step, At(n, step, j) + s)]
    BY DEF Moved
  <1> HIDE DEF w
  <1>12. CopyBytes(m, head, next, end, step, fill) =
           [j \in 0 .. n - 1 |-> IF At(n, step, j) < turns THEN m[At(n, step, At(n, step, j) + s)] ELSE fill]
    BY <1>3, <1>4, <1>9, <1>10, <1>11
  <1>13. QED
    BY <1>1, <1>12 DEF head, next, end

\* A loop of n turns, turn i of which does G[i], and its states.
Rounds(G, n, T) == n \in Nat /\ G \in [1 .. n -> [T -> T]]
LoopOf(g, b, G, n, T) ==
  g \in [0 .. n -> T] /\ g[0] = b /\ \A i \in 1 .. n : g[i] = G[i][g[i - 1]]

\* Every loop has its states: what a recursive function does is well defined.
LEMMA LoopExists ==
  ASSUME NEW T, NEW b \in T, NEW n, NEW G, Rounds(G, n, T)
  PROVE  \E g : LoopOf(g, b, G, n, T)
  <1> USE DEF Rounds, LoopOf
  <1> DEFINE Loop(g, k) == g[0] = b /\ \A i \in 1 .. k : g[i] = G[i][g[i - 1]]
             D == {k \in Nat : k <= n => \E g \in [0 .. k -> T] : Loop(g, k)}
  <1>1. 0 \in D
    <2>1. [i \in 0 .. 0 |-> b] \in [0 .. 0 -> T] /\ Loop([i \in 0 .. 0 |-> b], 0)
      OBVIOUS
    <2>2. QED
      BY <2>1
  <1>2. ASSUME NEW k \in Nat, k \in D
        PROVE  k + 1 \in D
    <2> SUFFICES ASSUME k + 1 <= n
                 PROVE  \E g \in [0 .. k + 1 -> T] : Loop(g, k + 1)
      OBVIOUS
    <2>1. PICK g \in [0 .. k -> T] : Loop(g, k)
      BY <1>2
    <2> DEFINE h == [i \in 0 .. k + 1 |-> IF i = k + 1 THEN G[k + 1][g[k]] ELSE g[i]]
    <2>2. /\ \A i \in 0 .. k : h[i] = g[i]
          /\ h[k + 1] = G[k + 1][g[k]]
      OBVIOUS
    <2>3. h \in [0 .. k + 1 -> T]
      OBVIOUS
    <2>4. Loop(h, k + 1)
      <3> HIDE DEF h
      <3>1. h[0] = b
        BY <2>1, <2>2
      <3>2. ASSUME NEW i \in 1 .. k + 1
            PROVE  h[i] = G[i][h[i - 1]]
        <4>1. h[i - 1] = g[i - 1]
          BY <2>2
        <4>2. CASE i \in 1 .. k
          <5>1. h[i] = g[i] /\ g[i] = G[i][g[i - 1]]
            BY <2>1, <2>2, <4>2
          <5>2. QED
            BY <4>1, <5>1
        <4>3. CASE i = k + 1
          <5>1. i - 1 = k
            BY <4>3
          <5>2. QED
            BY <2>2, <4>1, <4>3, <5>1
        <4>4. QED
          BY <4>2, <4>3
      <3>3. QED
        BY <3>1, <3>2
    <2>5. QED
      BY <2>3, <2>4
  <1>3. QED
    <2> HIDE DEF D
    <2>1. n \in D
      BY <1>1, <1>2, Induction
    <2>2. QED
      BY <2>1 DEF D

\* One turn of the loop of SwapBytes.
Turn(x, end, step) ==
  LET h == x.head + step
      n == x.next + step
  IN  [m |-> [x.m EXCEPT ![x.head] = x.m[x.next], ![x.next] = x.m[x.head]],
       head |-> h,
       next |-> IF n = end THEN x.newHead ELSE n,
       newHead |-> IF n # end /\ h = x.newHead THEN n ELSE x.newHead]

\* Where the byte is that is in the end the q-th one.
SourceAt(n, h, x, y, q) ==
  IF q < h THEN q
  ELSE IF q - h < n - x THEN x + (q - h)
  ELSE IF q - h < n - y THEN y + (q - h - (n - x))
  ELSE q - (n - y)

\* How the three pointers lie: head, newHead, next, or head met next.
Ordered(n, h, x, y) == (h < y /\ y <= x /\ x < n) \/ (h = x /\ y \in 0 .. n - 1)
Exchange(h, x, p) == IF p = h THEN x ELSE IF p = x THEN h ELSE p

\* The source of a byte is a byte of the block.
LEMMA SourceInBlock ==
  ASSUME NEW n \in Nat, NEW h \in 0 .. n - 1, NEW x \in 0 .. n - 1, NEW y \in 0 .. n - 1,
         Ordered(n, h, x, y), NEW q \in 0 .. n - 1
  PROVE  SourceAt(n, h, x, y, q) \in 0 .. n - 1 /\ (h = x => SourceAt(n, h, x, y, q) = q)
  BY DEF SourceAt, Ordered

\* A turn puts the byte of the two pointers in place, and keeps the others' order.
LEMMA SourceTurn ==
  ASSUME NEW n \in Nat, NEW h \in 0 .. n - 1, NEW x \in 0 .. n - 1, NEW y \in 0 .. n - 1,
         Ordered(n, h, x, y), h # x,
         NEW a, a = IF x + 1 = n THEN y ELSE x + 1,
         NEW b, b = IF x + 1 # n /\ h + 1 = y THEN x + 1 ELSE y
  PROVE  /\ h + 1 \in 0 .. n - 1 /\ a \in 0 .. n - 1 /\ b \in 0 .. n - 1 /\ Ordered(n, h + 1, a, b)
         /\ \A q \in 0 .. n - 1 : Exchange(h, x, SourceAt(n, h + 1, a, b, q)) = SourceAt(n, h, x, y, q)
  <1>1. h + 1 \in 0 .. n - 1 /\ a \in 0 .. n - 1 /\ b \in 0 .. n - 1 /\ Ordered(n, h + 1, a, b)
    BY DEF Ordered
  <1>2. ASSUME NEW q \in 0 .. n - 1
        PROVE  Exchange(h, x, SourceAt(n, h + 1, a, b, q)) = SourceAt(n, h, x, y, q)
    <2>1. h < y /\ y <= x /\ x < n
      BY DEF Ordered
    <2>2. CASE x + 1 = n
      <3>1. a = y /\ b = y
        BY <2>2
      <3>2. QED
        BY <2>1, <2>2, <3>1 DEF SourceAt, Exchange
    <2>3. CASE x + 1 # n /\ h + 1 = y
      <3>1. a = x + 1 /\ b = x + 1
        BY <2>3
      <3>2. QED
        BY <2>1, <2>3, <3>1 DEF SourceAt, Exchange
    <2>4. CASE x + 1 # n /\ h + 1 # y
      <3>1. a = x + 1 /\ b = y
        BY <2>4
      <3>2. QED
        BY <2>1, <2>4, <3>1 DEF SourceAt, Exchange
    <2>5. QED
      BY <2>2, <2>3, <2>4
  <1>3. QED
    BY <1>1, <1>2

\* A state of the loop from which the bytes r come out.
State(n) == [m : ByteBlocks(n), head : 0 .. n - 1, next : 0 .. n - 1, newHead : 0 .. n - 1]
Rotating(n, step, r, x) ==
  LET h == At(n, step, x.head)
      i == At(n, step, x.next)
      y == At(n, step, x.newHead)
  IN  /\ Ordered(n, h, i, y)
      /\ \A q \in 0 .. n - 1 : x.m[At(n, step, SourceAt(n, h, i, y, q))] = r[q]

\* Rotating is an invariant of the loop of SwapBytes, and head advances.
LEMMA TurnRotates ==
  ASSUME NEW n \in Nat, NEW step \in Steps, NEW r, NEW x \in State(n), Rotating(n, step, r, x),
         x.head # x.next, NEW z, z = Turn(x, At(n, step, n), step)
  PROVE  /\ z \in State(n) /\ Rotating(n, step, r, z)
         /\ At(n, step, z.head) = At(n, step, x.head) + 1
  <1> DEFINE h == At(n, step, x.head)
             i == At(n, step, x.next)
             y == At(n, step, x.newHead)
             a == IF i + 1 = n THEN y ELSE i + 1
             b == IF i + 1 # n /\ h + 1 = y THEN i + 1 ELSE y
  <1>1. x.m \in ByteBlocks(n) /\ x.head \in 0 .. n - 1 /\ x.next \in 0 .. n - 1 /\ x.newHead \in 0 .. n - 1
    BY DEF State
  <1>2. /\ h \in 0 .. n - 1 /\ At(n, step, h) = x.head
        /\ i \in 0 .. n - 1 /\ At(n, step, i) = x.next
        /\ y \in 0 .. n - 1 /\ At(n, step, y) = x.newHead
    <2>1. \A p \in 0 .. n - 1 : At(n, step, p) \in 0 .. n - 1 /\ At(n, step, At(n, step, p)) = p
      BY Passed
    <2>2. QED
      BY <1>1, <2>1
  <1>3. h # i
    BY <1>2
  <1>4. Ordered(n, h, i, y) /\ \A q \in 0 .. n - 1 : x.m[At(n, step, SourceAt(n, h, i, y, q))] = r[q]
    BY DEF Rotating
  <1>5. x.head + step = At(n, step, h + 1) /\ x.next + step = At(n, step, i + 1)
    BY <1>2, PassedNext
  <1> HIDE DEF h, i, y
  <1>6. /\ At(n, step, i + 1) = At(n, step, n) <=> i + 1 = n
        /\ At(n, step, h + 1) = At(n, step, y) <=> h + 1 = y
    <2>1. i + 1 \in Int /\ h + 1 \in Int /\ n \in Int /\ y \in Int
      BY <1>2
    <2>2. QED
      BY <2>1, Passed
  <1>7. /\ z.m = [x.m EXCEPT ![x.head] = x.m[x.next], ![x.next] = x.m[x.head]]
        /\ z.head = At(n, step, h + 1) /\ z.next = At(n, step, a) /\ z.newHead = At(n, step, b)
        /\ z = [m |-> z.m, head |-> z.head, next |-> z.next, newHead |-> z.newHead]
    <2>1. z.head = x.head + step
      BY DEF Turn
    <2>2. z.next = IF x.next + step = At(n, step, n) THEN x.newHead ELSE x.next + step
      BY DEF Turn
    <2>3. z.newHead = IF x.next + step # At(n, step, n) /\ x.head + step = x.newHead THEN x.next + step ELSE x.newHead
      BY DEF Turn
    <2>4. z.next = At(n, step, a)
      BY <1>2, <1>5, <1>6, <2>2
    <2>5. z.newHead = At(n, step, b)
      BY <1>2, <1>5, <1>6, <2>3
    <2>6. QED
      BY <1>5, <2>1, <2>4, <2>5 DEF Turn
  <1>8. /\ h + 1 \in 0 .. n - 1 /\ a \in 0 .. n - 1 /\ b \in 0 .. n - 1 /\ Ordered(n, h + 1, a, b)
        /\ \A q \in 0 .. n - 1 : Exchange(h, i, SourceAt(n, h + 1, a, b, q)) = SourceAt(n, h, i, y, q)
    BY <1>2, <1>3, <1>4, SourceTurn
  <1> HIDE DEF a, b
  <1>9. /\ z.head \in 0 .. n - 1 /\ At(n, step, z.head) = h + 1
        /\ z.next \in 0 .. n - 1 /\ At(n, step, z.next) = a
        /\ z.newHead \in 0 .. n - 1 /\ At(n, step, z.newHead) = b
    BY <1>7, <1>8, Passed
  <1>10. z.m \in ByteBlocks(n)
    BY <1>1, <1>7 DEF ByteBlocks
  <1>11. z \in State(n)
    BY <1>7, <1>9, <1>10 DEF State
  <1>12. \A p \in 0 .. n - 1 : z.m[At(n, step, p)] = x.m[At(n, step, Exchange(h, i, p))]
    <2> SUFFICES ASSUME NEW p \in 0 .. n - 1
                 PROVE  z.m[At(n, step, p)] = x.m[At(n, step, Exchange(h, i, p))]
      OBVIOUS
    <2>1. At(n, step, p) \in 0 .. n - 1 /\ At(n, step, At(n, step, p)) = p
      BY Passed
    <2>2. z.m[At(n, step, p)] = IF At(n, step, p) = x.next THEN x.m[x.head]
                                ELSE IF At(n, step, p) = x.head THEN x.m[x.next] ELSE x.m[At(n, step, p)]
      BY <1>1, <1>7, <2>1 DEF ByteBlocks
    <2>3. (At(n, step, p) = x.next <=> p = i) /\ (At(n, step, p) = x.head <=> p = h)
      BY <1>2, <2>1 DEF h, i
    <2>4. QED
      BY <1>2, <1>3, <2>2, <2>3 DEF Exchange
  <1>13. \A q \in 0 .. n - 1 : z.m[At(n, step, SourceAt(n, h + 1, a, b, q))] = r[q]
    <2> SUFFICES ASSUME NEW q \in 0 .. n - 1
                 PROVE  z.m[At(n, step, SourceAt(n, h + 1, a, b, q))] = r[q]
      OBVIOUS
    <2>1. SourceAt(n, h + 1, a, b, q) \in 0 .. n - 1
      BY <1>8, SourceInBlock
    <2>2. QED
      BY <1>4, <1>8, <1>12, <2>1
  <1>14. Rotating(n, step, r, z)
    BY <1>8, <1>9, <1>13 DEF Rotating
  <1>15. QED
    BY <1>9, <1>11, <1>14 DEF h

\* SwapBytes rotates the block by s bytes, whatever its length: the pointers
\* meet within n turns, and each turn puts one byte in place for good.
LEMMA BytesRotated ==
  ASSUME NEW n \in Nat, NEW m \in ByteBlocks(n), NEW s \in 1 .. n - 1, NEW step \in Steps
  PROVE  SwapBytes(m, At(n, step, 0), At(n, step, s), At(n, step, n), step) =
           [j \in 0 .. n - 1 |->
              LET q == At(n, step, j) IN m[At(n, step, IF q + s < n THEN q + s ELSE q + s - n)]]
  <1> DEFINE head == At(n, step, 0)
             next == At(n, step, s)
             end == At(n, step, n)
             r == [q \in 0 .. n - 1 |-> m[At(n, step, SourceAt(n, 0, s, s, q))]]
             T == {x \in State(n) : Rotating(n, step, r, x)}
             G == [k \in 1 .. n |-> [x \in T |-> IF x.head = x.next THEN x ELSE Turn(x, end, step)]]
             b == [m |-> m, head |-> head, next |-> next, newHead |-> next]
             Loop(f) == f = [k \in 0 .. n |->
                               IF k = 0 THEN b
                               ELSE LET x == f[k - 1] IN IF x.head = x.next THEN x ELSE Turn(x, end, step)]
             f == CHOOSE f : Loop(f)
  <1>1. /\ head \in 0 .. n - 1 /\ At(n, step, head) = 0
        /\ next \in 0 .. n - 1 /\ At(n, step, next) = s
    BY Passed
  <1>2. b \in T
    <2> HIDE DEF head, next
    <2>1. b \in State(n)
      BY <1>1 DEF State
    <2>2. Ordered(n, 0, s, s)
      BY DEF Ordered
    <2>3. Rotating(n, step, r, b)
      BY <1>1, <2>2 DEF Rotating
    <2>4. QED
      BY <2>1, <2>3
  <1>3. \A x \in T : /\ x.head # x.next =>
                          /\ Turn(x, end, step) \in T
                          /\ At(n, step, Turn(x, end, step).head) = At(n, step, x.head) + 1
    <2> HIDE DEF r
    <2> QED
      BY TurnRotates
  <1>4. Rounds(G, n, T)
    <2> HIDE DEF T, end
    <2>1. \A x \in T : (IF x.head = x.next THEN x ELSE Turn(x, end, step)) \in T
      BY <1>3
    <2>2. QED
      BY <2>1 DEF Rounds
  <1>5. PICK g : LoopOf(g, b, G, n, T)
    <2> HIDE DEF T, G, b
    <2> QED
      BY <1>2, <1>4, LoopExists
  <1>6. g \in [0 .. n -> T] /\ g[0] = b
    BY <1>5 DEF LoopOf
  <1>7. ASSUME NEW k \in 1 .. n
        PROVE  /\ k - 1 \in 0 .. n /\ g[k - 1] \in T
               /\ g[k] = IF g[k - 1].head = g[k - 1].next THEN g[k - 1] ELSE Turn(g[k - 1], end, step)
    <2>1. k - 1 \in 0 .. n
      OBVIOUS
    <2> HIDE DEF T
    <2>2. g[k - 1] \in T
      BY <1>6, <2>1
    <2>3. g[k] = G[k][g[k - 1]]
      BY <1>5 DEF LoopOf
    <2> HIDE DEF end
    <2>4. QED
      BY <2>1, <2>2, <2>3
  <1> HIDE DEF T, G, b, end, head, next
  <1>8. Loop(g)
    <2>1. ASSUME NEW k \in 0 .. n
          PROVE  g[k] = IF k = 0 THEN b
                        ELSE LET x == g[k - 1] IN IF x.head = x.next THEN x ELSE Turn(x, end, step)
      <3>1. k = 0 \/ k \in 1 .. n
        OBVIOUS
      <3>2. QED
        BY <1>6, <1>7, <3>1
    <2>2. g = [k \in 0 .. n |-> g[k]]
      BY <1>6
    <2>3. QED
      BY <2>1, <2>2
  <1>9. Loop(f)
    BY <1>8
  <1> HIDE DEF f
  <1>10. f[n] = g[n]
    <2>1. f[0] = g[0]
      BY <1>6, <1>9
    <2>2. ASSUME NEW k \in 1 .. n, f[k - 1] = g[k - 1]
          PROVE  f[k] = g[k]
      <3>1. k \in 0 .. n /\ k # 0
        OBVIOUS
      <3>2. f[k] = LET x == f[k - 1] IN IF x.head = x.next THEN x ELSE Turn(x, end, step)
        BY <1>9, <3>1
      <3>3. QED
        BY <1>7, <2>2, <3>2
    <2>3. QED
      BY <2>1, <2>2, OneSolution
  <1>11. g[n] \in State(n) /\ Rotating(n, step, r, g[n])
    <2>1. n \in 0 .. n
      OBVIOUS
    <2>2. g[n] \in T
      BY <1>6, <2>1
    <2>3. QED
      BY <2>2 DEF T
  \* The loop has stopped.
  <1>12. g[n].head = g[n].next
    <2> DEFINE D == {k \in Nat : k <= n => g[k].head = g[k].next \/ At(n, step, g[k].head) = k}
    <2>1. 0 \in D
      BY <1>1, <1>6 DEF b
    <2>2. ASSUME NEW k \in Nat, k \in D
          PROVE  k + 1 \in D
      <3> SUFFICES ASSUME k + 1 <= n
                   PROVE  g[k + 1].head = g[k + 1].next \/ At(n, step, g[k + 1].head) = k + 1
        OBVIOUS
      <3>1. k + 1 \in 1 .. n /\ (k + 1) - 1 = k /\ k <= n
        OBVIOUS
      <3>2. g[k] \in T /\ g[k + 1] = IF g[k].head = g[k].next THEN g[k] ELSE Turn(g[k], end, step)
        BY <1>7, <3>1
      <3>3. CASE g[k].head = g[k].next
        BY <3>2, <3>3
      <3>4. CASE g[k].head # g[k].next
        BY <1>3, <2>2, <3>1, <3>2, <3>4
      <3>5. QED
        BY <3>3, <3>4
    <2>3. n \in D
      <3> HIDE DEF D
      <3> QED
        BY <2>1, <2>2, Induction
    <2>4. At(n, step, g[n].head) \in 0 .. n - 1
      <3>1. g[n].head \in 0 .. n - 1
        BY <1>11 DEF State
      <3>2. QED
        BY <3>1, Passed
    <2>5. QED
      BY <2>3, <2>4
  <1>13. \A q \in 0 .. n - 1 : g[n].m[At(n, step, q)] = r[q]
    <2> DEFINE x == g[n]
               h == At(n, step, x.head)
               y == At(n, step, x.newHead)
    <2> HIDE DEF r
    <2>1. x \in State(n) /\ Rotating(n, step, r, x)
      BY <1>11
    <2>2. h \in 0 .. n - 1 /\ y \in 0 .. n - 1
      <3>1. x.head \in 0 .. n - 1 /\ x.newHead \in 0 .. n - 1
        BY <2>1 DEF State
      <3>2. QED
        BY <3>1, Passed
    <2>3. Ordered(n, h, h, y) /\ \A q \in 0 .. n - 1 : x.m[At(n, step, SourceAt(n, h, h, y, q))] = r[q]
      BY <1>12, <2>1 DEF Rotating
    <2> HIDE DEF x, h, y
    <2>4. \A q \in 0 .. n - 1 : SourceAt(n, h, h, y, q) = q
      BY <2>2, <2>3, SourceInBlock
    <2>5. QED
      BY <2>3, <2>4 DEF x
  <1>14. g[n].m \in ByteBlocks(n)
    BY <1>11 DEF State
  <1>15. \A j \in 0 .. n - 1 :
           g[n].m[j] = LET q == At(n, step, j) IN m[At(n, step, IF q + s < n THEN q + s ELSE q + s - n)]
    <2> SUFFICES ASSUME NEW j \in 0 .. n - 1, NEW q, q = At(n, step, j)
                 PROVE  g[n].m[j] = m[At(n, step, IF q + s < n THEN q + s ELSE q + s - n)]
      OBVIOUS
    <2>1. q \in 0 .. n - 1 /\ At(n, step, q) = j
      BY Passed
    <2>2. g[n].m[j] = m[At(n, step, SourceAt(n, 0, s, s, q))]
      BY <1>13, <2>1
    <2>3. SourceAt(n, 0, s, s, q) = IF q + s < n THEN q + s ELSE q + s - n
      BY <2>1 DEF SourceAt
    <2>4. QED
      BY <2>2, <2>3
  <1>16. SwapBytes(m, head, next, end, step) = f[n].m
    <2>1. Cardinality(DOMAIN m) = n
      BY FS_Interval DEF ByteBlocks
    <2>2. QED
      BY <2>1 DEF SwapBytes, Turn, f, b
  <1>17. QED
    BY <1>10, <1>14, <1>15, <1>16 DEF ByteBlocks, head, next, end

-----------------------------------------------------------------------------
(* Endians                                                                 *)

\* Or with nothing.
LEMMA OrZero ==
  ASSUME NEW x \in Bit
  PROVE  Or(x, Zero) = x /\ Or(Zero, x) = x
  <1>1. Zero # One
    BY DEF Zero, One
  <1>2. QED
    BY <1>1 DEF Or

\* A byte with its bits in the other order.
Turned(x) == [p \in BitOf |-> x[7 - p]]

\* One of the three exchanges of ReverseBits: the high bits go down by n, the
\* others up.
Halved(x, high, n) ==
  Bytewise(Or, Shr(Masked(x, high), n), Shl(Masked(x, BitOf \ high), n))

\* An exchange, place by place.
LEMMA HalvedAt ==
  ASSUME NEW x \in Byte, NEW high \in SUBSET BitOf, NEW n \in 1 .. 7
  PROVE  /\ Halved(x, high, n) = [p \in BitOf |-> Halved(x, high, n)[p]]
         /\ \A p \in BitOf : p + n \in high /\ ~ (p - n \in BitOf /\ p - n \notin high) => Halved(x, high, n)[p] = x[p + n]
         /\ \A p \in BitOf : p - n \in BitOf /\ p - n \notin high /\ p + n \notin high => Halved(x, high, n)[p] = x[p - n]
  <1>1. \A p \in BitOf : Halved(x, high, n)[p] = Or(Shr(Masked(x, high), n)[p], Shl(Masked(x, BitOf \ high), n)[p])
    BY DEF Halved, Bytewise
  <1>2. \A p \in BitOf : Shr(Masked(x, high), n)[p] = IF p + n \in high THEN x[p + n] ELSE Zero
    BY DEF Shr, Masked
  <1>3. \A p \in BitOf : Shl(Masked(x, BitOf \ high), n)[p] = IF p - n \in BitOf /\ p - n \notin high THEN x[p - n] ELSE Zero
    BY DEF Shl, Masked
  <1>4. \A p \in BitOf : x[p] \in Bit
    BY DEF Byte
  <1>5. Halved(x, high, n) = [p \in BitOf |-> Halved(x, high, n)[p]]
    BY DEF Halved, Bytewise
  <1>6. QED
    BY <1>1, <1>2, <1>3, <1>4, <1>5, OrZero

\* The places of a byte, one by one.
LEMMA Places == BitOf = {0, 1, 2, 3, 4, 5, 6, 7}
  BY DEF BitOf

\* The three exchanges of ReverseBits: halves, pairs, neighbours.
LEMMA Halves ==
  ASSUME NEW x \in Byte
  PROVE  /\ Halved(x, {4, 5, 6, 7}, 4) = [p \in BitOf |-> IF p < 4 THEN x[p + 4] ELSE x[p - 4]]
         /\ Halved(x, {2, 3, 6, 7}, 2) = [p \in BitOf |-> IF p \in {0, 1, 4, 5} THEN x[p + 2] ELSE x[p - 2]]
         /\ Halved(x, {1, 3, 5, 7}, 1) = [p \in BitOf |-> IF p \in {0, 2, 4, 6} THEN x[p + 1] ELSE x[p - 1]]
  <1>1. Halved(x, {4, 5, 6, 7}, 4) = [p \in BitOf |-> IF p < 4 THEN x[p + 4] ELSE x[p - 4]]
    <2> DEFINE h == {4, 5, 6, 7}
    <2>1. h \in SUBSET BitOf /\ 4 \in 1 .. 7
      BY DEF BitOf
    <2>2. \A p \in BitOf : /\ p < 4 => p + 4 \in h /\ ~ (p - 4 \in BitOf /\ p - 4 \notin h)
                           /\ ~ (p < 4) => p - 4 \in BitOf /\ p - 4 \notin h /\ p + 4 \notin h
      BY DEF BitOf
    <2> HIDE DEF h
    <2>3. \A p \in BitOf : Halved(x, h, 4)[p] = IF p < 4 THEN x[p + 4] ELSE x[p - 4]
      BY <2>1, <2>2, HalvedAt
    <2>4. Halved(x, h, 4) = [p \in BitOf |-> Halved(x, h, 4)[p]]
      BY <2>1, HalvedAt
    <2>5. QED
      BY <2>3, <2>4 DEF h
  <1>2. Halved(x, {2, 3, 6, 7}, 2) = [p \in BitOf |-> IF p \in {0, 1, 4, 5} THEN x[p + 2] ELSE x[p - 2]]
    <2> DEFINE h == {2, 3, 6, 7}
               l == {0, 1, 4, 5}
    <2>1. h \in SUBSET BitOf /\ 2 \in 1 .. 7
      BY DEF BitOf
    <2>2. \A p \in BitOf : /\ p \in l => p + 2 \in h /\ ~ (p - 2 \in BitOf /\ p - 2 \notin h)
                           /\ p \notin l => p - 2 \in BitOf /\ p - 2 \notin h /\ p + 2 \notin h
      BY DEF BitOf
    <2> HIDE DEF h, l
    <2>3. \A p \in BitOf : Halved(x, h, 2)[p] = IF p \in l THEN x[p + 2] ELSE x[p - 2]
      BY <2>1, <2>2, HalvedAt
    <2>4. Halved(x, h, 2) = [p \in BitOf |-> Halved(x, h, 2)[p]]
      BY <2>1, HalvedAt
    <2>5. QED
      BY <2>3, <2>4 DEF h, l
  <1>3. Halved(x, {1, 3, 5, 7}, 1) = [p \in BitOf |-> IF p \in {0, 2, 4, 6} THEN x[p + 1] ELSE x[p - 1]]
    <2> DEFINE h == {1, 3, 5, 7}
               l == {0, 2, 4, 6}
    <2>1. h \in SUBSET BitOf /\ 1 \in 1 .. 7
      BY DEF BitOf
    <2>2. \A p \in BitOf : /\ p \in l => p + 1 \in h /\ ~ (p - 1 \in BitOf /\ p - 1 \notin h)
                           /\ p \notin l => p - 1 \in BitOf /\ p - 1 \notin h /\ p + 1 \notin h
      BY DEF BitOf
    <2> HIDE DEF h, l
    <2>3. \A p \in BitOf : Halved(x, h, 1)[p] = IF p \in l THEN x[p + 1] ELSE x[p - 1]
      BY <2>1, <2>2, HalvedAt
    <2>4. Halved(x, h, 1) = [p \in BitOf |-> Halved(x, h, 1)[p]]
      BY <2>1, HalvedAt
    <2>5. QED
      BY <2>3, <2>4 DEF h, l
  <1>4. QED
    BY <1>1, <1>2, <1>3

\* ReverseBits turns the byte.
LEMMA ByteReversed ==
  ASSUME NEW x \in Byte
  PROVE  ReverseBits(x) = Turned(x) /\ Turned(x) \in Byte
  <1> DEFINE a == [p \in BitOf |-> IF p < 4 THEN x[p + 4] ELSE x[p - 4]]
             b == [p \in BitOf |-> IF p \in {0, 1, 4, 5} THEN a[p + 2] ELSE a[p - 2]]
             c == [p \in BitOf |-> IF p \in {0, 2, 4, 6} THEN b[p + 1] ELSE b[p - 1]]
  <1>1. a \in Byte
    BY DEF Byte, BitOf
  <1>2. b \in Byte
    <2> HIDE DEF a
    <2>1. \A p \in BitOf : (p \in {0, 1, 4, 5} => p + 2 \in BitOf) /\ (p \notin {0, 1, 4, 5} => p - 2 \in BitOf)
      BY DEF BitOf
    <2>2. QED
      BY <1>1, <2>1 DEF Byte
  <1>3. ReverseBits(x) = Halved(Halved(Halved(x, {4, 5, 6, 7}, 4), {2, 3, 6, 7}, 2), {1, 3, 5, 7}, 1)
    BY DEF ReverseBits, Halved
  <1>4. Halved(x, {4, 5, 6, 7}, 4) = a
    BY Halves
  <1>5. Halved(a, {2, 3, 6, 7}, 2) = b
    <2> HIDE DEF a
    <2> QED
      BY <1>1, Halves
  <1>6. Halved(b, {1, 3, 5, 7}, 1) = c
    <2> HIDE DEF b
    <2> QED
      BY <1>2, Halves
  <1>7. \A p \in BitOf : c[p] = x[7 - p]
    <2> SUFFICES ASSUME NEW p \in BitOf
                 PROVE  c[p] = x[7 - p]
      OBVIOUS
    <2> DEFINE q == IF p \in {0, 2, 4, 6} THEN p + 1 ELSE p - 1
               s == IF q \in {0, 1, 4, 5} THEN q + 2 ELSE q - 2
               t == IF s < 4 THEN s + 4 ELSE s - 4
    <2>1. q \in BitOf /\ s \in BitOf /\ t = 7 - p
      BY DEF BitOf
    <2>2. c[p] = b[q]
      <3> HIDE DEF b
      <3> QED
        OBVIOUS
    <2>3. b[q] = a[s]
      <3> HIDE DEF a, q
      <3> QED
        BY <2>1
    <2>4. a[s] = x[t]
      <3> HIDE DEF s
      <3> QED
        BY <2>1
    <2> HIDE DEF a, b, c, q, s, t
    <2>5. QED
      BY <2>1, <2>2, <2>3, <2>4
  <1>8. c = Turned(x)
    <2> HIDE DEF b
    <2> QED
      BY <1>7 DEF Turned
  <1>9. Turned(x) \in Byte
    <2>1. \A p \in BitOf : 7 - p \in BitOf
      BY DEF BitOf
    <2>2. QED
      BY <2>1 DEF Byte, Turned
  <1> HIDE DEF a, b, c
  <1>10. QED
    BY <1>3, <1>4, <1>5, <1>6, <1>8, <1>9

\* Exclusive or undoes itself, on labelled bits too.
LEMMA XorTwice ==
  ASSUME NEW x \in Byte, NEW y \in Byte
  PROVE  /\ Bytewise(Xor, x, y) \in Byte
         /\ Bytewise(Xor, y, Bytewise(Xor, x, y)) = x
         /\ Bytewise(Xor, Bytewise(Xor, x, y), x) = y
  <1>1. \A a, b \in Bit : Xor(a, b) \in Bit /\ Xor(b, Xor(a, b)) = a /\ Xor(Xor(a, b), a) = b
    BY DEF Xor, Bit
  <1>2. \A p \in BitOf : x[p] \in Bit /\ y[p] \in Bit
    BY DEF Byte
  <1>3. Bytewise(Xor, x, y) = [p \in BitOf |-> Xor(x[p], y[p])]
    BY DEF Bytewise
  <1>4. x = [p \in BitOf |-> x[p]] /\ y = [p \in BitOf |-> y[p]]
    BY DEF Byte
  <1> DEFINE z == [p \in BitOf |-> Xor(x[p], y[p])]
  <1>5. Bytewise(Xor, y, z) = [p \in BitOf |-> Xor(y[p], Xor(x[p], y[p]))]
    BY DEF Bytewise
  <1>6. Bytewise(Xor, z, x) = [p \in BitOf |-> Xor(Xor(x[p], y[p]), x[p])]
    BY DEF Bytewise
  <1>7. z \in Byte
    BY <1>1, <1>2 DEF Byte
  <1>8. Bytewise(Xor, y, z) = x
    BY <1>1, <1>2, <1>4, <1>5
  <1>9. Bytewise(Xor, z, x) = y
    BY <1>1, <1>2, <1>4, <1>6
  <1>10. QED
    BY <1>3, <1>7, <1>8, <1>9

\* Three exclusive ors exchange two different bytes.
LEMMA BytesExchanged ==
  ASSUME NEW n \in Nat, NEW m \in ByteBlocks(n), NEW i \in 0 .. n - 1, NEW j \in 0 .. n - 1, i # j
  PROVE  XorSwap(m, i, j) = Swapped(m, i, j)
  <1> DEFINE z == Bytewise(Xor, m[i], m[j])
             m1 == [m EXCEPT ![i] = z]
             m2 == [m1 EXCEPT ![j] = Bytewise(Xor, m1[j], m1[i])]
  <1>1. /\ Bytewise(Xor, m[j], z) = m[i]
        /\ Bytewise(Xor, z, m[i]) = m[j]
    BY XorTwice DEF ByteBlocks
  <1>2. m1[j] = m[j] /\ m1[i] = z
    BY DEF ByteBlocks
  <1>3. m2 = [m1 EXCEPT ![j] = m[i]]
    BY <1>1, <1>2
  <1>4. m2[i] = z /\ m2[j] = m[i]
    <2> HIDE DEF z
    <2> QED
      BY <1>3 DEF ByteBlocks
  <1>5. XorSwap(m, i, j) = [m2 EXCEPT ![i] = Bytewise(Xor, m2[i], m2[j])]
    BY DEF XorSwap
  <1>6. XorSwap(m, i, j) = [[[m EXCEPT ![i] = z] EXCEPT ![j] = m[i]] EXCEPT ![i] = m[j]]
    <2> HIDE DEF z, m2
    <2> QED
      BY <1>1, <1>3, <1>4, <1>5
  <1> HIDE DEF z
  <1>7. QED
    BY <1>6 DEF Swapped, ByteBlocks

\* One turn of the loop of SwapHalves.
HalvesTurn(s, n, i, reverse) ==
  XorSwap(IF reverse THEN [s EXCEPT ![i] = ReverseBits(@), ![n - i - 1] = ReverseBits(@)] ELSE s, i, n - i - 1)

\* The bytes in the other order; the one in the middle is not turned.
Backwards(n, m, reverse, k) ==
  [j \in 0 .. n - 1 |->
     IF j < k \/ n - 1 - j < k THEN (IF reverse THEN Turned(m[n - 1 - j]) ELSE m[n - 1 - j]) ELSE m[j]]

\* SwapHalves turns the order of the bytes, for every length.
LEMMA HalvesSwapped ==
  ASSUME NEW n \in Nat, NEW m \in ByteBlocks(n), NEW reverse \in BOOLEAN
  PROVE  SwapHalves(m, reverse) = Backwards(n, m, reverse, n \div 2)
  <1> DEFINE turns == n \div 2
             w(k) == Backwards(n, m, reverse, k)
             Loop(f) == f = [k \in 0 .. turns |->
                               IF k = 0 THEN m ELSE HalvesTurn(f[k - 1], n, k - 1, reverse)]
             g == [k \in 0 .. turns |-> w(k)]
             f == CHOOSE f : Loop(f)
  <1>1. turns \in Nat /\ 2 * turns <= n
    OBVIOUS
  <1> HIDE DEF turns
  <1>2. \A k \in 0 .. turns : w(k) \in ByteBlocks(n)
    <2>1. \A j \in 0 .. n - 1 : n - 1 - j \in 0 .. n - 1
      OBVIOUS
    <2>2. \A j \in 0 .. n - 1 : m[j] \in Byte /\ Turned(m[j]) \in Byte
      BY ByteReversed DEF ByteBlocks
    <2>3. QED
      BY <2>1, <2>2 DEF ByteBlocks, Backwards
  <1>3. w(0) = m
    BY DEF ByteBlocks, Backwards
  <1>4. ASSUME NEW k \in 1 .. turns
        PROVE  HalvesTurn(g[k - 1], n, k - 1, reverse) = g[k]
    <2> DEFINE u == w(k - 1)
               i == k - 1
               j == n - (k - 1) - 1
               t == IF reverse THEN [u EXCEPT ![i] = ReverseBits(@), ![j] = ReverseBits(@)] ELSE u
    <2>1. /\ k - 1 \in 0 .. turns /\ k \in 0 .. turns /\ i \in 0 .. n - 1 /\ j \in 0 .. n - 1 /\ i < j /\ i # j
          /\ n - 1 - i = j /\ n - 1 - j = i
      BY <1>1
    <2>2. u \in ByteBlocks(n) /\ w(k) \in ByteBlocks(n)
      BY <1>2, <2>1
    <2>3. u[i] = m[i] /\ u[j] = m[j]
      BY <2>1 DEF Backwards
    <2>4. g[k - 1] = u /\ g[k] = w(k)
      BY <2>1
    <2>5. \A q \in 0 .. n - 1 : q # i /\ q # j => w(k)[q] = u[q]
      <3> SUFFICES ASSUME NEW q \in 0 .. n - 1, q # i, q # j PROVE w(k)[q] = u[q]
        OBVIOUS
      <3>1. (q < k <=> q < k - 1) /\ (n - 1 - q < k <=> n - 1 - q < k - 1)
        BY <2>1
      <3>2. QED
        BY <3>1 DEF Backwards
    <2>6. /\ w(k)[i] = IF reverse THEN Turned(m[j]) ELSE m[j]
          /\ w(k)[j] = IF reverse THEN Turned(m[i]) ELSE m[i]
      <3>1. i < k /\ n - 1 - j < k
        BY <2>1
      <3> HIDE DEF i, j
      <3>2. QED
        BY <2>1, <3>1 DEF Backwards
    <2> HIDE DEF i, j, u, w, g
    <2>7. m[i] \in Byte /\ m[j] \in Byte
      BY <2>1 DEF ByteBlocks
    <2>8. /\ t \in ByteBlocks(n) /\ \A q \in 0 .. n - 1 : q # i /\ q # j => t[q] = u[q]
          /\ t[i] = IF reverse THEN Turned(m[i]) ELSE m[i]
          /\ t[j] = IF reverse THEN Turned(m[j]) ELSE m[j]
      <3>1. CASE reverse
        <4>1. ReverseBits(m[i]) = Turned(m[i]) /\ ReverseBits(m[j]) = Turned(m[j])
              /\ Turned(m[i]) \in Byte /\ Turned(m[j]) \in Byte
          BY <2>7, ByteReversed
        <4>2. t = [u EXCEPT ![i] = ReverseBits(u[i]), ![j] = ReverseBits(u[j])]
          BY <2>1, <2>2, <3>1 DEF ByteBlocks
        <4>3. t = [u EXCEPT ![i] = Turned(m[i]), ![j] = Turned(m[j])]
          BY <2>3, <4>1, <4>2
        <4> HIDE DEF t
        <4>4. QED
          BY <2>1, <2>2, <3>1, <4>1, <4>3 DEF ByteBlocks
      <3>2. CASE ~ reverse
        BY <2>2, <2>3, <3>2
      <3>3. QED
        BY <3>1, <3>2
    <2>9. HalvesTurn(u, n, k - 1, reverse) = XorSwap(t, i, j)
      BY DEF HalvesTurn, i, j
    <2> HIDE DEF t
    <2>10. XorSwap(t, i, j) = Swapped(t, i, j)
      BY <2>1, <2>8, BytesExchanged
    <2>11. Swapped(t, i, j) = w(k)
      <3>1. t = [q \in 0 .. n - 1 |-> t[q]] /\ w(k) = [q \in 0 .. n - 1 |-> w(k)[q]]
        BY <2>2, <2>8 DEF ByteBlocks
      <3>2. Swapped(t, i, j) = [q \in 0 .. n - 1 |-> IF q = j THEN t[i] ELSE IF q = i THEN t[j] ELSE t[q]]
        BY <2>1, <3>1 DEF Swapped
      <3>3. \A q \in 0 .. n - 1 : w(k)[q] = IF q = j THEN t[i] ELSE IF q = i THEN t[j] ELSE t[q]
        BY <2>5, <2>6, <2>8
      <3>4. QED
        BY <3>1, <3>2, <3>3
    <2>12. QED
      BY <2>4, <2>9, <2>10, <2>11
  <1>5. Loop(g)
    <2>1. ASSUME NEW k \in 0 .. turns
          PROVE  g[k] = IF k = 0 THEN m ELSE HalvesTurn(g[k - 1], n, k - 1, reverse)
      <3>1. k = 0 \/ k \in 1 .. turns
        BY <1>1
      <3>2. g[0] = m
        BY <1>1, <1>3
      <3> HIDE DEF g
      <3>3. QED
        BY <1>4, <3>1, <3>2
    <2>2. g = [k \in 0 .. turns |-> g[k]]
      OBVIOUS
    <2> HIDE DEF g
    <2>3. QED
      BY <2>1, <2>2
  <1>6. Loop(f)
    <2> HIDE DEF g
    <2> QED
      BY <1>5
  <1>7. f[turns] = w(turns)
    <2>1. g[0] = m /\ g[turns] = w(turns)
      BY <1>1, <1>3
    <2> HIDE DEF f, g, w
    <2>2. f[0] = g[0]
      BY <1>1, <1>6, <2>1
    <2>3. ASSUME NEW k \in 1 .. turns, f[k - 1] = g[k - 1]
          PROVE  f[k] = g[k]
      <3>1. k \in 0 .. turns /\ k # 0
        BY <1>1
      <3>2. f[k] = HalvesTurn(f[k - 1], n, k - 1, reverse)
        BY <1>6, <3>1
      <3>3. QED
        BY <1>4, <2>3, <3>2
    <2>4. QED
      BY <1>1, <2>1, <2>2, <2>3, OneSolution
  <1>8. SwapHalves(m, reverse) = f[turns]
    <2>1. Cardinality(DOMAIN m) = n
      BY FS_Interval DEF ByteBlocks
    <2>2. QED
      BY <2>1 DEF SwapHalves, HalvesTurn, turns
  <1>9. QED
    BY <1>7, <1>8 DEF turns

\* A conversion between two endians, in either direction.
Between(from, to, x, y) == {from, to} = {x, y}
AllTurned(n, m) == [j \in 0 .. n - 1 |-> Turned(m[j])]

\* What a conversion leaves of a block.
Lone(n) == n = 1

\* What a conversion does to a block: nothing, each byte turned, or the order of the
\* bytes turned, with or without the bits.
LEMMA BlockConverted ==
  ASSUME NEW n \in Nat \ {0}, NEW m \in ByteBlocks(n), NEW from \in Endians, NEW to \in Endians
  PROVE  /\ Between(from, to, LE, BE) => Converted(m, from, to) = Backwards(n, m, FALSE, n \div 2)
         /\ Between(from, to, BE, RBE) => Converted(m, from, to) = AllTurned(n, m)
         /\ Between(from, to, LE, RBE) /\ Lone(n) => Converted(m, from, to) = AllTurned(n, m)
         /\ Between(from, to, LE, RBE) /\ ~Lone(n) => Converted(m, from, to) = Backwards(n, m, TRUE, n \div 2)
         /\ from = to => Converted(m, from, to) = m
         /\ Between(from, to, LE, BE) \/ Between(from, to, BE, RBE) \/ Between(from, to, LE, RBE) \/ from = to
  <1>1. LE # BE /\ LE # RBE /\ BE # RBE
    BY DEF LE, BE, RBE
  <1>2. Cardinality(DOMAIN m) = n /\ DOMAIN m = 0 .. n - 1
    BY FS_Interval DEF ByteBlocks
  <1>3. \A j \in 0 .. n - 1 : ReverseBits(m[j]) = Turned(m[j])
    BY ByteReversed DEF ByteBlocks
  <1>4. [j \in 0 .. n - 1 |-> ReverseBits(m[j])] = [j \in 0 .. n - 1 |-> Turned(m[j])]
    BY <1>3
  <1>5. SwapHalves(m, FALSE) = Backwards(n, m, FALSE, n \div 2) /\ SwapHalves(m, TRUE) = Backwards(n, m, TRUE, n \div 2)
    BY HalvesSwapped
  <1>6. /\ {LE, BE} # {BE, RBE} /\ {LE, BE} # {LE, RBE} /\ {BE, RBE} # {LE, RBE}
    BY <1>1
  <1> DEFINE lb == {LE, BE}
             br == {BE, RBE}
             lr == {LE, RBE}
             ft == {from, to}
  <1>7. from = to => ft # lb /\ ft # br /\ ft # lr
    BY <1>1
  <1> HIDE DEF lb, br, lr, ft
  <1>8. lb # br /\ lb # lr /\ br # lr
    BY <1>6 DEF lb, br, lr
  <1>9. Converted(m, from, to) =
          CASE ft = lb -> SwapHalves(m, FALSE)
            [] ft = br -> [j \in DOMAIN m |-> ReverseBits(m[j])]
            [] ft = lr -> IF Cardinality(DOMAIN m) = 1 THEN [j \in DOMAIN m |-> ReverseBits(m[j])] ELSE SwapHalves(m, TRUE)
            [] OTHER -> m
    BY DEF Converted, lb, br, lr, ft
  <1>10. /\ ft = lb => Converted(m, from, to) = SwapHalves(m, FALSE)
         /\ ft = br => Converted(m, from, to) = [j \in DOMAIN m |-> ReverseBits(m[j])]
         /\ ft = lr => Converted(m, from, to) = IF Cardinality(DOMAIN m) = 1 THEN [j \in DOMAIN m |-> ReverseBits(m[j])] ELSE SwapHalves(m, TRUE)
         /\ ft # lb /\ ft # br /\ ft # lr => Converted(m, from, to) = m
    BY <1>8, <1>9
  <1>11. QED
    <2>1. /\ Between(from, to, LE, BE) <=> ft = lb
          /\ Between(from, to, BE, RBE) <=> ft = br
          /\ Between(from, to, LE, RBE) <=> ft = lr
      BY DEF Between, lb, br, lr, ft
    <2>2. Between(from, to, LE, BE) \/ Between(from, to, BE, RBE) \/ Between(from, to, LE, RBE) \/ from = to
      BY DEF Between, Endians
    <2>3. QED
      BY <1>2, <1>4, <1>5, <1>7, <1>10, <2>1, <2>2 DEF AllTurned, Lone

-----------------------------------------------------------------------------
(* Operators keep to bits, bytes, blocks and buffers                       *)

\* Two labels are encoded as one.
LEMMA PairIsBit ==
  ASSUME NEW code \in Int, NEW a \in Bit, NEW b \in Bit, a # Zero, b # Zero
  PROVE  Pair(code, a, b) \in Bit
  <1>1. (CHOOSE x \in a : TRUE) \in Int /\ (CHOOSE x \in b : TRUE) \in Int
    BY DEF Bit, Zero
  <1>2. QED
    BY <1>1 DEF Pair, Bit

\* The union of two bits is a bit.
LEMMA OrIsBit ==
  ASSUME NEW a \in Bit, NEW b \in Bit
  PROVE  Or(a, b) \in Bit
  <1>1. CASE a = Zero \/ b = Zero \/ a = b \/ a = One \/ b = One
    BY <1>1 DEF Or
  <1>2. CASE ~ (a = Zero \/ b = Zero \/ a = b \/ a = One \/ b = One)
    <2>1. Or(a, b) = Pair(10000, a, b)
      BY <1>2 DEF Or
    <2>2. QED
      BY <1>2, <2>1, PairIsBit
  <1>3. QED
    BY <1>1, <1>2

\* The conjunction of two bits is a bit.
LEMMA AndIsBit ==
  ASSUME NEW a \in Bit, NEW b \in Bit
  PROVE  And(a, b) \in Bit
  <1>1. CASE a = Zero \/ b = Zero \/ a = b \/ a = One \/ b = One
    BY <1>1 DEF And
  <1>2. CASE ~ (a = Zero \/ b = Zero \/ a = b \/ a = One \/ b = One)
    <2>1. And(a, b) = Pair(20000, a, b)
      BY <1>2 DEF And
    <2>2. QED
      BY <1>2, <2>1, PairIsBit
  <1>3. QED
    BY <1>1, <1>2

\* The operators on bytes give bytes.
LEMMA BytesClosed ==
  /\ LowByte \in Byte
  /\ \A x \in Byte, k \in Int : Shl(x, k) \in Byte /\ Shr(x, k) \in Byte
  /\ \A x, y \in Byte : /\ Bytewise(Or, x, y) \in Byte /\ Bytewise(And, x, y) \in Byte
                        /\ Bytewise(Xor, x, y) \in Byte
  <1>1. Zero \in Bit
    BY BitsClosed
  <1>2. LowByte \in Byte
    BY <1>1 DEF LowByte, Byte
  <1>3. \A x \in Byte, k \in Int : Shl(x, k) \in Byte /\ Shr(x, k) \in Byte
    BY <1>1 DEF Shl, Shr, Byte
  <1>4. ASSUME NEW x \in Byte, NEW y \in Byte
        PROVE  /\ Bytewise(Or, x, y) \in Byte /\ Bytewise(And, x, y) \in Byte
               /\ Bytewise(Xor, x, y) \in Byte
    <2>1. \A p \in BitOf : x[p] \in Bit /\ y[p] \in Bit
      BY DEF Byte
    <2>2. \A p \in BitOf : Or(x[p], y[p]) \in Bit
      BY <2>1, OrIsBit
    <2>3. \A p \in BitOf : And(x[p], y[p]) \in Bit
      BY <2>1, AndIsBit
    <2>4. \A p \in BitOf : Xor(x[p], y[p]) \in Bit
      BY <2>1, BitsClosed
    <2>5. QED
      BY <2>2, <2>3, <2>4 DEF Bytewise, Byte
  <1>5. QED
    BY <1>2, <1>3, <1>4

\* A buffer with other bytes.
WithData(b, d) == [b EXCEPT !.data = d]

\* Other bytes leave the layout alone.
LEMMA DataReplaced ==
  ASSUME NEW n \in Nat, NEW b \in BufferOf(n), NEW k \in Nat, NEW d \in ByteBlocks(k)
  PROVE  /\ WithData(b, d) \in BufferOf(k) /\ WithData(b, d).data = d
         /\ WithData(b, d).endian = b.endian /\ WithData(b, d).dependent = b.dependent
         /\ WithData(b, d).safe = b.safe
  BY DEF WithData, BufferOf, ByteBlocks

\* What the type says of the bytes.
LEMMA DataOf ==
  ASSUME NEW n \in Nat, NEW b \in BufferOf(n)
  PROVE  /\ b.data \in ByteBlocks(n) /\ DOMAIN b.data = 0 .. n - 1 /\ Cardinality(DOMAIN b.data) = n
         /\ b.endian \in Endians /\ b.dependent \in BOOLEAN /\ b.safe \in BOOLEAN
         /\ WithData(b, b.data) = b
  <1>1. b.data \in ByteBlocks(n) /\ b.endian \in Endians /\ b.dependent \in BOOLEAN /\ b.safe \in BOOLEAN
    BY DEF BufferOf, ByteBlocks
  <1>2. WithData(b, b.data) = b
    BY DEF WithData, BufferOf
  <1>3. QED
    BY <1>1, <1>2, FS_Interval DEF ByteBlocks

-----------------------------------------------------------------------------
(* Byte shifts                                                             *)

\* A block shifted by d bytes, and one rotated by d bytes.
ShiftedBytes(n, m, d, fill) == [j \in 0 .. n - 1 |-> IF j + d \in 0 .. n - 1 THEN m[j + d] ELSE fill]

\* An index that left 0..n-1 by less than n comes in again at the other end.
Wrap(n, x) == IF x < 0 THEN x + n ELSE IF x >= n THEN x - n ELSE x
RotatedBytes(n, m, d) == [j \in 0 .. n - 1 |-> m[Wrap(n, j + d)]]

\* Zero is its own opposite.
LEMMA MinusZero ==
  ASSUME NEW s \in Int, s < 1, s > -1
  PROVE  s = -s
  OBVIOUS

\* The four direct byte shifts, as one operator.
LEMMA BlockShifts ==
  ASSUME NEW n \in Nat \ {0}, NEW m \in ByteBlocks(n), NEW s \in 0 .. n - 1, NEW fill
  PROVE  /\ leftDirectBytesShiftBE(m, s, fill) = ShiftedBytes(n, m, s, fill)
         /\ rightDirectBytesShiftBE(m, s, fill) = ShiftedBytes(n, m, -s, fill)
  <1>1. Cardinality(DOMAIN m) = n /\ m = [j \in 0 .. n - 1 |-> m[j]]
    BY FS_Interval DEF ByteBlocks
  <1>2. CASE s = 0
    <2>1. leftDirectBytesShiftBE(m, s, fill) = m /\ rightDirectBytesShiftBE(m, s, fill) = m
      BY <1>1, <1>2 DEF leftDirectBytesShiftBE, rightDirectBytesShiftBE
    <2>2. ShiftedBytes(n, m, 0, fill) = m
      BY <1>1 DEF ShiftedBytes
    <2>3. s = -s
      <3>1. s < 1 /\ s > -1
        BY <1>2
      <3>2. QED
        BY <3>1, MinusZero
    <2>4. QED
      BY <1>2, <2>1, <2>2, <2>3
  <1>3. CASE s \in 1 .. n - 1
    <2>1. leftDirectBytesShiftBE(m, s, fill) = CopyBytes(m, At(n, 1, 0), At(n, 1, s), At(n, 1, n), 1, fill)
      BY <1>1, <1>3 DEF leftDirectBytesShiftBE, At
    <2>2. rightDirectBytesShiftBE(m, s, fill) = CopyBytes(m, At(n, -1, 0), At(n, -1, s), At(n, -1, n), -1, fill)
      <3>1. At(n, -1, 0) = n - 1 /\ At(n, -1, s) = n - s - 1 /\ At(n, -1, n) = -1
        BY DEF At
      <3>2. QED
        BY <1>1, <1>3, <3>1 DEF rightDirectBytesShiftBE
    <2>3. 1 \in Steps /\ -1 \in Steps
      BY DEF Steps
    <2>4. leftDirectBytesShiftBE(m, s, fill) =
            [j \in 0 .. n - 1 |-> IF At(n, 1, j) < n - s THEN m[At(n, 1, At(n, 1, j) + s)] ELSE fill]
      BY <1>3, <2>1, <2>3, BytesMoved
    <2>5. rightDirectBytesShiftBE(m, s, fill) =
            [j \in 0 .. n - 1 |-> IF At(n, -1, j) < n - s THEN m[At(n, -1, At(n, -1, j) + s)] ELSE fill]
      BY <1>3, <2>2, <2>3, BytesMoved
    <2>6. \A j \in 0 .. n - 1 : /\ At(n, 1, j) < n - s <=> j + s \in 0 .. n - 1
                                /\ At(n, 1, At(n, 1, j) + s) = j + s
      BY <1>3 DEF At
    <2>7. \A j \in 0 .. n - 1 : /\ At(n, -1, j) < n - s <=> j + (-s) \in 0 .. n - 1
                                /\ At(n, -1, At(n, -1, j) + s) = j + (-s)
      BY <1>3 DEF At
    <2>8. leftDirectBytesShiftBE(m, s, fill) = ShiftedBytes(n, m, s, fill)
      BY <2>4, <2>6 DEF ShiftedBytes
    <2>9. rightDirectBytesShiftBE(m, s, fill) = ShiftedBytes(n, m, -s, fill)
      BY <2>5, <2>7 DEF ShiftedBytes
    <2>10. QED
      BY <2>8, <2>9
  <1>4. QED
    BY <1>2, <1>3

\* The four round byte shifts, as one operator.
LEMMA BlockRotations ==
  ASSUME NEW n \in Nat \ {0}, NEW m \in ByteBlocks(n), NEW s \in 0 .. n - 1
  PROVE  /\ leftRoundBytesShiftBE(m, s) = RotatedBytes(n, m, s)
         /\ rightRoundBytesShiftBE(m, s) = RotatedBytes(n, m, -s)
  <1>1. Cardinality(DOMAIN m) = n /\ m = [j \in 0 .. n - 1 |-> m[j]]
    BY FS_Interval DEF ByteBlocks
  <1>2. CASE s = 0
    <2>1. leftRoundBytesShiftBE(m, s) = m /\ rightRoundBytesShiftBE(m, s) = m
      BY <1>1, <1>2 DEF leftRoundBytesShiftBE, rightRoundBytesShiftBE
    <2>2. RotatedBytes(n, m, 0) = m
      <3>1. \A j \in 0 .. n - 1 : Wrap(n, j + 0) = j
        BY DEF Wrap
      <3>2. QED
        BY <1>1, <3>1 DEF RotatedBytes
    <2>3. s = -s
      <3>1. s < 1 /\ s > -1
        BY <1>2
      <3>2. QED
        BY <3>1, MinusZero
    <2>4. QED
      BY <1>2, <2>1, <2>2, <2>3
  <1>3. CASE s \in 1 .. n - 1
    <2>1. leftRoundBytesShiftBE(m, s) = SwapBytes(m, At(n, 1, 0), At(n, 1, s), At(n, 1, n), 1)
      BY <1>1, <1>3 DEF leftRoundBytesShiftBE, At
    <2>2. rightRoundBytesShiftBE(m, s) = SwapBytes(m, At(n, -1, 0), At(n, -1, s), At(n, -1, n), -1)
      <3>1. At(n, -1, 0) = n - 1 /\ At(n, -1, s) = n - s - 1 /\ At(n, -1, n) = -1
        BY DEF At
      <3>2. QED
        BY <1>1, <1>3, <3>1 DEF rightRoundBytesShiftBE
    <2>3. 1 \in Steps /\ -1 \in Steps
      BY DEF Steps
    <2>4. leftRoundBytesShiftBE(m, s) =
            [j \in 0 .. n - 1 |-> LET q == At(n, 1, j) IN m[At(n, 1, IF q + s < n THEN q + s ELSE q + s - n)]]
      BY <1>3, <2>1, <2>3, BytesRotated
    <2>5. rightRoundBytesShiftBE(m, s) =
            [j \in 0 .. n - 1 |-> LET q == At(n, -1, j) IN m[At(n, -1, IF q + s < n THEN q + s ELSE q + s - n)]]
      BY <1>3, <2>2, <2>3, BytesRotated
    <2>6. \A j \in 0 .. n - 1 : LET q == At(n, 1, j) IN
            At(n, 1, IF q + s < n THEN q + s ELSE q + s - n) = Wrap(n, j + s)
      BY <1>3 DEF At, Wrap
    <2>7. \A j \in 0 .. n - 1 : LET q == At(n, -1, j) IN
            At(n, -1, IF q + s < n THEN q + s ELSE q + s - n) = Wrap(n, j + (-s))
      BY <1>3 DEF At, Wrap
    <2>8. leftRoundBytesShiftBE(m, s) = RotatedBytes(n, m, s)
      BY <2>4, <2>6 DEF RotatedBytes
    <2>9. rightRoundBytesShiftBE(m, s) = RotatedBytes(n, m, -s)
      BY <2>5, <2>7 DEF RotatedBytes
    <2>10. QED
      BY <2>8, <2>9
  <1>4. QED
    BY <1>2, <1>3

\* The byte shifts of a buffer.
LEMMA ByteShifts ==
  ASSUME NEW n \in Nat \ {0}, NEW b \in BufferOf(n), NEW s \in Nat, NEW fill
  PROVE  /\ ByteShiftLeft(b, s, fill) =
              WithData(b, ShiftedBytes(n, b.data, IF Stored(b) = LE THEN -s ELSE s, fill))
         /\ ByteShiftRight(b, s, fill) =
              WithData(b, ShiftedBytes(n, b.data, IF Stored(b) = LE THEN s ELSE -s, fill))
  <1> DEFINE m == b.data
  <1>1. Size(b) = n /\ m \in ByteBlocks(n) /\ DOMAIN m = 0 .. n - 1
    BY SizeIs, DataOf
  <1> HIDE DEF m
  <1>2. CASE s >= n
    <2>1. /\ ShiftedBytes(n, m, s, fill) = [j \in 0 .. n - 1 |-> fill]
          /\ ShiftedBytes(n, m, -s, fill) = [j \in 0 .. n - 1 |-> fill]
      BY <1>2 DEF ShiftedBytes
    <2>2. /\ ByteShiftLeft(b, s, fill) = WithData(b, [j \in 0 .. n - 1 |-> fill])
          /\ ByteShiftRight(b, s, fill) = WithData(b, [j \in 0 .. n - 1 |-> fill])
      BY <1>1, <1>2 DEF ByteShiftLeft, ByteShiftRight, WithData, m
    <2>3. QED
      BY <2>1, <2>2 DEF m
  <1>3. CASE s < n
    <2>1. s \in 0 .. n - 1
      BY <1>3
    <2>2. /\ leftDirectBytesShiftBE(m, s, fill) = ShiftedBytes(n, m, s, fill)
          /\ rightDirectBytesShiftBE(m, s, fill) = ShiftedBytes(n, m, -s, fill)
      BY <1>1, <2>1, BlockShifts
    <2>3. /\ leftDirectBytesShiftLE(m, s, fill) = ShiftedBytes(n, m, -s, fill)
          /\ rightDirectBytesShiftLE(m, s, fill) = ShiftedBytes(n, m, s, fill)
      BY <2>2 DEF leftDirectBytesShiftLE, rightDirectBytesShiftLE
    <2>4. ~ (s >= Size(b))
      BY <1>1, <1>3
    <2>5. ByteShiftLeft(b, s, fill) =
            WithData(b, IF Stored(b) = LE THEN leftDirectBytesShiftLE(m, s, fill) ELSE leftDirectBytesShiftBE(m, s, fill))
      BY <2>4 DEF ByteShiftLeft, WithData, m
    <2>6. ByteShiftRight(b, s, fill) =
            WithData(b, IF Stored(b) = LE THEN rightDirectBytesShiftLE(m, s, fill) ELSE rightDirectBytesShiftBE(m, s, fill))
      BY <2>4 DEF ByteShiftRight, WithData, m
    <2>7. QED
      BY <2>2, <2>3, <2>5, <2>6 DEF m
  <1>4. QED
    BY <1>2, <1>3

\* A remainder is below its divisor.
LEMMA Remainder ==
  ASSUME NEW n \in Nat \ {0}, NEW s \in Nat
  PROVE  s % n \in 0 .. n - 1
  OBVIOUS

\* The round byte shifts of a buffer.
LEMMA ByteRotations ==
  ASSUME NEW n \in Nat \ {0}, NEW b \in BufferOf(n), NEW s \in Nat, NEW r, r = s % n
  PROVE  /\ r \in 0 .. n - 1
         /\ ByteRoundShiftLeft(b, s) = WithData(b, RotatedBytes(n, b.data, IF Stored(b) = LE THEN -r ELSE r))
         /\ ByteRoundShiftRight(b, s) = WithData(b, RotatedBytes(n, b.data, IF Stored(b) = LE THEN r ELSE -r))
  <1> DEFINE m == b.data
  <1>1. Size(b) = n /\ m \in ByteBlocks(n)
    BY SizeIs, DataOf
  <1>2. r \in 0 .. n - 1
    BY Remainder
  <1> HIDE DEF m
  <1>3. /\ leftRoundBytesShiftBE(m, r) = RotatedBytes(n, m, r)
        /\ rightRoundBytesShiftBE(m, r) = RotatedBytes(n, m, -r)
    BY <1>1, <1>2, BlockRotations
  <1>4. /\ leftRoundBytesShiftLE(m, r) = RotatedBytes(n, m, -r)
        /\ rightRoundBytesShiftLE(m, r) = RotatedBytes(n, m, r)
    BY <1>3 DEF leftRoundBytesShiftLE, rightRoundBytesShiftLE
  <1>5. ByteRoundShiftLeft(b, s) =
          WithData(b, IF Stored(b) = LE THEN leftRoundBytesShiftLE(m, r) ELSE leftRoundBytesShiftBE(m, r))
    BY <1>1 DEF ByteRoundShiftLeft, WithData, m
  <1>6. ByteRoundShiftRight(b, s) =
          WithData(b, IF Stored(b) = LE THEN rightRoundBytesShiftLE(m, r) ELSE rightRoundBytesShiftBE(m, r))
    BY <1>1 DEF ByteRoundShiftRight, WithData, m
  <1>7. QED
    BY <1>2, <1>3, <1>4, <1>5, <1>6 DEF m

\* A shifted block is a block, and so is a rotated one.
LEMMA BlocksShifted ==
  ASSUME NEW n \in Nat \ {0}, NEW m \in ByteBlocks(n), NEW d \in Int, NEW fill \in Byte
  PROVE  /\ ShiftedBytes(n, m, d, fill) \in ByteBlocks(n)
         /\ d \in -(n - 1) .. n - 1 => RotatedBytes(n, m, d) \in ByteBlocks(n)
  <1>1. ShiftedBytes(n, m, d, fill) \in ByteBlocks(n)
    BY DEF ShiftedBytes, ByteBlocks
  <1>2. ASSUME d \in -(n - 1) .. n - 1
        PROVE  RotatedBytes(n, m, d) \in ByteBlocks(n)
    <2>1. \A j \in 0 .. n - 1 : Wrap(n, j + d) \in 0 .. n - 1
      BY <1>2 DEF Wrap
    <2>2. QED
      BY <2>1 DEF RotatedBytes, ByteBlocks
  <1>3. QED
    BY <1>1, <1>2

-----------------------------------------------------------------------------
(* Every operation makes a buffer                                          *)

\* A buffer of n bytes laid out like b.
Like(b, n) == {d \in BufferOf(n) : d.endian = b.endian /\ d.dependent = b.dependent /\ d.safe = b.safe}

\* Buffers with other bytes are laid out alike.
LEMMA LikeData ==
  ASSUME NEW n \in Nat, NEW b \in BufferOf(n), NEW k \in Nat, NEW d \in ByteBlocks(k)
  PROVE  WithData(b, d) \in Like(b, k) /\ b \in Like(b, n) /\ Like(b, k) \subseteq BufferOf(k)
  BY DataReplaced DEF Like

\* Being laid out like another buffer is transitive.
LEMMA LikeLike ==
  ASSUME NEW n \in Nat, NEW b, NEW c \in Like(b, n), NEW k \in Nat, NEW d \in Like(c, k)
  PROVE  d \in Like(b, k)
  BY DEF Like

\* The byte a shift fills up with.
LEMMA FilledByte ==
  ASSUME NEW c, c.fill \in Bit
  PROVE  Filled(c) \in Byte
  BY DEF Filled, Byte

\* Shifting within the bytes keeps the length and the layout.
LEMMA TailKeeps ==
  ASSUME NEW n \in Nat, NEW b \in BufferOf(n), NEW step \in Int, NEW up \in BOOLEAN,
         NEW tail \in Int, NEW edge \in Byte
  PROVE  TailShift(b, step, up, tail, edge) \in Like(b, n)
  <1> DEFINE next(j) == IF j + step \in DOMAIN b.data THEN b.data[j + step] ELSE edge
             d == [j \in DOMAIN b.data |->
                     IF up THEN Bytewise(Or, Shr(next(j), 8 - tail), Shl(b.data[j], tail))
                     ELSE Bytewise(Or, Shl(next(j), 8 - tail), Shr(b.data[j], tail))]
  <1>1. TailShift(b, step, up, tail, edge) = WithData(b, d)
    BY DEF TailShift, WithData
  <1>2. b.data \in ByteBlocks(n) /\ DOMAIN b.data = 0 .. n - 1
    BY DataOf
  <1>3. \A j \in 0 .. n - 1 : next(j) \in Byte /\ b.data[j] \in Byte
    BY <1>2 DEF ByteBlocks
  <1>4. 8 - tail \in Int
    OBVIOUS
  <1> HIDE DEF next
  <1>5. \A j \in 0 .. n - 1 : /\ Bytewise(Or, Shr(next(j), 8 - tail), Shl(b.data[j], tail)) \in Byte
                              /\ Bytewise(Or, Shl(next(j), 8 - tail), Shr(b.data[j], tail)) \in Byte
    <2> SUFFICES ASSUME NEW j \in 0 .. n - 1
                 PROVE  /\ Bytewise(Or, Shr(next(j), 8 - tail), Shl(b.data[j], tail)) \in Byte
                        /\ Bytewise(Or, Shl(next(j), 8 - tail), Shr(b.data[j], tail)) \in Byte
      OBVIOUS
    <2>1. /\ Shr(next(j), 8 - tail) \in Byte /\ Shl(next(j), 8 - tail) \in Byte
          /\ Shr(b.data[j], tail) \in Byte /\ Shl(b.data[j], tail) \in Byte
      BY <1>3, <1>4, BytesClosed
    <2>2. QED
      BY <2>1, BytesClosed
  <1>6. d \in ByteBlocks(n)
    BY <1>2, <1>5 DEF ByteBlocks
  <1> HIDE DEF d
  <1>7. QED
    BY <1>1, <1>6, LikeData

\* So do the byte shifts.
LEMMA ByteShiftKeeps ==
  ASSUME NEW n \in Nat \ {0}, NEW b \in BufferOf(n), NEW s \in Nat, NEW fill \in Byte
  PROVE  /\ ByteShiftLeft(b, s, fill) \in Like(b, n) /\ ByteShiftRight(b, s, fill) \in Like(b, n)
         /\ ByteRoundShiftLeft(b, s) \in Like(b, n) /\ ByteRoundShiftRight(b, s) \in Like(b, n)
  <1> DEFINE r == s % n
             m == b.data
  <1>1. m \in ByteBlocks(n) /\ r \in 0 .. n - 1
    BY DataOf, Remainder
  <1>2. /\ ByteShiftLeft(b, s, fill) = WithData(b, ShiftedBytes(n, m, IF Stored(b) = LE THEN -s ELSE s, fill))
        /\ ByteShiftRight(b, s, fill) = WithData(b, ShiftedBytes(n, m, IF Stored(b) = LE THEN s ELSE -s, fill))
    BY ByteShifts
  <1>3. /\ ByteRoundShiftLeft(b, s) = WithData(b, RotatedBytes(n, m, IF Stored(b) = LE THEN -r ELSE r))
        /\ ByteRoundShiftRight(b, s) = WithData(b, RotatedBytes(n, m, IF Stored(b) = LE THEN r ELSE -r))
    BY ByteRotations
  <1> HIDE DEF m, r
  <1>4. ShiftedBytes(n, m, s, fill) \in ByteBlocks(n) /\ ShiftedBytes(n, m, -s, fill) \in ByteBlocks(n)
    BY <1>1, BlocksShifted
  <1>5. RotatedBytes(n, m, r) \in ByteBlocks(n) /\ RotatedBytes(n, m, -r) \in ByteBlocks(n)
    <2>1. r \in -(n - 1) .. n - 1 /\ -r \in -(n - 1) .. n - 1 /\ r \in Int /\ -r \in Int
      BY <1>1
    <2>2. QED
      BY <1>1, <2>1, BlocksShifted
  <1>6. QED
    BY <1>2, <1>3, <1>4, <1>5, LikeData

\* So do the bit shifts.
LEMMA BitShiftKeeps ==
  ASSUME NEW n \in Nat \ {0}, NEW b \in BufferOf(n), NEW c, c.shift \in Nat, c.fill \in Bit
  PROVE  /\ ShiftLeft(b, c) \in Like(b, n) /\ ShiftRight(b, c) \in Like(b, n)
         /\ RoundShiftLeft(b, c) \in Like(b, n) /\ RoundShiftRight(b, c) \in Like(b, n)
  <1>1. Filled(c) \in Byte
    BY FilledByte
  <1> DEFINE a == c.shift \div 8
             t == c.shift % 8
             e == c.shift % (8 * n)
             f == e \div 8
             u == e % 8
  <1>2. a \in Nat /\ t \in Int
    OBVIOUS
  <1>3. e \in Nat /\ f \in Nat /\ u \in Int
    <2>1. 8 * n \in Nat \ {0}
      OBVIOUS
    <2>2. e \in 0 .. 8 * n - 1
      BY <2>1, Remainder
    <2> HIDE DEF e
    <2>3. QED
      BY <2>2
  <1>4. Size(b) = n /\ Length(b) = 8 * n
    BY SizeIs
  <1> HIDE DEF a, t, e, f, u
  <1>5. ASSUME NEW s \in Like(b, n), NEW step \in Int, NEW up \in BOOLEAN, NEW tail \in Int, NEW edge \in Byte
        PROVE  TailShift(s, step, up, tail, edge) \in Like(b, n)
    BY <1>5, TailKeeps, LikeLike DEF Like
  <1>6. \A s \in Like(b, n) : s.data[0] \in Byte /\ s.data[n - 1] \in Byte
    BY DataOf DEF Like, ByteBlocks
  <1>7. -1 \in Int /\ 1 \in Int
    OBVIOUS
  <1>8. ShiftLeft(b, c) \in Like(b, n)
    <2> DEFINE s == ByteShiftLeft(b, a, Filled(c))
               up == Stored(b) \in {LE, "independent"}
    <2>1. s \in Like(b, n)
      BY <1>1, <1>2, ByteShiftKeeps
    <2>2. ShiftLeft(b, c) = IF t = 0 \/ c.shift >= Length(b) \/ Stored(b) = BE THEN s
                            ELSE TailShift(s, IF Stored(b) = LE THEN -1 ELSE 1, up, t, Filled(c))
      BY DEF ShiftLeft, a, t
    <2>3. up \in BOOLEAN
      OBVIOUS
    <2> HIDE DEF s, up
    <2>4. /\ TailShift(s, 1, up, t, Filled(c)) \in Like(b, n)
          /\ TailShift(s, -1, up, t, Filled(c)) \in Like(b, n)
      BY <1>1, <1>2, <1>5, <1>7, <2>1, <2>3
    <2>5. QED
      BY <2>1, <2>2, <2>4
  <1>9. ShiftRight(b, c) \in Like(b, n)
    <2> DEFINE s == ByteShiftRight(b, a, Filled(c))
    <2>1. s \in Like(b, n)
      BY <1>1, <1>2, ByteShiftKeeps
    <2>2. ShiftRight(b, c) = IF t = 0 \/ c.shift >= Length(b) THEN s
                             ELSE TailShift(s, IF Stored(b) = LE THEN 1 ELSE -1, FALSE, t, Filled(c))
      BY DEF ShiftRight, a, t
    <2> HIDE DEF s
    <2>3. /\ TailShift(s, 1, FALSE, t, Filled(c)) \in Like(b, n)
          /\ TailShift(s, -1, FALSE, t, Filled(c)) \in Like(b, n)
      BY <1>1, <1>2, <1>5, <1>7, <2>1
    <2>4. QED
      BY <2>1, <2>2, <2>3
  <1>10. RoundShiftLeft(b, c) \in Like(b, n)
    <2> DEFINE s == ByteRoundShiftLeft(b, f)
               edge == s.data[IF Stored(b) = LE THEN n - 1 ELSE 0]
    <2>1. s \in Like(b, n)
      BY <1>1, <1>3, ByteShiftKeeps
    <2>2. RoundShiftLeft(b, c) = IF u = 0 THEN s ELSE TailShift(s, IF Stored(b) = LE THEN -1 ELSE 1, TRUE, u, edge)
      BY <1>4 DEF RoundShiftLeft, e, f, u
    <2>3. edge \in Byte
      <3> HIDE DEF s
      <3> QED
        BY <1>6, <2>1
    <2> HIDE DEF s, edge
    <2>4. /\ TailShift(s, 1, TRUE, u, edge) \in Like(b, n)
          /\ TailShift(s, -1, TRUE, u, edge) \in Like(b, n)
      BY <1>3, <1>5, <1>7, <2>1, <2>3
    <2>5. QED
      BY <2>1, <2>2, <2>4
  <1>11. RoundShiftRight(b, c) \in Like(b, n)
    <2> DEFINE s == ByteRoundShiftRight(b, f)
               edge == s.data[n - 1]
    <2>1. s \in Like(b, n)
      BY <1>1, <1>3, ByteShiftKeeps
    <2>2. RoundShiftRight(b, c) = IF u = 0 THEN s ELSE TailShift(s, IF Stored(b) = LE THEN 1 ELSE -1, FALSE, u, edge)
      BY <1>4 DEF RoundShiftRight, e, f, u
    <2>3. edge \in Byte
      <3> HIDE DEF s
      <3> QED
        BY <1>6, <2>1
    <2> HIDE DEF s, edge
    <2>4. /\ TailShift(s, 1, FALSE, u, edge) \in Like(b, n)
          /\ TailShift(s, -1, FALSE, u, edge) \in Like(b, n)
      BY <1>3, <1>5, <1>7, <2>1, <2>3
    <2>5. QED
      BY <2>1, <2>2, <2>4
  <1>12. QED
    BY <1>8, <1>9, <1>10, <1>11

\* The calls that shift.
Shifts == {"ShiftLeft", "ShiftRight", "RoundShiftLeft", "RoundShiftRight"}

\* So does every shift call.
LEMMA ShiftedKeeps ==
  ASSUME NEW n \in Nat \ {0}, NEW b \in BufferOf(n), NEW c,
         c.op \in Shifts, c.unit \in {"bit", "byte"}, c.shift \in Nat, c.fill \in Bit
  PROVE  Shifted(b, c) \in Like(b, n)
  <1>1. Filled(c) \in Byte
    BY FilledByte
  <1>2. /\ ByteShiftLeft(b, c.shift, Filled(c)) \in Like(b, n) /\ ByteShiftRight(b, c.shift, Filled(c)) \in Like(b, n)
        /\ ByteRoundShiftLeft(b, c.shift) \in Like(b, n) /\ ByteRoundShiftRight(b, c.shift) \in Like(b, n)
    BY <1>1, ByteShiftKeeps
  <1>3. /\ ShiftLeft(b, c) \in Like(b, n) /\ ShiftRight(b, c) \in Like(b, n)
        /\ RoundShiftLeft(b, c) \in Like(b, n) /\ RoundShiftRight(b, c) \in Like(b, n)
    BY BitShiftKeeps
  <1>4. QED
    BY <1>2, <1>3 DEF Shifted, Shifts

\* Where the byte engine finds a byte.
LEMMA BytePosition ==
  ASSUME NEW n \in Nat, NEW b \in BufferOf(n), NEW j \in 0 .. n - 1
  PROVE  GetBytePosition(b, j) = ByteOf(b, n, j) /\ ByteOf(b, n, j) \in 0 .. n - 1
  <1>1. Size(b) = n
    BY SizeIs
  <1>2. b.dependent \in BOOLEAN
    BY DataOf
  <1>3. QED
    BY <1>1, <1>2 DEF GetBytePosition, ByteOf

\* The buffer with one byte stored.
SetByte(b, i, x) == [b EXCEPT !.data[GetBytePosition(b, i)] = x]

\* Setting a bit, or a byte, keeps the length and the layout.
LEMMA SetKeeps ==
  ASSUME NEW n \in Nat, NEW b \in BufferOf(n), NEW i \in Nat
  PROVE  /\ \A x \in Bit : Set(b, i, x) \in Like(b, n)
         /\ \A x \in Byte : SetByte(b, i, x) \in Like(b, n)
  <1>1. \A x \in Bit : Set(b, i, x) \in Like(b, n)
    <2> SUFFICES ASSUME NEW x \in Bit PROVE Set(b, i, x) \in Like(b, n)
      OBVIOUS
    <2> DEFINE v == Vector(b)
               w == [v EXCEPT ![i] = x]
    <2>1. v \in Bits(n) /\ Patched(b, n, v) = b
      BY VectorIs, PatchedVector
    <2> HIDE DEF v
    <2>2. Set(b, i, x) = Patched(b, n, w)
      BY <2>1, OneSet
    <2>3. w \in Bits(n)
      BY <2>1 DEF Bits
    <2> HIDE DEF w
    <2>4. QED
      BY <2>2, <2>3, PatchedIs DEF Like
  <1>2. \A x \in Byte : SetByte(b, i, x) \in Like(b, n)
    <2> SUFFICES ASSUME NEW x \in Byte PROVE SetByte(b, i, x) \in Like(b, n)
      OBVIOUS
    <2> DEFINE k == GetBytePosition(b, i)
               d == [b.data EXCEPT ![k] = x]
    <2>1. SetByte(b, i, x) = WithData(b, d)
      BY DEF SetByte, WithData, BufferOf
    <2>2. d \in ByteBlocks(n)
      BY DataOf DEF ByteBlocks
    <2>3. QED
      BY <2>1, <2>2, LikeData
  <1>3. QED
    BY <1>1, <1>2

\* So do InvertBlock and Reverse.
LEMMA BlockKeeps ==
  ASSUME NEW n \in Nat, NEW b \in BufferOf(n), NEW first \in Nat, NEW last \in Nat
  PROVE  InvertBlock(b, first, last) \in Like(b, n) /\ Reverse(b, first, last) \in Like(b, n)
  <1> DEFINE v == Vector(b)
             w == Inverted(n, v, first, last - first + 1)
             u == [i \in 0 .. 8 * n - 1 |-> IF i \in first .. last THEN v[first + last - i] ELSE v[i]]
  <1>1. CASE ~ InRange(b, first, last)
    BY <1>1 DEF InvertBlock, Reverse, Like
  <1>2. CASE InRange(b, first, last)
    <2>1. v \in Bits(n)
      BY VectorIs
    <2>2. first <= last /\ last < 8 * n
      BY <1>2, SizeIs DEF InRange
    <2>3. InvertBlock(b, first, last) = Patched(b, n, w) /\ Reverse(b, first, last) = Patched(b, n, u)
      BY <1>2, BlockInverted, BlockReversed
    <2> HIDE DEF v
    <2>4. w \in Bits(n)
      BY <2>1, BitsClosed DEF Bits, Inverted
    <2>5. u \in Bits(n)
      <3>1. \A i \in first .. last : first + last - i \in 0 .. 8 * n - 1
        BY <2>2
      <3>2. QED
        BY <2>1, <3>1 DEF Bits
    <2> HIDE DEF w, u
    <2>6. QED
      BY <2>3, <2>4, <2>5, PatchedIs DEF Like
  <1>3. QED
    BY <1>1, <1>2

\* A conversion between endians keeps the length.
LEMMA ConvertedBlock ==
  ASSUME NEW n \in Nat \ {0}, NEW m \in ByteBlocks(n), NEW from \in Endians, NEW to \in Endians
  PROVE  Converted(m, from, to) \in ByteBlocks(n)
  <1> DEFINE d == Converted(m, from, to)
  <1>1. \A j \in 0 .. n - 1 : n - 1 - j \in 0 .. n - 1
    OBVIOUS
  <1>2. \A j \in 0 .. n - 1 : m[j] \in Byte /\ Turned(m[j]) \in Byte
    BY ByteReversed DEF ByteBlocks
  <1>3. \A r \in BOOLEAN : Backwards(n, m, r, n \div 2) \in ByteBlocks(n)
    BY <1>1, <1>2 DEF ByteBlocks, Backwards
  <1>4. AllTurned(n, m) \in ByteBlocks(n)
    BY <1>2 DEF AllTurned, ByteBlocks
  <1>5. Backwards(n, m, TRUE, n \div 2) \in ByteBlocks(n) /\ Backwards(n, m, FALSE, n \div 2) \in ByteBlocks(n)
    BY <1>3
  <1>6. \/ Converted(m, from, to) = Backwards(n, m, FALSE, n \div 2)
        \/ Converted(m, from, to) = AllTurned(n, m)
        \/ Converted(m, from, to) = Backwards(n, m, TRUE, n \div 2)
        \/ Converted(m, from, to) = m
    BY BlockConverted, ZenonT(60)
  <1>7. QED
    BY <1>4, <1>5, <1>6

\* SetDataEndianType converts the bytes and stores the endian.
LEMMA ConvertedKeeps ==
  ASSUME NEW n \in Nat \ {0}, NEW b \in BufferOf(n), NEW c, c.endian \in Endians, c.convert = TRUE
  PROVE  /\ SetDataEndianType(b, c) = [WithData(b, Converted(b.data, b.endian, c.endian)) EXCEPT !.endian = c.endian]
         /\ Converted(b.data, b.endian, c.endian) \in ByteBlocks(n)
         /\ SetDataEndianType(b, c) \in BufferOf(n)
  <1> DEFINE d == Converted(b.data, b.endian, c.endian)
  <1>1. b.data \in ByteBlocks(n) /\ b.endian \in Endians
    BY DataOf
  <1>2. SetDataEndianType(b, c) = [WithData(b, d) EXCEPT !.endian = c.endian]
    BY DEF SetDataEndianType, WithData, BufferOf
  <1>3. d \in ByteBlocks(n)
    BY <1>1, ConvertedBlock
  <1>4. SetDataEndianType(b, c) \in BufferOf(n)
    <2> HIDE DEF d
    <2>1. WithData(b, d) \in BufferOf(n)
      BY <1>3, DataReplaced
    <2>2. QED
      BY <1>2, <2>1 DEF BufferOf
  <1>5. QED
    BY <1>2, <1>3, <1>4

\* A logical operator on two bytes gives a byte.
LEMMA CombineIsByte ==
  ASSUME NEW op \in {"And", "Or", "Xor"}, NEW x \in Byte, NEW y \in Byte
  PROVE  Combine(op, x, y) \in Byte
  <1>1. /\ Bytewise(Or, x, y) \in Byte /\ Bytewise(And, x, y) \in Byte
        /\ Bytewise(Xor, x, y) \in Byte
    BY BytesClosed
  <1>2. QED
    BY <1>1 DEF Combine

\* The left operand grows to the length of the other.
LEMMA GrownKeeps ==
  ASSUME NEW n \in Nat, NEW b \in BufferOf(n), NEW k \in Nat
  PROVE  Grown(b, k) \in Like(b, k)
  <1> DEFINE diff == k - Size(b)
             from(j) == IF b.endian = LE THEN j ELSE j - diff
             d == [j \in 0 .. k - 1 |-> IF from(j) \in DOMAIN b.data THEN b.data[from(j)] ELSE LowByte]
  <1>1. b.data \in ByteBlocks(n)
    BY DataOf
  <1>2. LowByte \in Byte
    BY BytesClosed
  <1>3. Grown(b, k) = WithData(b, d)
    BY DEF Grown, WithData
  <1>4. d \in ByteBlocks(k)
    <2> HIDE DEF from
    <2> QED
      BY <1>1, <1>2 DEF ByteBlocks
  <1> HIDE DEF d
  <1>5. QED
    BY <1>3, <1>4, LikeData

\* The left operand of an operator: its length may change.
LeftOf(b, other) == IF Size(b) < Size(other) /\ ~b.safe THEN Grown(b, Size(other)) ELSE b
\* The length of the left operand of an operator, of n bytes, with one of k.
LeftSize(b, n, k) == IF n < k /\ ~b.safe THEN k ELSE n

\* What an operator leaves of the left operand's bytes, the k-th of the other with them.
Operated(l, n, op, other, k) ==
  [j \in 0 .. n - 1 |->
     IF ByteOf(l, n, j) < k THEN Combine(op, l.data[j], other.data[ByteOf(other, k, ByteOf(l, n, j))])
     ELSE IF op = "And" THEN LowByte ELSE l.data[j]]

\* BitStreamAssign, byte by byte.
LEMMA OperandsAre ==
  ASSUME NEW n \in Nat, NEW b \in BufferOf(n), NEW k \in Nat, NEW other \in BufferOf(k),
         NEW op \in {"And", "Or", "Xor"}, NEW l, l = LeftOf(b, other), NEW h, h = LeftSize(b, n, k)
  PROVE  /\ h \in {n, k} /\ h \in Nat /\ l \in Like(b, h)
         /\ BitStreamAssign(b, op, other) = WithData(l, Operated(l, h, op, other, k))
         /\ Operated(l, h, op, other, k) \in ByteBlocks(h)
  <1>1. Size(b) = n /\ Size(other) = k
    BY SizeIs
  <1>2. h \in {n, k} /\ h \in Nat /\ l \in Like(b, h)
    <2>1. b \in Like(b, n) /\ Grown(b, k) \in Like(b, k)
      BY GrownKeeps DEF Like
    <2>2. QED
      BY <1>1, <2>1 DEF LeftOf, LeftSize
  <1>3. l \in BufferOf(h)
    BY <1>2 DEF Like
  <1>4. l.data \in ByteBlocks(h) /\ DOMAIN l.data = 0 .. h - 1
    BY <1>2, <1>3, DataOf
  <1> DEFINE pos(q) == GetBytePosition(l, q)
             index(j) == CHOOSE q \in DOMAIN l.data : pos(q) = j
             d == [j \in DOMAIN l.data |->
                     IF index(j) < Size(other)
                     THEN Combine(op, l.data[j], other.data[GetBytePosition(other, index(j))])
                     ELSE IF op = "And" THEN LowByte ELSE l.data[j]]
  <1>5. \A j \in 0 .. h - 1 : index(j) = ByteOf(l, h, j) /\ ByteOf(l, h, j) \in 0 .. h - 1
    <2> SUFFICES ASSUME NEW j \in 0 .. h - 1
                 PROVE  index(j) = ByteOf(l, h, j) /\ ByteOf(l, h, j) \in 0 .. h - 1
      OBVIOUS
    <2> DEFINE q == ByteOf(l, h, j)
    <2>1. q \in 0 .. h - 1 /\ ByteOf(l, h, q) = j
      BY <1>2, <1>3, Mirrored
    <2>2. \A i \in 0 .. h - 1 : pos(i) = ByteOf(l, h, i)
      BY <1>2, <1>3, BytePosition
    <2>3. \A i \in 0 .. h - 1 : ByteOf(l, h, i) = j => i = q
      BY <1>2, <1>3, Mirrored
    <2> HIDE DEF q, pos
    <2>4. \A i \in DOMAIN l.data : pos(i) = j <=> i = q
      BY <1>4, <2>1, <2>2, <2>3
    <2>5. index(j) = q
      BY <1>4, <2>1, <2>4
    <2>6. QED
      BY <2>1, <2>5 DEF q
  <1>6. BitStreamAssign(b, op, other) = WithData(l, d)
    BY DEF BitStreamAssign, LeftOf, WithData
  <1>7. d = Operated(l, h, op, other, k)
    <2> HIDE DEF index
    <2>1. \A j \in 0 .. h - 1 : index(j) < k =>
            GetBytePosition(other, index(j)) = ByteOf(other, k, ByteOf(l, h, j))
      <3> SUFFICES ASSUME NEW j \in 0 .. h - 1, index(j) < k
                   PROVE  GetBytePosition(other, index(j)) = ByteOf(other, k, ByteOf(l, h, j))
        OBVIOUS
      <3>1. index(j) = ByteOf(l, h, j) /\ index(j) \in 0 .. k - 1
        BY <1>5
      <3>2. QED
        BY <3>1, BytePosition
    <2>2. d = [j \in 0 .. h - 1 |->
                 IF index(j) < k
                 THEN Combine(op, l.data[j], other.data[GetBytePosition(other, index(j))])
                 ELSE IF op = "And" THEN LowByte ELSE l.data[j]]
      BY <1>1, <1>4
    <2> HIDE DEF d
    <2>3. QED
      BY <1>5, <2>1, <2>2 DEF Operated
  <1> HIDE DEF d
  <1>8. Operated(l, h, op, other, k) \in ByteBlocks(h)
    <2>1. other.data \in ByteBlocks(k)
      BY DataOf
    <2>2. \A q \in 0 .. k - 1 : ByteOf(other, k, q) \in 0 .. k - 1
      BY Mirrored
    <2>3. \A j \in 0 .. h - 1 : ByteOf(l, h, j) < k => other.data[ByteOf(other, k, ByteOf(l, h, j))] \in Byte
      <3> SUFFICES ASSUME NEW j \in 0 .. h - 1, ByteOf(l, h, j) < k
                   PROVE  other.data[ByteOf(other, k, ByteOf(l, h, j))] \in Byte
        OBVIOUS
      <3>1. ByteOf(l, h, j) \in 0 .. k - 1
        BY <1>5
      <3>2. QED
        BY <2>1, <2>2, <3>1 DEF ByteBlocks
    <2>4. \A j \in 0 .. h - 1 : l.data[j] \in Byte /\ LowByte \in Byte
      BY <1>4, BytesClosed DEF ByteBlocks
    <2>5. \A j \in 0 .. h - 1 : ByteOf(l, h, j) < k =>
            Combine(op, l.data[j], other.data[ByteOf(other, k, ByteOf(l, h, j))]) \in Byte
      BY <2>3, <2>4, CombineIsByte
    <2>6. QED
      BY <2>4, <2>5 DEF Operated, ByteBlocks
  <1>9. QED
    BY <1>2, <1>6, <1>7, <1>8

\* The operators on data of one shape, byte by byte.
Alike(n, b, op, other) == [j \in 0 .. n - 1 |-> Combine(op, b.data[j], other.data[j])]

\* The result of an operator has the length of one of its operands.
LEMMA AssignKeeps ==
  ASSUME NEW n \in Nat, NEW b \in BufferOf(n), NEW k \in Nat, NEW other \in BufferOf(k),
         NEW op \in {"And", "Or", "Xor"}
  PROVE  /\ BitStreamAssign(b, op, other) \in Like(b, n) \cup Like(b, k)
         /\ BinaryDataAssign(b, op, other) \in Like(b, n) \cup Like(b, k)
  <1>1. BitStreamAssign(b, op, other) \in Like(b, n) \cup Like(b, k)
    <2> DEFINE l == LeftOf(b, other)
               h == LeftSize(b, n, k)
               d == Operated(l, h, op, other, k)
    <2>1. h \in {n, k} /\ h \in Nat /\ l \in Like(b, h) /\ BitStreamAssign(b, op, other) = WithData(l, d) /\ d \in ByteBlocks(h)
      BY OperandsAre
    <2> HIDE DEF l, h, d
    <2>2. l \in BufferOf(h) /\ WithData(l, d) \in Like(l, h)
      BY <2>1, LikeData DEF Like
    <2>3. WithData(l, d) \in Like(b, h)
      BY <2>1, <2>2, LikeLike
    <2>4. QED
      BY <2>1, <2>3
  <1>2. CASE ~ SameShape(b, other)
    BY <1>1, <1>2 DEF BinaryDataAssign
  <1>3. CASE SameShape(b, other)
    <2>1. Size(b) = n /\ Size(other) = k /\ n = k
      BY <1>3, SizeIs DEF SameShape
    <2> DEFINE o(j) == IF op = "And" /\ j < 4 * (Size(b) \div 4) THEN "Xor" ELSE op
               d == [j \in DOMAIN b.data |-> Combine(o(j), b.data[j], other.data[j])]
    <2>2. BinaryDataAssign(b, op, other) = WithData(b, d)
      BY <1>3 DEF BinaryDataAssign, WithData
    <2>3. b.data \in ByteBlocks(n) /\ DOMAIN b.data = 0 .. n - 1 /\ other.data \in ByteBlocks(n)
      BY <2>1, DataOf
    <2>4. \A j \in 0 .. n - 1 : o(j) \in {"And", "Or", "Xor"} /\ b.data[j] \in Byte /\ other.data[j] \in Byte
      BY <2>3 DEF ByteBlocks
    <2> HIDE DEF o
    <2>5. \A j \in 0 .. n - 1 : Combine(o(j), b.data[j], other.data[j]) \in Byte
      BY <2>4, CombineIsByte
    <2>6. d \in ByteBlocks(n)
      BY <2>3, <2>5 DEF ByteBlocks
    <2> HIDE DEF d
    <2>7. QED
      BY <1>1, <2>2, <2>6, LikeData
  <1>4. QED
    BY <1>1, <1>2, <1>3

-----------------------------------------------------------------------------
(* Type correctness                                                        *)

\* The lengths are positive.
LEMMA SizesPositive ==
  ASSUME NEW n \in StreamSizes \cup ReadSizes
  PROVE  n \in Nat \ {0} /\ n \in Nat
  BY BitStreamAssumption

\* The buffers of the initial states, and the operands, are buffers.
LEMMA InitialBuffers ==
  ASSUME NEW S \in SUBSET Nat, NEW base \in Int, NEW b \in Buffers(S, base)
  PROVE  \E n \in S : b \in BufferOf(n)
  <1>1. PICK n \in S, e \in Endians, d \in BOOLEAN, s \in BOOLEAN :
          b = [data |-> Labelled(n, base), endian |-> e, dependent |-> d, safe |-> s]
    BY DEF Buffers
  <1>2. n \in Nat
    OBVIOUS
  <1>3. \A j \in 0 .. n - 1, p \in BitOf : {base + 8 * j + p} \in Bit
    BY <1>2 DEF Bit, BitOf
  <1>4. Labelled(n, base) \in [0 .. n - 1 -> Byte]
    BY <1>3 DEF Labelled, Byte
  <1>5. QED
    BY <1>1, <1>4 DEF BufferOf

\* The type invariant holds initially.
LEMMA InitTyped == StreamInit => StreamTypeOK
  <1> SUFFICES ASSUME StreamInit PROVE StreamTypeOK
    OBVIOUS
  <1>1. StreamSizes \cup ReadSizes \in SUBSET Nat /\ MaxCalls \in Nat /\ 0 \in Int
    BY BitStreamAssumption
  <1>2. \E n \in StreamSizes \cup ReadSizes : buffer \in BufferOf(n)
    BY <1>1, InitialBuffers DEF StreamInit
  <1>3. QED
    BY <1>1, <1>2 DEF StreamInit, StreamTypeOK

\* A full buffer has a length of its own.
LEMMA FullSize ==
  ASSUME StreamTypeOK
  PROVE  /\ Size(buffer) \in StreamSizes \cup ReadSizes /\ Size(buffer) \in Nat \ {0}
         /\ buffer \in BufferOf(Size(buffer))
  <1>1. PICK n \in StreamSizes \cup ReadSizes : buffer \in BufferOf(n)
    BY DEF StreamTypeOK
  <1>2. n \in Nat \ {0} /\ Size(buffer) = n
    BY <1>1, SizesPositive, SizeIs
  <1>3. QED
    BY <1>1, <1>2

\* A call that leaves a buffer of the length of the old one, or of the operand,
\* keeps the type invariant.
LEMMA TypedAfter ==
  ASSUME StreamTypeOK, calls < MaxCalls, NEW c, NEW after, NEW answer, Make(c, after, answer),
         NEW n \in StreamSizes \cup ReadSizes, after \in BufferOf(n)
  PROVE  StreamTypeOK'
  <1>1. calls + 1 \in 0 .. MaxCalls
    BY BitStreamAssumption DEF StreamTypeOK
  <1>2. QED
    BY <1>1 DEF StreamTypeOK, Make

\* Every call keeps the type invariant.
LEMMA NextTyped == StreamTypeOK /\ [StreamNext]_streamVars => StreamTypeOK'
  <1> SUFFICES ASSUME StreamTypeOK, [StreamNext]_streamVars PROVE StreamTypeOK'
    OBVIOUS
  <1> DEFINE n == Size(buffer)
  <1>1. n \in StreamSizes \cup ReadSizes /\ n \in Nat \ {0} /\ n \in Nat /\ buffer \in BufferOf(n)
    BY FullSize
  <1>2. Length(buffer) = 8 * n
    BY DEF Length
  <1> HIDE DEF n
  <1>3. ASSUME NEW c, NEW answer, calls < MaxCalls, Make(c, buffer, answer)
        PROVE  StreamTypeOK'
    BY <1>1, <1>3, TypedAfter
  <1>4. ASSUME NEW c, NEW answer, calls < MaxCalls, NEW after \in Like(buffer, n), Make(c, after, answer)
        PROVE  StreamTypeOK'
    BY <1>1, <1>4, TypedAfter DEF Like
  <1>5. CASE Shift
    <2>1. PICK op \in Shifts, unit \in {"bit", "byte"}, shift \in 1 .. Length(buffer) + 1, fill \in {Zero, One} :
            LET c == [op |-> op, unit |-> unit, shift |-> shift, fill |-> fill]
            IN  Make(c, Shifted(buffer, c), <<>>)
      BY <1>5 DEF Shift, Shifts
    <2> DEFINE c == [op |-> op, unit |-> unit, shift |-> shift, fill |-> fill]
    <2>2. c.op \in Shifts /\ c.unit \in {"bit", "byte"} /\ c.shift \in Nat /\ c.fill \in Bit
      BY <1>1, <1>2, BitsClosed
    <2>3. calls < MaxCalls /\ Make(c, Shifted(buffer, c), <<>>)
      BY <1>5, <2>1 DEF Shift
    <2> HIDE DEF c
    <2>4. Shifted(buffer, c) \in Like(buffer, n)
      BY <1>1, <2>2, ShiftedKeeps
    <2>5. QED
      BY <1>4, <2>3, <2>4
  <1>6. CASE Copied
    BY <1>3, <1>6 DEF Copied
  <1>7. CASE SetOne
    <2>1. PICK unit \in {"bit", "byte"}, i \in 0 .. Length(buffer), fill \in {Zero, One} :
            Make([op |-> "Set", unit |-> unit, first |-> i, last |-> i, fill |-> fill],
                   IF unit = "bit" THEN Set(buffer, i, fill)
                   ELSE [buffer EXCEPT !.data[GetBytePosition(buffer, i)] = [p \in BitOf |-> fill]], <<>>)
      BY <1>7 DEF SetOne
    <2> DEFINE x == [p \in BitOf |-> fill]
               c == [op |-> "Set", unit |-> unit, first |-> i, last |-> i, fill |-> fill]
    <2>2. i \in Nat /\ fill \in Bit /\ x \in Byte
      BY <1>1, <1>2, BitsClosed DEF Byte
    <2>3. Make(c, IF unit = "bit" THEN Set(buffer, i, fill) ELSE SetByte(buffer, i, x), <<>>)
      BY <2>1 DEF SetByte
    <2> HIDE DEF x, c
    <2>4. Set(buffer, i, fill) \in Like(buffer, n) /\ SetByte(buffer, i, x) \in Like(buffer, n)
      BY <1>1, <2>2, SetKeeps
    <2>5. calls < MaxCalls
      BY <1>7 DEF SetOne
    <2>6. (IF unit = "bit" THEN Set(buffer, i, fill) ELSE SetByte(buffer, i, x)) \in Like(buffer, n)
      BY <2>4
    <2>7. QED
      BY <1>4, <2>3, <2>5, <2>6
  <1>8. CASE Block
    <2>1. PICK op \in {"InvertBlock", "Reverse"}, s \in Spans(Length(buffer)) :
            Make([op |-> op, unit |-> "bit", first |-> s[1], last |-> s[2]],
                   IF op = "Reverse" THEN Reverse(buffer, s[1], s[2])
                   ELSE InvertBlock(buffer, s[1], s[2]), <<>>)
      BY <1>8 DEF Block
    <2>2. s[1] \in Nat /\ s[2] \in Nat
      BY <1>1, <1>2 DEF Spans
    <2>3. Reverse(buffer, s[1], s[2]) \in Like(buffer, n) /\ InvertBlock(buffer, s[1], s[2]) \in Like(buffer, n)
      BY <1>1, <2>2, BlockKeeps
    <2>4. calls < MaxCalls
      BY <1>8 DEF Block
    <2>5. (IF op = "Reverse" THEN Reverse(buffer, s[1], s[2]) ELSE InvertBlock(buffer, s[1], s[2])) \in Like(buffer, n)
      BY <2>3
    <2>6. QED
      BY <1>4, <2>1, <2>4, <2>5
  <1>9. CASE ConvertTo
    BY <1>3, <1>9 DEF ConvertTo
  <1>10. CASE ChangeEndian
    <2>1. PICK e \in Endians :
            LET c == [op |-> "SetDataEndianType", unit |-> "bit", endian |-> e, convert |-> TRUE]
            IN  Make(c, SetDataEndianType(buffer, c), <<>>)
      BY <1>10 DEF ChangeEndian
    <2> DEFINE c == [op |-> "SetDataEndianType", unit |-> "bit", endian |-> e, convert |-> TRUE]
    <2>2. c.endian \in Endians /\ c.convert = TRUE
      OBVIOUS
    <2>3. calls < MaxCalls /\ Make(c, SetDataEndianType(buffer, c), <<>>)
      BY <1>10, <2>1 DEF ChangeEndian
    <2> HIDE DEF c
    <2>4. SetDataEndianType(buffer, c) \in BufferOf(n)
      BY <1>1, <2>2, ConvertedKeeps
    <2>5. QED
      BY <1>1, <2>3, <2>4, TypedAfter
  <1>11. CASE Operate
    <2>1. PICK op \in {"Assign", "Operator"}, unit \in {"bit", "data"}, with \in {"And", "Or", "Xor"},
               other \in Buffers(StreamSizes, 50) :
            LET c == [op |-> op, unit |-> unit, with |-> with, other |-> other, grow |-> ~buffer.safe]
                r == CASE unit = "bit" /\ op = "Assign" -> BitStreamAssign(buffer, with, other)
                       [] unit = "bit" /\ op = "Operator" -> BitStreamOperator(buffer, with, other)
                       [] unit = "data" /\ op = "Assign" -> BinaryDataAssign(buffer, with, other)
                       [] OTHER -> BinaryDataOperator(buffer, with, other)
            IN  IF op = "Assign" THEN Make(c, r, <<>>) ELSE Make(c, buffer, <<r>>)
      BY <1>11 DEF Operate
    <2>2. calls < MaxCalls
      BY <1>11 DEF Operate
    <2>3. CASE op = "Assign"
      <3> DEFINE c == [op |-> op, unit |-> unit, with |-> with, other |-> other, grow |-> ~buffer.safe]
                 r == IF unit = "bit" THEN BitStreamAssign(buffer, with, other) ELSE BinaryDataAssign(buffer, with, other)
      <3>1. Make(c, r, <<>>)
        BY <2>1, <2>3
      <3> HIDE DEF c
      <3>2. PICK k \in StreamSizes : other \in BufferOf(k)
        <4>1. StreamSizes \in SUBSET Nat /\ 50 \in Int
          BY BitStreamAssumption
        <4>2. QED
          BY <4>1, InitialBuffers
      <3>3. k \in Nat /\ k \in StreamSizes \cup ReadSizes
        BY <3>2, SizesPositive
      <3>4. r \in Like(buffer, n) \cup Like(buffer, k)
        BY <1>1, <3>2, <3>3, AssignKeeps
      <3> HIDE DEF r
      <3>5. r \in BufferOf(n) \/ r \in BufferOf(k)
        BY <3>4 DEF Like
      <3>6. QED
        BY <1>1, <2>2, <3>1, <3>3, <3>5, TypedAfter
    <2>4. CASE op = "Operator"
      BY <1>3, <2>1, <2>2, <2>4
    <2>5. QED
      BY <2>3, <2>4
  <1>12. CASE Ask
    BY <1>3, <1>12 DEF Ask
  <1>13. CASE Write
    BY <1>3, <1>13 DEF Write
  <1>14. CASE AskBytes
    BY <1>3, <1>14 DEF AskBytes
  <1>15. CASE UNCHANGED streamVars
    BY <1>15 DEF streamVars, StreamTypeOK
  <1>16. QED
    BY <1>5, <1>6, <1>7, <1>8, <1>9, <1>10, <1>11, <1>12, <1>13, <1>14, <1>15 DEF StreamNext

\* No call loses a byte of the block, changes its length except to grow to an
\* operand, or makes anything but sums of labels of its bits.
THEOREM BuffersTyped == StreamSpec => []StreamTypeOK
  BY InitTyped, NextTyped, PTL DEF StreamSpec

\* The condition on the number of bits bounds the bytes of the word.
LEMMA WordFits ==
  ASSUME NEW n \in Nat, NEW b \in BufferOf(n), NEW first \in Nat, NEW last \in Nat,
         InRange(b, first, last), FitsWord(first, last), NEW w, w = WordBytes(b, first, last)
  PROVE  0 <= w[1] /\ w[2] <= Size(b) /\ w[2] - w[1] \in 1 .. 4
  <1> DEFINE q == first \div 8
             r == last \div 8
  <1>1. Size(b) = n /\ first <= last /\ last < 8 * n
    BY SizeIs DEF InRange
  <1>2. q \in 0 .. n - 1 /\ r \in 0 .. n - 1 /\ q <= r /\ r - q <= 3
    <2>1. last - first + 1 <= 24 \/ (first % 8 = 0 /\ last - first + 1 <= 32)
      BY DEF FitsWord
    <2>2. /\ first = 8 * q + (first % 8) /\ first % 8 \in 0 .. 7 /\ q \in Nat
          /\ last = 8 * r + (last % 8) /\ last % 8 \in 0 .. 7 /\ r \in Nat
      OBVIOUS
    <2> HIDE DEF q, r
    <2>3. QED
      BY <1>1, <2>1, <2>2
  <1>3. b.dependent \in BOOLEAN
    BY DataOf
  <1>4. w = IF b.endian = LE \/ ~ b.dependent THEN <<q, r + 1>> ELSE <<n - r - 1, n - q>>
    <2>1. n - q - 1 + 1 = n - q
      BY <1>2
    <2>2. GetByteIndex(b, first) = IF b.dependent /\ b.endian # LE THEN n - q - 1 ELSE q
      BY <1>1 DEF GetByteIndex
    <2>3. GetByteIndex(b, last) = IF b.dependent /\ b.endian # LE THEN n - r - 1 ELSE r
      BY <1>1 DEF GetByteIndex
    <2> HIDE DEF q, r
    <2>4. QED
      BY <1>3, <2>1, <2>2, <2>3 DEF WordBytes
  <1> HIDE DEF q, r
  <1>5. QED
    BY <1>1, <1>2, <1>4

\* Every call keeps it; the block of the last predicate is still there.
LEMMA NextHolds == StreamTypeOK /\ WordHoldsItsBytes /\ [StreamNext]_streamVars => WordHoldsItsBytes'
  <1> SUFFICES ASSUME StreamTypeOK, WordHoldsItsBytes, [StreamNext]_streamVars
               PROVE  WordHoldsItsBytes'
    OBVIOUS
  <1> DEFINE n == Size(buffer)
  <1>1. n \in Nat /\ buffer \in BufferOf(n)
    BY FullSize
  <1>2. Length(buffer) = 8 * n
    BY DEF Length
  <1>3. (call.op = "Any" /\ call.unit = "bit")' => WordHoldsItsBytes'
    <2> SUFFICES ASSUME call'.op = "Any", call'.unit = "bit" PROVE WordHoldsItsBytes'
      OBVIOUS
    <2>1. CASE UNCHANGED streamVars
      BY <2>1 DEF streamVars, WordHoldsItsBytes
    <2>2. CASE Ask
      <3>1. PICK op \in {"Any", "All", "None", "Count", "GetFirstIndex", "GetLastIndex", "ToString"},
                 s \in Spans(Length(buffer)) :
              LET c == [op |-> op, unit |-> "bit", first |-> s[1], last |-> s[2]]
              IN  Make(c, buffer, IF InRange(buffer, s[1], s[2]) THEN <<Asked(buffer, c)>> ELSE <<>>)
        BY <2>2 DEF Ask
      <3>2. s[1] \in Nat /\ s[2] \in Nat
        BY <1>1, <1>2 DEF Spans
      <3>3. /\ buffer' = buffer /\ call'.first = s[1] /\ call'.last = s[2]
            /\ reply' # <<>> => InRange(buffer, s[1], s[2])
        BY <3>1 DEF Make
      <3> HIDE DEF n
      <3>4. reply' # <<>> /\ FitsWord(s[1], s[2]) =>
              LET w == WordBytes(buffer, s[1], s[2])
              IN  0 <= w[1] /\ w[2] <= Size(buffer) /\ w[2] - w[1] \in 1 .. 4
        BY <1>1, <3>2, <3>3, WordFits
      <3>5. QED
        BY <3>3, <3>4 DEF WordHoldsItsBytes
    <2>3. CASE Shift
      BY <2>3 DEF Shift, Make
    <2>4. CASE Copied
      BY <2>4 DEF Copied, Make
    <2>5. CASE SetOne
      BY <2>5 DEF SetOne, Make
    <2>6. CASE Block
      BY <2>6 DEF Block, Make
    <2>7. CASE ConvertTo
      BY <2>7 DEF ConvertTo, Make
    <2>8. CASE ChangeEndian
      BY <2>8 DEF ChangeEndian, Make
    <2>9. CASE Operate
      BY <2>9 DEF Operate, Make
    <2>10. CASE Write
      BY <2>10 DEF Write, Make
    <2>11. CASE AskBytes
      BY <2>11 DEF AskBytes, Make
    <2>12. QED
      BY <2>1, <2>2, <2>3, <2>4, <2>5, <2>6, <2>7, <2>8, <2>9, <2>10, <2>11 DEF StreamNext
  <1>4. QED
    BY <1>3 DEF WordHoldsItsBytes

\* Any reads at most four bytes, all of them in the block, for every length, range,
\* endian and mode.
THEOREM WordsHoldTheirBytes == StreamSpec => []WordHoldsItsBytes
  <1>1. StreamInit => WordHoldsItsBytes
    BY DEF StreamInit, WordHoldsItsBytes
  <1>2. QED
    BY <1>1, BuffersTyped, NextHolds, PTL DEF StreamSpec

-----------------------------------------------------------------------------
(* Shifts of the vector                                                    *)

\* The vector shifted by d and filled, and the vector rotated by d.
Shifting(n, v, d, fill) ==
  [i \in 0 .. 8 * n - 1 |-> IF i + d \in 0 .. 8 * n - 1 THEN v[i + d] ELSE fill]
Rotated(n, v, d) == [i \in 0 .. 8 * n - 1 |-> v[Wrap(8 * n, i + d)]]

\* The way the bytes, and the bits of a byte, run in the vector.
Mirrors(b) == b.dependent /\ b.endian # LE
Upright(b) == b.dependent /\ b.endian # RBE
Signed(b, d) == IF Mirrors(b) THEN -d ELSE d

\* Moving bytes moves bits eight times as far, in the direction of the layout.
LEMMA BytesMoveBits ==
  ASSUME NEW n \in Nat \ {0}, NEW b \in BufferOf(n), NEW d \in Int, NEW fill \in Bit, NEW f,
         f = [p \in BitOf |-> fill], NEW D, D = 8 * Signed(b, d)
  PROVE  Vector(WithData(b, ShiftedBytes(n, b.data, d, f))) = Shifting(n, Vector(b), D, fill)
  <1> DEFINE m == b.data
             v == Vector(b)
             z == WithData(b, ShiftedBytes(n, m, d, f))
             w == Shifting(n, v, D, fill)
  <1>1. m \in ByteBlocks(n) /\ f \in Byte
    BY DataOf DEF Byte
  <1>2. ShiftedBytes(n, m, d, f) \in ByteBlocks(n)
    BY <1>1, BlocksShifted
  <1>3. /\ z \in BufferOf(n) /\ z.data = ShiftedBytes(n, m, d, f)
        /\ z.endian = b.endian /\ z.dependent = b.dependent
    BY <1>2, DataReplaced
  <1>4. v \in Bits(n) /\ \A j \in 0 .. n - 1, p \in BitOf : v[IndexOf(b, n, j, p)] = m[j][p]
    BY VectorIs
  <1>5. D \in Int
    BY DEF Signed
  <1> HIDE DEF m, v, z
  <1>6. w \in Bits(n)
    BY <1>4, <1>5 DEF Bits, Shifting
  <1>7. ASSUME NEW j \in 0 .. n - 1, NEW p \in BitOf
        PROVE  z.data[j][p] = w[IndexOf(b, n, j, p)]
    <2> DEFINE i == IndexOf(b, n, j, p)
    <2>1. i \in 0 .. 8 * n - 1
      BY Positions
    <2>2. /\ j + d \in 0 .. n - 1 <=> i + D \in 0 .. 8 * n - 1
          /\ j + d \in 0 .. n - 1 => IndexOf(b, n, j + d, p) = i + D
      <3>1. PlaceOf(b, p) \in BitOf
        BY Mirrored
      <3>2. CASE Mirrors(b)
        BY <3>1, <3>2 DEF IndexOf, ByteOf, Signed, Mirrors, BitOf
      <3>3. CASE ~ Mirrors(b)
        BY <3>1, <3>3 DEF IndexOf, ByteOf, Signed, Mirrors, BitOf
      <3>4. QED
        BY <3>2, <3>3
    <2>3. z.data[j] = IF j + d \in 0 .. n - 1 THEN m[j + d] ELSE f
      BY <1>3 DEF ShiftedBytes
    <2> HIDE DEF i
    <2>4. w[i] = IF i + D \in 0 .. 8 * n - 1 THEN v[i + D] ELSE fill
      BY <2>1 DEF Shifting
    <2>5. CASE j + d \in 0 .. n - 1
      <3>1. v[IndexOf(b, n, j + d, p)] = m[j + d][p]
        BY <1>4, <2>5
      <3>2. QED
        BY <2>2, <2>3, <2>4, <2>5, <3>1 DEF i
    <2>6. CASE j + d \notin 0 .. n - 1
      BY <2>2, <2>3, <2>4, <2>6 DEF i
    <2>7. QED
      BY <2>5, <2>6
  <1>8. \A j \in 0 .. n - 1, p \in BitOf : z.data[j][p] = w[IndexOf(z, n, j, p)]
    BY <1>3, <1>7, LayoutSame
  <1> HIDE DEF w
  <1>9. Vector(z) = w
    BY <1>3, <1>6, <1>8, VectorDetermines
  <1>10. QED
    BY <1>9 DEF m, v, z, w

\* Rotating bytes rotates the vector.
LEMMA BytesRotateBits ==
  ASSUME NEW n \in Nat \ {0}, NEW b \in BufferOf(n), NEW d \in -(n - 1) .. n - 1,
         NEW D, D = 8 * Signed(b, d)
  PROVE  Vector(WithData(b, RotatedBytes(n, b.data, d))) = Rotated(n, Vector(b), D)
  <1> DEFINE m == b.data
             v == Vector(b)
             z == WithData(b, RotatedBytes(n, m, d))
             w == Rotated(n, v, D)
  <1>1. m \in ByteBlocks(n) /\ LowByte \in Byte
    BY DataOf, BytesClosed
  <1>2. RotatedBytes(n, m, d) \in ByteBlocks(n)
    <2>1. d \in Int
      OBVIOUS
    <2> HIDE DEF m
    <2>2. QED
      BY <1>1, <2>1, BlocksShifted
  <1>3. /\ z \in BufferOf(n) /\ z.data = RotatedBytes(n, m, d)
        /\ z.endian = b.endian /\ z.dependent = b.dependent
    BY <1>2, DataReplaced
  <1>4. v \in Bits(n) /\ \A j \in 0 .. n - 1, p \in BitOf : v[IndexOf(b, n, j, p)] = m[j][p]
    BY VectorIs
  <1>5. D \in Int /\ D \in -(8 * n - 8) .. 8 * n - 8
    BY DEF Signed
  <1> HIDE DEF m, v, z
  <1>6. w \in Bits(n)
    <2>1. \A i \in 0 .. 8 * n - 1 : Wrap(8 * n, i + D) \in 0 .. 8 * n - 1
      BY <1>5 DEF Wrap
    <2>2. QED
      BY <1>4, <2>1 DEF Bits, Rotated
  <1>7. ASSUME NEW j \in 0 .. n - 1, NEW p \in BitOf
        PROVE  z.data[j][p] = w[IndexOf(b, n, j, p)]
    <2> DEFINE i == IndexOf(b, n, j, p)
               k == Wrap(n, j + d)
    <2>1. i \in 0 .. 8 * n - 1
      BY Positions
    <2>2. k \in 0 .. n - 1 /\ IndexOf(b, n, k, p) = Wrap(8 * n, i + D)
      <3>1. PlaceOf(b, p) \in BitOf
        BY Mirrored
      <3>2. CASE Mirrors(b)
        BY <3>1, <3>2 DEF IndexOf, ByteOf, Signed, Mirrors, BitOf, Wrap
      <3>3. CASE ~ Mirrors(b)
        BY <3>1, <3>3 DEF IndexOf, ByteOf, Signed, Mirrors, BitOf, Wrap
      <3>4. QED
        BY <3>2, <3>3
    <2>3. z.data[j] = m[k]
      BY <1>3 DEF RotatedBytes
    <2> HIDE DEF i, k
    <2>4. w[i] = v[Wrap(8 * n, i + D)]
      BY <2>1 DEF Rotated
    <2>5. v[IndexOf(b, n, k, p)] = m[k][p]
      BY <1>4, <2>2
    <2>6. QED
      BY <2>2, <2>3, <2>4, <2>5 DEF i
  <1>8. \A j \in 0 .. n - 1, p \in BitOf : z.data[j][p] = w[IndexOf(z, n, j, p)]
    BY <1>3, <1>7, LayoutSame
  <1> HIDE DEF w
  <1>9. Vector(z) = w
    BY <1>3, <1>6, <1>8, VectorDetermines
  <1>10. QED
    BY <1>9 DEF m, v, z, w

-----------------------------------------------------------------------------
(* The rest of a shift                                                     *)

\* A byte shifted by less than its size takes in bits of another one.
LEMMA Joined ==
  ASSUME NEW x \in Byte, NEW y \in Byte, NEW t \in 1 .. 7, NEW p \in BitOf
  PROVE  /\ Bytewise(Or, Shr(y, 8 - t), Shl(x, t))[p] = IF p >= t THEN x[p - t] ELSE y[p + 8 - t]
         /\ Bytewise(Or, Shl(y, 8 - t), Shr(x, t))[p] = IF p + t <= 7 THEN x[p + t] ELSE y[p + t - 8]
  <1>1. \A q \in BitOf : x[q] \in Bit /\ y[q] \in Bit
    BY DEF Byte
  <1>2. Shr(y, 8 - t)[p] = IF p >= t THEN Zero ELSE y[p + 8 - t]
    <2>1. p + (8 - t) \in BitOf <=> ~ (p >= t)
      BY DEF BitOf
    <2>2. p + (8 - t) = p + 8 - t
      BY DEF BitOf
    <2>3. QED
      BY <2>1, <2>2 DEF Shr
  <1>3. Shl(x, t)[p] = IF p >= t THEN x[p - t] ELSE Zero
    BY DEF Shl, BitOf
  <1>4. Shl(y, 8 - t)[p] = IF p + t <= 7 THEN Zero ELSE y[p + t - 8]
    <2>1. p - (8 - t) \in BitOf <=> ~ (p + t <= 7)
      BY DEF BitOf
    <2>2. p - (8 - t) = p + t - 8
      BY DEF BitOf
    <2>3. QED
      BY <2>1, <2>2 DEF Shl
  <1>5. Shr(x, t)[p] = IF p + t <= 7 THEN x[p + t] ELSE Zero
    BY DEF Shr, BitOf
  <1>6. Bytewise(Or, Shr(y, 8 - t), Shl(x, t))[p] = IF p >= t THEN x[p - t] ELSE y[p + 8 - t]
    <2>1. Bytewise(Or, Shr(y, 8 - t), Shl(x, t))[p] = Or(Shr(y, 8 - t)[p], Shl(x, t)[p])
      BY DEF Bytewise
    <2>2. (p >= t => p - t \in BitOf) /\ (~ (p >= t) => p + 8 - t \in BitOf)
      BY DEF BitOf
    <2>3. QED
      BY <1>1, <1>2, <1>3, <2>1, <2>2, OrZero
  <1>7. Bytewise(Or, Shl(y, 8 - t), Shr(x, t))[p] = IF p + t <= 7 THEN x[p + t] ELSE y[p + t - 8]
    <2>1. Bytewise(Or, Shl(y, 8 - t), Shr(x, t))[p] = Or(Shl(y, 8 - t)[p], Shr(x, t)[p])
      BY DEF Bytewise
    <2>2. (p + t <= 7 => p + t \in BitOf) /\ (~ (p + t <= 7) => p + t - 8 \in BitOf)
      BY DEF BitOf
    <2>3. QED
      BY <1>1, <1>4, <1>5, <2>1, <2>2, OrZero
  <1>8. QED
    BY <1>6, <1>7

\* The place that a bit outside the vector has in the byte at the other edge.
EdgePlace(n, x) == IF x < 0 THEN x + 8 ELSE x - 8 * n

\* The vector shifted by d, its edge taken from another byte.
Tailed(n, b, v, d, edge) ==
  [i \in 0 .. 8 * n - 1 |->
     IF i + d \in 0 .. 8 * n - 1 THEN v[i + d] ELSE edge[PlaceOf(b, EdgePlace(n, i + d))]]

\* From where the bit at j, p is taken, by TailShift.
Inside(up, t, p) == IF up THEN p >= t ELSE p + t <= 7
FromPlace(up, t, p) ==
  IF up THEN IF p >= t THEN p - t ELSE p + 8 - t ELSE IF p + t <= 7 THEN p + t ELSE p + t - 8

\* TailShift takes each bit from the place d further in the vector, across bytes too.
LEMMA TailPlaces ==
  ASSUME NEW n \in Nat \ {0}, NEW b \in BufferOf(n), NEW step \in Steps, NEW up \in BOOLEAN, NEW t \in 1 .. 7,
         NEW d, d = IF up <=> Upright(b) THEN -t ELSE t, Signed(b, step) = IF d < 0 THEN -1 ELSE 1,
         NEW j \in 0 .. n - 1, NEW p \in BitOf,
         NEW q, q = FromPlace(up, t, p), NEW k, k = IF Inside(up, t, p) THEN j ELSE j + step,
         NEW x, x = IndexOf(b, n, j, p) + d
  PROVE  /\ q \in BitOf /\ x \in Int
         /\ k \in 0 .. n - 1 <=> x \in 0 .. 8 * n - 1
         /\ k \in 0 .. n - 1 => IndexOf(b, n, k, q) = x
         /\ k \notin 0 .. n - 1 => PlaceOf(b, EdgePlace(n, x)) = q
  <1>1. q \in BitOf /\ q \in Int
    BY DEF FromPlace, BitOf
  <1>2. step = 1 \/ step = -1
    BY DEF Steps
  <1>3. p \in 0 .. 7 /\ q \in 0 .. 7
    BY <1>1 DEF BitOf
  <1>4. PlaceOf(b, p) = IF Upright(b) THEN p ELSE 7 - p
    BY DEF PlaceOf, Upright
  <1>5. PlaceOf(b, q) = IF Upright(b) THEN q ELSE 7 - q
    BY DEF PlaceOf, Upright
  <1>6. \A y : PlaceOf(b, y) = IF Upright(b) THEN y ELSE 7 - y
    BY DEF PlaceOf, Upright
  <1>7. /\ ByteOf(b, n, j) = IF Mirrors(b) THEN n - 1 - j ELSE j
        /\ ByteOf(b, n, k) = IF Mirrors(b) THEN n - 1 - k ELSE k
    BY DEF ByteOf, Mirrors
  <1>8. x = 8 * ByteOf(b, n, j) + PlaceOf(b, p) + d
    BY DEF IndexOf
  <1>9. IndexOf(b, n, k, q) = 8 * ByteOf(b, n, k) + PlaceOf(b, q)
    BY DEF IndexOf
  <1>10. Upright(b) \in BOOLEAN /\ Mirrors(b) \in BOOLEAN
    BY DataOf DEF Upright, Mirrors
  <1>11. Signed(b, step) = IF Mirrors(b) THEN -step ELSE step
    BY DEF Signed
  <1>12. /\ up /\ p >= t => k = j /\ q = p - t
         /\ up /\ p < t => k = j + step /\ q = p + 8 - t
         /\ ~ up /\ p + t <= 7 => k = j /\ q = p + t
         /\ ~ up /\ p + t > 7 => k = j + step /\ q = p + t - 8
    BY <1>3 DEF Inside, FromPlace
  <1>13. d \in Int /\ (d = t \/ d = -t) /\ t \in 1 .. 7
    OBVIOUS
  <1>14. /\ up /\ Upright(b) => d = -t
         /\ up /\ ~ Upright(b) => d = t
         /\ ~ up /\ Upright(b) => d = t
         /\ ~ up /\ ~ Upright(b) => d = -t
    OBVIOUS
  <1>15. /\ d = -t => step = IF Mirrors(b) THEN 1 ELSE -1
         /\ d = t => step = IF Mirrors(b) THEN -1 ELSE 1
    BY <1>2, <1>10, <1>11
  <1>16. x \in Int /\ 8 * ByteOf(b, n, k) + PlaceOf(b, q) = x
    <2>1. CASE up /\ p >= t
      <3>1. k = j /\ q = p - t
        BY <1>12, <2>1
      <3>2. (Upright(b) => d = -t) /\ (~ Upright(b) => d = t)
        BY <1>14, <2>1
      <3>3. QED
        BY <1>3, <1>4, <1>5, <1>7, <1>8, <1>10, <1>13, <3>1, <3>2
    <2>2. CASE up /\ p < t
      <3>1. k = j + step /\ q = p + 8 - t
        BY <1>12, <2>2
      <3>2. (Upright(b) => d = -t) /\ (~ Upright(b) => d = t)
        BY <1>14, <2>2
      <3>3. QED
        BY <1>3, <1>4, <1>5, <1>7, <1>8, <1>10, <1>13, <1>15, <3>1, <3>2
    <2>3. CASE ~ up /\ p + t <= 7
      BY <1>3, <1>4, <1>5, <1>7, <1>8, <1>10, <1>12, <1>13, <1>14, <2>3
    <2>4. CASE ~ up /\ p + t > 7
      BY <1>3, <1>4, <1>5, <1>7, <1>8, <1>10, <1>12, <1>13, <1>15, <1>14, <2>4
    <2>5. QED
      BY <1>3, <2>1, <2>2, <2>3, <2>4
  <1>17. k \in Int /\ PlaceOf(b, q) \in 0 .. 7
    BY <1>2, <1>3, <1>5, <1>10, <1>12
  <1>18. k \in 0 .. n - 1 <=> x \in 0 .. 8 * n - 1
    BY <1>7, <1>10, <1>16, <1>17
  <1>19. k \in -1 .. n
    BY <1>2, <1>3, <1>12
  <1>20. ASSUME k \notin 0 .. n - 1
         PROVE  PlaceOf(b, EdgePlace(n, x)) = q
    <2>1. EdgePlace(n, x) = PlaceOf(b, q)
      BY <1>7, <1>10, <1>16, <1>17, <1>19, <1>20 DEF EdgePlace
    <2>2. PlaceOf(b, PlaceOf(b, q)) = q
      BY <1>1, Mirrored
    <2>3. QED
      BY <2>1, <2>2
  <1>21. QED
    BY <1>1, <1>9, <1>16, <1>18, <1>20

\* The rest of a shift within bytes is a shift of the vector.
LEMMA TailMovesBits ==
  ASSUME NEW n \in Nat \ {0}, NEW b \in BufferOf(n), NEW step \in Steps, NEW up \in BOOLEAN, NEW t \in 1 .. 7,
         NEW d, d = IF up <=> Upright(b) THEN -t ELSE t, Signed(b, step) = IF d < 0 THEN -1 ELSE 1,
         NEW edge \in Byte
  PROVE  Vector(TailShift(b, step, up, t, edge)) = Tailed(n, b, Vector(b), d, edge)
  <1> DEFINE m == b.data
             v == Vector(b)
             z == TailShift(b, step, up, t, edge)
             w == Tailed(n, b, v, d, edge)
             next(j) == IF j + step \in DOMAIN m THEN m[j + step] ELSE edge
  <1>1. m \in ByteBlocks(n) /\ DOMAIN m = 0 .. n - 1
    BY DataOf
  <1>2. step \in Int /\ t \in Int
    BY DEF Steps
  <1>3. /\ z \in BufferOf(n) /\ z.endian = b.endian /\ z.dependent = b.dependent
    BY <1>2, TailKeeps DEF Like
  <1>4. v \in Bits(n) /\ \A j \in 0 .. n - 1, p \in BitOf : v[IndexOf(b, n, j, p)] = m[j][p]
    BY VectorIs
  <1>5. \A j \in 0 .. n - 1 :
          z.data[j] = IF up THEN Bytewise(Or, Shr(next(j), 8 - t), Shl(m[j], t))
                      ELSE Bytewise(Or, Shl(next(j), 8 - t), Shr(m[j], t))
    BY <1>1 DEF TailShift, BufferOf
  <1>6. \A j \in 0 .. n - 1 : next(j) \in Byte /\ m[j] \in Byte
    BY <1>1 DEF ByteBlocks
  <1> HIDE DEF v, z, next
  <1>7. ASSUME NEW j \in 0 .. n - 1, NEW p \in BitOf
        PROVE  /\ z.data[j][p] = w[IndexOf(b, n, j, p)]
               /\ w[IndexOf(b, n, j, p)] \in Bit
    <2> DEFINE q == FromPlace(up, t, p)
               in == Inside(up, t, p)
               k == IF in THEN j ELSE j + step
               i == IndexOf(b, n, j, p)
               x == i + d
    <2>1. /\ q \in BitOf /\ x \in Int
          /\ k \in 0 .. n - 1 <=> x \in 0 .. 8 * n - 1
          /\ k \in 0 .. n - 1 => IndexOf(b, n, k, q) = x
          /\ k \notin 0 .. n - 1 => PlaceOf(b, EdgePlace(n, x)) = q
      BY TailPlaces
    <2>2. z.data[j][p] = IF in THEN m[j][q] ELSE next(j)[q]
      <3>1. z.data[j] = IF up THEN Bytewise(Or, Shr(next(j), 8 - t), Shl(m[j], t))
                        ELSE Bytewise(Or, Shl(next(j), 8 - t), Shr(m[j], t))
        BY <1>5
      <3>2. /\ Bytewise(Or, Shr(next(j), 8 - t), Shl(m[j], t))[p] = IF p >= t THEN m[j][p - t] ELSE next(j)[p + 8 - t]
            /\ Bytewise(Or, Shl(next(j), 8 - t), Shr(m[j], t))[p] = IF p + t <= 7 THEN m[j][p + t] ELSE next(j)[p + t - 8]
        BY <1>6, Joined
      <3> HIDE DEF m
      <3>3. CASE up
        <4>1. z.data[j][p] = IF p >= t THEN m[j][p - t] ELSE next(j)[p + 8 - t]
          BY <3>1, <3>2, <3>3
        <4>2. in <=> p >= t
          BY <3>3 DEF Inside
        <4>3. q = IF p >= t THEN p - t ELSE p + 8 - t
          BY <3>3 DEF FromPlace
        <4> HIDE DEF q, in
        <4>4. QED
          BY <4>1, <4>2, <4>3
      <3>4. CASE ~ up
        <4>1. z.data[j][p] = IF p + t <= 7 THEN m[j][p + t] ELSE next(j)[p + t - 8]
          BY <3>1, <3>2, <3>4
        <4>2. in <=> p + t <= 7
          BY <3>4 DEF Inside
        <4>3. q = IF p + t <= 7 THEN p + t ELSE p + t - 8
          BY <3>4 DEF FromPlace
        <4> HIDE DEF q, in
        <4>4. QED
          BY <4>1, <4>2, <4>3
      <3>5. QED
        BY <3>3, <3>4
    <2>3. i \in 0 .. 8 * n - 1
      BY Positions
    <2> HIDE DEF q, in, i
    <2>4. w[i] = IF x \in 0 .. 8 * n - 1 THEN v[x] ELSE edge[PlaceOf(b, EdgePlace(n, x))]
      BY <2>3 DEF Tailed
    <2> HIDE DEF x
    <2>5. z.data[j][p] = IF k \in 0 .. n - 1 THEN m[k][q] ELSE edge[q]
      BY <1>1, <2>2 DEF next
    <2> HIDE DEF k, w
    <2>6. CASE k \in 0 .. n - 1
      <3>1. v[x] = m[k][q]
        BY <1>4, <2>1, <2>6
      <3>2. v[x] \in Bit
        BY <1>4, <2>1, <2>6 DEF Bits
      <3>3. QED
        BY <2>1, <2>4, <2>5, <2>6, <3>1, <3>2 DEF i
    <2>7. CASE k \notin 0 .. n - 1
      <3>1. edge[q] \in Bit
        BY <2>1 DEF Byte
      <3>2. QED
        BY <2>1, <2>4, <2>5, <2>7, <3>1 DEF i
    <2>8. QED
      BY <2>6, <2>7
  <1>8. w \in Bits(n)
    <2>1. \A i \in 0 .. 8 * n - 1 : w[i] \in Bit
      <3> SUFFICES ASSUME NEW i \in 0 .. 8 * n - 1 PROVE w[i] \in Bit
        OBVIOUS
      <3>1. PICK j \in 0 .. n - 1, p \in BitOf : IndexOf(b, n, j, p) = i
        BY Positions
      <3> HIDE DEF w
      <3>2. QED
        BY <1>7, <3>1
    <2>2. w = [i \in 0 .. 8 * n - 1 |-> w[i]]
      BY DEF Tailed
    <2> HIDE DEF w
    <2>3. QED
      BY <2>1, <2>2 DEF Bits
  <1> HIDE DEF w
  <1>9. \A j \in 0 .. n - 1, p \in BitOf : z.data[j][p] = w[IndexOf(z, n, j, p)]
    BY <1>3, <1>7, LayoutSame
  <1>10. Vector(z) = w
    BY <1>3, <1>8, <1>9, VectorDetermines
  <1>11. QED
    BY <1>10 DEF v, z, w

-----------------------------------------------------------------------------
(* Remainders                                                              *)

\* Remainders, without division.
LEMMA RemainderIs ==
  ASSUME NEW n \in Nat \ {0}, NEW x \in Int, NEW k \in Int, NEW r \in 0 .. n - 1, x = n * k + r
  PROVE  x % n = r
  <1> DEFINE q == x \div n
             m == x % n
  <1>1. q \in Int /\ m \in 0 .. n - 1 /\ x = n * q + m
    OBVIOUS
  <1> HIDE DEF q, m
  <1> DEFINE e == q - k
  <1>2. e \in Int /\ n * e = r - m
    <2>1. n * (q - k) = n * q - n * k
      BY <1>1
    <2>2. QED
      BY <1>1, <2>1
  <1> HIDE DEF e
  <1>3. ~ (e >= 1)
    <2> SUFFICES ASSUME e >= 1 PROVE FALSE
      OBVIOUS
    <2>1. n * e >= n
      BY <1>2
    <2>2. QED
      BY <1>1, <1>2, <2>1
  <1>4. ~ (e <= -1)
    <2> SUFFICES ASSUME e <= -1 PROVE FALSE
      OBVIOUS
    <2>1. n * e <= -n
      BY <1>2
    <2>2. QED
      BY <1>1, <1>2, <2>1
  <1>5. e = 0
    BY <1>2, <1>3, <1>4
  <1>6. r = m
    BY <1>1, <1>2, <1>5
  <1>7. QED
    BY <1>6 DEF m

\* A rotation by any number of bits is one by the remainder.
LEMMA Wrapped ==
  ASSUME NEW n \in Nat \ {0}, NEW s \in Nat, NEW r, r = s % n, NEW i \in 0 .. n - 1
  PROVE  (i - s) % n = Wrap(n, i - r) /\ (i + s) % n = Wrap(n, i + r)
  <1> DEFINE q == s \div n
  <1>1. r \in 0 .. n - 1 /\ q \in Int /\ s = n * q + r
    OBVIOUS
  <1> HIDE DEF q
  <1>2. (i - s) % n = Wrap(n, i - r)
    <2>1. CASE i - r >= 0
      <3>1. i - s = n * (-q) + (i - r) /\ i - r \in 0 .. n - 1 /\ -q \in Int /\ i - s \in Int
        BY <1>1, <2>1
      <3>2. (i - s) % n = i - r
        BY <3>1, RemainderIs
      <3>3. QED
        BY <1>1, <2>1, <3>2 DEF Wrap
    <2>2. CASE i - r < 0
      <3>1. n * (-q - 1) = -(n * q) - n
        BY <1>1
      <3>2. i - s = n * (-q - 1) + (i - r + n) /\ i - r + n \in 0 .. n - 1 /\ -q - 1 \in Int /\ i - s \in Int
        BY <1>1, <2>2, <3>1
      <3>3. (i - s) % n = i - r + n
        BY <3>2, RemainderIs
      <3>4. QED
        BY <1>1, <2>2, <3>3 DEF Wrap
    <2>3. QED
      BY <1>1, <2>1, <2>2
  <1>3. (i + s) % n = Wrap(n, i + r)
    <2>1. CASE i + r < n
      <3>1. i + s = n * q + (i + r) /\ i + r \in 0 .. n - 1 /\ i + s \in Int
        BY <1>1, <2>1
      <3>2. (i + s) % n = i + r
        BY <1>1, <3>1, RemainderIs
      <3>3. QED
        BY <1>1, <2>1, <3>2 DEF Wrap
    <2>2. CASE i + r >= n
      <3>1. n * (q + 1) = n * q + n
        BY <1>1
      <3>2. i + s = n * (q + 1) + (i + r - n) /\ i + r - n \in 0 .. n - 1 /\ q + 1 \in Int /\ i + s \in Int
        BY <1>1, <2>2, <3>1
      <3>3. (i + s) % n = i + r - n
        BY <3>2, RemainderIs
      <3>4. QED
        BY <1>1, <2>2, <3>3 DEF Wrap
    <2>3. QED
      BY <1>1, <2>1, <2>2
  <1>4. QED
    BY <1>2, <1>3

\* The remainder of a number of bits that are whole bytes.
LEMMA EightRemainder ==
  ASSUME NEW n \in Nat \ {0}, NEW s \in Nat
  PROVE  (8 * s) % (8 * n) = 8 * (s % n)
  <1> DEFINE q == s \div n
             r == s % n
             m == 8 * n
  <1>1. r \in 0 .. n - 1 /\ q \in Int /\ s = n * q + r
    OBVIOUS
  <1> HIDE DEF q, r
  <1>2. 8 * s = (8 * n) * q + 8 * r
    BY <1>1
  <1>3. m \in Nat \ {0} /\ 8 * r \in 0 .. m - 1 /\ 8 * s \in Int /\ 8 * s = m * q + 8 * r
    BY <1>1, <1>2
  <1> HIDE DEF m
  <1>4. (8 * s) % m = 8 * r
    BY <1>1, <1>3, RemainderIs
  <1>5. QED
    BY <1>4 DEF m, r

-----------------------------------------------------------------------------
(* Whole shifts                                                            *)

\* Two shifts in one direction are one shift.
LEMMA ShiftingTwice ==
  ASSUME NEW n \in Nat \ {0}, NEW v, NEW d \in Int, NEW e \in Int, NEW fill,
         (d <= 0 /\ e <= 0) \/ (d >= 0 /\ e >= 0)
  PROVE  [i \in 0 .. 8 * n - 1 |-> IF i + e \in 0 .. 8 * n - 1 THEN Shifting(n, v, d, fill)[i + e] ELSE fill]
           = Shifting(n, v, d + e, fill)
  <1> DEFINE u == Shifting(n, v, d, fill)
             N == 8 * n
  <1>1. N \in Nat
    OBVIOUS
  <1>2. \A i \in 0 .. N - 1 : u[i] = IF i + d \in 0 .. N - 1 THEN v[i + d] ELSE fill
    BY DEF Shifting
  <1> HIDE DEF u
  <1>3. ASSUME NEW i \in 0 .. N - 1
        PROVE  (IF i + e \in 0 .. N - 1 THEN u[i + e] ELSE fill) = IF i + (d + e) \in 0 .. N - 1 THEN v[i + (d + e)] ELSE fill
    <2> HIDE DEF N
    <2>1. i + e + d = i + (d + e)
      BY <1>1
    <2>2. i + e \notin 0 .. N - 1 => i + (d + e) \notin 0 .. N - 1
      BY <1>1
    <2>3. CASE i + e \in 0 .. N - 1
      BY <1>2, <2>1, <2>3
    <2>4. CASE i + e \notin 0 .. N - 1
      BY <2>2, <2>4
    <2>5. QED
      BY <2>3, <2>4
  <1>4. QED
    BY <1>3 DEF u, Shifting

\* Two rotations in one direction are one rotation.
LEMMA RotatedTwice ==
  ASSUME NEW n \in Nat \ {0}, NEW v, NEW d \in Int, NEW e \in Int,
         (d <= 0 /\ e <= 0 /\ d + e > -(8 * n)) \/ (d >= 0 /\ e >= 0 /\ d + e < 8 * n)
  PROVE  Rotated(n, Rotated(n, v, d), e) = Rotated(n, v, d + e)
  <1> DEFINE u == Rotated(n, v, d)
             N == 8 * n
  <1>1. N \in Nat
    OBVIOUS
  <1>2. \A i \in 0 .. N - 1 : u[i] = v[Wrap(N, i + d)]
    BY DEF Rotated
  <1> HIDE DEF u
  <1>3. ASSUME NEW i \in 0 .. N - 1
        PROVE  u[Wrap(N, i + e)] = v[Wrap(N, i + (d + e))]
    <2> HIDE DEF N
    <2>1. Wrap(N, i + e) \in 0 .. N - 1
      BY <1>1 DEF Wrap, N
    <2>2. Wrap(N, Wrap(N, i + e) + d) = Wrap(N, i + (d + e))
      BY <1>1 DEF Wrap, N
    <2> DEFINE k == Wrap(N, i + e)
    <2> HIDE DEF k
    <2>3. u[k] = v[Wrap(N, k + d)]
      BY <1>2, <2>1 DEF k
    <2>4. QED
      BY <2>2, <2>3 DEF k
  <1>4. QED
    BY <1>3 DEF u, Rotated

\* A shift by whole bytes and the rest of it are one shift.
LEMMA TailOfShift ==
  ASSUME NEW n \in Nat \ {0}, NEW b \in BufferOf(n), NEW step \in Steps, NEW up \in BOOLEAN, NEW t \in 1 .. 7,
         NEW d, d = IF up <=> Upright(b) THEN -t ELSE t, Signed(b, step) = IF d < 0 THEN -1 ELSE 1,
         NEW fill \in Bit, NEW edge, edge = [p \in BitOf |-> fill],
         NEW v, NEW e \in Int, Vector(b) = Shifting(n, v, e, fill),
         (d <= 0 /\ e <= 0) \/ (d >= 0 /\ e >= 0)
  PROVE  Vector(TailShift(b, step, up, t, edge)) = Shifting(n, v, e + d, fill)
  <1>1. edge \in Byte /\ d \in Int /\ d \in -7 .. 7
    BY DEF Byte
  <1>2. Vector(TailShift(b, step, up, t, edge)) = Tailed(n, b, Vector(b), d, edge)
    BY <1>1, TailMovesBits
  <1> DEFINE u == Shifting(n, v, e, fill)
  <1>3. \A i \in 0 .. 8 * n - 1 : i + d \notin 0 .. 8 * n - 1 => edge[PlaceOf(b, EdgePlace(n, i + d))] = fill
    <2> SUFFICES ASSUME NEW i \in 0 .. 8 * n - 1, i + d \notin 0 .. 8 * n - 1
                 PROVE  edge[PlaceOf(b, EdgePlace(n, i + d))] = fill
      OBVIOUS
    <2>1. EdgePlace(n, i + d) \in BitOf
      BY <1>1 DEF EdgePlace, BitOf
    <2>2. PlaceOf(b, EdgePlace(n, i + d)) \in BitOf
      BY <2>1, Mirrored
    <2>3. QED
      BY <2>2
  <1> HIDE DEF u
  <1>4. Tailed(n, b, u, d, edge) = [i \in 0 .. 8 * n - 1 |-> IF i + d \in 0 .. 8 * n - 1 THEN u[i + d] ELSE fill]
    BY <1>3 DEF Tailed
  <1>5. QED
    BY <1>1, <1>2, <1>4, ShiftingTwice DEF u

\* The rest of a rotation, when the edge is the byte at the other end.
LEMMA TailOfRotation ==
  ASSUME NEW n \in Nat \ {0}, NEW b \in BufferOf(n), NEW step \in Steps, NEW up \in BOOLEAN, NEW t \in 1 .. 7,
         NEW d, d = IF up <=> Upright(b) THEN -t ELSE t, Signed(b, step) = IF d < 0 THEN -1 ELSE 1,
         NEW k \in 0 .. n - 1, ByteOf(b, n, k) = IF d < 0 THEN n - 1 ELSE 0,
         NEW edge, edge = b.data[k]
  PROVE  Vector(TailShift(b, step, up, t, edge)) = Rotated(n, Vector(b), d)
  <1> DEFINE u == Vector(b)
             N == 8 * n
  <1>1. edge \in Byte /\ d \in Int /\ d \in -7 .. 7 /\ N \in Nat
    BY DataOf DEF ByteBlocks
  <1>2. Vector(TailShift(b, step, up, t, edge)) = Tailed(n, b, u, d, edge)
    BY <1>1, TailMovesBits
  <1>3. \A p \in BitOf : u[IndexOf(b, n, k, p)] = edge[p]
    BY VectorIs
  <1> HIDE DEF u
  <1>4. ASSUME NEW i \in 0 .. N - 1
        PROVE  (IF i + d \in 0 .. N - 1 THEN u[i + d] ELSE edge[PlaceOf(b, EdgePlace(n, i + d))]) = u[Wrap(N, i + d)]
    <2> DEFINE x == i + d
               q == EdgePlace(n, x)
               p == PlaceOf(b, q)
    <2>1. CASE x \in 0 .. N - 1
      <3>1. Wrap(N, x) = x
        BY <2>1 DEF Wrap
      <3>2. QED
        BY <2>1, <3>1
    <2>2. CASE x \notin 0 .. N - 1
      <3>1. q \in BitOf
        BY <1>1, <2>2 DEF EdgePlace, BitOf
      <3>2. p \in BitOf /\ PlaceOf(b, p) = q
        BY <3>1, Mirrored
      <3>3. IndexOf(b, n, k, p) = 8 * ByteOf(b, n, k) + q
        BY <3>2 DEF IndexOf
      <3>4. 8 * ByteOf(b, n, k) + q = Wrap(N, x)
        BY <1>1, <2>2 DEF EdgePlace, Wrap
      <3>5. u[Wrap(N, x)] = edge[p]
        BY <1>3, <3>2, <3>3, <3>4
      <3>6. QED
        BY <2>2, <3>5
    <2>3. QED
      BY <2>1, <2>2
  <1>5. Tailed(n, b, u, d, edge) = Rotated(n, u, d)
    BY <1>4 DEF Tailed, Rotated
  <1>6. QED
    BY <1>2, <1>5 DEF u

-----------------------------------------------------------------------------
(* Shift calls are shifts of the vector                                    *)

\* The distance in the vector from a bit to the one that replaces it.
Offset(b, left, s) == IF left <=> b.dependent THEN -s ELSE s

\* The four layouts.
LEMMA LayoutCases ==
  ASSUME NEW n \in Nat, NEW b \in BufferOf(n)
  PROVE  \/ /\ Stored(b) = LE /\ b.dependent /\ ~Mirrors(b) /\ Upright(b)
            /\ b.endian = LE /\ b.endian # BE /\ b.endian # RBE
         \/ /\ Stored(b) = BE /\ Stored(b) # LE /\ b.dependent /\ Mirrors(b) /\ Upright(b)
            /\ b.endian = BE /\ b.endian # RBE
         \/ /\ Stored(b) = RBE /\ Stored(b) # LE /\ Stored(b) # BE /\ b.dependent /\ Mirrors(b) /\ ~Upright(b)
            /\ b.endian = RBE /\ b.endian # BE
         \/ /\ Stored(b) = "independent" /\ Stored(b) # LE /\ Stored(b) # BE
            /\ ~b.dependent /\ ~Mirrors(b) /\ ~Upright(b)
  BY DEF BufferOf, Endians, Stored, Mirrors, Upright, LE, BE, RBE

\* Left and right in bytes and in bits.
LEMMA Offsets ==
  ASSUME NEW n \in Nat, NEW b \in BufferOf(n), NEW s \in Int
  PROVE  /\ Signed(b, IF Stored(b) = LE THEN -s ELSE s) = Offset(b, TRUE, s)
         /\ Signed(b, IF Stored(b) = LE THEN s ELSE -s) = Offset(b, FALSE, s)
         /\ 8 * Offset(b, TRUE, s) = Offset(b, TRUE, 8 * s) /\ 8 * Offset(b, FALSE, s) = Offset(b, FALSE, 8 * s)
  <1>1. -(-s) = s /\ 8 * (-s) = -(8 * s)
    OBVIOUS
  <1>2. QED
    BY <1>1, LayoutCases DEF Signed, Offset

\* Shifts in one direction add up.
LEMMA OffsetsAdd ==
  ASSUME NEW b, NEW left \in BOOLEAN, NEW s \in Nat, NEW t \in Nat
  PROVE  /\ Offset(b, left, s) + Offset(b, left, t) = Offset(b, left, s + t)
         /\ Offset(b, left, s) \in Int
         /\ \/ Offset(b, left, s) <= 0 /\ Offset(b, left, t) <= 0 /\ Offset(b, left, s) = -s
            \/ Offset(b, left, s) >= 0 /\ Offset(b, left, t) >= 0 /\ Offset(b, left, s) = s
  <1>1. CASE left <=> b.dependent
    BY <1>1 DEF Offset
  <1>2. CASE ~ (left <=> b.dependent)
    BY <1>2 DEF Offset
  <1>3. QED
    BY <1>1, <1>2

\* The byte shifts are shifts of the vector, for every distance.
LEMMA ByteShiftsMoveBits ==
  ASSUME NEW n \in Nat \ {0}, NEW b \in BufferOf(n), NEW s \in Nat, NEW c, c.fill \in Bit
  PROVE  /\ Vector(ByteShiftLeft(b, s, Filled(c))) = Shifting(n, Vector(b), Offset(b, TRUE, 8 * s), c.fill)
         /\ Vector(ByteShiftRight(b, s, Filled(c))) = Shifting(n, Vector(b), Offset(b, FALSE, 8 * s), c.fill)
  <1> DEFINE d == IF Stored(b) = LE THEN -s ELSE s
             e == IF Stored(b) = LE THEN s ELSE -s
             f == Filled(c)
  <1>1. d \in Int /\ e \in Int
    OBVIOUS
  <1>2. f = [p \in BitOf |-> c.fill]
    BY DEF Filled
  <1>3. ByteShiftLeft(b, s, f) = WithData(b, ShiftedBytes(n, b.data, d, f)) /\ ByteShiftRight(b, s, f) = WithData(b, ShiftedBytes(n, b.data, e, f))
    BY ByteShifts
  <1>4. 8 * Signed(b, d) = Offset(b, TRUE, 8 * s) /\ 8 * Signed(b, e) = Offset(b, FALSE, 8 * s)
    <2>1. n \in Nat /\ s \in Int
      OBVIOUS
    <2>2. Signed(b, d) = Offset(b, TRUE, s) /\ Signed(b, e) = Offset(b, FALSE, s)
      BY <2>1, Offsets
    <2>3. 8 * Offset(b, TRUE, s) = Offset(b, TRUE, 8 * s) /\ 8 * Offset(b, FALSE, s) = Offset(b, FALSE, 8 * s)
      BY <2>1, Offsets
    <2>4. QED
      BY <2>2, <2>3
  <1> DEFINE D == Offset(b, TRUE, 8 * s)
             E == Offset(b, FALSE, 8 * s)
  <1> HIDE DEF d, e, f, D, E
  <1>5. D = 8 * Signed(b, d) /\ E = 8 * Signed(b, e)
    BY <1>4 DEF D, E
  <1>6. Vector(WithData(b, ShiftedBytes(n, b.data, d, f))) = Shifting(n, Vector(b), D, c.fill)
    BY <1>1, <1>2, <1>5, BytesMoveBits
  <1>7. Vector(WithData(b, ShiftedBytes(n, b.data, e, f))) = Shifting(n, Vector(b), E, c.fill)
    BY <1>1, <1>2, <1>5, BytesMoveBits
  <1>8. QED
    BY <1>3, <1>6, <1>7 DEF f, D, E

\* A shift by the whole vector or more leaves nothing of it.
LEMMA ShiftedOut ==
  ASSUME NEW n \in Nat, NEW v, NEW d \in Int, NEW e \in Int, NEW fill,
         d >= 8 * n \/ d <= -(8 * n), e >= 8 * n \/ e <= -(8 * n)
  PROVE  Shifting(n, v, d, fill) = Shifting(n, v, e, fill)
  <1>1. \A i \in 0 .. 8 * n - 1 : i + d \notin 0 .. 8 * n - 1 /\ i + e \notin 0 .. 8 * n - 1
    OBVIOUS
  <1>2. QED
    BY <1>1 DEF Shifting

\* A step downwards.
LEMMA MinusOne ==
  ASSUME NEW s \in Int, s < 0, s > -2
  PROVE  -s = 1
  OBVIOUS

\* The parameters of TailShift in the calls that do what they promise.
LEMMA TailDirections ==
  ASSUME NEW n \in Nat, NEW b \in BufferOf(n), NEW t \in 1 .. 7, NEW left \in BOOLEAN, NEW up \in BOOLEAN,
         NEW step, step = IF (Stored(b) = LE) <=> left THEN -1 ELSE 1,
         \/ left /\ Stored(b) # BE /\ (up <=> Stored(b) \in {LE, "independent"})
         \/ left /\ Stored(b) # RBE /\ up
         \/ ~left /\ Stored(b) # RBE /\ ~up,
         NEW d, d = Offset(b, left, t)
  PROVE  /\ step \in Steps
         /\ d = IF up <=> Upright(b) THEN -t ELSE t
         /\ Signed(b, step) = IF d < 0 THEN -1 ELSE 1
         /\ d \in Int /\ d # 0
  <1>1. step = -1 \/ step = 1
    OBVIOUS
  <1>2. step \in Steps
    BY <1>1 DEF Steps
  <1>3. LE # BE /\ LE # RBE /\ BE # RBE /\ LE # "independent" /\ BE # "independent" /\ RBE # "independent"
    BY DEF LE, BE, RBE
  <1>4. d = -t \/ d = t
    BY DEF Offset
  <1>5. d = IF up <=> Upright(b) THEN -t ELSE t
    BY <1>3, LayoutCases DEF Offset
  <1>6. d = -t => d < 0
    OBVIOUS
  <1>7. d = t => ~ (d < 0)
    OBVIOUS
  <1>8. step = -1 => -step = 1
    <2>1. step \in Int /\ (step = -1 => step < 0 /\ step > -2)
      BY <1>1
    <2>2. step < 0 /\ step > -2 => -step = 1
      BY <2>1, MinusOne
    <2>3. QED
      BY <2>1, <2>2
  <1>9. Signed(b, step) = IF d = -t THEN -1 ELSE 1
    <2>1. -t # t
      OBVIOUS
    <2>2. QED
      BY <1>1, <1>3, <1>8, <2>1, LayoutCases DEF Offset, Signed
  <1>10. QED
    BY <1>2, <1>4, <1>5, <1>6, <1>7, <1>9

\* A buffer laid out alike has its bits at the same positions.
LEMMA LikeLayout ==
  ASSUME NEW n \in Nat, NEW b \in BufferOf(n), NEW s \in Like(b, n)
  PROVE  /\ s \in BufferOf(n) /\ Stored(s) = Stored(b) /\ (Upright(s) <=> Upright(b)) /\ (Mirrors(s) <=> Mirrors(b))
         /\ \A d : Signed(s, d) = Signed(b, d)
         /\ \A k : ByteOf(s, n, k) = ByteOf(b, n, k)
         /\ \A left, d : Offset(s, left, d) = Offset(b, left, d)
  BY DEF Like, Stored, Upright, Mirrors, Signed, ByteOf, Offset

\* The parameters TailShift is called with in direction left.
Directed(b, left, up, step) ==
  /\ up \in BOOLEAN /\ step = IF (Stored(b) = LE) <=> left THEN -1 ELSE 1
  /\ \/ left /\ Stored(b) # BE /\ (up <=> Stored(b) \in {LE, "independent"})
     \/ left /\ Stored(b) # RBE /\ up
     \/ ~left /\ Stored(b) # RBE /\ ~up

\* s is the vector v shifted by whole bytes, and has still to be shifted by t.
Resting(n, b, s, left, up, step, t, a, x, fill, v) ==
  /\ s \in Like(b, n) /\ left \in BOOLEAN /\ Directed(b, left, up, step)
  /\ t \in 1 .. 7 /\ a \in Nat /\ x = a + t /\ fill \in Bit
  /\ Vector(s) = Shifting(n, v, Offset(b, left, a), fill)

\* After TailShift s is shifted by the whole distance.
LEMMA RestOfShift ==
  ASSUME NEW n \in Nat \ {0}, NEW b \in BufferOf(n), NEW s, NEW left, NEW up, NEW step, NEW t, NEW a, NEW x,
         NEW fill, NEW v, Resting(n, b, s, left, up, step, t, a, x, fill, v), NEW edge, edge = [p \in BitOf |-> fill]
  PROVE  Vector(TailShift(s, step, up, t, edge)) = Shifting(n, v, Offset(b, left, x), fill)
  <1> DEFINE d == Offset(b, left, t)
             e == Offset(b, left, a)
  <1>1. n \in Nat /\ a \in Nat /\ t \in Nat /\ t \in 1 .. 7 /\ left \in BOOLEAN /\ fill \in Bit /\ x = a + t
    BY DEF Resting
  <1>2. s \in BufferOf(n) /\ (Upright(s) <=> Upright(b)) /\ (\A y : Signed(s, y) = Signed(b, y))
    BY <1>1, LikeLayout DEF Resting
  <1>3. /\ up \in BOOLEAN /\ step \in Steps /\ d \in Int
        /\ d = IF up <=> Upright(b) THEN -t ELSE t
        /\ Signed(b, step) = IF d < 0 THEN -1 ELSE 1
    BY <1>1, TailDirections DEF Directed, Resting
  <1>4. e + d = Offset(b, left, x) /\ e \in Int /\ ((d <= 0 /\ e <= 0) \/ (d >= 0 /\ e >= 0))
    BY <1>1, OffsetsAdd
  <1> HIDE DEF d, e
  <1>5. d = IF up <=> Upright(s) THEN -t ELSE t
    BY <1>2, <1>3
  <1>6. Signed(s, step) = IF d < 0 THEN -1 ELSE 1
    BY <1>2, <1>3
  <1>7. Vector(s) = Shifting(n, v, e, fill)
    BY DEF e, Resting
  <1>8. Vector(TailShift(s, step, up, t, edge)) = Shifting(n, v, e + d, fill)
    BY <1>1, <1>2, <1>3, <1>4, <1>5, <1>6, <1>7, TailOfShift
  <1>9. QED
    BY <1>4, <1>8

\* A distance is a number of bytes and a rest.
LEMMA Amounts ==
  ASSUME NEW x \in Nat
  PROVE  x \div 8 \in Nat /\ x % 8 \in 0 .. 7 /\ x = 8 * (x \div 8) + (x % 8)
  OBVIOUS

\* The bit shifts are shifts of the vector: ShiftLeft except for the rest in big
\* endian data, ShiftRight except in reversed big endian data.
LEMMA BitShiftsMoveBits ==
  ASSUME NEW n \in Nat \ {0}, NEW b \in BufferOf(n), NEW c, c.shift \in Nat, c.fill \in Bit
  PROVE  /\ c.shift % 8 = 0 \/ c.shift >= 8 * n \/ Stored(b) # BE =>
              Vector(ShiftLeft(b, c)) = Shifting(n, Vector(b), Offset(b, TRUE, c.shift), c.fill)
         /\ c.shift % 8 = 0 \/ c.shift >= 8 * n \/ Stored(b) # RBE =>
              Vector(ShiftRight(b, c)) = Shifting(n, Vector(b), Offset(b, FALSE, c.shift), c.fill)
  <1> DEFINE x == c.shift
             a == x \div 8
             t == x % 8
             v == Vector(b)
             y == ByteShiftLeft(b, a, Filled(c))
             z == ByteShiftRight(b, a, Filled(c))
             up == Stored(b) \in {LE, "independent"}
             before == IF Stored(b) = LE THEN -1 ELSE 1
             behind == IF Stored(b) = LE THEN 1 ELSE -1
  <1>1. x \in Nat /\ a \in Nat /\ t \in 0 .. 7 /\ x = 8 * a + t
    BY Amounts
  <1>2. Length(b) = 8 * n
    BY SizeIs
  <1>3. /\ Vector(y) = Shifting(n, v, Offset(b, TRUE, 8 * a), c.fill)
        /\ Vector(z) = Shifting(n, v, Offset(b, FALSE, 8 * a), c.fill)
    BY <1>1, ByteShiftsMoveBits
  <1>4. Filled(c) = [p \in BitOf |-> c.fill] /\ Filled(c) \in Byte
    BY FilledByte DEF Filled
  <1>5. y \in Like(b, n) /\ z \in Like(b, n)
    BY <1>1, <1>4, ByteShiftKeeps
  <1>6. ShiftLeft(b, c) = IF t = 0 \/ x >= 8 * n \/ Stored(b) = BE THEN y
                          ELSE TailShift(y, before, up, t, Filled(c))
    BY <1>2 DEF ShiftLeft
  <1>7. ShiftRight(b, c) = IF t = 0 \/ x >= 8 * n THEN z
                           ELSE TailShift(z, behind, FALSE, t, Filled(c))
    BY <1>2 DEF ShiftRight
  <1>8. /\ Stored(b) # BE => Directed(b, TRUE, up, before)
        /\ Stored(b) # RBE => Directed(b, FALSE, FALSE, behind)
    BY DEF Directed
  <1> HIDE DEF x, a, t, v, y, z, up, before, behind
  <1>9. CASE t = 0
    <2>1. 8 * a = x
      BY <1>1, <1>9
    <2>2. QED
      BY <1>3, <1>6, <1>7, <1>9, <2>1 DEF x, v
  <1>10. CASE t # 0 /\ x >= 8 * n
    <2>1. 8 * a >= 8 * n
      <3>1. a >= n
        BY <1>1, <1>10
      <3>2. QED
        BY <1>1, <3>1
    <2>2. \A left \in BOOLEAN, s \in Nat : s >= 8 * n =>
            Offset(b, left, s) \in Int /\ (Offset(b, left, s) >= 8 * n \/ Offset(b, left, s) <= -(8 * n))
      BY DEF Offset
    <2>3. \A left \in BOOLEAN : Shifting(n, v, Offset(b, left, 8 * a), c.fill) = Shifting(n, v, Offset(b, left, x), c.fill)
      <3> SUFFICES ASSUME NEW left \in BOOLEAN
                   PROVE  Shifting(n, v, Offset(b, left, 8 * a), c.fill) = Shifting(n, v, Offset(b, left, x), c.fill)
        OBVIOUS
      <3>1. 8 * a \in Nat
        BY <1>1
      <3>2. QED
        BY <1>1, <1>10, <2>1, <2>2, <3>1, ShiftedOut
    <2>4. QED
      BY <1>3, <1>6, <1>7, <1>10, <2>3 DEF x, v
  <1>11. CASE t # 0 /\ ~ (x >= 8 * n)
    <2>1. t \in 1 .. 7
      BY <1>1, <1>11
    <2>2. 8 * a \in Nat /\ x = 8 * a + t /\ TRUE \in BOOLEAN /\ FALSE \in BOOLEAN
      BY <1>1
    <2> DEFINE e == 8 * a
    <2> HIDE DEF e
    <2>3. e \in Nat /\ x = e + t
      BY <2>2 DEF e
    <2> DEFINE yes == TRUE
               no == FALSE
    <2> DEFINE f == Filled(c)
               w == c.fill
    <2>4. /\ Stored(b) # BE => Resting(n, b, y, yes, up, before, t, e, x, w, v)
          /\ Stored(b) # RBE => Resting(n, b, z, no, no, behind, t, e, x, w, v)
      BY <1>3, <1>5, <1>8, <2>1, <2>3 DEF e, Resting
    <2>5. f = [p \in BitOf |-> w]
      BY <1>4
    <2> HIDE DEF yes, no, f, w
    <2>6. /\ Stored(b) # BE => Vector(TailShift(y, before, up, t, f)) = Shifting(n, v, Offset(b, yes, x), w)
          /\ Stored(b) # RBE => Vector(TailShift(z, behind, no, t, f)) = Shifting(n, v, Offset(b, no, x), w)
      BY <2>4, <2>5, RestOfShift
    <2>7. QED
      BY <1>6, <1>7, <1>11, <2>6 DEF x, v, t, yes, no, f, w
  <1>12. QED
    BY <1>9, <1>10, <1>11

\* s is the vector v rotated by whole bytes, and has still to be rotated by t
\* with the k-th byte as the neighbour of the one that has none.
Turning(n, b, s, left, up, step, t, a, x, k, v) ==
  /\ s \in Like(b, n) /\ left \in BOOLEAN /\ Directed(b, left, up, step)
  /\ t \in 1 .. 7 /\ a \in Nat /\ x = a + t /\ x < 8 * n
  /\ k \in 0 .. n - 1 /\ ByteOf(b, n, k) = IF left <=> b.dependent THEN n - 1 ELSE 0
  /\ Vector(s) = Rotated(n, v, Offset(b, left, a))

\* After TailShift s is rotated by the whole distance.
LEMMA RestOfRotation ==
  ASSUME NEW n \in Nat \ {0}, NEW b \in BufferOf(n), NEW s, NEW left, NEW up, NEW step, NEW t, NEW a, NEW x,
         NEW k, NEW v, Turning(n, b, s, left, up, step, t, a, x, k, v), NEW edge, edge = s.data[k]
  PROVE  Vector(TailShift(s, step, up, t, edge)) = Rotated(n, v, Offset(b, left, x))
  <1> DEFINE d == Offset(b, left, t)
             e == Offset(b, left, a)
  <1>1. n \in Nat /\ a \in Nat /\ t \in Nat /\ t \in 1 .. 7 /\ left \in BOOLEAN /\ x = a + t /\ x < 8 * n
    BY DEF Turning
  <1>2. s \in BufferOf(n) /\ (Upright(s) <=> Upright(b)) /\ (\A y : Signed(s, y) = Signed(b, y)) /\ ByteOf(s, n, k) = ByteOf(b, n, k)
    BY <1>1, LikeLayout DEF Turning
  <1>3. /\ up \in BOOLEAN /\ step \in Steps /\ d \in Int
        /\ d = IF up <=> Upright(b) THEN -t ELSE t
        /\ Signed(b, step) = IF d < 0 THEN -1 ELSE 1
    BY <1>1, TailDirections DEF Directed, Turning
  <1>4. e + d = Offset(b, left, x) /\ e \in Int
    BY <1>1, OffsetsAdd
  <1>5. \/ left <=> b.dependent /\ d = -t /\ e = -a
        \/ ~ (left <=> b.dependent) /\ d = t /\ e = a
    BY DEF Offset
  <1>6. /\ (left <=> b.dependent) <=> d < 0
        /\ (e <= 0 /\ d <= 0 /\ e + d > -(8 * n)) \/ (e >= 0 /\ d >= 0 /\ e + d < 8 * n)
    <2>1. CASE (left <=> b.dependent) /\ d = -t /\ e = -a
      BY <1>1, <2>1
    <2>2. CASE ~ (left <=> b.dependent) /\ d = t /\ e = a
      BY <1>1, <2>2
    <2>3. QED
      BY <2>1, <2>2 DEF Offset, d, e
  <1> HIDE DEF d, e
  <1>7. d = IF up <=> Upright(s) THEN -t ELSE t
    BY <1>2, <1>3
  <1>8. Signed(s, step) = IF d < 0 THEN -1 ELSE 1
    BY <1>2, <1>3
  <1>9. k \in 0 .. n - 1 /\ ByteOf(s, n, k) = IF d < 0 THEN n - 1 ELSE 0
    BY <1>2, <1>6 DEF Turning
  <1>10. Vector(TailShift(s, step, up, t, edge)) = Rotated(n, Vector(s), d)
    BY <1>1, <1>2, <1>3, <1>7, <1>8, <1>9, TailOfRotation
  <1>11. Vector(s) = Rotated(n, v, e)
    BY DEF e, Turning
  <1>12. Rotated(n, Rotated(n, v, e), d) = Rotated(n, v, e + d)
    <2>1. (e <= 0 /\ d <= 0 /\ e + d > -(8 * n)) \/ (e >= 0 /\ d >= 0 /\ e + d < 8 * n)
      BY <1>6
    <2>2. e \in Int /\ d \in Int
      BY <1>3, <1>4
    <2>3. QED
      BY <2>1, <2>2, RotatedTwice
  <1>13. QED
    BY <1>4, <1>10, <1>11, <1>12

\* The round byte shifts rotate the vector.
LEMMA ByteRotationsMoveBits ==
  ASSUME NEW n \in Nat \ {0}, NEW b \in BufferOf(n), NEW s \in Nat, NEW r, r = s % n
  PROVE  /\ r \in 0 .. n - 1
         /\ Vector(ByteRoundShiftLeft(b, s)) = Rotated(n, Vector(b), Offset(b, TRUE, 8 * r))
         /\ Vector(ByteRoundShiftRight(b, s)) = Rotated(n, Vector(b), Offset(b, FALSE, 8 * r))
  <1> DEFINE d == IF Stored(b) = LE THEN -r ELSE r
             e == IF Stored(b) = LE THEN r ELSE -r
  <1>1. /\ r \in 0 .. n - 1
        /\ ByteRoundShiftLeft(b, s) = WithData(b, RotatedBytes(n, b.data, d))
        /\ ByteRoundShiftRight(b, s) = WithData(b, RotatedBytes(n, b.data, e))
    BY ByteRotations
  <1>2. d \in -(n - 1) .. n - 1 /\ e \in -(n - 1) .. n - 1
    BY <1>1
  <1>3. n \in Nat /\ r \in Int
    BY <1>1
  <1> DEFINE D == Offset(b, TRUE, 8 * r)
             E == Offset(b, FALSE, 8 * r)
  <1>4. D = 8 * Signed(b, d) /\ E = 8 * Signed(b, e)
    <2>1. Signed(b, d) = Offset(b, TRUE, r) /\ Signed(b, e) = Offset(b, FALSE, r)
      BY <1>3, Offsets
    <2>2. 8 * Offset(b, TRUE, r) = Offset(b, TRUE, 8 * r) /\ 8 * Offset(b, FALSE, r) = Offset(b, FALSE, 8 * r)
      BY <1>3, Offsets
    <2>3. QED
      BY <2>1, <2>2
  <1> HIDE DEF d, e, D, E
  <1>5. Vector(WithData(b, RotatedBytes(n, b.data, d))) = Rotated(n, Vector(b), D)
    BY <1>2, <1>4, BytesRotateBits
  <1>6. Vector(WithData(b, RotatedBytes(n, b.data, e))) = Rotated(n, Vector(b), E)
    BY <1>2, <1>4, BytesRotateBits
  <1>7. QED
    BY <1>1, <1>5, <1>6 DEF D, E

\* A rotation by s bits of n bytes is one by f bytes and u bits.
Amount(n, s, e, f, u) == s \in Nat /\ e = s % (8 * n) /\ f = e \div 8 /\ u = e % 8

\* The bytes and bits of a rotation.
LEMMA RestOfAmount ==
  ASSUME NEW n \in Nat \ {0}, NEW s, NEW e, NEW f, NEW u, Amount(n, s, e, f, u)
  PROVE  e \in 0 .. 8 * n - 1 /\ f \in 0 .. n - 1 /\ u \in 0 .. 7 /\ e = 8 * f + u /\ u = s % 8 /\ f % n = f
  <1> USE DEF Amount
  <1> DEFINE q == s \div (8 * n)
  <1>1. e \in 0 .. 8 * n - 1 /\ q \in Int /\ s = (8 * n) * q + e
    <2> DEFINE m == 8 * n
    <2>1. m \in Nat \ {0}
      OBVIOUS
    <2> HIDE DEF m
    <2>2. s % m \in 0 .. m - 1 /\ s \div m \in Int /\ s = m * (s \div m) + (s % m)
      BY <2>1
    <2>3. QED
      BY <2>2 DEF m
  <1>2. f \in 0 .. n - 1 /\ u \in 0 .. 7 /\ e = 8 * f + u
    <2>1. e \in Nat /\ e < 8 * n
      BY <1>1
    <2>2. f \in Nat /\ u \in 0 .. 7 /\ e = 8 * f + u
      BY <2>1, Amounts
    <2>3. f < n
      BY <2>1, <2>2
    <2>4. QED
      BY <2>2, <2>3
  <1> HIDE DEF q
  <1>3. s = 8 * (n * q + f) + u
    <2>1. (8 * n) * q = 8 * (n * q)
      BY <1>1
    <2>2. n * q \in Int
      BY <1>1
    <2>3. QED
      BY <1>1, <1>2, <2>1, <2>2
  <1>4. s % 8 = u
    <2> DEFINE k == n * q + f
    <2>1. k \in Int
      BY <1>1, <1>2
    <2> HIDE DEF k
    <2>2. 8 \in Nat \ {0} /\ u \in 0 .. 8 - 1 /\ s \in Int /\ s = 8 * k + u
      BY <1>2, <1>3 DEF k
    <2>3. QED
      BY <2>1, <2>2, RemainderIs
  <1>5. f % n = f
    <2>1. f = n * 0 + f /\ 0 \in Int /\ f \in Int
      BY <1>2
    <2>2. QED
      BY <1>2, <2>1, RemainderIs
  <1>6. QED
    BY <1>1, <1>2, <1>4, <1>5

\* The bits by which a vector of n bytes is rotated.
Turns(n, c, x) == c.shift \in Nat /\ x = c.shift % (8 * n)

\* The layouts in which a round shift moves every bit.
TurnsLeft(b, c)  == c.shift % 8 = 0 \/ Stored(b) # RBE
TurnsRight(b, c) == c.shift % 8 = 0 \/ Stored(b) \in {BE, "independent"}

\* The round bit shifts rotate the vector, in the layouts that TurnsLeft and
\* TurnsRight list.
LEMMA BitRotationsMoveBits ==
  ASSUME NEW n \in Nat \ {0}, NEW b \in BufferOf(n), NEW c, NEW x, Turns(n, c, x)
  PROVE  /\ x \in 0 .. 8 * n - 1
         /\ TurnsLeft(b, c) => Vector(RoundShiftLeft(b, c)) = Rotated(n, Vector(b), Offset(b, TRUE, x))
         /\ TurnsRight(b, c) => Vector(RoundShiftRight(b, c)) = Rotated(n, Vector(b), Offset(b, FALSE, x))
  <1> DEFINE a == x \div 8
             t == x % 8
             v == Vector(b)
             y == ByteRoundShiftLeft(b, a)
             z == ByteRoundShiftRight(b, a)
             before == IF Stored(b) = LE THEN -1 ELSE 1
             behind == IF Stored(b) = LE THEN 1 ELSE -1
             k == IF Stored(b) = LE THEN n - 1 ELSE 0
  <1>1. x \in 0 .. 8 * n - 1 /\ a \in 0 .. n - 1 /\ t \in 0 .. 7 /\ x = 8 * a + t /\ t = c.shift % 8 /\ a % n = a
    <2> DEFINE s == c.shift
    <2>1. s \in Nat /\ x = s % (8 * n)
      BY DEF Turns
    <2>2. Amount(n, s, x, a, t)
      BY <2>1 DEF Amount
    <2> HIDE DEF s, a, t
    <2>3. x \in 0 .. 8 * n - 1 /\ a \in 0 .. n - 1 /\ t \in 0 .. 7 /\ x = 8 * a + t /\ t = s % 8 /\ a % n = a
      BY <2>2, RestOfAmount
    <2>4. QED
      BY <2>3 DEF s
  <1>2. Length(b) = 8 * n /\ Size(b) = n
    BY SizeIs
  <1>3. /\ Vector(y) = Rotated(n, v, Offset(b, TRUE, 8 * a))
        /\ Vector(z) = Rotated(n, v, Offset(b, FALSE, 8 * a))
    <2>1. a \in Nat /\ a = a % n
      BY <1>1
    <2> HIDE DEF a
    <2>2. QED
      BY <2>1, ByteRotationsMoveBits, ZenonT(60)
  <1>4. y \in Like(b, n) /\ z \in Like(b, n)
    <2>1. a \in Nat /\ Zero \in Bit
      BY <1>1, BitsClosed
    <2>2. LowByte \in Byte
      BY BytesClosed
    <2> HIDE DEF a
    <2>3. QED
      BY <2>1, <2>2, ByteShiftKeeps
  <1>5. RoundShiftLeft(b, c) = IF t = 0 THEN y ELSE TailShift(y, before, TRUE, t, y.data[k])
    BY <1>2 DEF RoundShiftLeft, Turns
  <1>6. RoundShiftRight(b, c) = IF t = 0 THEN z ELSE TailShift(z, behind, FALSE, t, z.data[n - 1])
    BY <1>2 DEF RoundShiftRight, Turns
  <1> DEFINE yes == TRUE
             no == FALSE
  <1>7. /\ yes \in BOOLEAN /\ no \in BOOLEAN
        /\ Stored(b) # RBE => Directed(b, yes, yes, before)
        /\ Stored(b) \in {BE, "independent"} => Directed(b, no, no, behind)
    <2>1. RBE # BE /\ RBE # "independent"
      BY DEF RBE, BE
    <2>2. QED
      BY <2>1 DEF Directed
  <1>8. Stored(b) # RBE => k \in 0 .. n - 1 /\ ByteOf(b, n, k) = IF yes <=> b.dependent THEN n - 1 ELSE 0
    <2>1. Stored(b) = LE \/ Stored(b) = BE \/ Stored(b) = RBE \/ Stored(b) = "independent"
      BY LayoutCases
    <2>2. n - 1 - 0 = n - 1
      OBVIOUS
    <2>3. k \in 0 .. n - 1
      OBVIOUS
    <2>4. CASE Stored(b) = LE
      BY <2>3, <2>4, LayoutCases DEF ByteOf, Mirrors
    <2>5. CASE Stored(b) = BE
      BY <2>2, <2>3, <2>5, LayoutCases DEF ByteOf, Mirrors, BE, LE
    <2>6. CASE Stored(b) = "independent"
      BY <2>3, <2>6, LayoutCases DEF ByteOf, Mirrors, LE
    <2>7. QED
      BY <2>1, <2>4, <2>5, <2>6
  <1>9. Stored(b) \in {BE, "independent"} => n - 1 \in 0 .. n - 1 /\ ByteOf(b, n, n - 1) = IF no <=> b.dependent THEN n - 1 ELSE 0
    <2>1. n - 1 - (n - 1) = 0 /\ n - 1 \in 0 .. n - 1
      OBVIOUS
    <2>2. CASE Stored(b) = BE
      BY <2>1, <2>2, LayoutCases DEF ByteOf, Mirrors, BE, LE, RBE
    <2>3. CASE Stored(b) = "independent"
      BY <2>1, <2>3, LayoutCases DEF ByteOf, Mirrors, BE, LE, RBE
    <2>4. QED
      BY <2>2, <2>3
  <1> DEFINE e == 8 * a
             l == n - 1
             p == y.data[k]
             q == z.data[l]
  <1>10. e \in Nat /\ x = e + t /\ x < 8 * n
    BY <1>1
  <1>11. CASE t = 0
    <2>1. e = x
      BY <1>1, <1>11
    <2> HIDE DEF a, t, v, y, z, before, behind, k
    <2>2. QED
      BY <1>1, <1>3, <1>5, <1>6, <1>11, <2>1 DEF v, TurnsLeft, TurnsRight
  <1>12. CASE t # 0
    <2>1. t \in 1 .. 7
      BY <1>1, <1>12
    <2> HIDE DEF a, t, v, y, z, before, behind, k, yes, no, e, l
    <2>2. /\ Stored(b) # RBE => Turning(n, b, y, yes, yes, before, t, e, x, k, v)
          /\ Stored(b) \in {BE, "independent"} => Turning(n, b, z, no, no, behind, t, e, x, l, v)
      <3>1. ASSUME Stored(b) # RBE PROVE Turning(n, b, y, yes, yes, before, t, e, x, k, v)
        <4>1. Vector(y) = Rotated(n, v, Offset(b, yes, e))
          BY <1>3 DEF yes, e
        <4>2. QED
          BY <1>4, <1>7, <1>8, <1>10, <2>1, <3>1, <4>1 DEF Turning
      <3>2. ASSUME Stored(b) \in {BE, "independent"} PROVE Turning(n, b, z, no, no, behind, t, e, x, l, v)
        <4>1. Vector(z) = Rotated(n, v, Offset(b, no, e))
          BY <1>3 DEF no, e
        <4>2. l \in 0 .. n - 1 /\ ByteOf(b, n, l) = IF no <=> b.dependent THEN n - 1 ELSE 0
          BY <1>9, <3>2 DEF l
        <4>3. QED
          BY <1>4, <1>7, <1>10, <2>1, <3>2, <4>1, <4>2 DEF Turning
      <3>3. QED
        BY <3>1, <3>2
    <2> HIDE DEF p, q
    <2>3. p = y.data[k] /\ q = z.data[l]
      BY DEF p, q
    <2>4. /\ Stored(b) # RBE => Vector(TailShift(y, before, yes, t, p)) = Rotated(n, v, Offset(b, yes, x))
          /\ Stored(b) \in {BE, "independent"} => Vector(TailShift(z, behind, no, t, q)) = Rotated(n, v, Offset(b, no, x))
      BY <2>2, <2>3, RestOfRotation
    <2>5. t = c.shift % 8
      BY <1>1
    <2>6. QED
      BY <1>1, <1>5, <1>6, <1>12, <2>4, <2>5 DEF v, yes, no, p, q, l, TurnsLeft, TurnsRight
  <1>13. QED
    BY <1>11, <1>12

\* The calls that shift to the left.
Leftward(op) == op \in {"ShiftLeft", "RoundShiftLeft"}

\* Where BitVector takes a bit from.
LEMMA SourceIs ==
  ASSUME buffer.dependent \in BOOLEAN, NEW c, c.op \in Shifts, c.shift \in Nat, NEW i \in Int
  PROVE  BitVector!Source(c, i) = i + Offset(buffer, Leftward(c.op), c.shift)
  <1> DEFINE s == c.shift
  <1>1. i + (-s) = i - s
    OBVIOUS
  <1>2. BitVector!Source(c, i) = IF Leftward(c.op) <=> buffer.dependent THEN i - c.shift ELSE i + c.shift
    <2>1. Leftward(c.op) \in BOOLEAN
      BY DEF Leftward
    <2>2. (Leftward(c.op) = buffer.dependent) <=> (Leftward(c.op) <=> buffer.dependent)
      BY <2>1
    <2>3. BitVector!Source(c, i) = IF Leftward(c.op) = buffer.dependent THEN i - c.shift ELSE i + c.shift
      BY DEF BitVector!Source, Leftward
    <2>4. QED
      BY <2>2, <2>3
  <1>3. QED
    BY <1>1, <1>2 DEF Offset

\* The last index of a vector.
LEMMA LastIs ==
  ASSUME NEW n \in Nat \ {0}, NEW v \in Bits(n)
  PROVE  DOMAIN v = 0 .. 8 * n - 1 /\ BitVector!Last(v) + 1 = 8 * n
  <1> DEFINE N == 8 * n
             l == CHOOSE i \in DOMAIN v : i + 1 \notin DOMAIN v
  <1>1. DOMAIN v = 0 .. N - 1 /\ N \in Nat /\ N > 0
    BY DEF Bits
  <1> HIDE DEF N
  <1>2. N - 1 \in DOMAIN v /\ (N - 1) + 1 \notin DOMAIN v
    BY <1>1
  <1>3. l \in DOMAIN v /\ l + 1 \notin DOMAIN v
    BY <1>2
  <1> HIDE DEF l
  <1>4. l + 1 = N
    BY <1>1, <1>3
  <1>5. DOMAIN v # {}
    BY <1>2
  <1>6. BitVector!Last(v) = l
    BY <1>5 DEF BitVector!Last, l
  <1>7. QED
    BY <1>1, <1>4, <1>6 DEF N

\* What BitVector says of a shift.
LEMMA ResultOfShift ==
  ASSUME buffer.dependent \in BOOLEAN, NEW n \in Nat \ {0}, NEW v \in Bits(n),
         NEW c, c.op \in {"ShiftLeft", "ShiftRight"}, c.shift \in Nat
  PROVE  BitVector!Result(c, v) = Shifting(n, v, Offset(buffer, Leftward(c.op), c.shift), c.fill)
  <1> DEFINE d == Offset(buffer, Leftward(c.op), c.shift)
  <1>1. DOMAIN v = 0 .. 8 * n - 1
    BY LastIs
  <1>2. \A i \in DOMAIN v : BitVector!Source(c, i) = i + d
    BY <1>1, SourceIs DEF Shifts
  <1> HIDE DEF d
  <1>3. BitVector!Result(c, v) =
          [i \in DOMAIN v |-> IF BitVector!Source(c, i) \in DOMAIN v THEN v[BitVector!Source(c, i)] ELSE c.fill]
    BY DEF BitVector!Result
  <1>4. BitVector!Result(c, v) = [i \in DOMAIN v |-> IF i + d \in DOMAIN v THEN v[i + d] ELSE c.fill]
    BY <1>2, <1>3
  <1>5. QED
    BY <1>1, <1>4 DEF Shifting, d

\* What BitVector says of a round shift.
LEMMA ResultOfRotation ==
  ASSUME buffer.dependent \in BOOLEAN, NEW n \in Nat \ {0}, NEW v \in Bits(n),
         NEW c, c.op \in {"RoundShiftLeft", "RoundShiftRight"}, c.shift \in Nat, NEW x, x = c.shift % (8 * n)
  PROVE  BitVector!Result(c, v) = Rotated(n, v, Offset(buffer, Leftward(c.op), x))
  <1> DEFINE s == c.shift
             left == Leftward(c.op)
             N == 8 * n
             d == Offset(buffer, left, s)
             e == Offset(buffer, left, x)
  <1>1. DOMAIN v = 0 .. N - 1 /\ BitVector!Last(v) + 1 = N
    BY LastIs
  <1>2. \A i \in DOMAIN v : BitVector!Source(c, i) = i + d
    BY <1>1, SourceIs DEF Shifts
  <1>3. N \in Nat \ {0} /\ s \in Nat /\ x = s % N
    OBVIOUS
  <1>4. BitVector!Result(c, v) = [i \in DOMAIN v |-> v[BitVector!Source(c, i) % (BitVector!Last(v) + 1)]]
    BY DEF BitVector!Result
  <1> HIDE DEF s, left, N
  <1>5. \A i \in 0 .. N - 1 : (i + d) % N = Wrap(N, i + e)
    <2> SUFFICES ASSUME NEW i \in 0 .. N - 1
                 PROVE  (i + d) % N = Wrap(N, i + e)
      OBVIOUS
    <2>1. (i - s) % N = Wrap(N, i - x) /\ (i + s) % N = Wrap(N, i + x)
      BY <1>3, Wrapped, ZenonT(60)
    <2>2. x \in Int
      BY <1>3
    <2>3. i + (-s) = i - s /\ i + (-x) = i - x
      BY <1>3, <2>2
    <2>4. QED
      BY <2>1, <2>3 DEF Offset
  <1> HIDE DEF d, e
  <1>6. BitVector!Result(c, v) = [i \in 0 .. N - 1 |-> v[(i + d) % N]]
    BY <1>1, <1>2, <1>4
  <1>7. BitVector!Result(c, v) = [i \in 0 .. N - 1 |-> v[Wrap(N, i + e)]]
    BY <1>5, <1>6
  <1>8. QED
    BY <1>7 DEF Rotated, N, e, left

\* A call of a shift, and the distance in bits.
ShiftCall(op, unit, shift, fill) == [op |-> op, unit |-> unit, shift |-> shift, fill |-> fill]
Distant(unit, shift) == IF unit = "byte" THEN 8 * shift ELSE shift

\* A shift by bytes is a shift of the vector by eight times as many bits.
LEMMA ShiftOnVector ==
  ASSUME NEW op \in Shifts, NEW unit \in {"bit", "byte"}, NEW shift \in Nat, NEW fill
  PROVE  VectorCall(ShiftCall(op, unit, shift, fill)) = ShiftCall(op, unit, Distant(unit, shift), fill)
  <1> DEFINE c == ShiftCall(op, unit, shift, fill)
  <1>1. c.op = op /\ c.unit = unit /\ c.shift = shift /\ c.fill = fill /\ DOMAIN c = {"op", "unit", "shift", "fill"}
    BY DEF ShiftCall
  <1>2. op # "New" /\ op \notin {"Assign", "Operator"}
    BY DEF Shifts
  <1>3. CASE unit = "byte"
    <2>1. VectorCall(c) = [c EXCEPT !.shift = 8 * @]
      <3> HIDE DEF c
      <3> QED
        BY <1>1, <1>2, <1>3 DEF VectorCall
    <2>2. QED
      BY <1>3, <2>1 DEF ShiftCall, Distant
  <1>4. CASE unit = "bit"
    <2>1. VectorCall(c) = c
      <3> HIDE DEF c
      <3> QED
        BY <1>1, <1>2, <1>4 DEF VectorCall
    <2>2. QED
      BY <1>4, <2>1 DEF Distant
  <1>5. QED
    BY <1>3, <1>4

\* Every shift call outside Defect changes the vector as BitVector says: sixteen
\* functions, the four layouts, every length and distance.
LEMMA ShiftsMapped ==
  ASSUME NEW n \in Nat \ {0}, buffer \in BufferOf(n), NEW op \in Shifts, NEW unit \in {"bit", "byte"},
         NEW shift \in Nat, NEW fill \in Bit, NEW c, c = ShiftCall(op, unit, shift, fill), ~Defect(buffer, c)
  PROVE  Vector(Shifted(buffer, c)) = BitVector!Result(VectorCall(c), Vector(buffer))
  <1> DEFINE b == buffer
             v == Vector(b)
             s == Distant(unit, shift)
             d == ShiftCall(op, unit, s, fill)
             x == s % (8 * n)
             N == 8 * n
  <1>1. c.op = op /\ c.unit = unit /\ c.shift = shift /\ c.fill = fill
    BY DEF ShiftCall
  <1>2. VectorCall(c) = d
    BY ShiftOnVector
  <1>3. s \in Nat
    BY DEF Distant
  <1>4. d.op = op /\ d.shift = s /\ d.fill = fill
    BY DEF ShiftCall
  <1>5. b.dependent \in BOOLEAN
    BY DEF BufferOf
  <1>6. v \in Bits(n)
    BY VectorIs
  <1>7. Length(b) = N
    BY SizeIs
  <1> HIDE DEF d, s, v
  <1>8. op \in {"ShiftLeft", "ShiftRight"} => BitVector!Result(d, v) = Shifting(n, v, Offset(b, Leftward(op), s), fill)
    BY <1>3, <1>4, <1>5, <1>6, ResultOfShift
  <1>9. op \in {"RoundShiftLeft", "RoundShiftRight"} => BitVector!Result(d, v) = Rotated(n, v, Offset(b, Leftward(op), x))
    BY <1>3, <1>4, <1>5, <1>6, ResultOfRotation
  <1>10. LE # BE /\ LE # RBE /\ BE # RBE /\ Stored(b) = IF b.dependent THEN b.endian ELSE "independent"
    BY DEF LE, BE, RBE, Stored
  <1> DEFINE r == shift % n
  <1>11. CASE unit = "byte"
    <2>1. s = 8 * shift
      BY <1>11 DEF s, Distant
    <2>2. x = 8 * r
      BY <2>1, EightRemainder
    <2>3. Shifted(b, c) = CASE op = "ShiftLeft" -> ByteShiftLeft(b, shift, Filled(c))
                            [] op = "ShiftRight" -> ByteShiftRight(b, shift, Filled(c))
                            [] op = "RoundShiftLeft" -> ByteRoundShiftLeft(b, shift)
                            [] op = "RoundShiftRight" -> ByteRoundShiftRight(b, shift)
      BY <1>1, <1>11 DEF Shifted, Shifts
    <2>4. /\ Vector(ByteShiftLeft(b, shift, Filled(c))) = Shifting(n, v, Offset(b, TRUE, 8 * shift), fill)
          /\ Vector(ByteShiftRight(b, shift, Filled(c))) = Shifting(n, v, Offset(b, FALSE, 8 * shift), fill)
      <3>1. c.fill \in Bit /\ c.fill = fill
        BY <1>1
      <3> HIDE DEF b
      <3>2. b \in BufferOf(n)
        BY DEF b
      <3>3. /\ Vector(ByteShiftLeft(b, shift, Filled(c))) = Shifting(n, Vector(b), Offset(b, TRUE, 8 * shift), c.fill)
            /\ Vector(ByteShiftRight(b, shift, Filled(c))) = Shifting(n, Vector(b), Offset(b, FALSE, 8 * shift), c.fill)
        BY <3>1, <3>2, ByteShiftsMoveBits, ZenonT(60)
      <3>4. QED
        BY <3>1, <3>3 DEF v
    <2>5. /\ Vector(ByteRoundShiftLeft(b, shift)) = Rotated(n, v, Offset(b, TRUE, 8 * r))
          /\ Vector(ByteRoundShiftRight(b, shift)) = Rotated(n, v, Offset(b, FALSE, 8 * r))
      <3> HIDE DEF r
      <3>1. r = shift % n
        BY DEF r
      <3>2. QED
        BY <3>1, ByteRotationsMoveBits, ZenonT(60) DEF v
    <2> HIDE DEF x, r, b
    <2>6. CASE op = "ShiftLeft"
      <3>1. Leftward(op) <=> TRUE
        BY <2>6 DEF Leftward
      <3>2. QED
        BY <1>2, <1>8, <2>1, <2>3, <2>4, <2>6, <3>1 DEF b, v, Offset
    <2>7. CASE op = "ShiftRight"
      <3>1. Leftward(op) <=> FALSE
        BY <2>7 DEF Leftward
      <3>2. QED
        BY <1>2, <1>8, <2>1, <2>3, <2>4, <2>7, <3>1 DEF b, v, Offset
    <2>8. CASE op = "RoundShiftLeft"
      <3>1. Leftward(op) <=> TRUE
        BY <2>8 DEF Leftward
      <3>2. QED
        BY <1>2, <1>9, <2>2, <2>3, <2>5, <2>8, <3>1 DEF b, v, Offset
    <2>9. CASE op = "RoundShiftRight"
      <3>1. Leftward(op) <=> FALSE
        BY <2>9 DEF Leftward
      <3>2. QED
        BY <1>2, <1>9, <2>2, <2>3, <2>5, <2>9, <3>1 DEF b, v, Offset
    <2>10. QED
      BY <2>6, <2>7, <2>8, <2>9 DEF Shifts
  <1>12. CASE unit = "bit"
    <2>1. s = shift
      BY <1>12 DEF s, Distant
    <2>2. x = shift % (8 * n)
      BY <2>1
    <2>3. Shifted(b, c) = CASE op = "ShiftLeft" -> ShiftLeft(b, c)
                            [] op = "ShiftRight" -> ShiftRight(b, c)
                            [] op = "RoundShiftLeft" -> RoundShiftLeft(b, c)
                            [] op = "RoundShiftRight" -> RoundShiftRight(b, c)
      BY <1>1, <1>12 DEF Shifted, Shifts
    <2>4. /\ op = "ShiftLeft" => shift % 8 = 0 \/ shift >= N \/ Stored(b) # BE
          /\ op = "ShiftRight" => shift % 8 = 0 \/ shift >= N \/ Stored(b) # RBE
          /\ op = "RoundShiftLeft" => shift % 8 = 0 \/ Stored(b) # RBE
          /\ op = "RoundShiftRight" => shift % 8 = 0 \/ Stored(b) \in {BE, "independent"}
      <3>1. \/ ~b.dependent /\ Stored(b) = "independent"
            \/ b.dependent /\ Stored(b) = b.endian
        BY DEF Stored
      <3>2. "independent" # BE /\ "independent" # RBE
        BY DEF BE, RBE
      <3>3. shift < N \/ shift >= N
        OBVIOUS
      <3>4. Defect(b, c) <=> b.dependent /\
              CASE op = "ShiftLeft"  -> b.endian = BE /\ shift % 8 # 0 /\ shift < N
                [] op = "ShiftRight" -> b.endian = RBE /\ shift % 8 # 0 /\ shift < N
                [] op = "RoundShiftLeft"  -> b.endian = RBE /\ shift % 8 # 0
                [] op = "RoundShiftRight" -> b.endian # BE /\ shift % 8 # 0
        BY <1>1, <1>7, <1>12 DEF Defect, Shifts
      <3> HIDE DEF b, N
      <3>5. ~Defect(b, c)
        BY DEF b
      <3>6. QED
        BY <3>1, <3>2, <3>3, <3>4, <3>5 DEF Shifts
    <2>5. /\ shift % 8 = 0 \/ shift >= N \/ Stored(b) # BE =>
               Vector(ShiftLeft(b, c)) = Shifting(n, v, Offset(b, TRUE, shift), fill)
          /\ shift % 8 = 0 \/ shift >= N \/ Stored(b) # RBE =>
               Vector(ShiftRight(b, c)) = Shifting(n, v, Offset(b, FALSE, shift), fill)
      <3>1. c.shift \in Nat /\ c.fill \in Bit /\ c.fill = fill /\ c.shift = shift
        BY <1>1
      <3> HIDE DEF b
      <3>2. b \in BufferOf(n)
        BY DEF b
      <3>3. /\ c.shift % 8 = 0 \/ c.shift >= 8 * n \/ Stored(b) # BE =>
                 Vector(ShiftLeft(b, c)) = Shifting(n, Vector(b), Offset(b, TRUE, c.shift), c.fill)
            /\ c.shift % 8 = 0 \/ c.shift >= 8 * n \/ Stored(b) # RBE =>
                 Vector(ShiftRight(b, c)) = Shifting(n, Vector(b), Offset(b, FALSE, c.shift), c.fill)
        BY <3>1, <3>2, BitShiftsMoveBits
      <3>4. QED
        BY <3>1, <3>3 DEF v
    <2> HIDE DEF x
    <2>6. /\ shift % 8 = 0 \/ Stored(b) # RBE =>
               Vector(RoundShiftLeft(b, c)) = Rotated(n, v, Offset(b, TRUE, x))
          /\ shift % 8 = 0 \/ Stored(b) \in {BE, "independent"} =>
               Vector(RoundShiftRight(b, c)) = Rotated(n, v, Offset(b, FALSE, x))
      <3>1. Turns(n, c, x) /\ c.shift = shift
        BY <1>1, <2>2 DEF Turns
      <3> HIDE DEF b
      <3>2. b \in BufferOf(n)
        BY DEF b
      <3>3. /\ TurnsLeft(b, c) => Vector(RoundShiftLeft(b, c)) = Rotated(n, Vector(b), Offset(b, TRUE, x))
            /\ TurnsRight(b, c) => Vector(RoundShiftRight(b, c)) = Rotated(n, Vector(b), Offset(b, FALSE, x))
        BY <3>1, <3>2, BitRotationsMoveBits, ZenonT(60)
      <3>4. QED
        BY <3>1, <3>3 DEF v, TurnsLeft, TurnsRight
    <2> HIDE DEF b, N
    <2>7. CASE op = "ShiftLeft"
      <3>1. Leftward(op) <=> TRUE
        BY <2>7 DEF Leftward
      <3>2. QED
        BY <1>2, <1>8, <2>1, <2>3, <2>4, <2>5, <2>7, <3>1 DEF b, v, Offset
    <2>8. CASE op = "ShiftRight"
      <3>1. Leftward(op) <=> FALSE
        BY <2>8 DEF Leftward
      <3>2. QED
        BY <1>2, <1>8, <2>1, <2>3, <2>4, <2>5, <2>8, <3>1 DEF b, v, Offset
    <2>9. CASE op = "RoundShiftLeft"
      <3>1. Leftward(op) <=> TRUE
        BY <2>9 DEF Leftward
      <3>2. QED
        BY <1>2, <1>9, <2>3, <2>4, <2>6, <2>9, <3>1 DEF b, v, Offset
    <2>10. CASE op = "RoundShiftRight"
      <3>1. Leftward(op) <=> FALSE
        BY <2>10 DEF Leftward
      <3>2. QED
        BY <1>2, <1>9, <2>3, <2>4, <2>6, <2>10, <3>1 DEF b, v, Offset
    <2>11. QED
      BY <2>7, <2>8, <2>9, <2>10 DEF Shifts
  <1>13. QED
    BY <1>11, <1>12

-----------------------------------------------------------------------------
(* Set, InvertBlock, Reverse and the conversion to a number                *)

\* Most calls are those of the vector.
LEMMA PlainCall ==
  ASSUME NEW c, c.op # "New", c.unit = "bit", c.op \notin {"Assign", "Operator"}
  PROVE  VectorCall(c) = c
  BY DEF VectorCall

\* A range is checked as BitVector checks it.
LEMMA WithinIs ==
  ASSUME NEW n \in Nat \ {0}, NEW b \in BufferOf(n), NEW c, c.first \in Nat, c.last \in Nat
  PROVE  BitVector!Within(c, Vector(b)) <=> InRange(b, c.first, c.last)
  <1>1. DOMAIN Vector(b) = 0 .. 8 * n - 1 /\ Length(b) = 8 * n
    BY VectorIs, SizeIs DEF Bits
  <1>2. QED
    BY <1>1 DEF BitVector!Within, InRange

\* A call on a range.
RangeCall(op, unit, first, last) == [op |-> op, unit |-> unit, first |-> first, last |-> last]

\* BitVector has its own copy of the operators on bits.
LEMMA SameNot ==
  ASSUME NEW x
  PROVE  BitVector!Not(x) = Not(x)
  BY DEF BitVector!Not, Not, BitVector!Xor, Xor, BitVector!One, One

\* InvertBlock is that of the vector, outside the range too.
LEMMA InvertMapped ==
  ASSUME NEW n \in Nat \ {0}, buffer \in BufferOf(n), NEW first \in Nat, NEW last \in Nat,
         NEW c, c = RangeCall("InvertBlock", "bit", first, last)
  PROVE  Vector(InvertBlock(buffer, first, last)) = BitVector!Result(VectorCall(c), Vector(buffer))
  <1> DEFINE v == Vector(buffer)
             w == Inverted(n, v, first, last - first + 1)
  <1>1. c.op = "InvertBlock" /\ c.unit = "bit" /\ c.first = first /\ c.last = last
    BY DEF RangeCall
  <1>2. VectorCall(c) = c
    BY <1>1, PlainCall
  <1>3. v \in Bits(n)
    BY VectorIs
  <1> HIDE DEF v
  <1>4. BitVector!Within(c, v) <=> InRange(buffer, first, last)
    BY <1>1, WithinIs DEF v
  <1>5. CASE InRange(buffer, first, last)
    <2>1. InvertBlock(buffer, first, last) = Patched(buffer, n, w)
      BY <1>5, BlockInverted DEF v
    <2>2. w \in Bits(n)
      BY <1>3, BitsClosed DEF Inverted, Bits
    <2>3. Vector(Patched(buffer, n, w)) = w
      BY <2>2, PatchedIs
    <2>4. BitVector!Result(c, v) = [i \in DOMAIN v |-> IF i \in first .. last THEN Not(v[i]) ELSE v[i]]
      BY <1>1, <1>4, <1>5, SameNot DEF BitVector!Result
    <2>5. first + (last - first + 1) - 1 = last /\ DOMAIN v = 0 .. 8 * n - 1
      BY <1>3 DEF Bits
    <2>6. QED
      BY <1>2, <2>1, <2>3, <2>4, <2>5 DEF Inverted, v
  <1>6. CASE ~InRange(buffer, first, last)
    BY <1>1, <1>2, <1>4, <1>6 DEF InvertBlock, BitVector!Result, v
  <1>7. QED
    BY <1>5, <1>6

\* Reverse is that of the vector.
LEMMA ReverseMapped ==
  ASSUME NEW n \in Nat \ {0}, buffer \in BufferOf(n), NEW first \in Nat, NEW last \in Nat,
         NEW c, c = RangeCall("Reverse", "bit", first, last)
  PROVE  Vector(Reverse(buffer, first, last)) = BitVector!Result(VectorCall(c), Vector(buffer))
  <1> DEFINE v == Vector(buffer)
             w == [i \in 0 .. 8 * n - 1 |-> IF i \in first .. last THEN v[first + last - i] ELSE v[i]]
  <1>1. c.op = "Reverse" /\ c.unit = "bit" /\ c.first = first /\ c.last = last
    BY DEF RangeCall
  <1>2. VectorCall(c) = c
    BY <1>1, PlainCall
  <1>3. v \in Bits(n)
    BY VectorIs
  <1> HIDE DEF v
  <1>4. BitVector!Within(c, v) <=> InRange(buffer, first, last)
    BY <1>1, WithinIs DEF v
  <1>5. CASE InRange(buffer, first, last)
    <2>1. Reverse(buffer, first, last) = Patched(buffer, n, w)
      BY <1>5, BlockReversed DEF v
    <2>2. first <= last /\ last < 8 * n
      BY <1>5, SizeIs DEF InRange
    <2>3. \A i \in first .. last : first + last - i \in 0 .. 8 * n - 1
      BY <2>2
    <2>4. w \in Bits(n)
      BY <1>3, <2>3 DEF Bits
    <2> HIDE DEF w
    <2>5. Vector(Patched(buffer, n, w)) = w
      BY <2>4, PatchedIs
    <2>6. BitVector!Result(c, v) = [i \in DOMAIN v |-> IF i \in first .. last THEN v[first + last - i] ELSE v[i]]
      BY <1>1, <1>4, <1>5 DEF BitVector!Result
    <2>7. DOMAIN v = 0 .. 8 * n - 1
      BY <1>3 DEF Bits
    <2>8. QED
      BY <1>2, <2>1, <2>5, <2>6, <2>7 DEF w, v
  <1>6. CASE ~InRange(buffer, first, last)
    BY <1>1, <1>2, <1>4, <1>6 DEF Reverse, BitVector!Result, v
  <1>7. QED
    BY <1>5, <1>6

\* A call that sets a bit or a byte.
SetCall(unit, i, fill) == [op |-> "Set", unit |-> unit, first |-> i, last |-> i, fill |-> fill]

\* Setting a bit, also one behind the last.
LEMMA SetBitMapped ==
  ASSUME NEW n \in Nat \ {0}, buffer \in BufferOf(n), NEW i \in Nat, NEW fill \in Bit,
         NEW c, c = SetCall("bit", i, fill)
  PROVE  Vector(Set(buffer, i, fill)) = BitVector!Result(VectorCall(c), Vector(buffer))
  <1> DEFINE v == Vector(buffer)
             w == [v EXCEPT ![i] = fill]
  <1>1. c.op = "Set" /\ c.unit = "bit" /\ c.first = i /\ c.last = i /\ c.fill = fill
    BY DEF SetCall
  <1>2. VectorCall(c) = c
    BY <1>1, PlainCall
  <1>3. v \in Bits(n)
    BY VectorIs
  <1>4. buffer = Patched(buffer, n, v)
    BY PatchedVector
  <1> HIDE DEF v
  <1>5. Set(buffer, i, fill) = Patched(buffer, n, w)
    BY <1>3, <1>4, OneSet
  <1>6. w \in Bits(n)
    BY <1>3 DEF Bits
  <1>7. Vector(Patched(buffer, n, w)) = w
    BY <1>6, PatchedIs
  <1>8. \A k \in DOMAIN v : k \in i .. i <=> k = i
    BY <1>3 DEF Bits
  <1>9. BitVector!Result(c, v) = [k \in DOMAIN v |-> IF k \in i .. i THEN fill ELSE v[k]]
    BY <1>1 DEF BitVector!Result
  <1>10. w = [k \in DOMAIN v |-> IF k = i THEN fill ELSE v[k]]
    BY <1>3 DEF Bits
  <1>11. QED
    BY <1>2, <1>5, <1>7, <1>8, <1>9, <1>10 DEF v

\* Setting a byte sets its eight bits, in every layout.
LEMMA SetByteMapped ==
  ASSUME NEW n \in Nat \ {0}, buffer \in BufferOf(n), NEW i \in 0 .. n - 1, NEW fill \in Bit,
         NEW c, c = SetCall("byte", i, fill)
  PROVE  Vector(SetByte(buffer, i, [p \in BitOf |-> fill])) = BitVector!Result(VectorCall(c), Vector(buffer))
  <1> DEFINE v == Vector(buffer)
             f == [p \in BitOf |-> fill]
             b == buffer
             a == SetByte(b, i, f)
             d == VectorCall(c)
             w == [k \in 0 .. 8 * n - 1 |-> IF k \in 8 * i .. 8 * i + 7 THEN fill ELSE v[k]]
  <1>1. c.op = "Set" /\ c.unit = "byte" /\ c.first = i /\ c.last = i /\ c.fill = fill
        /\ DOMAIN c = {"op", "unit", "first", "last", "fill"}
    BY DEF SetCall
  <1>2. d = [c EXCEPT !.first = 8 * @, !.last = 8 * @ + 7]
    BY <1>1 DEF VectorCall
  <1>3. d.op = "Set" /\ d.first = 8 * i /\ d.last = 8 * i + 7 /\ d.fill = fill
    BY <1>2 DEF SetCall
  <1>4. v \in Bits(n)
    BY VectorIs
  <1>5. a \in BufferOf(n) /\ a.endian = b.endian /\ a.dependent = b.dependent
    <2>1. f \in Byte
      BY DEF Byte
    <2> HIDE DEF f
    <2>2. a \in Like(b, n)
      BY <2>1, SetKeeps
    <2>3. QED
      BY <2>2 DEF Like
  <1>6. \A j \in 0 .. n - 1 : a.data[j] = IF j = ByteOf(b, n, i) THEN f ELSE b.data[j]
    <2>1. GetBytePosition(b, i) = ByteOf(b, n, i) /\ ByteOf(b, n, i) \in 0 .. n - 1
      BY BytePosition
    <2>2. DOMAIN b.data = 0 .. n - 1
      BY SizeIs
    <2>3. a = [b EXCEPT !.data[ByteOf(b, n, i)] = f]
      BY <2>1 DEF SetByte
    <2>4. a.data = [b.data EXCEPT ![ByteOf(b, n, i)] = f]
      BY <2>3 DEF BufferOf
    <2>5. QED
      BY <2>1, <2>2, <2>4
  <1>7. \A j \in 0 .. n - 1, p \in BitOf : a.data[j][p] = w[IndexOf(a, n, j, p)]
    <2> SUFFICES ASSUME NEW j \in 0 .. n - 1, NEW p \in BitOf
                 PROVE  a.data[j][p] = w[IndexOf(a, n, j, p)]
      OBVIOUS
    <2>1. IndexOf(a, n, j, p) = IndexOf(b, n, j, p)
      BY <1>5, LayoutSame
    <2>2. IndexOf(b, n, j, p) \in 0 .. 8 * n - 1
      BY Positions
    <2>3. v[IndexOf(b, n, j, p)] = b.data[j][p]
      BY VectorIs
    <2>4. /\ ByteOf(b, n, j) \in 0 .. n - 1 /\ PlaceOf(b, p) \in BitOf
          /\ ByteOf(b, n, ByteOf(b, n, j)) = j /\ ByteOf(b, n, ByteOf(b, n, i)) = i
      BY Mirrored
    <2>5. j = ByteOf(b, n, i) <=> ByteOf(b, n, j) = i
      BY <2>4
    <2>6. IndexOf(b, n, j, p) \in 8 * i .. 8 * i + 7 <=> ByteOf(b, n, j) = i
      <3> DEFINE x == ByteOf(b, n, j)
                 y == PlaceOf(b, p)
      <3>1. x \in Int /\ y \in 0 .. 7 /\ IndexOf(b, n, j, p) = 8 * x + y
        BY <2>4 DEF IndexOf, BitOf
      <3> HIDE DEF x, y
      <3>2. 8 * x + y \in 8 * i .. 8 * i + 7 <=> x = i
        BY <3>1
      <3>3. QED
        BY <3>1, <3>2 DEF x
    <2>7. a.data[j][p] = IF ByteOf(b, n, j) = i THEN fill ELSE b.data[j][p]
      BY <1>6, <2>5
    <2> HIDE DEF a, v, b
    <2>8. QED
      BY <2>1, <2>2, <2>3, <2>6, <2>7
  <1>8. w \in Bits(n)
    BY <1>4 DEF Bits
  <1>9. Vector(a) = w
    <2> HIDE DEF a, w
    <2> QED
      BY <1>5, <1>7, <1>8, VectorDetermines
  <1>10. BitVector!Result(d, v) = [k \in DOMAIN v |-> IF k \in 8 * i .. 8 * i + 7 THEN fill ELSE v[k]]
    <2> HIDE DEF d, v
    <2> QED
      BY <1>3 DEF BitVector!Result
  <1>11. QED
    BY <1>4, <1>9, <1>10 DEF Bits

\* The mapped answer, when the buffer is b.
ReplyOn(b, c, r) ==
  CASE r = <<>> -> r
    [] r # <<>> /\ c.op \in {"Any", "All", "None", "Count"} -> <<{DrawnAt(b, at) : at \in r[1]}>>
    [] r # <<>> /\ c.op \in {"GetFirstIndex", "GetLastIndex", "ToString"} ->
         <<[k \in DOMAIN r[1] |-> DrawnAt(b, r[1][k])]>>
    [] OTHER -> <<Vector(r[1])>>

\* The mapped answers, by call.
LEMMA Replies ==
  ASSUME NEW b, NEW c, NEW x
  PROVE  /\ ReplyOn(b, c, <<>>) = <<>>
         /\ c.op \in {"Any", "All", "None", "Count"} => ReplyOn(b, c, <<x>>) = <<{DrawnAt(b, at) : at \in x}>>
         /\ c.op \in {"GetFirstIndex", "GetLastIndex", "ToString"} =>
              ReplyOn(b, c, <<x>>) = <<[k \in DOMAIN x |-> DrawnAt(b, x[k])]>>
         /\ c.op \in {"Convert", "Operator", "Copied"} => ReplyOn(b, c, <<x>>) = <<Vector(x)>>
  <1>1. <<x>> # <<>> /\ <<x>>[1] = x
    OBVIOUS
  <1>2. QED
    BY <1>1 DEF ReplyOn

\* A conversion to a number of size bytes.
ConvertCall(first, last, size, e) ==
  [op |-> "Convert", unit |-> "bit", first |-> first, last |-> last, size |-> size, endian |-> e]

\* A block of zero bytes is a vector of zeros.
LEMMA ZeroVector ==
  ASSUME NEW n \in Nat, NEW b \in BufferOf(n), \A j \in 0 .. n - 1 : b.data[j] = LowByte
  PROVE  \A i \in 0 .. 8 * n - 1 : Vector(b)[i] = Zero
  <1> SUFFICES ASSUME NEW i \in 0 .. 8 * n - 1
               PROVE  Vector(b)[i] = Zero
    OBVIOUS
  <1>1. Vector(b)[i] = GetBitValue(b, i)
    BY VectorIs
  <1>2. PICK j \in 0 .. n - 1, p \in BitOf : GetBitPosition(b, i) = <<j, p>>
    BY Positions
  <1>3. QED
    BY <1>1, <1>2 DEF GetBitValue, LowByte

\* Convert answers the bits of the range followed by zeros, or nothing, whatever
\* the endian of the block and of the number.
LEMMA ConvertMapped ==
  ASSUME NEW n \in Nat \ {0}, buffer \in BufferOf(n), NEW first \in Nat, NEW last \in Nat,
         NEW size \in {1, 2}, NEW e \in Endians, last - first < 8 * size,
         NEW c, c = ConvertCall(first, last, size, e)
  PROVE  ReplyOn(buffer, c, Convert(buffer, c)) = BitVector!Answer(VectorCall(c), Vector(buffer))
  <1> DEFINE v == Vector(buffer)
             z == [data |-> [j \in 0 .. size - 1 |-> LowByte], endian |-> e, dependent |-> TRUE, safe |-> TRUE]
             m == size
             r == CopyBits(z, buffer, first, last)
             w == CopiedBits(m, Vector(z), v, first, last - first + 1)
  <1>1. c.op = "Convert" /\ c.unit = "bit" /\ c.first = first /\ c.last = last /\ c.size = size /\ c.endian = e
    BY DEF ConvertCall
  <1>2. VectorCall(c) = c
    BY <1>1, PlainCall
  <1>3. v \in Bits(n)
    BY VectorIs
  <1>4. z \in BufferOf(m) /\ m \in Nat
    <2>1. LowByte \in Byte
      BY BytesClosed
    <2>2. QED
      BY <2>1 DEF BufferOf
  <1> HIDE DEF v, z
  <1>5. BitVector!Within(c, v) <=> InRange(buffer, first, last)
    BY <1>1, WithinIs DEF v
  <1>6. Convert(buffer, c) = IF InRange(buffer, first, last) THEN <<r>> ELSE <<>>
    BY <1>1 DEF Convert, z
  <1>7. CASE InRange(buffer, first, last)
    <2>1. w \in Bits(m) /\ r = Patched(z, m, w)
      BY <1>4, <1>7, BitsCopied DEF v
    <2>2. Vector(r) = w
      BY <1>4, <2>1, PatchedIs
    <2>3. \A i \in 0 .. 8 * m - 1 : Vector(z)[i] = Zero
      <3>1. \A j \in 0 .. m - 1 : z.data[j] = LowByte
        BY DEF z
      <3> HIDE DEF m
      <3>2. QED
        BY <1>4, <3>1, ZeroVector
    <2>4. w = [k \in 0 .. 8 * size - 1 |-> IF k <= last - first THEN v[first + k] ELSE Zero]
      <3>1. \A k \in 0 .. 8 * m - 1 : k \in 0 .. last - first + 1 - 1 <=> k <= last - first
        OBVIOUS
      <3>2. QED
        BY <2>3, <3>1 DEF CopiedBits
    <2> HIDE DEF r, w
    <2>5. BitVector!Zero = Zero
      BY DEF BitVector!Zero, Zero
    <2>6. BitVector!Answer(c, v) =
            <<[k \in 0 .. 8 * size - 1 |-> IF k <= last - first THEN v[first + k] ELSE Zero]>>
      BY <1>1, <1>5, <1>7, <2>5 DEF BitVector!Answer
    <2>7. ReplyOn(buffer, c, <<r>>) = <<Vector(r)>>
      <3>1. c.op \in {"Convert", "Operator", "Copied"}
        BY <1>1
      <3> HIDE DEF r
      <3>2. QED
        BY <3>1, Replies, ZenonT(60)
    <2>8. QED
      BY <1>2, <1>6, <1>7, <2>2, <2>4, <2>6, <2>7 DEF v
  <1>8. CASE ~InRange(buffer, first, last)
    <2>1. BitVector!Answer(c, v) = <<>>
      BY <1>1, <1>5, <1>8 DEF BitVector!Answer
    <2>2. QED
      BY <1>2, <1>6, <1>8, <2>1, Replies DEF v
  <1>9. QED
    BY <1>7, <1>8

\* A conversion to another endian.
EndianCall(e) == [op |-> "SetDataEndianType", unit |-> "bit", endian |-> e, convert |-> TRUE]

\* What conversion does to the byte and the place of a bit.
Facing(n, from, to, j) == IF (from = LE) <=> (to = LE) THEN j ELSE n - 1 - j
Folding(from, to, p)   == IF (from = RBE) <=> (to = RBE) THEN p ELSE 7 - p

\* No middle byte has to be reversed alone.
Exact(n, from, to) == ~ (Between(from, to, LE, RBE) /\ n % 2 = 1 /\ n > 1)

\* Where the conversion takes each bit from.
LEMMA ConvertedBits ==
  ASSUME NEW n \in Nat \ {0}, NEW m \in ByteBlocks(n), NEW from \in Endians, NEW to \in Endians,
         Exact(n, from, to),
         NEW j \in 0 .. n - 1, NEW p \in BitOf
  PROVE  /\ Facing(n, from, to, j) \in 0 .. n - 1 /\ Folding(from, to, p) \in BitOf
         /\ Converted(m, from, to)[j][p] = m[Facing(n, from, to, j)][Folding(from, to, p)]
  <1>1. LE # BE /\ LE # RBE /\ BE # RBE
    BY DEF LE, BE, RBE
  <1>2. n - 1 - j \in 0 .. n - 1 /\ 7 - p \in BitOf
    BY DEF BitOf
  <1>3. Lone(n) => n - 1 - j = j
    <2> SUFFICES ASSUME Lone(n)
                 PROVE  n - 1 - j = j
      OBVIOUS
    <2>1. n < 2
      BY DEF Lone
    <2>2. QED
      BY <2>1
  <1> DEFINE h == n \div 2
  <1>4. /\ n % 2 = 0 => j < h \/ n - 1 - j < h
        /\ ~ (j < h \/ n - 1 - j < h) => n - 1 - j = j
    OBVIOUS
  <1>5. n % 2 = 0 \/ n % 2 = 1
    OBVIOUS
  <1>6. CASE Between(from, to, LE, BE)
    <2>1. Facing(n, from, to, j) = n - 1 - j /\ Folding(from, to, p) = p
      BY <1>1, <1>6 DEF Between, Facing, Folding
    <2>2. Converted(m, from, to)[j] = IF j < h \/ n - 1 - j < h THEN m[n - 1 - j] ELSE m[j]
      BY <1>6, BlockConverted DEF Backwards
    <2> HIDE DEF h
    <2>3. QED
      BY <1>2, <1>4, <2>1, <2>2
  <1>7. CASE Between(from, to, BE, RBE)
    <2>1. Facing(n, from, to, j) = j /\ Folding(from, to, p) = 7 - p
      BY <1>1, <1>7 DEF Between, Facing, Folding
    <2>2. Converted(m, from, to) = AllTurned(n, m)
      BY <1>7, BlockConverted, ZenonT(60)
    <2>3. QED
      BY <1>2, <2>1, <2>2 DEF Turned, AllTurned
  <1>8. CASE Between(from, to, LE, RBE)
    <2>1. Facing(n, from, to, j) = n - 1 - j /\ Folding(from, to, p) = 7 - p
      BY <1>1, <1>8 DEF Between, Facing, Folding
    <2>2. Lone(n) \/ n % 2 = 0
      BY <1>5, <1>8 DEF Exact, Lone
    <2>3. CASE Lone(n)
      <3>1. Converted(m, from, to) = AllTurned(n, m)
        BY <1>8, <2>3, BlockConverted, ZenonT(60)
      <3>2. n - 1 - j = j
        BY <1>3, <2>3
      <3>3. QED
        BY <1>2, <2>1, <3>1, <3>2 DEF Turned, AllTurned
    <2>4. CASE ~Lone(n)
      <3>1. Converted(m, from, to)[j] =
              IF j < h \/ n - 1 - j < h THEN (IF TRUE THEN Turned(m[n - 1 - j]) ELSE m[n - 1 - j]) ELSE m[j]
        BY <1>8, <2>4, BlockConverted DEF Backwards
      <3> HIDE DEF h
      <3>2. QED
        BY <1>2, <1>4, <2>1, <2>2, <2>4, <3>1 DEF Turned
    <2>5. QED
      BY <2>3, <2>4
  <1>9. CASE from = to
    BY <1>9, BlockConverted DEF Facing, Folding
  <1>10. QED
    BY <1>6, <1>7, <1>8, <1>9, BlockConverted

\* Converting the endian leaves the vector as it is.
LEMMA EndianMapped ==
  ASSUME NEW n \in Nat \ {0}, buffer \in BufferOf(n), buffer.dependent, NEW e \in Endians,
         NEW c, c = EndianCall(e), ~Defect(buffer, c)
  PROVE  Vector(SetDataEndianType(buffer, c)) = BitVector!Result(VectorCall(c), Vector(buffer))
  <1> DEFINE b == buffer
             a == SetDataEndianType(b, c)
             v == Vector(b)
             from == b.endian
             m == b.data
  <1>1. c.op = "SetDataEndianType" /\ c.unit = "bit" /\ c.endian = e /\ c.convert = TRUE
    BY DEF EndianCall
  <1>2. VectorCall(c) = c
    BY <1>1, PlainCall
  <1>3. BitVector!Result(c, v) = v
    <2> HIDE DEF v
    <2> QED
      BY <1>1 DEF BitVector!Result
  <1>4. v \in Bits(n)
    BY VectorIs
  <1>5. a \in BufferOf(n) /\ a.data = Converted(m, from, e) /\ a.endian = e /\ a.dependent = b.dependent
    <2>1. a = [WithData(b, Converted(m, from, e)) EXCEPT !.endian = e] /\ Converted(m, from, e) \in ByteBlocks(n)
          /\ a \in BufferOf(n)
      <3>1. c.endian \in Endians
        BY <1>1
      <3> HIDE DEF b
      <3>2. b \in BufferOf(n)
        BY DEF b
      <3>3. /\ SetDataEndianType(b, c) = [WithData(b, Converted(b.data, b.endian, c.endian)) EXCEPT !.endian = c.endian]
            /\ Converted(b.data, b.endian, c.endian) \in ByteBlocks(n)
            /\ SetDataEndianType(b, c) \in BufferOf(n)
        BY <1>1, <3>1, <3>2, ConvertedKeeps
      <3>4. QED
        BY <1>1, <3>3
    <2> DEFINE x == Converted(m, from, e)
               y == WithData(b, x)
    <2> HIDE DEF x
    <2>2. y.data = x /\ y.dependent = b.dependent /\ y \in BufferOf(n)
      <3>1. x \in ByteBlocks(n)
        BY <2>1 DEF x
      <3>2. QED
        BY <3>1, DataReplaced
    <2> HIDE DEF y
    <2>3. a = [y EXCEPT !.endian = e]
      BY <2>1 DEF x, y
    <2>4. QED
      BY <2>1, <2>2, <2>3 DEF BufferOf, x
  <1>6. from \in Endians /\ m \in ByteBlocks(n)
    BY DEF BufferOf, ByteBlocks
  <1>7. Exact(n, from, e)
    <2>1. Size(b) = n
      BY SizeIs
    <2>2. QED
      BY <1>1, <2>1 DEF Defect, Between, Exact
  <1>8. \A j \in 0 .. n - 1, p \in BitOf : a.data[j][p] = v[IndexOf(a, n, j, p)]
    <2> SUFFICES ASSUME NEW j \in 0 .. n - 1, NEW p \in BitOf
                 PROVE  a.data[j][p] = v[IndexOf(a, n, j, p)]
      OBVIOUS
    <2> DEFINE k == Facing(n, from, e, j)
               q == Folding(from, e, p)
    <2>1. k \in 0 .. n - 1 /\ q \in BitOf /\ a.data[j][p] = m[k][q]
      BY <1>5, <1>6, <1>7, ConvertedBits
    <2>2. v[IndexOf(b, n, k, q)] = m[k][q]
      <3> HIDE DEF k, q
      <3> QED
        BY <2>1, VectorIs
    <2>3. ByteOf(a, n, j) = ByteOf(b, n, k)
      <3>1. n - 1 - (n - 1 - j) = j
        OBVIOUS
      <3> HIDE DEF a, b, v
      <3>2. b.dependent
        BY DEF b
      <3>3. ByteOf(a, n, j) = IF e # LE THEN n - 1 - j ELSE j
        BY <1>5, <3>2 DEF ByteOf
      <3>4. ByteOf(b, n, k) = IF from # LE THEN n - 1 - k ELSE k
        BY <3>2 DEF ByteOf
      <3>5. QED
        BY <3>1, <3>3, <3>4 DEF Facing
    <2>4. PlaceOf(a, p) = PlaceOf(b, q)
      <3>1. 7 - (7 - p) = p
        BY DEF BitOf
      <3> HIDE DEF a, b, v
      <3>2. b.dependent
        BY DEF b
      <3>3. PlaceOf(a, p) = IF e # RBE THEN p ELSE 7 - p
        BY <1>5, <3>2 DEF PlaceOf
      <3>4. PlaceOf(b, q) = IF from # RBE THEN q ELSE 7 - q
        BY <3>2 DEF PlaceOf
      <3>5. QED
        BY <3>1, <3>3, <3>4 DEF Folding
    <2>5. IndexOf(a, n, j, p) = IndexOf(b, n, k, q)
      BY <2>3, <2>4 DEF IndexOf
    <2>6. QED
      BY <2>1, <2>2, <2>5
  <1>9. Vector(a) = v
    <2> HIDE DEF a, v
    <2> QED
      BY <1>4, <1>5, <1>8, VectorDetermines
  <1>10. QED
    BY <1>2, <1>3, <1>9

-----------------------------------------------------------------------------
(* Operators                                                               *)

\* The three operators.
Operations == {"And", "Or", "Xor"}

\* BitVector has its own copy of the operators on bits.
LEMMA SameOperators ==
  ASSUME NEW x, NEW y
  PROVE  /\ BitVector!And(x, y) = And(x, y) /\ BitVector!Or(x, y) = Or(x, y) /\ BitVector!Xor(x, y) = Xor(x, y)
         /\ BitVector!Zero = Zero
  <1>1. BitVector!Zero = Zero /\ BitVector!One = One
    BY DEF BitVector!Zero, Zero, BitVector!One, One
  <1>2. \A k : BitVector!Pair(k, x, y) = Pair(k, x, y)
    BY DEF BitVector!Pair, Pair
  <1>3. BitVector!And(x, y) = And(x, y)
    BY <1>1, <1>2 DEF BitVector!And, And
  <1>4. BitVector!Or(x, y) = Or(x, y)
    BY <1>1, <1>2 DEF BitVector!Or, Or
  <1>5. BitVector!Xor(x, y) = Xor(x, y)
    BY DEF BitVector!Xor, Xor
  <1>6. QED
    BY <1>1, <1>3, <1>4, <1>5

\* The operators on bytes work bit by bit.
LEMMA BitwiseCombine ==
  ASSUME NEW op \in Operations, NEW x, NEW y, NEW p \in BitOf
  PROVE  Combine(op, x, y)[p] = BitVector!Combine(op, x[p], y[p])
  <1>1. CASE op = "And"
    BY <1>1, SameOperators DEF Combine, BitVector!Combine, Bytewise
  <1>2. CASE op = "Or"
    BY <1>2, SameOperators DEF Combine, BitVector!Combine, Bytewise
  <1>3. CASE op = "Xor"
    BY <1>3, SameOperators DEF Combine, BitVector!Combine, Bytewise
  <1>4. QED
    BY <1>1, <1>2, <1>3 DEF Operations

\* The operators on what the shorter operand is extended with.
LEMMA CombineZero ==
  ASSUME NEW op \in Operations, NEW x \in Bit
  PROVE  BitVector!Combine(op, x, Zero) = IF op = "And" THEN Zero ELSE x
  <1>1. And(x, Zero) = Zero
    BY DEF And
  <1>2. Or(x, Zero) = x
    BY OrZero
  <1>3. Xor(x, Zero) = x
    BY DEF Xor, Zero
  <1>4. CASE op = "And"
    BY <1>1, <1>4, SameOperators DEF BitVector!Combine
  <1>5. CASE op = "Or"
    BY <1>2, <1>5, SameOperators DEF BitVector!Combine
  <1>6. CASE op = "Xor"
    BY <1>3, <1>6, SameOperators DEF BitVector!Combine
  <1>7. QED
    BY <1>4, <1>5, <1>6 DEF Operations

\* A vector of n bytes followed by zeros.
Padded(n, v, i) == IF i \in 0 .. 8 * n - 1 THEN v[i] ELSE Zero

\* The two vectors combined, both followed by zeros.
Merged(h, n, v, k, w, op) ==
  [i \in 0 .. 8 * h - 1 |-> BitVector!Combine(op, Padded(n, v, i), Padded(k, w, i))]

\* What BitVector says of an operator.
LEMMA CombinedIs ==
  ASSUME NEW n \in Nat \ {0}, NEW k \in Nat \ {0}, NEW v \in Bits(n), NEW w \in Bits(k),
         NEW c, NEW h, h = IF n < k /\ c.grow THEN k ELSE n,
         c.with = "And" /\ c.grow => n = k
  PROVE  BitVector!Combined(c, v, w) = Merged(h, n, v, k, w, c.with)
  <1> DEFINE u == IF ~c.grow THEN v
                  ELSE IF c.with = "And" THEN BitVector!Common(v, w) ELSE BitVector!Extended(v, w)
             N == 8 * n
             K == 8 * k
             H == 8 * h
  <1>1. DOMAIN v = 0 .. N - 1 /\ DOMAIN w = 0 .. K - 1
    BY DEF Bits
  <1>2. BitVector!Zero = Zero
    BY SameOperators
  <1>3. N \in Nat /\ K \in Nat /\ H = IF N < K /\ c.grow THEN K ELSE N
    OBVIOUS
  <1> HIDE DEF N, K, H
  <1>4. CASE c.grow /\ c.with # "And"
    <2>1. u = [i \in (0 .. N - 1) \cup (0 .. K - 1) |-> IF i \in 0 .. N - 1 THEN v[i] ELSE Zero]
      BY <1>1, <1>2, <1>4 DEF BitVector!Extended
    <2>2. (0 .. N - 1) \cup (0 .. K - 1) = 0 .. H - 1
      BY <1>3, <1>4
    <2> HIDE DEF u
    <2>3. DOMAIN u = 0 .. H - 1 /\ \A i \in 0 .. H - 1 : u[i] = IF i \in 0 .. N - 1 THEN v[i] ELSE Zero
      BY <2>1, <2>2
    <2>4. BitVector!Combined(c, v, w) =
            [i \in DOMAIN u |-> BitVector!Combine(c.with, u[i], IF i \in DOMAIN w THEN w[i] ELSE Zero)]
      BY <1>2 DEF BitVector!Combined, u
    <2>5. QED
      BY <1>1, <2>3, <2>4 DEF Merged, Padded, N, K, H
  <1>5. CASE ~c.grow \/ c.with = "And"
    <2>1. u = v /\ H = N
      <3>1. CASE ~c.grow
        BY <1>3, <3>1
      <3>2. CASE c.grow /\ c.with = "And"
        <4>1. n = k
          BY <3>2
        <4>2. N = K
          BY <4>1 DEF N, K
        <4>3. DOMAIN v = DOMAIN w /\ v = [i \in DOMAIN v |-> v[i]]
          BY <1>1, <4>2 DEF Bits
        <4>4. BitVector!Common(v, w) = v
          BY <4>3 DEF BitVector!Common
        <4>5. QED
          BY <1>3, <3>2, <4>2, <4>4
      <3>3. QED
        BY <1>5, <3>1, <3>2
    <2> HIDE DEF u
    <2>2. BitVector!Combined(c, v, w) =
            [i \in DOMAIN u |-> BitVector!Combine(c.with, u[i], IF i \in DOMAIN w THEN w[i] ELSE Zero)]
      BY <1>2 DEF BitVector!Combined, u
    <2>3. BitVector!Combined(c, v, w) =
            [i \in 0 .. N - 1 |-> BitVector!Combine(c.with, v[i], IF i \in 0 .. K - 1 THEN w[i] ELSE Zero)]
      BY <1>1, <2>1, <2>2
    <2>4. Merged(h, n, v, k, w, c.with) =
            [i \in 0 .. N - 1 |-> BitVector!Combine(c.with, IF i \in 0 .. N - 1 THEN v[i] ELSE Zero,
                                                            IF i \in 0 .. K - 1 THEN w[i] ELSE Zero)]
      BY <2>1 DEF Merged, Padded, N, K, H
    <2>5. QED
      BY <2>3, <2>4
  <1>6. QED
    BY <1>4, <1>5

\* The operands whose bytes the operators pair as their bits.
Agree(n, b, k, other) ==
  /\ n \in Nat \ {0} /\ k \in Nat \ {0} /\ b \in BufferOf(n) /\ other \in BufferOf(k)
  /\ b.dependent <=> other.dependent
  /\ b.dependent /\ b.endian # other.endian => b.endian # RBE /\ other.endian # RBE
  /\ ~b.dependent /\ b.endian # LE /\ ~b.safe => ~ (n < k)

\* The left operand, grown or not.
LEMMA LeftIs ==
  ASSUME NEW n \in Nat, NEW b \in BufferOf(n), NEW k \in Nat, NEW other \in BufferOf(k)
  PROVE  LeftSize(b, n, k) \in Nat /\ LeftOf(b, other) \in Like(b, LeftSize(b, n, k))
  <1> DEFINE op == "And"
             l == LeftOf(b, other)
             h == LeftSize(b, n, k)
  <1>1. op \in {"And", "Or", "Xor"}
    OBVIOUS
  <1>2. l = LeftOf(b, other) /\ h = LeftSize(b, n, k)
    OBVIOUS
  <1> HIDE DEF op, l, h
  <1>3. h \in Nat /\ l \in Like(b, h)
    BY <1>1, <1>2, OperandsAre
  <1>4. QED
    BY <1>2, <1>3

\* Growing the left operand extends its vector with zeros.
LEMMA LeftPadded ==
  ASSUME NEW n, NEW b, NEW k, NEW other, Agree(n, b, k, other),
         NEW l, l = LeftOf(b, other), NEW h, h = LeftSize(b, n, k),
         NEW j \in 0 .. h - 1, NEW p \in BitOf
  PROVE  l.data[j][p] = Padded(n, Vector(b), IndexOf(l, h, j, p))
  <1>1. n \in Nat \ {0} /\ k \in Nat \ {0} /\ b \in BufferOf(n) /\ other \in BufferOf(k)
    BY DEF Agree
  <1>2. Size(b) = n /\ Size(other) = k /\ DOMAIN b.data = 0 .. n - 1
    BY <1>1, SizeIs
  <1>3. h \in Nat /\ l \in BufferOf(h) /\ l.endian = b.endian /\ l.dependent = b.dependent
    BY <1>1, LeftIs DEF Like
  <1>4. CASE n < k /\ ~b.safe
    <2>1. l = Grown(b, k) /\ h = k
      BY <1>2, <1>4 DEF LeftOf, LeftSize
    <2> DEFINE f == IF b.endian = LE THEN j ELSE j - (k - n)
               q == ByteOf(l, h, j)
               r == PlaceOf(l, p)
    <2>2. l.data[j] = IF f \in 0 .. n - 1 THEN b.data[f] ELSE LowByte
      BY <1>1, <1>2, <2>1 DEF Grown, BufferOf
    <2>3. b.endian # LE => b.dependent
      BY <1>4 DEF Agree
    <2>4. q = IF b.endian # LE THEN k - 1 - j ELSE j
      BY <1>3, <2>1, <2>3 DEF ByteOf
    <2>5. q \in Nat /\ r \in 0 .. 7 /\ (r \in BitOf)
      <3>1. q \in 0 .. h - 1 /\ r \in BitOf
        BY <1>3, Mirrored
      <3>2. QED
        BY <3>1 DEF BitOf
    <2>6. IndexOf(l, h, j, p) = 8 * q + r
      BY DEF IndexOf
    <2>7. f \in 0 .. n - 1 <=> q \in 0 .. n - 1
      BY <1>1, <2>1, <2>4
    <2>8. r = PlaceOf(b, p)
      BY <1>3 DEF PlaceOf
    <2>9. f \in 0 .. n - 1 => ByteOf(b, n, f) = q
      <3>1. n - 1 - (j - (k - n)) = k - 1 - j
        BY <1>1, <2>1
      <3> HIDE DEF q
      <3>2. QED
        BY <2>3, <2>4, <3>1 DEF ByteOf
    <2> HIDE DEF f, q, r
    <2>10. 8 * q + r \in 0 .. 8 * n - 1 <=> q \in 0 .. n - 1
      BY <1>1, <2>5
    <2>11. CASE f \in 0 .. n - 1
      <3>1. Vector(b)[IndexOf(b, n, f, p)] = b.data[f][p]
        BY <1>1, <2>11, VectorIs
      <3>2. IndexOf(b, n, f, p) = 8 * q + r
        BY <2>8, <2>9, <2>11 DEF IndexOf
      <3>3. QED
        BY <2>2, <2>6, <2>7, <2>10, <2>11, <3>1, <3>2 DEF Padded
    <2>12. CASE f \notin 0 .. n - 1
      <3>1. l.data[j][p] = Zero
        BY <2>2, <2>12 DEF LowByte
      <3>2. QED
        BY <2>6, <2>7, <2>10, <2>12, <3>1 DEF Padded
    <2>13. QED
      BY <2>11, <2>12
  <1>5. CASE ~ (n < k /\ ~b.safe)
    <2>1. l = b /\ h = n
      BY <1>2, <1>5 DEF LeftOf, LeftSize
    <2>2. Vector(b)[IndexOf(b, n, j, p)] = b.data[j][p] /\ IndexOf(b, n, j, p) \in 0 .. 8 * n - 1
      <3>1. n \in Nat /\ j \in 0 .. n - 1
        BY <1>1, <2>1
      <3>2. Vector(b)[IndexOf(b, n, j, p)] = b.data[j][p]
        BY <1>1, <3>1, VectorIs
      <3>3. IndexOf(b, n, j, p) \in 0 .. 8 * n - 1
        BY <1>1, <3>1, Positions
      <3>4. QED
        BY <3>2, <3>3
    <2>3. QED
      BY <2>1, <2>2 DEF Padded
  <1>6. QED
    BY <1>4, <1>5

\* The byte of the right operand that is paired with a byte of the left one holds
\* the bits of the same indexes.
LEMMA RightPadded ==
  ASSUME NEW n, NEW b, NEW k, NEW other, Agree(n, b, k, other),
         NEW l, l = LeftOf(b, other), NEW h, h = LeftSize(b, n, k),
         NEW j \in 0 .. h - 1, NEW p \in BitOf, NEW q, q = ByteOf(l, h, j)
  PROVE  /\ q < k => /\ ByteOf(other, k, q) \in 0 .. k - 1
                     /\ other.data[ByteOf(other, k, q)][p] = Padded(k, Vector(other), IndexOf(l, h, j, p))
         /\ ~ (q < k) => Padded(k, Vector(other), IndexOf(l, h, j, p)) = Zero
  <1>1. n \in Nat \ {0} /\ k \in Nat \ {0} /\ b \in BufferOf(n) /\ other \in BufferOf(k)
    BY DEF Agree
  <1>2. h \in Nat /\ l \in BufferOf(h) /\ l.endian = b.endian /\ l.dependent = b.dependent
    BY <1>1, LeftIs DEF Like
  <1> DEFINE r == PlaceOf(l, p)
  <1>3. q \in Nat /\ r \in 0 .. 7
    <2>1. q \in 0 .. h - 1 /\ r \in BitOf
      BY <1>2, Mirrored
    <2>2. QED
      BY <2>1 DEF BitOf
  <1>4. IndexOf(l, h, j, p) = 8 * q + r
    BY DEF IndexOf
  <1>5. r = PlaceOf(other, p)
    <2>1. (b.dependent /\ b.endian # RBE) <=> (other.dependent /\ other.endian # RBE)
      BY DEF Agree
    <2>2. QED
      BY <1>2, <2>1 DEF PlaceOf
  <1> HIDE DEF r
  <1>6. 8 * q + r \in 0 .. 8 * k - 1 <=> q < k
    BY <1>1, <1>3
  <1>7. CASE q < k
    <2> DEFINE z == ByteOf(other, k, q)
    <2>1. z \in 0 .. k - 1 /\ ByteOf(other, k, z) = q
      <3>1. q \in 0 .. k - 1
        BY <1>1, <1>3, <1>7
      <3>2. QED
        BY <1>1, <3>1, Mirrored
    <2> HIDE DEF z
    <2>2. IndexOf(other, k, z, p) = 8 * q + r
      BY <1>5, <2>1 DEF IndexOf
    <2>3. Vector(other)[IndexOf(other, k, z, p)] = other.data[z][p]
      BY <1>1, <2>1, VectorIs
    <2>4. QED
      BY <1>4, <1>6, <1>7, <2>1, <2>2, <2>3 DEF Padded, z
  <1>8. CASE ~ (q < k)
    BY <1>4, <1>6, <1>8 DEF Padded
  <1>9. QED
    BY <1>7, <1>8

\* Combining vectors makes a vector.
LEMMA MergedIs ==
  ASSUME NEW n \in Nat, NEW k \in Nat, NEW h \in Nat, NEW v \in Bits(n), NEW w \in Bits(k), NEW op \in Operations
  PROVE  Merged(h, n, v, k, w, op) \in Bits(h)
  <1>1. \A i \in 0 .. 8 * h - 1 : Padded(n, v, i) \in Bit /\ Padded(k, w, i) \in Bit
    BY BitsClosed DEF Padded, Bits
  <1>2. \A x, y \in Bit : BitVector!Combine(op, x, y) \in Bit
    <2> SUFFICES ASSUME NEW x \in Bit, NEW y \in Bit
                 PROVE  BitVector!Combine(op, x, y) \in Bit
      OBVIOUS
    <2>1. And(x, y) \in Bit /\ Or(x, y) \in Bit /\ Xor(x, y) \in Bit
      BY AndIsBit, OrIsBit, BitsClosed
    <2>2. QED
      BY <2>1, SameOperators DEF BitVector!Combine, Operations
  <1>3. QED
    BY <1>1, <1>2 DEF Merged, Bits

\* The operators on bytes, bit by bit.
LEMMA OperatedBits ==
  ASSUME NEW n, NEW b, NEW k, NEW other, Agree(n, b, k, other), NEW op \in Operations,
         NEW l, l = LeftOf(b, other), NEW h, h = LeftSize(b, n, k),
         NEW j \in 0 .. h - 1, NEW p \in BitOf
  PROVE  Operated(l, h, op, other, k)[j][p] = Merged(h, n, Vector(b), k, Vector(other), op)[IndexOf(l, h, j, p)]
  <1> DEFINE i == IndexOf(l, h, j, p)
             q == ByteOf(l, h, j)
             z == ByteOf(other, k, q)
             v == Vector(b)
             w == Vector(other)
  <1>1. n \in Nat \ {0} /\ k \in Nat \ {0} /\ b \in BufferOf(n) /\ other \in BufferOf(k)
    BY DEF Agree
  <1>2. h \in Nat /\ l \in BufferOf(h)
    BY <1>1, LeftIs DEF Like
  <1>3. i \in 0 .. 8 * h - 1
    BY <1>2, Positions
  <1>4. l.data[j][p] = Padded(n, v, i)
    BY LeftPadded
  <1>5. q = ByteOf(l, h, j)
    OBVIOUS
  <1> HIDE DEF q
  <1>6. /\ q < k => z \in 0 .. k - 1 /\ other.data[z][p] = Padded(k, w, i)
        /\ ~ (q < k) => Padded(k, w, i) = Zero
    BY <1>5, RightPadded
  <1>7. Operated(l, h, op, other, k)[j] =
          IF q < k THEN Combine(op, l.data[j], other.data[z])
          ELSE IF op = "And" THEN LowByte ELSE l.data[j]
    BY DEF Operated, q
  <1>8. l.data[j][p] \in Bit
    BY <1>2 DEF BufferOf, Byte
  <1> HIDE DEF i, z, v, w
  <1>9. Merged(h, n, v, k, w, op)[i] = BitVector!Combine(op, Padded(n, v, i), Padded(k, w, i))
    BY <1>3 DEF Merged
  <1>10. CASE q < k
    <2>1. Combine(op, l.data[j], other.data[z])[p] = BitVector!Combine(op, l.data[j][p], other.data[z][p])
      BY BitwiseCombine
    <2>2. QED
      BY <1>4, <1>6, <1>7, <1>9, <1>10, <2>1 DEF i, v, w
  <1>11. CASE ~ (q < k)
    <2>1. BitVector!Combine(op, l.data[j][p], Zero) = IF op = "And" THEN Zero ELSE l.data[j][p]
      BY <1>8, CombineZero
    <2>2. LowByte[p] = Zero
      BY DEF LowByte
    <2>3. QED
      BY <1>4, <1>6, <1>7, <1>9, <1>11, <2>1, <2>2 DEF i, v, w
  <1>12. QED
    BY <1>10, <1>11

\* The operators on operands of any two lengths.
LEMMA OperatorOnBits ==
  ASSUME NEW n, NEW b, NEW k, NEW other, Agree(n, b, k, other), NEW op \in Operations,
         op = "And" /\ ~b.safe => n = k,
         NEW c, c.with = op, c.grow <=> ~b.safe
  PROVE  Vector(BitStreamAssign(b, op, other)) = BitVector!Combined(c, Vector(b), Vector(other))
  <1> DEFINE l == LeftOf(b, other)
             h == LeftSize(b, n, k)
             v == Vector(b)
             w == Vector(other)
             d == Operated(l, h, op, other, k)
             a == WithData(l, d)
             u == Merged(h, n, v, k, w, op)
  <1>1. n \in Nat \ {0} /\ k \in Nat \ {0} /\ n \in Nat /\ k \in Nat /\ b \in BufferOf(n) /\ other \in BufferOf(k)
    BY DEF Agree
  <1>2. v \in Bits(n) /\ w \in Bits(k)
    BY <1>1, VectorIs
  <1>3. h \in Nat /\ l \in BufferOf(h)
    BY <1>1, LeftIs DEF Like
  <1>4. l = LeftOf(b, other) /\ h = LeftSize(b, n, k)
    OBVIOUS
  <1>5. h = IF n < k /\ c.grow THEN k ELSE n
    BY DEF LeftSize
  <1> HIDE DEF l, h
  <1>6. BitStreamAssign(b, op, other) = a /\ d \in ByteBlocks(h)
    BY <1>1, <1>4, OperandsAre DEF Operations
  <1>7. \A j \in 0 .. h - 1, p \in BitOf : d[j][p] = u[IndexOf(l, h, j, p)]
    BY <1>4, OperatedBits
  <1> HIDE DEF d
  <1>8. a \in BufferOf(h) /\ a.data = d /\ a.endian = l.endian /\ a.dependent = l.dependent
    BY <1>3, <1>6, DataReplaced
  <1>9. u \in Bits(h)
    BY <1>1, <1>2, <1>3, MergedIs
  <1> HIDE DEF a, u, v, w
  <1>10. \A j \in 0 .. h - 1, p \in BitOf : a.data[j][p] = u[IndexOf(a, h, j, p)]
    <2>1. \A j, p : IndexOf(a, h, j, p) = IndexOf(l, h, j, p)
      BY <1>8, LayoutSame
    <2>2. QED
      BY <1>7, <1>8, <2>1
  <1>11. Vector(a) = u
    BY <1>3, <1>8, <1>9, <1>10, VectorDetermines
  <1>12. BitVector!Combined(c, v, w) = u
    BY <1>1, <1>2, <1>5, CombinedIs DEF u
  <1>13. QED
    BY <1>6, <1>11, <1>12 DEF v, w

\* The operators on operands of the same shape.
LEMMA AlikeOnBits ==
  ASSUME NEW n, NEW b, NEW other, Agree(n, b, n, other), b.endian = other.endian, NEW op \in Operations,
         NEW c, c.with = op
  PROVE  Vector(WithData(b, Alike(n, b, op, other))) = BitVector!Combined(c, Vector(b), Vector(other))
  <1> DEFINE v == Vector(b)
             w == Vector(other)
             d == Alike(n, b, op, other)
             a == WithData(b, d)
             u == Merged(n, n, v, n, w, op)
  <1>1. n \in Nat \ {0} /\ n \in Nat /\ b \in BufferOf(n) /\ other \in BufferOf(n)
    BY DEF Agree
  <1>2. v \in Bits(n) /\ w \in Bits(n)
    BY <1>1, VectorIs
  <1>3. d \in ByteBlocks(n)
    <2>1. \A j \in 0 .. n - 1 : b.data[j] \in Byte /\ other.data[j] \in Byte
      BY <1>1 DEF BufferOf
    <2>2. \A j \in 0 .. n - 1 : Combine(op, b.data[j], other.data[j]) \in Byte
      BY <2>1, CombineIsByte DEF Operations
    <2>3. QED
      BY <2>2 DEF Alike, ByteBlocks
  <1>4. \A j \in 0 .. n - 1, p \in BitOf : d[j][p] = u[IndexOf(b, n, j, p)]
    <2> SUFFICES ASSUME NEW j \in 0 .. n - 1, NEW p \in BitOf
                 PROVE  d[j][p] = u[IndexOf(b, n, j, p)]
      OBVIOUS
    <2> DEFINE i == IndexOf(b, n, j, p)
    <2>1. i \in 0 .. 8 * n - 1
      BY <1>1, Positions
    <2>2. i = IndexOf(other, n, j, p)
      <3>1. b.dependent <=> other.dependent
        BY DEF Agree
      <3>2. ByteOf(b, n, j) = ByteOf(other, n, j)
        BY <3>1 DEF ByteOf
      <3>3. PlaceOf(b, p) = PlaceOf(other, p)
        BY <3>1 DEF PlaceOf
      <3>4. QED
        BY <3>2, <3>3 DEF IndexOf
    <2>3. v[i] = b.data[j][p]
      BY <1>1, VectorIs
    <2>4. w[i] = other.data[j][p]
      BY <1>1, <2>2, VectorIs
    <2> HIDE DEF i, v, w
    <2>5. u[i] = BitVector!Combine(op, v[i], w[i])
      BY <2>1 DEF Merged, Padded
    <2>6. d[j][p] = BitVector!Combine(op, b.data[j][p], other.data[j][p])
      BY BitwiseCombine DEF Alike
    <2>7. QED
      BY <2>3, <2>4, <2>5, <2>6 DEF i
  <1> HIDE DEF d
  <1>5. a \in BufferOf(n) /\ a.data = d /\ a.endian = b.endian /\ a.dependent = b.dependent
    BY <1>1, <1>3, DataReplaced
  <1>6. u \in Bits(n)
    BY <1>1, <1>2, MergedIs
  <1> HIDE DEF a, u, v, w
  <1>7. \A j \in 0 .. n - 1, p \in BitOf : a.data[j][p] = u[IndexOf(a, n, j, p)]
    <2>1. \A j, p : IndexOf(a, n, j, p) = IndexOf(b, n, j, p)
      BY <1>5, LayoutSame
    <2>2. QED
      BY <1>4, <1>5, <2>1
  <1>8. Vector(a) = u
    BY <1>1, <1>5, <1>6, <1>7, VectorDetermines
  <1>9. n = IF n < n /\ c.grow THEN n ELSE n
    OBVIOUS
  <1>10. BitVector!Combined(c, v, w) = u
    BY <1>1, <1>2, <1>9, CombinedIs DEF u
  <1>11. QED
    BY <1>8, <1>10 DEF a, d, v, w

\* A call of an operator.
OperatorCall(op, unit, with, other) ==
  [op |-> op, unit |-> unit, with |-> with, other |-> other, grow |-> ~buffer.safe]

\* What the operators of the two classes make of their operands.
Made(op, unit, with, other) ==
  CASE unit = "bit" /\ op = "Assign" -> BitStreamAssign(buffer, with, other)
    [] unit = "bit" /\ op = "Operator" -> BitStreamOperator(buffer, with, other)
    [] unit = "data" /\ op = "Assign" -> BinaryDataAssign(buffer, with, other)
    [] OTHER -> BinaryDataOperator(buffer, with, other)

\* What BitVector says of the call of an operator.
LEMMA OperatorCallMapped ==
  ASSUME NEW op \in {"Assign", "Operator"}, NEW unit \in {"bit", "data"}, NEW with, NEW other,
         NEW c, c = OperatorCall(op, unit, with, other), NEW d, d = VectorCall(c), NEW v
  PROVE  /\ d.op = op /\ d.with = with /\ (d.grow <=> ~buffer.safe)
         /\ op = "Assign" => BitVector!Result(d, v) = BitVector!Combined(d, v, Vector(other))
                             /\ BitVector!Answer(d, v) = <<>>
         /\ op = "Operator" => BitVector!Result(d, v) = v
                               /\ BitVector!Answer(d, v) = <<BitVector!Combined(d, v, Vector(other))>>
  <1>1. c.op = op /\ c.unit = unit /\ c.with = with /\ c.other = other /\ (c.grow <=> ~buffer.safe)
    BY DEF OperatorCall
  <1>2. unit # "byte" /\ op # "New"
    OBVIOUS
  <1>3. d = [c EXCEPT !.other = Vector(@)]
    BY <1>1, <1>2 DEF VectorCall
  <1>4. d.op = op /\ d.with = with /\ (d.grow <=> ~buffer.safe) /\ d.other = Vector(other)
    BY <1>3 DEF OperatorCall
  <1>5. op = "Assign" => BitVector!Result(d, v) = BitVector!Combined(d, v, Vector(other))
                         /\ BitVector!Answer(d, v) = <<>>
    BY <1>4 DEF BitVector!Result, BitVector!Answer
  <1>6. op = "Operator" => BitVector!Result(d, v) = v
                           /\ BitVector!Answer(d, v) = <<BitVector!Combined(d, v, Vector(other))>>
    BY <1>4 DEF BitVector!Result, BitVector!Answer
  <1>7. QED
    BY <1>4, <1>5, <1>6

\* Every operator outside DefectOfOperands combines the vectors.
LEMMA OperateMapped ==
  ASSUME NEW n \in Nat \ {0}, NEW k \in Nat \ {0}, buffer \in BufferOf(n), NEW other \in BufferOf(k),
         other.dependent = buffer.dependent,
         NEW op \in {"Assign", "Operator"}, NEW unit \in {"bit", "data"}, NEW with \in Operations,
         NEW c, c = OperatorCall(op, unit, with, other), ~DefectOfOperands(buffer, c)
  PROVE  Vector(Made(op, unit, with, other)) = BitVector!Combined(VectorCall(c), Vector(buffer), Vector(other))
  <1> DEFINE b == buffer
             d == VectorCall(c)
             e == BitVector!Combined(d, Vector(b), Vector(other))
  <1>1. c.op = op /\ c.unit = unit /\ c.with = with /\ c.other = other
    BY DEF OperatorCall
  <1>2. Size(b) = n /\ Size(other) = k /\ DOMAIN b.data = 0 .. n - 1
    BY SizeIs
  <1>3. d = VectorCall(c)
    OBVIOUS
  <1> HIDE DEF d
  <1>4. d.with = with /\ (d.grow <=> ~b.safe)
    BY <1>3, OperatorCallMapped
  <1>5. /\ ~ (op = "Assign" /\ unit = "data" /\ with = "And" /\ SameShape(b, other) /\ n >= 4)
        /\ b.dependent /\ b.endian # other.endian => b.endian # RBE /\ other.endian # RBE
        /\ ~b.dependent /\ b.endian # LE /\ ~b.safe => ~ (n < k)
        /\ with = "And" /\ ~b.safe => n = k
    BY <1>1, <1>2 DEF DefectOfOperands
  <1>6. Agree(n, b, k, other)
    BY <1>5 DEF Agree
  <1>7. Vector(BitStreamAssign(b, with, other)) = e
    BY <1>4, <1>5, <1>6, OperatorOnBits
  <1>8. CASE unit = "bit" \/ ~SameShape(b, other)
    <2>1. Made(op, unit, with, other) = BitStreamAssign(b, with, other)
      BY <1>8 DEF Made, BitStreamOperator, BinaryDataAssign, BinaryDataOperator
    <2>2. QED
      BY <1>7, <2>1 DEF d
  <1>9. CASE unit = "data" /\ SameShape(b, other)
    <2>1. b.endian = other.endian /\ k = n
      BY <1>2, <1>9 DEF SameShape
    <2>2. Agree(n, b, n, other)
      BY <1>6, <2>1
    <2>3. Vector(WithData(b, Alike(n, b, with, other))) = e
      BY <1>4, <2>1, <2>2, AlikeOnBits
    <2>4. BinaryDataOperator(b, with, other) = WithData(b, Alike(n, b, with, other))
      BY <1>2, <1>9 DEF BinaryDataOperator, WithData, Alike
    <2>5. op = "Assign" => BinaryDataAssign(b, with, other) = WithData(b, Alike(n, b, with, other))
      <3> SUFFICES ASSUME op = "Assign"
                   PROVE  BinaryDataAssign(b, with, other) = WithData(b, Alike(n, b, with, other))
        OBVIOUS
      <3> DEFINE g(j) == IF with = "And" /\ j < 4 * (n \div 4) THEN "Xor" ELSE with
      <3>1. \A j \in 0 .. n - 1 : g(j) = with
        <4>1. with = "And" => n < 4
          BY <1>5, <1>9
        <4>2. n < 4 => 4 * (n \div 4) = 0
          OBVIOUS
        <4>3. QED
          BY <4>1, <4>2
      <3>2. BinaryDataAssign(b, with, other) =
              [b EXCEPT !.data = [j \in 0 .. n - 1 |-> Combine(g(j), b.data[j], other.data[j])]]
        BY <1>2, <1>9 DEF BinaryDataAssign
      <3> HIDE DEF g
      <3>3. QED
        BY <3>1, <3>2 DEF WithData, Alike
    <2>6. QED
      BY <1>9, <2>3, <2>4, <2>5 DEF Made, d
  <1>10. QED
    BY <1>8, <1>9

-----------------------------------------------------------------------------
(* Predicates: the positions they read are those of the bits asked for     *)

\* Each position is the one of one index.
LEMMA DrawnInverse ==
  ASSUME NEW n \in Nat, NEW b \in BufferOf(n), NEW i \in 0 .. 8 * n - 1
  PROVE  DrawnAt(b, GetBitPosition(b, i)) = i
  <1> DEFINE at == GetBitPosition(b, i)
  <1>1. Length(b) = 8 * n
    BY SizeIs
  <1>2. Drawn(b, i) = at
    BY PositionDrawn
  <1>3. \A k \in 0 .. 8 * n - 1 : Drawn(b, k) = at => k = i
    <2> SUFFICES ASSUME NEW k \in 0 .. 8 * n - 1, Drawn(b, k) = at
                 PROVE  k = i
      OBVIOUS
    <2>1. PICK j \in 0 .. n - 1, p \in BitOf : Drawn(b, i) = <<j, p>> /\ IndexOf(b, n, j, p) = i
      BY Positions
    <2>2. PICK h \in 0 .. n - 1, q \in BitOf : Drawn(b, k) = <<h, q>> /\ IndexOf(b, n, h, q) = k
      BY Positions
    <2>3. h = j /\ q = p
      BY <1>2, <2>1, <2>2
    <2>4. QED
      BY <2>1, <2>2, <2>3
  <1> HIDE DEF at
  <1>4. (CHOOSE k \in 0 .. 8 * n - 1 : Drawn(b, k) = at) = i
    BY <1>2, <1>3
  <1>5. QED
    BY <1>1, <1>4 DEF DrawnAt, at

\* Reading the positions of a range is asking for its indexes.
LEMMA BitsAsked ==
  ASSUME NEW n \in Nat, NEW b \in BufferOf(n), NEW first \in Nat, NEW last \in Nat, last < 8 * n
  PROVE  {DrawnAt(b, at) : at \in BitsFrom(b, first, last)} = first .. last
  <1>1. \A i \in first .. last : DrawnAt(b, GetBitPosition(b, i)) = i
    <2> SUFFICES ASSUME NEW i \in first .. last
                 PROVE  DrawnAt(b, GetBitPosition(b, i)) = i
      OBVIOUS
    <2>1. i \in 0 .. 8 * n - 1
      OBVIOUS
    <2>2. QED
      BY <2>1, DrawnInverse
  <1>2. \A i \in first .. last : i \in {DrawnAt(b, at) : at \in BitsFrom(b, first, last)}
    <2> SUFFICES ASSUME NEW i \in first .. last
                 PROVE  i \in {DrawnAt(b, at) : at \in BitsFrom(b, first, last)}
      OBVIOUS
    <2>1. GetBitPosition(b, i) \in BitsFrom(b, first, last)
      BY DEF BitsFrom
    <2>2. QED
      BY <1>1, <2>1
  <1>3. \A at \in BitsFrom(b, first, last) : DrawnAt(b, at) \in first .. last
    BY <1>1 DEF BitsFrom
  <1>4. QED
    BY <1>2, <1>3

\* A byte is eight consecutive bits of the vector.
LEMMA ByteBits ==
  ASSUME NEW n \in Nat, NEW b \in BufferOf(n), NEW q \in 0 .. n - 1
  PROVE  BitsOfByte(ByteOf(b, n, q)) = BitsFrom(b, 8 * q, 8 * q + 7)
  <1> DEFINE j == ByteOf(b, n, q)
  <1>1. \A p \in BitOf : GetBitPosition(b, 8 * q + p) = <<j, PlaceOf(b, p)>>
    <2> SUFFICES ASSUME NEW p \in BitOf
                 PROVE  GetBitPosition(b, 8 * q + p) = <<j, PlaceOf(b, p)>>
      OBVIOUS
    <2>1. 8 * q + p \in 0 .. 8 * n - 1 /\ (8 * q + p) \div 8 = q /\ (8 * q + p) % 8 = p
      BY EightTimes
    <2>2. QED
      BY <2>1, PositionOfIndex
  <1>2. \A p \in BitOf : PlaceOf(b, p) \in BitOf /\ PlaceOf(b, PlaceOf(b, p)) = p
    BY Mirrored
  <1>3. ASSUME NEW i \in 8 * q .. 8 * q + 7 PROVE GetBitPosition(b, i) \in BitsOfByte(j)
    <2>1. i - 8 * q \in BitOf /\ 8 * q + (i - 8 * q) = i
      BY DEF BitOf
    <2>2. GetBitPosition(b, i) = <<j, PlaceOf(b, i - 8 * q)>>
      BY <1>1, <2>1
    <2>3. QED
      BY <1>2, <2>1, <2>2 DEF BitsOfByte
  <1>4. ASSUME NEW p \in BitOf PROVE <<j, p>> \in BitsFrom(b, 8 * q, 8 * q + 7)
    <2> DEFINE r == PlaceOf(b, p)
    <2>1. r \in BitOf /\ PlaceOf(b, r) = p
      BY <1>2
    <2> HIDE DEF r
    <2>2. GetBitPosition(b, 8 * q + r) = <<j, p>>
      BY <1>1, <2>1
    <2>3. 8 * q + r \in 8 * q .. 8 * q + 7
      BY <2>1 DEF BitOf
    <2>4. QED
      BY <2>2, <2>3 DEF BitsFrom
  <1> HIDE DEF j
  <1>5. BitsOfByte(j) \subseteq BitsFrom(b, 8 * q, 8 * q + 7)
    BY <1>4 DEF BitsOfByte
  <1>6. BitsFrom(b, 8 * q, 8 * q + 7) \subseteq BitsOfByte(j)
    BY <1>3 DEF BitsFrom
  <1>7. QED
    BY <1>5, <1>6 DEF j

\* Where the m bytes of the vector from the q-th on are, and their bits.
BytesAt(b, n, q, m) == {ByteOf(b, n, q + k) : k \in 0 .. m - 1}
\* The bits of a set of bytes.
BitsOfBytes(S) == UNION {BitsOfByte(j) : j \in S}

\* Consecutive bytes are consecutive bits of the vector.
LEMMA BytesBits ==
  ASSUME NEW n \in Nat, NEW b \in BufferOf(n), NEW q \in Nat, NEW m \in Nat, q + m <= n
  PROVE  BitsOfBytes(BytesAt(b, n, q, m)) = BitsFrom(b, 8 * q, 8 * (q + m) - 1)
  <1> DEFINE U == BitsOfBytes(BytesAt(b, n, q, m))
             V == BitsFrom(b, 8 * q, 8 * (q + m) - 1)
  <1>1. \A k \in 0 .. m - 1 : BitsOfByte(ByteOf(b, n, q + k)) = BitsFrom(b, 8 * (q + k), 8 * (q + k) + 7)
    <2> SUFFICES ASSUME NEW k \in 0 .. m - 1
                 PROVE  BitsOfByte(ByteOf(b, n, q + k)) = BitsFrom(b, 8 * (q + k), 8 * (q + k) + 7)
      OBVIOUS
    <2> DEFINE r == q + k
    <2>1. r \in 0 .. n - 1
      OBVIOUS
    <2> HIDE DEF r
    <2>2. BitsOfByte(ByteOf(b, n, r)) = BitsFrom(b, 8 * r, 8 * r + 7)
      BY <2>1, ByteBits
    <2>3. QED
      BY <2>2 DEF r
  <1>2. ASSUME NEW x \in U PROVE x \in V
    <2>1. PICK k \in 0 .. m - 1 : x \in BitsOfByte(ByteOf(b, n, q + k))
      BY DEF BitsOfBytes, BytesAt
    <2>2. PICK i \in 8 * (q + k) .. 8 * (q + k) + 7 : x = GetBitPosition(b, i)
      BY <1>1, <2>1 DEF BitsFrom
    <2>3. i \in 8 * q .. 8 * (q + m) - 1
      OBVIOUS
    <2>4. QED
      BY <2>2, <2>3 DEF BitsFrom
  <1>3. ASSUME NEW x \in V PROVE x \in U
    <2>1. PICK i \in 8 * q .. 8 * (q + m) - 1 : x = GetBitPosition(b, i)
      BY DEF BitsFrom
    <2> DEFINE k == (i \div 8) - q
    <2>2. k \in 0 .. m - 1 /\ i \in 8 * (q + k) .. 8 * (q + k) + 7
      OBVIOUS
    <2> HIDE DEF k
    <2>3. x \in BitsFrom(b, 8 * (q + k), 8 * (q + k) + 7)
      BY <2>1, <2>2 DEF BitsFrom
    <2>4. x \in BitsOfByte(ByteOf(b, n, q + k))
      BY <1>1, <2>2, <2>3
    <2>5. QED
      BY <2>2, <2>4 DEF BitsOfBytes, BytesAt
  <1>4. QED
    BY <1>2, <1>3

\* Two ranges that meet are one range.
LEMMA BitsAfterBytes ==
  ASSUME NEW b, NEW first \in Nat, NEW middle \in Int, NEW last \in Nat, first <= middle, middle <= last + 1
  PROVE  BitsFrom(b, first, middle - 1) \cup BitsFrom(b, middle, last) = BitsFrom(b, first, last)
  <1>1. first .. last = (first .. middle - 1) \cup (middle .. last)
    OBVIOUS
  <1>2. QED
    BY <1>1 DEF BitsFrom

\* The whole bytes of a range begin at a byte and lie within the range.
LEMMA WholeBytesAre ==
  ASSUME NEW first \in Nat, NEW last \in Nat, first <= last, NEW m, m = WholeBytes(first, last)
  PROVE  /\ m \in Nat /\ first + 8 * m <= last + 1
         /\ m > 0 => first = 8 * (first \div 8)
  <1>1. CASE first % 8 = 0 /\ last - first + 1 >= 8
    <2>1. m = (last - first + 1) \div 8
      BY <1>1 DEF WholeBytes
    <2>2. QED
      BY <1>1, <2>1
  <1>2. CASE ~ (first % 8 = 0 /\ last - first + 1 >= 8)
    <2>1. m = 0
      BY <1>2 DEF WholeBytes
    <2>2. QED
      BY <2>1
  <1>3. QED
    BY <1>1, <1>2

\* S are the whole bytes of the range.
Reading(b, n, first, last, m, q, S) ==
  /\ first <= last /\ last < 8 * n /\ m = WholeBytes(first, last) /\ q = first \div 8
  /\ (m > 0 => S = BytesAt(b, n, q, m)) /\ (m < 1 => S = {})

\* Whole bytes first and the rest bit by bit: what All, None and Any read.
LEMMA BytesThenBits ==
  ASSUME NEW n \in Nat, NEW b \in BufferOf(n), NEW first \in Nat, NEW last \in Nat,
         NEW m, NEW q, NEW S, Reading(b, n, first, last, m, q, S)
  PROVE  BitsOfBytes(S) \cup BitsFrom(b, first + 8 * m, last) = BitsFrom(b, first, last)
  <1>1. first <= last /\ last < 8 * n /\ m = WholeBytes(first, last) /\ q = first \div 8
    BY DEF Reading
  <1>2. m \in Nat /\ first + 8 * m <= last + 1 /\ (m > 0 => first = 8 * q)
    BY <1>1, WholeBytesAre
  <1>3. q \in Nat /\ first <= last /\ last < 8 * n
    BY <1>1
  <1>4. (m > 0 => S = BytesAt(b, n, q, m)) /\ (m < 1 => S = {})
    BY DEF Reading
  <1>5. CASE m > 0
    <2>1. first = 8 * q /\ q + m <= n
      BY <1>2, <1>3, <1>5
    <2>2. S = BytesAt(b, n, q, m)
      BY <1>5, <1>4
    <2> DEFINE x == first + 8 * m
               low == 8 * q
               high == 8 * (q + m) - 1
    <2>3. BitsOfBytes(S) = BitsFrom(b, low, high)
      BY <1>2, <1>3, <2>1, <2>2, BytesBits
    <2>4. high = x - 1 /\ low = first /\ x \in Int /\ first <= x /\ x <= last + 1
      BY <1>2, <1>3, <2>1
    <2> HIDE DEF x, low, high
    <2>5. BitsFrom(b, first, x - 1) \cup BitsFrom(b, x, last) = BitsFrom(b, first, last)
      BY <2>4, BitsAfterBytes
    <2>6. BitsOfBytes(S) \cup BitsFrom(b, x, last) = BitsFrom(b, first, last)
      BY <2>3, <2>4, <2>5
    <2>7. QED
      BY <2>6 DEF x
  <1>6. CASE m < 1
    <2> DEFINE x == first + 8 * m
    <2>1. x = first
      BY <1>2, <1>6
    <2>2. BitsOfBytes(S) = {}
      BY <1>6, <1>4 DEF BitsOfBytes
    <2> HIDE DEF x
    <2>3. BitsOfBytes(S) \cup BitsFrom(b, x, last) = BitsFrom(b, first, last)
      BY <2>1, <2>2
    <2>4. QED
      BY <2>3 DEF x
  <1>7. QED
    BY <1>2, <1>5, <1>6

-----------------------------------------------------------------------------
(* Any within a word                                                       *)

\* The bytes of a block loaded as a word of 32 bits, low byte first.
WordOf(from, w) == [p \in 0 .. 31 |-> IF p \div 8 < w THEN <<from + (p \div 8), p % 8>> ELSE <<>>]

\* The bits s..s+n-1 of w bytes of a word.
Fits(w, s, n) == w \in 1 .. 4 /\ s \in 0 .. 7 /\ n \in 1 .. 32 /\ s + n <= 8 * w

\* The places of n bits of a word, which begin at its s-th bit.
PlacesUp(from, s, n)   == {<<from + (x \div 8), x % 8>> : x \in s .. s + n - 1}
PlacesDown(from, s, n) == {<<from + (x \div 8), 7 - (x % 8)>> : x \in s .. s + n - 1}

\* Shifting a word down and up again keeps the bits from s on.
LEMMA WordLow ==
  ASSUME NEW from \in Int, NEW w, NEW s, NEW n, Fits(w, s, n)
  PROVE  Loaded(WordShl(WordShr(WordOf(from, w), s), 32 - n)) = PlacesUp(from, s, n)
  <1> DEFINE v == WordOf(from, w)
             u == WordShr(v, s)
             t == 32 - n
             r == WordShl(u, t)
             place(x) == <<from + (x \div 8), x % 8>>
  <1>1. w \in 1 .. 4 /\ s \in 0 .. 7 /\ n \in 1 .. 32 /\ s + n <= 8 * w /\ t \in 0 .. 31 /\ n = 32 - t
    BY DEF Fits
  <1>2. \A x \in s .. s + n - 1 : x \in 0 .. 31 /\ x \div 8 < w
    BY <1>1
  <1>3. \A x \in s .. s + n - 1 : v[x] = place(x)
    BY <1>2 DEF WordOf
  <1>4. \A x : place(x) # <<>>
    OBVIOUS
  <1> HIDE DEF v, t
  <1>5. \A p \in 0 .. n - 1 : u[p] = v[p + s] /\ p + s \in s .. s + n - 1
    <2> SUFFICES ASSUME NEW p \in 0 .. n - 1
                 PROVE  u[p] = v[p + s] /\ p + s \in s .. s + n - 1
      OBVIOUS
    <2>1. p \in 0 .. 31 /\ p + s \in s .. s + n - 1
      BY <1>1
    <2>2. p + s \in 0 .. 31
      BY <1>2, <2>1
    <2>3. QED
      BY <2>1, <2>2 DEF WordShr
  <1> HIDE DEF u, place
  <1>6. \A p \in 0 .. 31 : r[p] = IF p - t \in 0 .. 31 THEN u[p - t] ELSE <<>>
    BY DEF WordShl
  <1> HIDE DEF r
  <1>7. \A p \in 0 .. 31 : p - t \in 0 .. 31 => r[p] = place(p - t + s) /\ p - t + s \in s .. s + n - 1
    <2> SUFFICES ASSUME NEW p \in 0 .. 31, p - t \in 0 .. 31
                 PROVE  r[p] = place(p - t + s) /\ p - t + s \in s .. s + n - 1
      OBVIOUS
    <2> DEFINE q == p - t
    <2>1. q \in 0 .. n - 1 /\ q \in 0 .. 31
      BY <1>1
    <2>2. r[p] = u[q]
      BY <1>6, <2>1
    <2> HIDE DEF q
    <2>3. r[p] = place(q + s) /\ q + s \in s .. s + n - 1
      BY <1>3, <1>5, <2>1, <2>2
    <2>4. QED
      BY <2>3 DEF q
  <1>8. \A p \in 0 .. 31 : r[p] # <<>> => r[p] \in {place(x) : x \in s .. s + n - 1}
    <2> SUFFICES ASSUME NEW p \in 0 .. 31, r[p] # <<>>
                 PROVE  r[p] \in {place(x) : x \in s .. s + n - 1}
      OBVIOUS
    <2>1. p - t \in 0 .. 31
      BY <1>6
    <2>2. QED
      BY <1>7, <2>1
  <1>9. \A x \in s .. s + n - 1 : place(x) # <<>> /\ \E p \in 0 .. 31 : r[p] = place(x)
    <2> SUFFICES ASSUME NEW x \in s .. s + n - 1
                 PROVE  place(x) # <<>> /\ \E p \in 0 .. 31 : r[p] = place(x)
      OBVIOUS
    <2> DEFINE p == x - s + t
    <2>1. p \in 0 .. 31 /\ p - t \in 0 .. 31 /\ p - t + s = x
      BY <1>1
    <2> HIDE DEF p
    <2>2. r[p] = place(x)
      BY <1>7, <2>1
    <2>3. QED
      BY <1>4, <2>1, <2>2
  <1>10. Loaded(r) = {place(x) : x \in s .. s + n - 1}
    <2>1. Loaded(r) = {r[p] : p \in 0 .. 31} \ {<<>>}
      BY DEF Loaded
    <2>2. ASSUME NEW y \in Loaded(r) PROVE y \in {place(x) : x \in s .. s + n - 1}
      BY <1>8, <2>1
    <2>3. ASSUME NEW y \in {place(x) : x \in s .. s + n - 1} PROVE y \in Loaded(r)
      <3>1. PICK x \in s .. s + n - 1 : y = place(x)
        OBVIOUS
      <3>2. PICK p \in 0 .. 31 : r[p] = place(x)
        BY <1>9
      <3>3. QED
        BY <1>9, <2>1, <3>1, <3>2
    <2>4. QED
      BY <2>2, <2>3
  <1>11. QED
    BY <1>10 DEF PlacesUp, place, r, u, v, t

\* Shifting a word in network order up and down again keeps those bits too.
LEMMA WordHigh ==
  ASSUME NEW from \in Int, NEW w, NEW s, NEW n, Fits(w, s, n)
  PROVE  Loaded(WordShr(WordShl(htonl(WordOf(from, w)), s), 32 - n)) = PlacesDown(from, s, n)
  <1> DEFINE v == WordOf(from, w)
             h == htonl(v)
             u == WordShl(h, s)
             t == 32 - n
             r == WordShr(u, t)
             place(x) == <<from + (x \div 8), 7 - (x % 8)>>
  <1>1. w \in 1 .. 4 /\ s \in 0 .. 7 /\ n \in 1 .. 32 /\ s + n <= 8 * w /\ t \in 0 .. 31 /\ n = 32 - t
    BY DEF Fits
  <1>2. \A x \in s .. s + n - 1 : x \in 0 .. 31 /\ x \div 8 < w
    BY <1>1
  <1>3. \A x \in s .. s + n - 1 : 31 - x \in 0 .. 31 /\ h[31 - x] = place(x)
    <2> SUFFICES ASSUME NEW x \in s .. s + n - 1
                 PROVE  31 - x \in 0 .. 31 /\ h[31 - x] = place(x)
      OBVIOUS
    <2> DEFINE y == 31 - x
               z == 8 * (3 - y \div 8) + (y % 8)
    <2>1. x \in 0 .. 31 /\ x \div 8 < w
      BY <1>2
    <2>2. y \in 0 .. 31 /\ z \in 0 .. 31 /\ z \div 8 = x \div 8 /\ z % 8 = 7 - (x % 8)
      <3> HIDE DEF v, h, u, t, r, place
      <3> QED
        BY <2>1
    <2>3. h[y] = v[z]
      BY <2>2 DEF htonl
    <2> HIDE DEF z, y
    <2>4. v[z] = <<from + (z \div 8), z % 8>>
      BY <2>1, <2>2 DEF WordOf
    <2>5. QED
      BY <2>2, <2>3, <2>4 DEF y
  <1>4. \A x : place(x) # <<>>
    OBVIOUS
  <1> HIDE DEF v, t, h, place
  <1>5. \A x \in s .. s + n - 1 : 31 - x + s \in 0 .. 31 /\ u[31 - x + s] = place(x)
    <2> SUFFICES ASSUME NEW x \in s .. s + n - 1
                 PROVE  31 - x + s \in 0 .. 31 /\ u[31 - x + s] = place(x)
      OBVIOUS
    <2> DEFINE y == 31 - x + s
    <2>1. y \in 0 .. 31 /\ y - s \in 0 .. 31 /\ y - s = 31 - x
      BY <1>1, <1>2
    <2>2. u[y] = h[y - s]
      BY <2>1 DEF WordShl
    <2> HIDE DEF y
    <2>3. u[y] = place(x)
      BY <1>3, <2>1, <2>2
    <2>4. QED
      BY <2>1, <2>3 DEF y
  <1> HIDE DEF u
  <1>6. \A p \in 0 .. 31 : r[p] = IF p + t \in 0 .. 31 THEN u[p + t] ELSE <<>>
    BY DEF WordShr
  <1> HIDE DEF r
  <1>7. \A x \in s .. s + n - 1 : 31 - x + s - t \in 0 .. 31 /\ r[31 - x + s - t] = place(x)
    <2> SUFFICES ASSUME NEW x \in s .. s + n - 1
                 PROVE  31 - x + s - t \in 0 .. 31 /\ r[31 - x + s - t] = place(x)
      OBVIOUS
    <2> DEFINE p == 31 - x + s - t
               y == 31 - x + s
    <2>1. p \in 0 .. 31 /\ p + t = y
      BY <1>1, <1>2
    <2>2. y \in 0 .. 31 /\ u[y] = place(x)
      BY <1>5
    <2> HIDE DEF p, y
    <2>3. r[p] = place(x)
      BY <1>6, <2>1, <2>2
    <2>4. QED
      BY <2>1, <2>3 DEF p
  <1>8. \A p \in 0 .. 31 : r[p] # <<>> => r[p] \in {place(x) : x \in s .. s + n - 1}
    <2> SUFFICES ASSUME NEW p \in 0 .. 31, r[p] # <<>>
                 PROVE  r[p] \in {place(x) : x \in s .. s + n - 1}
      OBVIOUS
    <2>1. p + t \in 0 .. 31
      BY <1>6
    <2> DEFINE x == 31 - p + s - t
    <2>2. x \in s .. s + n - 1 /\ 31 - x + s - t = p
      BY <1>1, <2>1
    <2> HIDE DEF x
    <2>3. r[p] = place(x)
      BY <1>7, <2>2
    <2>4. QED
      BY <2>2, <2>3
  <1>9. Loaded(r) = {place(x) : x \in s .. s + n - 1}
    <2>1. Loaded(r) = {r[p] : p \in 0 .. 31} \ {<<>>}
      BY DEF Loaded
    <2>2. ASSUME NEW y \in Loaded(r) PROVE y \in {place(x) : x \in s .. s + n - 1}
      BY <1>8, <2>1
    <2>3. ASSUME NEW y \in {place(x) : x \in s .. s + n - 1} PROVE y \in Loaded(r)
      <3>1. PICK x \in s .. s + n - 1 : y = place(x)
        OBVIOUS
      <3>2. PICK p \in 0 .. 31 : r[p] = place(x)
        BY <1>7
      <3>3. QED
        BY <1>4, <2>1, <3>1, <3>2
    <2>4. QED
      BY <2>2, <2>3
  <1>10. QED
    BY <1>9 DEF PlacesDown, place, r, u, h, v, t

\* The bits of the range lie in the bytes that are loaded.
LEMMA WordsFit ==
  ASSUME NEW first \in Nat, NEW last \in Nat, first <= last, FitsWord(first, last),
         NEW w, w = (last \div 8) + 1 - (first \div 8), NEW n, n = last - first + 1
  PROVE  Fits(w, first % 8, n) /\ Fits(w, 7 - (last % 8), n)
  <1> DEFINE f == first \div 8
             g == first % 8
             l == last \div 8
             h == last % 8
  <1>1. f \in Nat /\ g \in 0 .. 7 /\ first = 8 * f + g /\ l \in Nat /\ h \in 0 .. 7 /\ last = 8 * l + h
    BY Amounts
  <1>2. n \in 1 .. 32 /\ (n <= 24 \/ g < 1)
    <2>1. n <= 24 \/ (first % 8 = 0 /\ n <= 32)
      BY DEF FitsWord
    <2>2. QED
      BY <2>1
  <1> HIDE DEF f, g, l, h
  <1>3. w = l + 1 - f
    BY DEF f, l
  <1>4. w \in 1 .. 4 /\ g + n <= 8 * w /\ 7 - h + n <= 8 * w /\ 7 - h \in 0 .. 7
    BY <1>1, <1>2, <1>3
  <1>5. QED
    BY <1>1, <1>2, <1>4 DEF Fits, g, h

\* The places of the bits of a range, in the order of the bytes.
LEMMA PlacesOfBits ==
  ASSUME NEW first \in Nat, NEW last \in Nat, first <= last, NEW n, n = last - first + 1
  PROVE  /\ PlacesUp(first \div 8, first % 8, n) = {<<i \div 8, i % 8>> : i \in first .. last}
         /\ PlacesDown(first \div 8, first % 8, n) = {<<i \div 8, 7 - (i % 8)>> : i \in first .. last}
  <1> DEFINE f == first \div 8
             g == first % 8
  <1>1. f \in Nat /\ g \in 0 .. 7 /\ first = 8 * f + g
    BY Amounts
  <1> HIDE DEF f, g
  <1>2. \A x \in g .. g + n - 1 : 8 * f + x \in first .. last /\ (8 * f + x) \div 8 = f + (x \div 8) /\ (8 * f + x) % 8 = x % 8
    BY <1>1
  <1>3. \A i \in first .. last : i - 8 * f \in g .. g + n - 1 /\ 8 * f + (i - 8 * f) = i
    BY <1>1
  <1>4. PlacesUp(f, g, n) = {<<i \div 8, i % 8>> : i \in first .. last}
    <2> DEFINE T == {<<i \div 8, i % 8>> : i \in first .. last}
    <2>1. ASSUME NEW y \in PlacesUp(f, g, n) PROVE y \in T
      <3>1. PICK x \in g .. g + n - 1 : y = <<f + (x \div 8), x % 8>>
        BY DEF PlacesUp
      <3> DEFINE i == 8 * f + x
      <3>2. i \in first .. last /\ y = <<i \div 8, i % 8>>
        BY <1>2, <3>1
      <3> HIDE DEF i
      <3>3. QED
        BY <3>2
    <2>2. ASSUME NEW y \in T PROVE y \in PlacesUp(f, g, n)
      <3>1. PICK i \in first .. last : y = <<i \div 8, i % 8>>
        OBVIOUS
      <3> DEFINE x == i - 8 * f
      <3>2. x \in g .. g + n - 1 /\ 8 * f + x = i
        BY <1>3
      <3> HIDE DEF x
      <3>3. i \div 8 = f + (x \div 8) /\ i % 8 = x % 8
        BY <1>2, <3>2
      <3>4. QED
        BY <3>1, <3>2, <3>3 DEF PlacesUp
    <2>3. QED
      BY <2>1, <2>2
  <1>5. PlacesDown(f, g, n) = {<<i \div 8, 7 - (i % 8)>> : i \in first .. last}
    <2> DEFINE T == {<<i \div 8, 7 - (i % 8)>> : i \in first .. last}
    <2>1. ASSUME NEW y \in PlacesDown(f, g, n) PROVE y \in T
      <3>1. PICK x \in g .. g + n - 1 : y = <<f + (x \div 8), 7 - (x % 8)>>
        BY DEF PlacesDown
      <3> DEFINE i == 8 * f + x
      <3>2. i \in first .. last /\ y = <<i \div 8, 7 - (i % 8)>>
        BY <1>2, <3>1
      <3> HIDE DEF i
      <3>3. QED
        BY <3>2
    <2>2. ASSUME NEW y \in T PROVE y \in PlacesDown(f, g, n)
      <3>1. PICK i \in first .. last : y = <<i \div 8, 7 - (i % 8)>>
        OBVIOUS
      <3> DEFINE x == i - 8 * f
      <3>2. x \in g .. g + n - 1 /\ 8 * f + x = i
        BY <1>3
      <3> HIDE DEF x
      <3>3. i \div 8 = f + (x \div 8) /\ i % 8 = x % 8
        BY <1>2, <3>2
      <3>4. QED
        BY <3>1, <3>2, <3>3 DEF PlacesDown
    <2>3. QED
      BY <2>1, <2>2
  <1>6. QED
    BY <1>4, <1>5 DEF f, g

\* Where the range begins when the bytes run the other way.
Placed(size, first, last, n, from, start) ==
  n = last - first + 1 /\ from = size - (last \div 8) - 1 /\ start = 7 - (last % 8)

\* The places of the bits of a range, when the bytes run the other way.
LEMMA PlacesMirrored ==
  ASSUME NEW first \in Nat, NEW last \in Nat, first <= last, NEW size \in Nat, NEW n, NEW from, NEW start,
         Placed(size, first, last, n, from, start)
  PROVE  PlacesDown(from, start, n) = {<<size - (i \div 8) - 1, i % 8>> : i \in first .. last}
  <1> DEFINE l == last \div 8
             h == last % 8
             k == 7 - h
  <1>1. l \in Nat /\ h \in 0 .. 7 /\ last = 8 * l + h
    BY Amounts
  <1>2. n = last - first + 1 /\ from = size - l - 1 /\ start = k
    BY DEF Placed
  <1> HIDE DEF l, h
  <1>3. \A x \in k .. k + n - 1 : /\ 8 * l + 7 - x \in first .. last
                                  /\ (8 * l + 7 - x) \div 8 = l - (x \div 8) /\ (8 * l + 7 - x) % 8 = 7 - (x % 8)
    BY <1>1, <1>2
  <1>4. \A i \in first .. last : 8 * l + 7 - i \in k .. k + n - 1 /\ 8 * l + 7 - (8 * l + 7 - i) = i
    BY <1>1, <1>2
  <1> HIDE DEF k
  <1>5. PlacesDown(from, k, n) = {<<size - (i \div 8) - 1, i % 8>> : i \in first .. last}
    <2> DEFINE T == {<<size - (i \div 8) - 1, i % 8>> : i \in first .. last}
    <2>1. ASSUME NEW y \in PlacesDown(from, k, n) PROVE y \in T
      <3>1. PICK x \in k .. k + n - 1 : y = <<from + (x \div 8), 7 - (x % 8)>>
        BY DEF PlacesDown
      <3> DEFINE i == 8 * l + 7 - x
      <3>2. i \in first .. last /\ i \div 8 = l - (x \div 8) /\ i % 8 = 7 - (x % 8)
        BY <1>3
      <3> HIDE DEF i
      <3>3. k \in 0 .. 7
        BY <1>1 DEF k
      <3>4. from + (x \div 8) = size - (i \div 8) - 1
        BY <1>1, <1>2, <3>2, <3>3
      <3>5. QED
        BY <3>1, <3>2, <3>4
    <2>2. ASSUME NEW y \in T PROVE y \in PlacesDown(from, k, n)
      <3>1. PICK i \in first .. last : y = <<size - (i \div 8) - 1, i % 8>>
        OBVIOUS
      <3> DEFINE x == 8 * l + 7 - i
      <3>2. x \in k .. k + n - 1 /\ 8 * l + 7 - x = i
        BY <1>4
      <3> HIDE DEF x
      <3>3. i \div 8 = l - (x \div 8) /\ i % 8 = 7 - (x % 8)
        BY <1>3, <3>2
      <3>4. k \in 0 .. 7
        BY <1>1 DEF k
      <3>5. from + (x \div 8) = size - (i \div 8) - 1
        BY <1>1, <1>2, <3>2, <3>3, <3>4
      <3>6. QED
        BY <3>1, <3>2, <3>3, <3>5 DEF PlacesDown
    <2>3. QED
      BY <2>1, <2>2
  <1>6. QED
    BY <1>5, <1>2

\* Any reads the bits of a range that fits a word, and no other.
LEMMA WordRead ==
  ASSUME NEW n \in Nat, NEW b \in BufferOf(n), NEW first \in Nat, NEW last \in Nat,
         first <= last, last < 8 * n, FitsWord(first, last), ~ (b.dependent /\ b.endian = RBE)
  PROVE  Loaded(AnyInWord(b, first, last)) = BitsFrom(b, first, last)
  <1> DEFINE m == last - first + 1
             f == first \div 8
             l == last \div 8
             w == l + 1 - f
             g == first % 8
             k == 7 - (last % 8)
  <1>1. Size(b) = n
    BY SizeIs
  <1>2. b.endian \in {LE, BE, RBE} /\ LE # BE /\ LE # RBE /\ BE # RBE
    BY DEF BufferOf, Endians, LE, BE, RBE
  <1>3. f \in Nat /\ l \in Nat
    OBVIOUS
  <1>4. Fits(w, g, m) /\ Fits(w, k, m)
    BY WordsFit
  <1> DEFINE from == WordBytes(b, first, last)[1]
             to == WordBytes(b, first, last)[2]
             value == [p \in 0 .. 31 |-> IF p \div 8 < to - from THEN <<from + (p \div 8), p % 8>> ELSE <<>>]
  <1>5. /\ ~b.dependent => AnyInWord(b, first, last) = WordShr(WordShl(htonl(value), g), 32 - m)
        /\ b.dependent /\ b.endian = LE => AnyInWord(b, first, last) = WordShl(WordShr(value, g), 32 - m)
        /\ b.dependent /\ b.endian = BE =>
             AnyInWord(b, first, last) = WordShr(WordShl(htonl(value), 8 - (last % 8) - 1), 32 - m)
    BY <1>2 DEF AnyInWord
  <1>6. 8 - (last % 8) - 1 = k
    OBVIOUS
  <1>7. value = WordOf(from, to - from)
    BY DEF WordOf
  <1> HIDE DEF value
  <1>8. CASE ~b.dependent
    <2>1. from = f /\ to = l + 1
      BY <1>8 DEF WordBytes, GetByteIndex
    <2> HIDE DEF from, to, f, l, g, m
    <2>2. to - from = w /\ from \in Int
      BY <1>3, <2>1
    <2> HIDE DEF w
    <2>3. Loaded(AnyInWord(b, first, last)) = PlacesDown(f, g, m)
      BY <1>4, <1>5, <1>7, <1>8, <2>1, <2>2, WordHigh
    <2>4. PlacesDown(f, g, m) = {<<i \div 8, 7 - (i % 8)>> : i \in first .. last}
      BY <1>1, PlacesOfBits DEF f, g, m
    <2>5. \A i \in first .. last : GetBitPosition(b, i) = <<i \div 8, 7 - (i % 8)>>
      BY <1>8 DEF GetBitPosition, GetByteIndex
    <2>6. QED
      BY <2>3, <2>4, <2>5 DEF BitsFrom
  <1>9. CASE b.dependent /\ b.endian = LE
    <2>1. from = f /\ to = l + 1
      BY <1>9 DEF WordBytes, GetByteIndex
    <2> HIDE DEF from, to, f, l, g, m
    <2>2. to - from = w /\ from \in Int
      BY <1>3, <2>1
    <2> HIDE DEF w
    <2>3. Loaded(AnyInWord(b, first, last)) = PlacesUp(f, g, m)
      BY <1>4, <1>5, <1>7, <1>9, <2>1, <2>2, WordLow
    <2>4. PlacesUp(f, g, m) = {<<i \div 8, i % 8>> : i \in first .. last}
      BY <1>1, PlacesOfBits DEF f, g, m
    <2>5. \A i \in first .. last : GetBitPosition(b, i) = <<i \div 8, i % 8>>
      BY <1>2, <1>9 DEF GetBitPosition, GetByteIndex
    <2>6. QED
      BY <2>3, <2>4, <2>5 DEF BitsFrom
  <1>10. CASE b.dependent /\ b.endian = BE
    <2>1. from = n - l - 1 /\ to = n - f - 1 + 1
      BY <1>1, <1>2, <1>10 DEF WordBytes, GetByteIndex
    <2> HIDE DEF from, to, f, l, g, k, m
    <2>2. to - from = w /\ from \in Int
      BY <1>3, <2>1
    <2> HIDE DEF w
    <2>3. Loaded(AnyInWord(b, first, last)) = PlacesDown(n - l - 1, k, m)
      BY <1>4, <1>5, <1>6, <1>7, <1>10, <2>1, <2>2, WordHigh
    <2>4. PlacesDown(n - l - 1, k, m) = {<<n - (i \div 8) - 1, i % 8>> : i \in first .. last}
      <3> DEFINE z == n - l - 1
      <3>1. Placed(n, first, last, m, z, k)
        BY DEF l, k, m, Placed
      <3> HIDE DEF z
      <3>2. PlacesDown(z, k, m) = {<<n - (i \div 8) - 1, i % 8>> : i \in first .. last}
        BY <3>1, PlacesMirrored
      <3>3. QED
        BY <3>2 DEF z
    <2>5. \A i \in first .. last : GetBitPosition(b, i) = <<n - (i \div 8) - 1, i % 8>>
      BY <1>1, <1>2, <1>10 DEF GetBitPosition, GetByteIndex
    <2>6. QED
      BY <2>3, <2>4, <2>5 DEF BitsFrom
  <1>11. QED
    BY <1>2, <1>8, <1>9, <1>10

\* All, None and Any read the bits of the range, and no other.
LEMMA PredicatesRead ==
  ASSUME NEW n \in Nat, NEW b \in BufferOf(n), NEW first \in Nat, NEW last \in Nat,
         first <= last, last < 8 * n
  PROVE  /\ All(b, first, last) = BitsFrom(b, first, last)
         /\ None(b, first, last) = BitsFrom(b, first, last)
         /\ ~ (b.dependent /\ b.endian = RBE /\ FitsWord(first, last)) => Any(b, first, last) = BitsFrom(b, first, last)
  <1> DEFINE m == WholeBytes(first, last)
             f == first \div 8
             S == {GetByteIndex(b, first + 8 * k) : k \in 0 .. m - 1}
             start == IF b.endian = LE \/ ~b.dependent THEN GetByteIndex(b, first)
                      ELSE GetByteIndex(b, first + 8 * m - 1)
             R == {start + k : k \in 0 .. m - 1}
             bits(T) == BitsOfBytes(T) \cup BitsFrom(b, first + 8 * m, last)
  <1> DEFINE A == UNION {BitsOfByte(GetBitPosition(b, first + 8 * k)[1]) : k \in 0 .. m - 1}
             N == UNION {BitsOfByte(GetByteIndex(b, first + 8 * k)) : k \in 0 .. m - 1}
             Y == UNION {BitsOfByte(start + k) : k \in 0 .. m - 1}
             rest == BitsFrom(b, first + 8 * m, last)
  <1>1. All(b, first, last) = A \cup rest /\ None(b, first, last) = N \cup rest
    BY DEF All, None
  <1>2. Any(b, first, last) = IF FitsWord(first, last) THEN Loaded(AnyInWord(b, first, last)) ELSE Y \cup rest
    BY DEF Any
  <1>3. m \in Nat /\ first + 8 * m <= last + 1 /\ (m > 0 => first = 8 * f)
    BY WholeBytesAre
  <1>4. Size(b) = n /\ f \in Nat
    BY SizeIs
  <1>5. \A T : (m > 0 => T = BytesAt(b, n, f, m)) /\ (m < 1 => T = {}) => bits(T) = BitsFrom(b, first, last)
    <2> SUFFICES ASSUME NEW T, m > 0 => T = BytesAt(b, n, f, m), m < 1 => T = {}
                 PROVE  bits(T) = BitsFrom(b, first, last)
      OBVIOUS
    <2>1. Reading(b, n, first, last, m, f, T)
      BY DEF Reading
    <2> HIDE DEF m, f
    <2>2. BitsOfBytes(T) \cup BitsFrom(b, first + 8 * m, last) = BitsFrom(b, first, last)
      BY <2>1, BytesThenBits
    <2>3. QED
      BY <2>2
  <1> HIDE DEF m, f
  <1>6. m < 1 => S = {} /\ R = {}
    BY <1>3
  <1>7. \A k \in 0 .. m - 1 : GetByteIndex(b, first + 8 * k) = ByteOf(b, n, f + k)
    <2> SUFFICES ASSUME NEW k \in 0 .. m - 1
                 PROVE  GetByteIndex(b, first + 8 * k) = ByteOf(b, n, f + k)
      OBVIOUS
    <2>1. (first + 8 * k) \div 8 = f + k
      BY <1>3, <1>4
    <2>2. n - (f + k) - 1 = n - 1 - (f + k)
      BY <1>4
    <2>3. QED
      BY <1>4, <2>1, <2>2 DEF GetByteIndex, ByteOf
  <1>8. S = BytesAt(b, n, f, m)
    BY <1>7 DEF BytesAt
  <1>9. m > 0 => R = BytesAt(b, n, f, m)
    <2> SUFFICES ASSUME m > 0
                 PROVE  R = BytesAt(b, n, f, m)
      OBVIOUS
    <2>1. CASE b.dependent /\ b.endian # LE
      <3>1. (first + 8 * m - 1) \div 8 = f + m - 1
        BY <1>3, <1>4
      <3>2. start = n - (f + m - 1) - 1
        BY <1>4, <2>1, <3>1 DEF GetByteIndex
      <3> HIDE DEF start
      <3>3. \A k \in 0 .. m - 1 : ByteOf(b, n, f + k) = n - 1 - (f + k)
        BY <2>1 DEF ByteOf
      <3>4. \A k \in 0 .. m - 1 : m - 1 - k \in 0 .. m - 1 /\ start + k = n - 1 - (f + (m - 1 - k))
        BY <1>3, <1>4, <3>2
      <3>5. ASSUME NEW y \in R PROVE y \in BytesAt(b, n, f, m)
        BY <3>3, <3>4 DEF BytesAt
      <3>6. ASSUME NEW y \in BytesAt(b, n, f, m) PROVE y \in R
        <4>1. PICK k \in 0 .. m - 1 : y = n - 1 - (f + k)
          BY <3>3 DEF BytesAt
        <4> DEFINE j == m - 1 - k
        <4>2. j \in 0 .. m - 1 /\ m - 1 - j = k
          BY <1>3
        <4> HIDE DEF j
        <4>3. y = start + j
          BY <3>4, <4>1, <4>2
        <4>4. QED
          BY <4>2, <4>3
      <3>7. QED
        BY <3>5, <3>6
    <2>2. CASE ~ (b.dependent /\ b.endian # LE)
      <3>1. start = f
        BY <2>2 DEF GetByteIndex, f
      <3>2. \A k \in 0 .. m - 1 : ByteOf(b, n, f + k) = f + k
        BY <2>2 DEF ByteOf
      <3> HIDE DEF start
      <3>3. QED
        BY <3>1, <3>2 DEF BytesAt
    <2>3. QED
      BY <2>1, <2>2
  <1>10. N = BitsOfBytes(S) /\ Y = BitsOfBytes(R)
    <2> HIDE DEF start
    <2> QED
      BY DEF BitsOfBytes
  <1>11. A = N
    BY DEF GetBitPosition
  <1>12. bits(S) = BitsFrom(b, first, last) /\ bits(R) = BitsFrom(b, first, last)
    <2> HIDE DEF S, R, bits
    <2> QED
      BY <1>5, <1>6, <1>8, <1>9
  <1> HIDE DEF A, N, Y, S, R
  <1>13. N \cup rest = BitsFrom(b, first, last) /\ Y \cup rest = BitsFrom(b, first, last)
    BY <1>10, <1>12
  <1> HIDE DEF rest, bits
  <1>14. ~ (b.dependent /\ b.endian = RBE) /\ FitsWord(first, last) =>
           Loaded(AnyInWord(b, first, last)) = BitsFrom(b, first, last)
    BY WordRead
  <1>15. QED
    BY <1>1, <1>2, <1>11, <1>13, <1>14

\* The byte predicates read the bits of the bytes.
LEMMA ByteTestsRead ==
  ASSUME NEW n \in Nat, NEW b \in BufferOf(n), NEW first \in Nat, NEW last \in Nat, first <= last, last < n
  PROVE  ByteTests(b, first, last) = BitsFrom(b, 8 * first, 8 * last + 7)
  <1> DEFINE m == last - first + 1
             S == {GetBytePosition(b, j) : j \in first .. last}
  <1>1. S = BytesAt(b, n, first, m)
    <2>1. \A j \in first .. last : GetBytePosition(b, j) = ByteOf(b, n, j)
      <3> SUFFICES ASSUME NEW j \in first .. last
                   PROVE  GetBytePosition(b, j) = ByteOf(b, n, j)
        OBVIOUS
      <3>1. j \in 0 .. n - 1
        OBVIOUS
      <3>2. QED
        BY <3>1, BytePosition
    <2>2. ASSUME NEW y \in S PROVE y \in BytesAt(b, n, first, m)
      <3>1. PICK j \in first .. last : y = ByteOf(b, n, j)
        BY <2>1
      <3> DEFINE k == j - first
      <3>2. k \in 0 .. m - 1 /\ first + k = j
        OBVIOUS
      <3> HIDE DEF k, m
      <3>3. QED
        BY <3>1, <3>2 DEF BytesAt
    <2>3. ASSUME NEW y \in BytesAt(b, n, first, m) PROVE y \in S
      <3>1. PICK k \in 0 .. m - 1 : y = ByteOf(b, n, first + k)
        BY DEF BytesAt
      <3> DEFINE j == first + k
      <3>2. j \in first .. last
        OBVIOUS
      <3> HIDE DEF j
      <3>3. y = ByteOf(b, n, j)
        BY <3>1 DEF j
      <3>4. QED
        BY <2>1, <3>2, <3>3
    <2>4. QED
      BY <2>2, <2>3
  <1>2. ByteTests(b, first, last) = BitsOfBytes(S)
    BY DEF ByteTests, BitsOfBytes
  <1>3. m \in Nat /\ first + m <= n /\ 8 * (first + m) - 1 = 8 * last + 7
    OBVIOUS
  <1> HIDE DEF S, m
  <1>4. BitsOfBytes(BytesAt(b, n, first, m)) = BitsFrom(b, 8 * first, 8 * (first + m) - 1)
    BY <1>3, BytesBits
  <1>5. QED
    BY <1>1, <1>2, <1>3, <1>4

\* The calls that only ask.
Predicates == {"Any", "All", "None", "Count"}
Listings   == {"GetFirstIndex", "GetLastIndex", "ToString"}

\* Scanning upwards and downwards visits the indexes in these orders.
LEMMA ListedIndexes ==
  ASSUME NEW n \in Nat, NEW b \in BufferOf(n), NEW first \in Nat, NEW last \in Nat,
         first <= last, last < 8 * n, NEW u, NEW d, u = Upwards(b, first, last), d = Downwards(b, first, last)
  PROVE  /\ [k \in DOMAIN u |-> DrawnAt(b, u[k])] = [k \in 1 .. (last - first + 1) |-> first + k - 1]
         /\ [k \in DOMAIN d |-> DrawnAt(b, d[k])] = [k \in 1 .. (last - first + 1) |-> last - k + 1]
  <1> DEFINE m == last - first + 1
  <1>1. \A k \in 1 .. m : first + k - 1 \in 0 .. 8 * n - 1 /\ last - k + 1 \in 0 .. 8 * n - 1
    OBVIOUS
  <1>2. \A i \in 0 .. 8 * n - 1 : DrawnAt(b, GetBitPosition(b, i)) = i
    BY DrawnInverse
  <1>3. DOMAIN u = 1 .. m /\ DOMAIN d = 1 .. m
    BY DEF Upwards, Downwards
  <1>4. \A k \in 1 .. m : u[k] = GetBitPosition(b, first + k - 1) /\ d[k] = GetBitPosition(b, last - k + 1)
    BY DEF Upwards, Downwards
  <1> HIDE DEF m
  <1>5. \A k \in 1 .. m : DrawnAt(b, u[k]) = first + k - 1 /\ DrawnAt(b, d[k]) = last - k + 1
    BY <1>1, <1>2, <1>4
  <1>6. QED
    BY <1>3, <1>5 DEF m

\* The loop that ends before bit 0 and the bit 0 written after it.
LEMMA LastOfAll ==
  ASSUME NEW b, NEW last \in Nat
  PROVE  Downwards(b, 1, last) \o <<GetBitPosition(b, 0)>> = Downwards(b, 0, last)
  <1> DEFINE s == Downwards(b, 1, last)
             P(i) == GetBitPosition(b, i)
             S == {P(i) : i \in 0 .. last}
             t == <<P(0)>>
             m == last + 1
  <1>1. s = [k \in 1 .. last |-> P(last - k + 1)]
    BY DEF Downwards
  <1>2. \A k \in 1 .. last : last - k + 1 \in 0 .. last
    OBVIOUS
  <1>3. 0 \in 0 .. last
    OBVIOUS
  <1> HIDE DEF P
  <1>4. s \in Seq(S) /\ Len(s) = last
    BY <1>1, <1>2
  <1>5. t \in Seq(S) /\ Len(t) = 1 /\ t[1] = P(0)
    BY <1>3
  <1> HIDE DEF s, t, S
  <1>6. /\ Len(s \o t) = last + 1
        /\ \A i \in 1 .. last + 1 : (s \o t)[i] = IF i <= last THEN s[i] ELSE t[i - last]
    BY <1>4, <1>5, ConcatProperties
  <1>7. s \o t \in Seq(S)
    BY <1>4, <1>5, ConcatProperties
  <1>8. \A i \in 1 .. last + 1 : (s \o t)[i] = P(last - i + 1)
    <2> SUFFICES ASSUME NEW i \in 1 .. last + 1
                 PROVE  (s \o t)[i] = P(last - i + 1)
      OBVIOUS
    <2>1. CASE i <= last
      BY <1>1, <1>6, <2>1
    <2>2. CASE ~ (i <= last)
      <3>1. i - last = 1 /\ last - i + 1 = 0
        BY <2>2
      <3>2. QED
        BY <1>5, <1>6, <2>2, <3>1
    <2>3. QED
      BY <2>1, <2>2
  <1>9. s \o t = [i \in 1 .. last + 1 |-> P(last - i + 1)]
    <2> DEFINE r == s \o t
    <2>1. r \in Seq(S) /\ Len(r) = last + 1 /\ \A i \in 1 .. last + 1 : r[i] = P(last - i + 1)
      BY <1>6, <1>7, <1>8
    <2> HIDE DEF r
    <2>2. r \in [1 .. Len(r) -> S]
      BY <2>1, LenProperties
    <2>3. r = [i \in 1 .. last + 1 |-> P(last - i + 1)]
      BY <2>1, <2>2
    <2>4. QED
      BY <2>3 DEF r
  <1>10. last - 0 + 1 = last + 1
    OBVIOUS
  <1>11. QED
    BY <1>9, <1>10 DEF Downwards, s, t, P

\* ToString writes the range downwards, if it does not begin at 1.
LEMMA TextIs ==
  ASSUME NEW b, b.dependent, NEW first \in Nat, NEW last \in Nat, first <= last, first # 1
  PROVE  ToString(b, first, last) = Downwards(b, first, last)
  <1>1. CASE first < 1
    <2>1. first = 0
      BY <1>1
    <2>2. ToString(b, 0, last) = Downwards(b, 1, last) \o <<GetBitPosition(b, 0)>>
      BY DEF ToString
    <2>3. QED
      BY <2>1, <2>2, LastOfAll
  <1>2. CASE ~ (first < 1)
    <2> DEFINE s == Downwards(b, first, last)
               S == {GetBitPosition(b, i) : i \in first .. last}
               m == last - first + 1
    <2>1. ~ (first <= 1) /\ first # 0
      BY <1>2
    <2>2. ToString(b, first, last) = s \o <<>>
      BY <2>1 DEF ToString
    <2>3. s = [k \in 1 .. m |-> GetBitPosition(b, last - k + 1)] /\ m \in Nat
      BY DEF Downwards
    <2>4. \A k \in 1 .. m : last - k + 1 \in first .. last
      OBVIOUS
    <2> HIDE DEF s, m
    <2>5. s \in Seq(S)
      BY <2>3, <2>4
    <2> HIDE DEF S
    <2>6. s \o <<>> = s
      BY <2>5, ConcatEmptySeq
    <2>7. QED
      BY <2>2, <2>6 DEF s
  <1>3. QED
    BY <1>1, <1>2

\* These calls leave the vector as it is.
LEMMA OnlyReads ==
  ASSUME NEW c, NEW v, c.op \in Predicates \cup Listings \cup {"Convert", "Operator", "Copied"}
  PROVE  BitVector!Result(c, v) = v
  BY DEF BitVector!Result, Predicates, Listings

\* These calls answer nothing.
LEMMA NoAnswer ==
  ASSUME NEW c, NEW v, c.op \in Shifts \cup {"Set", "InvertBlock", "Reverse", "SetDataEndianType", "Assign"}
  PROVE  BitVector!Answer(c, v) = <<>>
  BY DEF BitVector!Answer, Shifts

\* The answer of a predicate that read the bits of the range.
LEMMA PredicateAnswer ==
  ASSUME NEW n \in Nat \ {0}, buffer \in BufferOf(n), NEW first \in Nat, NEW last \in Nat,
         NEW op \in Predicates, NEW c, NEW d, c.op = op,
         d = RangeCall(op, "bit", first, last) \/ d = RangeCall(op, "byte", first, last),
         first <= last, last < 8 * n, NEW A, A = BitsFrom(buffer, first, last)
  PROVE  ReplyOn(buffer, c, <<A>>) = BitVector!Answer(d, Vector(buffer))
  <1> DEFINE v == Vector(buffer)
  <1>1. d.op = op /\ d.first = first /\ d.last = last
    BY DEF RangeCall
  <1>2. BitVector!Within(d, v)
    <2>1. InRange(buffer, first, last)
      BY SizeIs DEF InRange
    <2>2. QED
      BY <1>1, <2>1, WithinIs
  <1> HIDE DEF v
  <1>3. BitVector!Answer(d, v) = <<first .. last>>
    BY <1>1, <1>2 DEF BitVector!Answer, Predicates
  <1>4. {DrawnAt(buffer, at) : at \in A} = first .. last
    BY BitsAsked
  <1>5. ReplyOn(buffer, c, <<A>>) = <<{DrawnAt(buffer, at) : at \in A}>>
    BY Replies DEF Predicates
  <1>6. QED
    BY <1>3, <1>4, <1>5 DEF v

\* The answer of a call that read the bits in order.
LEMMA ListingAnswer ==
  ASSUME NEW n \in Nat \ {0}, buffer \in BufferOf(n), NEW first \in Nat, NEW last \in Nat,
         NEW op \in Listings, NEW c, c = RangeCall(op, "bit", first, last),
         first <= last, last < 8 * n, NEW a, NEW upwards \in BOOLEAN,
         upwards <=> op = "GetFirstIndex" \/ (op = "ToString" /\ ~buffer.dependent),
         upwards => a = Upwards(buffer, first, last), ~upwards => a = Downwards(buffer, first, last)
  PROVE  ReplyOn(buffer, c, <<a>>) = BitVector!Answer(c, Vector(buffer))
  <1> DEFINE v == Vector(buffer)
             u == [k \in 1 .. (last - first + 1) |-> first + k - 1]
             w == [k \in 1 .. (last - first + 1) |-> last - k + 1]
             r == [k \in DOMAIN a |-> DrawnAt(buffer, a[k])]
  <1>1. c.op = op /\ c.first = first /\ c.last = last
    BY DEF RangeCall
  <1>2. BitVector!Within(c, v)
    <2>1. InRange(buffer, first, last)
      BY SizeIs DEF InRange
    <2>2. QED
      BY <1>1, <2>1, WithinIs
  <1> HIDE DEF v
  <1>3. BitVector!Answer(c, v) = IF upwards THEN <<u>> ELSE <<w>>
    <2>1. CASE op = "GetFirstIndex"
      BY <1>1, <1>2, <2>1 DEF BitVector!Answer
    <2>2. CASE op = "GetLastIndex"
      BY <1>1, <1>2, <2>2 DEF BitVector!Answer
    <2>3. CASE op = "ToString"
      <3>1. BitVector!Answer(c, v) =
              <<[k \in 1 .. (last - first + 1) |-> IF buffer.dependent THEN last - k + 1 ELSE first + k - 1]>>
        BY <1>1, <1>2, <2>3 DEF BitVector!Answer
      <3>2. upwards <=> ~buffer.dependent
        BY <2>3
      <3>3. QED
        BY <3>1, <3>2
    <2>4. QED
      BY <2>1, <2>2, <2>3 DEF Listings
  <1>4. r = IF upwards THEN u ELSE w
    BY ListedIndexes
  <1> HIDE DEF u, w
  <1>5. ReplyOn(buffer, c, <<a>>) = <<r>>
    BY <1>1, Replies DEF Listings
  <1>6. QED
    BY <1>3, <1>4, <1>5 DEF v

\* Every predicate outside Defect answers what BitVector says.
LEMMA AskMapped ==
  ASSUME NEW n \in Nat \ {0}, buffer \in BufferOf(n), NEW first \in Nat, NEW last \in Nat,
         NEW op \in Predicates \cup Listings, NEW c, c = RangeCall(op, "bit", first, last),
         ~Defect(buffer, c), InRange(buffer, first, last)
  PROVE  ReplyOn(buffer, c, <<Asked(buffer, c)>>) = BitVector!Answer(c, Vector(buffer))
  <1> DEFINE a == Asked(buffer, c)
  <1>1. c.op = op /\ c.unit = "bit" /\ c.first = first /\ c.last = last
    BY DEF RangeCall
  <1>2. first <= last /\ last < 8 * n
    BY SizeIs DEF InRange
  <1>3. CASE op \in Predicates
    <2>1. a = BitsFrom(buffer, first, last)
      <3>1. CASE op = "Any"
        <4>1. a = Any(buffer, first, last)
          BY <1>1, <3>1 DEF Asked
        <4>2. ~ (buffer.dependent /\ buffer.endian = RBE /\ FitsWord(first, last))
          BY <1>1, <3>1 DEF Defect
        <4>3. QED
          BY <1>2, <4>1, <4>2, PredicatesRead
      <3>2. CASE op = "All"
        <4>1. a = All(buffer, first, last)
          BY <1>1, <3>2 DEF Asked
        <4>2. QED
          BY <1>2, <4>1, PredicatesRead
      <3>3. CASE op = "None"
        <4>1. a = None(buffer, first, last)
          BY <1>1, <3>3 DEF Asked
        <4>2. QED
          BY <1>2, <4>1, PredicatesRead
      <3>4. CASE op = "Count"
        BY <1>1, <3>4 DEF Asked, Count
      <3>5. QED
        BY <1>3, <3>1, <3>2, <3>3, <3>4 DEF Predicates
    <2> HIDE DEF a
    <2>2. ReplyOn(buffer, c, <<a>>) = BitVector!Answer(c, Vector(buffer))
      BY <1>1, <1>2, <1>3, <2>1, PredicateAnswer
    <2>3. QED
      BY <2>2 DEF a
  <1>4. CASE op \in Listings
    <2> DEFINE upwards == op = "GetFirstIndex" \/ (op = "ToString" /\ ~buffer.dependent)
    <2>1. (upwards => a = Upwards(buffer, first, last)) /\ (~upwards => a = Downwards(buffer, first, last))
      <3>1. CASE op = "GetFirstIndex"
        BY <1>1, <3>1 DEF Asked, GetFirstIndex
      <3>2. CASE op = "GetLastIndex"
        BY <1>1, <3>2 DEF Asked, GetLastIndex
      <3>3. CASE op = "ToString"
        <4>1. a = ToString(buffer, first, last)
          BY <1>1, <3>3 DEF Asked
        <4>2. CASE ~buffer.dependent
          BY <3>3, <4>1, <4>2 DEF ToString
        <4>3. CASE buffer.dependent
          <5>1. first # 1
            BY <1>1, <3>3, <4>3 DEF Defect
          <5>2. a = Downwards(buffer, first, last)
            BY <1>2, <4>1, <4>3, <5>1, TextIs
          <5>3. QED
            BY <3>3, <4>3, <5>2
        <4>4. QED
          BY <4>2, <4>3
      <3>4. QED
        BY <1>4, <3>1, <3>2, <3>3 DEF Listings
    <2> HIDE DEF a
    <2>2. ReplyOn(buffer, c, <<a>>) = BitVector!Answer(c, Vector(buffer))
      <3>1. upwards \in BOOLEAN /\ (upwards <=> op = "GetFirstIndex" \/ (op = "ToString" /\ ~buffer.dependent))
        OBVIOUS
      <3> HIDE DEF upwards
      <3>2. QED
        BY <1>2, <1>4, <2>1, <3>1, ListingAnswer
    <2>3. QED
      BY <2>2 DEF a
  <1>5. QED
    BY <1>3, <1>4

\* A range that is not in the vector gets no answer.
LEMMA OutsideMapped ==
  ASSUME NEW n \in Nat \ {0}, buffer \in BufferOf(n), NEW first \in Nat, NEW last \in Nat,
         NEW op \in Predicates \cup Listings, NEW unit \in {"bit", "byte"},
         NEW d, d = RangeCall(op, unit, first, last), ~InRange(buffer, first, last)
  PROVE  BitVector!Answer(d, Vector(buffer)) = <<>>
  <1>1. d.op = op /\ d.first = first /\ d.last = last
    BY DEF RangeCall
  <1>2. ~BitVector!Within(d, Vector(buffer))
    BY <1>1, WithinIs
  <1>3. QED
    BY <1>1, <1>2 DEF BitVector!Answer, Predicates, Listings

\* The call does to the vector, and answers, what BitVector says.
Mapped(c, after, answer) ==
  /\ after.dependent = buffer.dependent
  /\ VectorCall(c).op # "New"
  /\ Vector(after) = BitVector!Result(VectorCall(c), Vector(buffer))
  /\ ReplyOn(after, c, answer) = BitVector!Answer(VectorCall(c), Vector(buffer))

\* Such a call is a step of BitVector.
LEMMA MadeMapped ==
  ASSUME NEW c, NEW after, NEW answer, Make(c, after, answer), Mapped(c, after, answer)
  PROVE  BitVector!Next
  <1>1. call' = c /\ buffer' = after /\ reply' = answer
    BY DEF Make
  <1>2. VectorCall(call)' = VectorCall(c)
    BY <1>1
  <1>3. Vector(buffer)' = Vector(after) /\ (buffer.dependent)' = after.dependent
    BY <1>1
  <1>4. VectorReply(call, reply)' = ReplyOn(after, c, answer)
    BY <1>1 DEF VectorReply, ReplyOn
  <1>5. QED
    BY <1>2, <1>3, <1>4 DEF Mapped, BitVector!Next

\* A call that only answers, rightly.
LEMMA ReadsMapped ==
  ASSUME NEW c, NEW answer, NEW d, d = VectorCall(c),
         d.op \in Predicates \cup Listings \cup {"Convert", "Operator", "Copied"},
         ReplyOn(buffer, c, answer) = BitVector!Answer(d, Vector(buffer))
  PROVE  Mapped(c, buffer, answer)
  <1>1. d.op # "New"
    BY DEF Predicates, Listings
  <1>2. BitVector!Result(d, Vector(buffer)) = Vector(buffer)
    BY OnlyReads
  <1>3. QED
    BY <1>1, <1>2 DEF Mapped

\* A call that only changes the buffer, rightly.
LEMMA WritesMapped ==
  ASSUME NEW n, NEW c, NEW after, after \in Like(buffer, n), NEW d, d = VectorCall(c),
         d.op \in Shifts \cup {"Set", "InvertBlock", "Reverse", "SetDataEndianType", "Assign"},
         Vector(after) = BitVector!Result(d, Vector(buffer))
  PROVE  Mapped(c, after, <<>>)
  <1>1. d.op # "New" /\ after.dependent = buffer.dependent
    BY DEF Shifts, Like
  <1>2. BitVector!Answer(d, Vector(buffer)) = <<>>
    BY NoAnswer
  <1>3. ReplyOn(after, c, <<>>) = <<>>
    BY Replies
  <1>4. QED
    BY <1>1, <1>2, <1>3 DEF Mapped

\* The mapped answer that is a buffer.
LEMMA BlockReply ==
  ASSUME NEW b, NEW c, NEW x, c.op \in {"Convert", "Operator", "Copied"}
  PROVE  ReplyOn(b, c, <<x>>) = <<Vector(x)>>
  <1>1. <<x>> # <<>> /\ <<x>>[1] = x
    OBVIOUS
  <1>2. QED
    BY <1>1 DEF ReplyOn

\* The shifts.
LEMMA ShiftStep ==
  ASSUME StreamTypeOK, ~StreamDefects, Shift
  PROVE  BitVector!Next
  <1> DEFINE n == Size(buffer)
  <1>1. n \in Nat \ {0} /\ n \in Nat /\ buffer \in BufferOf(n) /\ Length(buffer) = 8 * n
    BY FullSize DEF Length
  <1>2. PICK op \in Shifts, unit \in {"bit", "byte"}, shift \in 1 .. Length(buffer) + 1, fill \in {Zero, One} :
          LET c == ShiftCall(op, unit, shift, fill)
          IN  ~Defect(buffer, c) /\ Make(c, Shifted(buffer, c), <<>>)
    BY DEF Shift, Shifts, ShiftCall
  <1> DEFINE c == ShiftCall(op, unit, shift, fill)
  <1>3. c = ShiftCall(op, unit, shift, fill) /\ ~Defect(buffer, c) /\ Make(c, Shifted(buffer, c), <<>>)
    BY <1>2
  <1>4. shift \in Nat /\ fill \in Bit
    BY <1>1, BitsClosed
  <1>5. c.op \in Shifts /\ c.unit \in {"bit", "byte"} /\ c.shift \in Nat /\ c.fill \in Bit
    BY <1>4 DEF ShiftCall
  <1> DEFINE d == VectorCall(c)
  <1>6. d.op \in Shifts
    <2>1. d = ShiftCall(op, unit, Distant(unit, shift), fill)
      BY <1>4, ShiftOnVector
    <2>2. QED
      BY <2>1 DEF ShiftCall
  <1> HIDE DEF n, c
  <1>7. Vector(Shifted(buffer, c)) = BitVector!Result(d, Vector(buffer))
    BY <1>1, <1>3, <1>4, ShiftsMapped
  <1>8. Shifted(buffer, c) \in Like(buffer, n)
    BY <1>1, <1>5, ShiftedKeeps
  <1>9. Mapped(c, Shifted(buffer, c), <<>>)
    BY <1>6, <1>7, <1>8, WritesMapped
  <1>10. QED
    BY <1>3, <1>9, MadeMapped

\* The operators << and >>.
LEMMA CopiedStep ==
  ASSUME StreamTypeOK, ~StreamDefects, Copied
  PROVE  BitVector!Next
  <1> DEFINE n == Size(buffer)
  <1>1. n \in Nat \ {0} /\ n \in Nat /\ buffer \in BufferOf(n) /\ Length(buffer) = 8 * n
    BY FullSize DEF Length
  <1>2. PICK op \in {"ShiftLeft", "ShiftRight"}, shift \in 1 .. Length(buffer) + 1 :
          LET c == ShiftCall(op, "bit", shift, Zero)
          IN  /\ ~Defect(buffer, c)
              /\ Make([op |-> "Copied", unit |-> "bit", on |-> c], buffer, <<Shifted(buffer, c)>>)
    BY DEF Copied, ShiftCall
  <1> DEFINE c == ShiftCall(op, "bit", shift, Zero)
             e == [op |-> "Copied", unit |-> "bit", on |-> c]
  <1>3. c = ShiftCall(op, "bit", shift, Zero) /\ ~Defect(buffer, c) /\ Make(e, buffer, <<Shifted(buffer, c)>>)
    BY <1>2
  <1>4. op \in Shifts /\ shift \in Nat /\ Zero \in Bit /\ "bit" \in {"bit", "byte"}
    BY <1>1, BitsClosed DEF Shifts
  <1>5. VectorCall(c) = c
    <2>1. Distant("bit", shift) = shift
      BY DEF Distant
    <2>2. QED
      BY <1>4, <2>1, ShiftOnVector
  <1> HIDE DEF n, c
  <1>6. Vector(Shifted(buffer, c)) = BitVector!Result(c, Vector(buffer))
    BY <1>1, <1>3, <1>4, <1>5, ShiftsMapped
  <1>7. e.op = "Copied" /\ e.unit = "bit" /\ e.on = c
    OBVIOUS
  <1> HIDE DEF e
  <1>8. VectorCall(e) = e
    BY <1>7, PlainCall
  <1>9. BitVector!Answer(e, Vector(buffer)) = <<BitVector!Result(c, Vector(buffer))>>
    BY <1>7 DEF BitVector!Answer
  <1>10. ReplyOn(buffer, e, <<Shifted(buffer, c)>>) = <<Vector(Shifted(buffer, c))>>
    <2> DEFINE r == Shifted(buffer, c)
    <2> HIDE DEF r
    <2>1. ReplyOn(buffer, e, <<r>>) = <<Vector(r)>>
      BY <1>7, BlockReply
    <2>2. QED
      BY <2>1 DEF r
  <1>11. Mapped(e, buffer, <<Shifted(buffer, c)>>)
    BY <1>6, <1>7, <1>8, <1>9, <1>10, ReadsMapped
  <1>12. QED
    BY <1>3, <1>11, MadeMapped

\* Setting a bit or a byte.
LEMMA SetStep ==
  ASSUME StreamTypeOK, SetOne
  PROVE  BitVector!Next
  <1> DEFINE n == Size(buffer)
  <1>1. n \in Nat \ {0} /\ n \in Nat /\ buffer \in BufferOf(n) /\ Length(buffer) = 8 * n
    BY FullSize DEF Length
  <1>2. PICK unit \in {"bit", "byte"}, i \in 0 .. Length(buffer), fill \in {Zero, One} :
          /\ unit = "byte" => i < Size(buffer)
          /\ Make(SetCall(unit, i, fill),
                  IF unit = "bit" THEN Set(buffer, i, fill)
                  ELSE SetByte(buffer, i, [p \in BitOf |-> fill]), <<>>)
    BY DEF SetOne, SetByte, SetCall
  <1>3. i \in Nat /\ fill \in Bit
    BY <1>1, BitsClosed
  <1> DEFINE c == SetCall(unit, i, fill)
             d == VectorCall(c)
             x == [p \in BitOf |-> fill]
  <1>4. x \in Byte
    BY <1>3 DEF Byte
  <1>5. d.op = "Set"
    <2>1. c.op = "Set" /\ c.unit = unit /\ DOMAIN c = {"op", "unit", "first", "last", "fill"}
      BY DEF SetCall
    <2>2. unit = "byte" => d = [c EXCEPT !.first = 8 * @, !.last = 8 * @ + 7]
      <3> HIDE DEF c
      <3> QED
        BY <2>1 DEF VectorCall
    <2>3. unit = "bit" => d = c
      <3> HIDE DEF c
      <3> QED
        BY <2>1 DEF VectorCall
    <2>4. QED
      BY <2>1, <2>2, <2>3 DEF SetCall
  <1> HIDE DEF n
  <1>6. CASE unit = "bit"
    <2>1. Make(c, Set(buffer, i, fill), <<>>)
      BY <1>2, <1>6
    <2>2. c = SetCall("bit", i, fill)
      BY <1>6
    <2> HIDE DEF c
    <2>3. Vector(Set(buffer, i, fill)) = BitVector!Result(d, Vector(buffer))
      BY <1>1, <1>3, <2>2, SetBitMapped
    <2>4. Set(buffer, i, fill) \in Like(buffer, n)
      BY <1>1, <1>3, SetKeeps
    <2>5. Mapped(c, Set(buffer, i, fill), <<>>)
      BY <1>5, <2>3, <2>4, WritesMapped
    <2>6. QED
      BY <2>1, <2>5, MadeMapped
  <1>7. CASE unit = "byte"
    <2>1. Make(c, SetByte(buffer, i, x), <<>>)
      BY <1>2, <1>7
    <2>2. i < Size(buffer)
      BY <1>2, <1>7
    <2>3. c = SetCall("byte", i, fill) /\ i \in 0 .. n - 1
      BY <1>1, <1>3, <1>7, <2>2 DEF n
    <2> HIDE DEF c
    <2>4. Vector(SetByte(buffer, i, x)) = BitVector!Result(d, Vector(buffer))
      BY <1>1, <1>3, <2>3, SetByteMapped
    <2> HIDE DEF x
    <2>5. SetByte(buffer, i, x) \in Like(buffer, n)
      BY <1>1, <1>3, <1>4, SetKeeps
    <2>6. Mapped(c, SetByte(buffer, i, x), <<>>)
      BY <1>5, <2>4, <2>5, WritesMapped
    <2>7. QED
      BY <2>1, <2>6, MadeMapped
  <1>8. QED
    BY <1>6, <1>7

\* Inverting and reversing a range.
LEMMA BlockStep ==
  ASSUME StreamTypeOK, Block
  PROVE  BitVector!Next
  <1> DEFINE n == Size(buffer)
  <1>1. n \in Nat \ {0} /\ n \in Nat /\ buffer \in BufferOf(n) /\ Length(buffer) = 8 * n
    BY FullSize DEF Length
  <1>2. PICK op \in {"InvertBlock", "Reverse"}, s \in Spans(Length(buffer)) :
          Make(RangeCall(op, "bit", s[1], s[2]),
               IF op = "Reverse" THEN Reverse(buffer, s[1], s[2])
               ELSE InvertBlock(buffer, s[1], s[2]), <<>>)
    BY DEF Block, RangeCall
  <1>3. s[1] \in Nat /\ s[2] \in Nat
    BY <1>1 DEF Spans
  <1> DEFINE c == RangeCall(op, "bit", s[1], s[2])
  <1>4. c.op = op /\ c.unit = "bit"
    BY DEF RangeCall
  <1>5. VectorCall(c) = c
    <2> HIDE DEF c
    <2> QED
      BY <1>4, PlainCall
  <1> HIDE DEF n
  <1>6. CASE op = "InvertBlock"
    <2> DEFINE r == InvertBlock(buffer, s[1], s[2])
    <2>1. Make(c, r, <<>>)
      BY <1>2, <1>6
    <2>2. c = RangeCall("InvertBlock", "bit", s[1], s[2])
      BY <1>6
    <2> HIDE DEF c
    <2>3. Vector(r) = BitVector!Result(VectorCall(c), Vector(buffer))
      BY <1>1, <1>3, <2>2, InvertMapped
    <2>4. r \in Like(buffer, n)
      BY <1>1, <1>3, BlockKeeps
    <2> HIDE DEF r
    <2>5. Mapped(c, r, <<>>)
      BY <1>4, <1>5, <1>6, <2>3, <2>4, WritesMapped
    <2>6. QED
      BY <2>1, <2>5, MadeMapped
  <1>7. CASE op = "Reverse"
    <2> DEFINE r == Reverse(buffer, s[1], s[2])
    <2>1. Make(c, r, <<>>)
      BY <1>2, <1>7
    <2>2. c = RangeCall("Reverse", "bit", s[1], s[2])
      BY <1>7
    <2> HIDE DEF c
    <2>3. Vector(r) = BitVector!Result(VectorCall(c), Vector(buffer))
      BY <1>1, <1>3, <2>2, ReverseMapped
    <2>4. r \in Like(buffer, n)
      BY <1>1, <1>3, BlockKeeps
    <2> HIDE DEF r
    <2>5. Mapped(c, r, <<>>)
      BY <1>4, <1>5, <1>7, <2>3, <2>4, WritesMapped
    <2>6. QED
      BY <2>1, <2>5, MadeMapped
  <1>8. QED
    BY <1>6, <1>7

\* The conversion to a number.
LEMMA ConvertStep ==
  ASSUME StreamTypeOK, ConvertTo
  PROVE  BitVector!Next
  <1> DEFINE n == Size(buffer)
  <1>1. n \in Nat \ {0} /\ n \in Nat /\ buffer \in BufferOf(n) /\ Length(buffer) = 8 * n
    BY FullSize DEF Length
  <1>2. PICK s \in Spans(Length(buffer)), size \in {1, 2}, e \in Endians :
          LET c == ConvertCall(s[1], s[2], size, e)
          IN  s[2] - s[1] < 8 * size /\ Make(c, buffer, Convert(buffer, c))
    BY DEF ConvertTo, ConvertCall
  <1>3. s[1] \in Nat /\ s[2] \in Nat
    BY <1>1 DEF Spans
  <1> DEFINE c == ConvertCall(s[1], s[2], size, e)
  <1>4. c = ConvertCall(s[1], s[2], size, e) /\ s[2] - s[1] < 8 * size /\ Make(c, buffer, Convert(buffer, c))
    BY <1>2
  <1>5. c.op = "Convert" /\ c.unit = "bit"
    BY DEF ConvertCall
  <1> HIDE DEF n, c
  <1>6. VectorCall(c) = c
    BY <1>5, PlainCall
  <1>7. ReplyOn(buffer, c, Convert(buffer, c)) = BitVector!Answer(VectorCall(c), Vector(buffer))
    BY <1>1, <1>3, <1>4, ConvertMapped
  <1>8. Mapped(c, buffer, Convert(buffer, c))
    BY <1>5, <1>6, <1>7, ReadsMapped
  <1>9. QED
    BY <1>4, <1>8, MadeMapped

\* The conversion between endians.
LEMMA EndianStep ==
  ASSUME StreamTypeOK, ~StreamDefects, ChangeEndian
  PROVE  BitVector!Next
  <1> DEFINE n == Size(buffer)
  <1>1. n \in Nat \ {0} /\ n \in Nat /\ buffer \in BufferOf(n)
    BY FullSize
  <1>2. PICK e \in Endians :
          LET c == EndianCall(e)
          IN  buffer.dependent /\ ~Defect(buffer, c) /\ Make(c, SetDataEndianType(buffer, c), <<>>)
    BY DEF ChangeEndian, EndianCall
  <1> DEFINE c == EndianCall(e)
             r == SetDataEndianType(buffer, c)
  <1>3. c = EndianCall(e) /\ buffer.dependent /\ ~Defect(buffer, c) /\ Make(c, r, <<>>)
    BY <1>2
  <1>4. c.op = "SetDataEndianType" /\ c.unit = "bit" /\ c.endian = e /\ c.convert = TRUE
    BY DEF EndianCall
  <1> HIDE DEF n, c
  <1>5. VectorCall(c) = c
    BY <1>4, PlainCall
  <1>6. Vector(r) = BitVector!Result(VectorCall(c), Vector(buffer))
    BY <1>1, <1>3, EndianMapped
  <1>7. r.dependent = buffer.dependent
    <2>1. r.dependent = buffer.dependent
      BY <1>1 DEF SetDataEndianType, BufferOf
    <2>2. QED
      BY <2>1
  <1> HIDE DEF r
  <1>8. BitVector!Answer(c, Vector(buffer)) = <<>>
    BY <1>4, NoAnswer
  <1>9. ReplyOn(r, c, <<>>) = <<>>
    BY Replies
  <1>10. c.op # "New"
    BY <1>4
  <1>11. Mapped(c, r, <<>>)
    BY <1>5, <1>6, <1>7, <1>8, <1>9, <1>10 DEF Mapped
  <1>12. QED
    BY <1>3, <1>11, MadeMapped

\* The logical operators.
LEMMA OperateStep ==
  ASSUME StreamTypeOK, ~StreamDefects, Operate
  PROVE  BitVector!Next
  <1> DEFINE n == Size(buffer)
  <1>1. n \in Nat \ {0} /\ n \in Nat /\ buffer \in BufferOf(n)
    BY FullSize
  <1> HIDE DEF n
  <1>2. PICK op \in {"Assign", "Operator"}, unit \in {"bit", "data"}, with \in Operations,
             other \in {o \in Buffers(StreamSizes, 50) : o.safe /\ o.dependent = buffer.dependent} :
          LET c == OperatorCall(op, unit, with, other)
              r == Made(op, unit, with, other)
          IN  /\ ~DefectOfOperands(buffer, c)
              /\ IF op = "Assign" THEN Make(c, r, <<>>) ELSE Make(c, buffer, <<r>>)
    <2>1. PICK op \in {"Assign", "Operator"}, unit \in {"bit", "data"}, with \in {"And", "Or", "Xor"},
               other \in {o \in Buffers(StreamSizes, 50) : o.safe /\ o.dependent = buffer.dependent} :
            LET c == [op |-> op, unit |-> unit, with |-> with, other |-> other, grow |-> ~buffer.safe]
                r == CASE unit = "bit" /\ op = "Assign" -> BitStreamAssign(buffer, with, other)
                       [] unit = "bit" /\ op = "Operator" -> BitStreamOperator(buffer, with, other)
                       [] unit = "data" /\ op = "Assign" -> BinaryDataAssign(buffer, with, other)
                       [] OTHER -> BinaryDataOperator(buffer, with, other)
            IN  /\ Full
                /\ StreamDefects \/ ~DefectOfOperands(buffer, c)
                /\ IF op = "Assign" THEN Make(c, r, <<>>) ELSE Make(c, buffer, <<r>>)
      BY Zenon DEF Operate
    <2> DEFINE c == OperatorCall(op, unit, with, other)
               r == Made(op, unit, with, other)
    <2>2. ~DefectOfOperands(buffer, c) /\ IF op = "Assign" THEN Make(c, r, <<>>) ELSE Make(c, buffer, <<r>>)
      BY <2>1 DEF OperatorCall, Made
    <2>3. with \in Operations
      BY DEF Operations
    <2>4. QED
      BY <2>2, <2>3
  <1>3. PICK k \in StreamSizes : other \in BufferOf(k)
    <2>1. StreamSizes \in SUBSET Nat /\ 50 \in Int
      BY BitStreamAssumption
    <2>2. other \in Buffers(StreamSizes, 50)
      OBVIOUS
    <2>3. QED
      BY <2>1, <2>2, InitialBuffers
  <1>4. k \in Nat \ {0} /\ k \in Nat
    BY <1>3, SizesPositive
  <1>5. other.dependent = buffer.dependent
    OBVIOUS
  <1> DEFINE c == OperatorCall(op, unit, with, other)
             r == Made(op, unit, with, other)
             d == VectorCall(c)
             v == Vector(buffer)
  <1>6. c = OperatorCall(op, unit, with, other) /\ ~DefectOfOperands(buffer, c)
    BY <1>2
  <1>7. IF op = "Assign" THEN Make(c, r, <<>>) ELSE Make(c, buffer, <<r>>)
    BY <1>2
  <1>8. c.op = op
    BY DEF OperatorCall
  <1> HIDE DEF n, c
  <1>9. Vector(r) = BitVector!Combined(d, v, Vector(other))
    BY <1>1, <1>3, <1>4, <1>5, <1>6, OperateMapped
  <1>10. /\ d.op = op
         /\ op = "Assign" => BitVector!Result(d, v) = BitVector!Combined(d, v, Vector(other))
         /\ op = "Operator" => BitVector!Answer(d, v) = <<BitVector!Combined(d, v, Vector(other))>>
    BY <1>6, OperatorCallMapped
  <1>11. CASE op = "Assign"
    <2>1. r \in Like(buffer, n) \cup Like(buffer, k)
      <3>1. r = IF unit = "bit" THEN BitStreamAssign(buffer, with, other) ELSE BinaryDataAssign(buffer, with, other)
        BY <1>11 DEF Made
      <3>2. /\ BitStreamAssign(buffer, with, other) \in Like(buffer, n) \cup Like(buffer, k)
            /\ BinaryDataAssign(buffer, with, other) \in Like(buffer, n) \cup Like(buffer, k)
        BY <1>1, <1>3, <1>4, AssignKeeps DEF Operations
      <3>3. QED
        BY <3>1, <3>2
    <2>2. PICK h : r \in Like(buffer, h)
      BY <2>1
    <2> HIDE DEF r, d
    <2>3. Mapped(c, r, <<>>)
      <3>1. Vector(r) = BitVector!Result(d, v)
        BY <1>9, <1>10, <1>11
      <3>2. d.op = "Assign" /\ d = VectorCall(c)
        BY <1>10, <1>11 DEF d
      <3>3. QED
        BY <2>2, <3>1, <3>2, WritesMapped
    <2>4. QED
      BY <1>7, <1>11, <2>3, MadeMapped
  <1>12. CASE op = "Operator"
    <2> HIDE DEF r
    <2>1. ReplyOn(buffer, c, <<r>>) = <<Vector(r)>>
      BY <1>8, <1>12, BlockReply
    <2>2. d.op = "Operator" /\ ReplyOn(buffer, c, <<r>>) = BitVector!Answer(d, v)
      BY <1>9, <1>10, <1>12, <2>1
    <2>3. Mapped(c, buffer, <<r>>)
      BY <2>2, ReadsMapped
    <2>4. Make(c, buffer, <<r>>)
      BY <1>7, <1>12
    <2>5. QED
      BY <2>3, <2>4, MadeMapped
  <1>13. QED
    BY <1>11, <1>12

\* The predicates on bits.
LEMMA AskStep ==
  ASSUME StreamTypeOK, ~StreamDefects, Ask
  PROVE  BitVector!Next
  <1> DEFINE n == Size(buffer)
  <1>1. n \in Nat \ {0} /\ n \in Nat /\ buffer \in BufferOf(n) /\ Length(buffer) = 8 * n
    BY FullSize DEF Length
  <1>2. PICK op \in Predicates \cup Listings, s \in Spans(Length(buffer)) :
          LET c == RangeCall(op, "bit", s[1], s[2])
          IN  /\ ~Defect(buffer, c)
              /\ Make(c, buffer, IF InRange(buffer, s[1], s[2]) THEN <<Asked(buffer, c)>> ELSE <<>>)
    BY DEF Ask, RangeCall, Predicates, Listings
  <1>3. s[1] \in Nat /\ s[2] \in Nat
    BY <1>1 DEF Spans
  <1> DEFINE c == RangeCall(op, "bit", s[1], s[2])
             a == IF InRange(buffer, s[1], s[2]) THEN <<Asked(buffer, c)>> ELSE <<>>
  <1>4. c = RangeCall(op, "bit", s[1], s[2]) /\ ~Defect(buffer, c) /\ Make(c, buffer, a)
    BY <1>2
  <1>5. c.op = op /\ c.unit = "bit" /\ c.op \notin {"New", "Assign", "Operator"}
    BY DEF RangeCall, Predicates, Listings
  <1> HIDE DEF n, c
  <1>6. VectorCall(c) = c
    BY <1>5, PlainCall
  <1>7. ReplyOn(buffer, c, a) = BitVector!Answer(c, Vector(buffer))
    <2>1. CASE InRange(buffer, s[1], s[2])
      <3>1. ReplyOn(buffer, c, <<Asked(buffer, c)>>) = BitVector!Answer(c, Vector(buffer))
        BY <1>1, <1>3, <1>4, <2>1, AskMapped
      <3>2. QED
        BY <2>1, <3>1
    <2>2. CASE ~InRange(buffer, s[1], s[2])
      <3>1. BitVector!Answer(c, Vector(buffer)) = <<>>
        BY <1>1, <1>3, <1>4, <2>2, OutsideMapped
      <3>2. ReplyOn(buffer, c, <<>>) = <<>>
        BY Replies
      <3>3. QED
        BY <2>2, <3>1, <3>2
    <2>3. QED
      BY <2>1, <2>2
  <1> HIDE DEF a
  <1>8. Mapped(c, buffer, a)
    BY <1>5, <1>6, <1>7, ReadsMapped
  <1>9. QED
    BY <1>4, <1>8, MadeMapped

\* The output operator.
LEMMA WriteStep ==
  ASSUME StreamTypeOK, Write
  PROVE  BitVector!Next
  <1> DEFINE n == Size(buffer)
             l == 8 * n - 1
             c == RangeCall("ToString", "bit", 0, l)
             a == Output(buffer)
  <1>1. n \in Nat \ {0} /\ n \in Nat /\ buffer \in BufferOf(n) /\ Length(buffer) = 8 * n
    BY FullSize DEF Length
  <1>2. Make(c, buffer, <<a>>)
    BY <1>1 DEF Write, RangeCall
  <1>3. l \in Nat /\ 0 <= l /\ l < 8 * n /\ Length(buffer) - 1 = l
    BY <1>1
  <1>4. c.op = "ToString" /\ c.unit = "bit" /\ c = RangeCall("ToString", "bit", 0, l)
    BY DEF RangeCall
  <1> HIDE DEF n, l, c
  <1>5. VectorCall(c) = c
    BY <1>4, PlainCall
  <1> DEFINE upwards == ~buffer.dependent
  <1>6. (upwards => a = Upwards(buffer, 0, l)) /\ (~upwards => a = Downwards(buffer, 0, l))
    <2>1. buffer.dependent => a = Downwards(buffer, 1, l) \o <<GetBitPosition(buffer, 0)>>
      BY <1>3 DEF Output
    <2>2. ~buffer.dependent => a = Upwards(buffer, 0, l)
      BY <1>3 DEF Output
    <2>3. QED
      BY <1>3, <2>1, <2>2, LastOfAll
  <1>7. upwards \in BOOLEAN
        /\ (upwards <=> "ToString" = "GetFirstIndex" \/ ("ToString" = "ToString" /\ ~buffer.dependent))
    OBVIOUS
  <1>8. "ToString" \in Listings
    BY DEF Listings
  <1> HIDE DEF a, upwards
  <1>9. ReplyOn(buffer, c, <<a>>) = BitVector!Answer(c, Vector(buffer))
    BY <1>1, <1>3, <1>4, <1>6, <1>7, <1>8, ListingAnswer
  <1>10. Mapped(c, buffer, <<a>>)
    BY <1>4, <1>5, <1>8, <1>9, ReadsMapped
  <1>11. QED
    BY <1>2, <1>10, MadeMapped

\* The predicates on bytes.
LEMMA AskBytesStep ==
  ASSUME StreamTypeOK, AskBytes
  PROVE  BitVector!Next
  <1> DEFINE n == Size(buffer)
  <1>1. n \in Nat \ {0} /\ n \in Nat /\ buffer \in BufferOf(n) /\ Length(buffer) = 8 * n
    BY FullSize DEF Length
  <1>2. PICK op \in {"Any", "All", "None"}, s \in Spans(n) :
          Make(RangeCall(op, "byte", s[1], s[2]), buffer,
               IF s[1] <= s[2] /\ s[2] < n THEN <<ByteTests(buffer, s[1], s[2])>> ELSE <<>>)
    BY DEF AskBytes, RangeCall
  <1>3. s[1] \in Nat /\ s[2] \in Nat
    BY <1>1 DEF Spans
  <1> DEFINE c == RangeCall(op, "byte", s[1], s[2])
             first == 8 * s[1]
             last == 8 * s[2] + 7
             d == VectorCall(c)
             a == IF s[1] <= s[2] /\ s[2] < n THEN <<ByteTests(buffer, s[1], s[2])>> ELSE <<>>
  <1>4. Make(c, buffer, a)
    BY <1>2
  <1>5. c.op = op /\ op \in Predicates /\ op \in Predicates \cup Listings
    BY DEF RangeCall, Predicates
  <1>6. d = RangeCall(op, "byte", first, last)
    <2>1. c.op = op /\ c.unit = "byte" /\ DOMAIN c = {"op", "unit", "first", "last"}
      BY DEF RangeCall
    <2>2. d = [c EXCEPT !.first = 8 * @, !.last = 8 * @ + 7]
      <3> HIDE DEF c
      <3> QED
        BY <2>1 DEF VectorCall
    <2>3. QED
      BY <2>2 DEF RangeCall
  <1>7. first \in Nat /\ last \in Nat /\ (s[1] <= s[2] <=> first <= last) /\ (s[2] < n <=> last < 8 * n)
    BY <1>1, <1>3
  <1>8. d.op = op
    BY <1>6 DEF RangeCall
  <1> HIDE DEF n, c, d, first, last
  <1>9. ReplyOn(buffer, c, a) = BitVector!Answer(d, Vector(buffer))
    <2>1. CASE s[1] <= s[2] /\ s[2] < n
      <3> DEFINE A == ByteTests(buffer, s[1], s[2])
      <3>1. A = BitsFrom(buffer, first, last)
        BY <1>1, <1>3, <2>1, ByteTestsRead DEF first, last
      <3> HIDE DEF A
      <3>2. first <= last /\ last < 8 * n
        BY <1>7, <2>1
      <3>3. ReplyOn(buffer, c, <<A>>) = BitVector!Answer(d, Vector(buffer))
        BY <1>1, <1>5, <1>6, <1>7, <3>1, <3>2, PredicateAnswer
      <3>4. QED
        BY <2>1, <3>3 DEF A
    <2>2. CASE ~ (s[1] <= s[2] /\ s[2] < n)
      <3>1. ~InRange(buffer, first, last)
        BY <1>1, <1>7, <2>2 DEF InRange
      <3>2. BitVector!Answer(d, Vector(buffer)) = <<>>
        BY <1>1, <1>5, <1>6, <1>7, <3>1, OutsideMapped
      <3>3. ReplyOn(buffer, c, <<>>) = <<>>
        BY Replies
      <3>4. QED
        BY <2>2, <3>2, <3>3
    <2>3. QED
      BY <2>1, <2>2
  <1> HIDE DEF a
  <1>10. Mapped(c, buffer, a)
    BY <1>5, <1>8, <1>9, ReadsMapped DEF d
  <1>11. QED
    BY <1>4, <1>10, MadeMapped

\* Every call is a step of BitVector.
LEMMA NextMapped ==
  ASSUME StreamTypeOK, ~StreamDefects, StreamNext
  PROVE  BitVector!Next
  BY ShiftStep, CopiedStep, SetStep, BlockStep, ConvertStep, EndianStep, OperateStep, AskStep,
     WriteStep, AskBytesStep DEF StreamNext

\* A new object is a new vector.
LEMMA InitMapped == StreamInit => BitVector!Init
  <1> SUFFICES ASSUME StreamInit PROVE BitVector!Init
    OBVIOUS
  <1>1. buffer.dependent \in BOOLEAN
    BY DEF StreamInit, Buffers
  <1>2. VectorCall(call) = [op |-> "New"]
    BY DEF StreamInit, VectorCall
  <1>3. VectorReply(call, reply) = <<>>
    BY DEF StreamInit, VectorReply
  <1>4. QED
    BY <1>1, <1>2, <1>3 DEF BitVector!Init

\* The bytes are a vector of bits and no caller can tell the difference: for every
\* length, content, endian and mode, and any number of calls, what a call changes
\* and answers is what it changes and answers on the vector (ImplementsBitVector),
\* for all calls but those that Defect and DefectOfOperands list.
THEOREM BytesAreAVector == ASSUME ~StreamDefects PROVE StreamSpec => ImplementsBitVector
  <1>1. StreamTypeOK /\ [StreamNext]_streamVars => [BitVector!Next]_(BitVector!vvars)
    <2> SUFFICES ASSUME StreamTypeOK, [StreamNext]_streamVars
                 PROVE  [BitVector!Next]_(BitVector!vvars)
      OBVIOUS
    <2>1. CASE StreamNext
      BY <2>1, NextMapped
    <2>2. CASE UNCHANGED streamVars
      BY <2>2 DEF streamVars, BitVector!vvars, VectorReply
    <2>3. QED
      BY <2>1, <2>2
  <1>2. QED
    BY <1>1, InitMapped, BuffersTyped, PTL DEF StreamSpec, ImplementsBitVector, BitVector!Spec
=============================================================================
