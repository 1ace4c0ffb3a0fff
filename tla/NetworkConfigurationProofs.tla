--------------------- MODULE NetworkConfigurationProofs ----------------------
(***************************************************************************)
(* What Initialize, Destroy and GetBestRoute promise of the two lists of   *)
(* SystemNetworkConfiguration, for all tables of the kernel, addresses,    *)
(* sequence numbers and sizes of datagrams: no pointer of an entry is left *)
(* to a freed one, the best route is the best of those that match, and a   *)
(* reply is stored only when it answers the request that was sent.         *)
(*                                                                         *)
(* All three are parts or consequences of one inductive invariant, Inv.    *)
(* The loops of the code are recursive functions in the model (Kept,       *)
(* FlattenSeq): what they compute is proved by induction over the length   *)
(* of the list, as the absence of a least counterexample (Induction).      *)
(***************************************************************************)
EXTENDS NetworkConfiguration, WellFoundedInduction, FiniteSetTheorems, SequenceTheorems, TLAPS

-----------------------------------------------------------------------------
(* Induction.  The theorems of the library on induction have an operator   *)
(* as a parameter; its theorem on well-founded relations has none, and     *)
(* gives the least element of a set, hence induction over a set.           *)

(* A non-empty set of natural numbers has a least element.                 *)
LEMMA LeastExists ==
  ASSUME NEW T \in SUBSET Nat, T # {}
  PROVE  \E x \in T : \A y \in T : x <= y
  <1> DEFINE R == OpToRel(<, Nat)
  <1>1. IsWellFoundedOn(R, Nat)
    BY NatLessThanWellFounded
  <1>2. \E x \in T : \A y \in T : <<y, x>> \notin R
    <2> HIDE DEF R
    <2> QED
      BY <1>1, WFMin
  <1>3. PICK x \in T : \A y \in T : ~ (y < x)
    BY <1>2 DEF OpToRel
  <1>4. QED
    BY <1>3

(* A set with 0 that has n + 1 with n has every natural number.            *)
LEMMA Induction ==
  ASSUME NEW S, 0 \in S, \A n \in Nat : n \in S => n + 1 \in S
  PROVE  \A n \in Nat : n \in S
  <1> DEFINE T == Nat \ S
  <1> SUFFICES ASSUME T # {} PROVE FALSE
    OBVIOUS
  <1>1. PICK x \in T : \A y \in T : x <= y
    <2> HIDE DEF T
    <2>1. T \in SUBSET Nat
      BY DEF T
    <2> QED
      BY <2>1, LeastExists
  <1>2. x # 0 /\ x - 1 \in Nat /\ x - 1 < x
    OBVIOUS
  <1>3. x - 1 \in S
    BY <1>1, <1>2
  <1>4. QED
    BY <1>2, <1>3

(* What First chooses when there is something to choose from.              *)
LEMMA FirstIsLeast ==
  ASSUME NEW T \in SUBSET Nat, T # {}
  PROVE  First(T) \in T /\ \A y \in T : First(T) <= y
  BY LeastExists DEF First

-----------------------------------------------------------------------------
(* Sequences                                                               *)

(* A loop over 1 .. n that starts with b: what it has after i rounds.      *)
Rounds(G, n, T) == n \in Nat /\ G \in [1 .. n -> [T -> T]]
LoopOf(g, b, G, n, T) ==
  g \in [0 .. n -> T] /\ g[0] = b /\ \A i \in 1 .. n : g[i] = G[i][g[i - 1]]

LEMMA LoopExists ==
  ASSUME NEW T, NEW b \in T, NEW n, NEW G, Rounds(G, n, T)
  PROVE  \E g : LoopOf(g, b, G, n, T)
  <1> USE DEF Rounds, LoopOf
  <1> DEFINE Loop(g, k) == g[0] = b /\ \A i \in 1 .. k : g[i] = G[i][g[i - 1]]
             D == {k \in Nat : k <= n => \E g \in [0 .. k -> T] : Loop(g, k)}
  <1>1. 0 \in D
    <2>1. [i \in 0 .. 0 |-> b] \in [0 .. 0 -> T] /\ Loop([i \in 0 .. 0 |-> b], 0)
      OBVIOUS
    <2>2. QED
      BY <2>1
  <1>2. ASSUME NEW k \in Nat, k \in D
        PROVE  k + 1 \in D
    <2> SUFFICES ASSUME k + 1 <= n
                 PROVE  \E g \in [0 .. k + 1 -> T] : Loop(g, k + 1)
      OBVIOUS
    <2>1. PICK g \in [0 .. k -> T] : Loop(g, k)
      BY <1>2
    <2> DEFINE h == [i \in 0 .. k + 1 |-> IF i = k + 1 THEN G[k + 1][g[k]] ELSE g[i]]
    <2>2. /\ \A i \in 0 .. k : h[i] = g[i]
          /\ h[k + 1] = G[k + 1][g[k]]
      OBVIOUS
    <2>3. h \in [0 .. k + 1 -> T]
      OBVIOUS
    <2>4. Loop(h, k + 1)
      <3> HIDE DEF h
      <3>1. h[0] = b
        BY <2>1, <2>2
      <3>2. ASSUME NEW i \in 1 .. k + 1
            PROVE  h[i] = G[i][h[i - 1]]
        <4>1. h[i - 1] = g[i - 1]
          BY <2>2
        <4>2. CASE i \in 1 .. k
          <5>1. h[i] = g[i] /\ g[i] = G[i][g[i - 1]]
            BY <2>1, <2>2, <4>2
          <5>2. QED
            BY <4>1, <5>1
        <4>3. CASE i = k + 1
          <5>1. i - 1 = k
            BY <4>3
          <5>2. QED
            BY <2>2, <4>1, <4>3, <5>1
        <4>4. QED
          BY <4>2, <4>3
      <3>3. QED
        BY <3>1, <3>2
    <2>5. QED
      BY <2>3, <2>4
  <1>3. QED
    <2> HIDE DEF D
    <2>1. n \in D
      BY <1>1, <1>2, Induction
    <2>2. QED
      BY <2>1 DEF D

KeptLoop(g, s, set) ==
  g = [i \in 0 .. Len(s) |->
         IF i = 0 THEN <<>> ELSE IF s[i] \in set THEN Append(g[i - 1], s[i]) ELSE g[i - 1]]

(* Kept is what its loop has after the last element.                       *)
LEMMA KeptIsLoop ==
  ASSUME NEW S, NEW s \in Seq(S), NEW set
  PROVE  \E g : KeptLoop(g, s, set) /\ Kept(s, set) = g[Len(s)]
  <1> DEFINE n == Len(s)
             G == [i \in 1 .. n |-> [t \in Seq(S) |->
                     IF s[i] \in set THEN Append(t, s[i]) ELSE t]]
  <1>1. n \in Nat /\ <<>> \in Seq(S) /\ G \in [1 .. n -> [Seq(S) -> Seq(S)]]
    OBVIOUS
  <1>2. PICK g \in [0 .. n -> Seq(S)] :
          g[0] = <<>> /\ \A i \in 1 .. n : g[i] = G[i][g[i - 1]]
    <2> DEFINE T == Seq(S)
    <2>1. <<>> \in T /\ Rounds(G, n, T)
      BY <1>1 DEF Rounds
    <2>2. \E g : LoopOf(g, <<>>, G, n, T)
      <3> HIDE DEF n, G, T
      <3> QED
        BY <2>1, LoopExists
    <2>3. QED
      BY <2>2 DEF LoopOf
  <1>3. \A i \in 1 .. n : g[i] = IF s[i] \in set THEN Append(g[i - 1], s[i]) ELSE g[i - 1]
    <2> SUFFICES ASSUME NEW i \in 1 .. n
                 PROVE  g[i] = IF s[i] \in set THEN Append(g[i - 1], s[i]) ELSE g[i - 1]
      OBVIOUS
    <2>1. g[i - 1] \in Seq(S)
      <3>1. i - 1 \in 0 .. n
        BY <1>1
      <3>2. QED
        BY <3>1
    <2>2. QED
      BY <1>2, <2>1
  <1>4. g = [i \in 0 .. n |-> g[i]]
    OBVIOUS
  <1>5. KeptLoop(g, s, set)
    <2>1. \A i \in 0 .. n : g[i] = IF i = 0 THEN <<>>
                        ELSE IF s[i] \in set THEN Append(g[i - 1], s[i]) ELSE g[i - 1]
      <3> SUFFICES ASSUME NEW i \in 0 .. n
                   PROVE  g[i] = IF i = 0 THEN <<>>
                        ELSE IF s[i] \in set THEN Append(g[i - 1], s[i]) ELSE g[i - 1]
        OBVIOUS
      <3>1. CASE i = 0
        BY <1>2, <3>1
      <3>2. CASE i # 0
        <4>1. i \in 1 .. n
          BY <3>2
        <4>2. QED
          BY <1>3, <3>2, <4>1
      <3>3. QED
        BY <3>1, <3>2
    <2>2. QED
      BY <2>1, <1>4 DEF KeptLoop
  <1>6. QED
    BY <1>5 DEF Kept, KeptLoop

(* Kept leaves out what is not in the set, and nothing else.               *)
Selection(t, s, S, set) ==
  /\ t \in Seq(S \cap set)
  /\ \A i \in DOMAIN s : s[i] \in set => \E k \in DOMAIN t : t[k] = s[i]

(* Kept has the elements of the sequence that are in the set, no others.   *)
LEMMA KeptElements ==
  ASSUME NEW S, NEW s, s \in Seq(S), NEW set
  PROVE  Selection(Kept(s, set), s, S, set)
  <1> USE DEF Selection
  <1>1. PICK g : KeptLoop(g, s, set) /\ Kept(s, set) = g[Len(s)]
    BY KeptIsLoop
  <1>2. \A i \in 0 .. Len(s) : g[i] = IF i = 0 THEN <<>>
                        ELSE IF s[i] \in set THEN Append(g[i - 1], s[i]) ELSE g[i - 1]
    BY <1>1 DEF KeptLoop
  <1> DEFINE Good(n) == /\ g[n] \in Seq(S \cap set)
                        /\ \A i \in 1 .. n : s[i] \in set => \E k \in DOMAIN g[n] : g[n][k] = s[i]
             D == {n \in Nat : n <= Len(s) => Good(n)}
  <1>3. 0 \in D
    <2>1. g[0] = <<>>
      BY <1>2
    <2>2. Good(0)
      BY <2>1
    <2>3. QED
      BY <2>2
  <1>4. ASSUME NEW n \in Nat, n \in D
        PROVE  n + 1 \in D
    <2> SUFFICES ASSUME n + 1 <= Len(s) PROVE Good(n + 1)
      OBVIOUS
    <2>1. Good(n)
      BY <1>4
    <2>2. n + 1 \in DOMAIN s /\ s[n + 1] \in S
      OBVIOUS
    <2>6. g[n + 1] = IF s[n + 1] \in set THEN Append(g[n], s[n + 1]) ELSE g[n]
      <3>1. n + 1 \in 0 .. Len(s) /\ n + 1 # 0 /\ (n + 1) - 1 = n
        OBVIOUS
      <3>2. QED
        BY <1>2, <3>1
    <2>3. CASE s[n + 1] \in set
      <3>1. g[n + 1] = Append(g[n], s[n + 1])
        BY <2>3, <2>6
      <3>2. g[n + 1] \in Seq(S \cap set)
        BY <2>1, <2>2, <2>3, <3>1
      <3>3. /\ \A k \in DOMAIN g[n] : k \in DOMAIN g[n + 1] /\ g[n + 1][k] = g[n][k]
            /\ Len(g[n + 1]) \in DOMAIN g[n + 1] /\ g[n + 1][Len(g[n + 1])] = s[n + 1]
        BY <2>1, <2>2, <2>3, <3>1
      <3>4. \A i \in 1 .. n + 1 : s[i] \in set => \E k \in DOMAIN g[n + 1] : g[n + 1][k] = s[i]
        BY <2>1, <3>3
      <3>5. QED
        BY <3>2, <3>4
    <2>4. CASE s[n + 1] \notin set
      <3>1. g[n + 1] = g[n]
        BY <2>4, <2>6
      <3>2. QED
        BY <2>1, <2>4, <3>1
    <2>5. QED
      BY <2>3, <2>4
  <1>5. \A n \in Nat : n \in D
    <2> HIDE DEF D
    <2> QED
      BY <1>3, <1>4, Induction
  <1>6. Good(Len(s))
    BY <1>5
  <1>7. QED
    BY <1>1, <1>6

FlattenLoop(f, seqs) ==
  f = [i \in 1 .. Len(seqs) |-> IF i = 1 THEN seqs[i] ELSE f[i - 1] \o seqs[i]]

Joined(f, seqs, n, T) ==
  f \in [1 .. n -> T] /\ \A i \in 1 .. n : f[i] = IF i = 1 THEN seqs[i] ELSE f[i - 1] \o seqs[i]

(* A loop that joins the sequences one after the other.                    *)
LEMMA FlattenLoopExists ==
  ASSUME NEW S, NEW T, T = Seq(S), NEW n \in Nat, NEW seqs, seqs \in [1 .. n -> T]
  PROVE  \E f : Joined(f, seqs, n, T)
  <1> DEFINE G == [i \in 1 .. n |-> [t \in T |-> t \o seqs[i]]]
             b == <<>>
  <1>1. b \in T /\ G \in [1 .. n -> [T -> T]]
    <2>1. \A t \in T, u \in T : t \o u \in T
      OBVIOUS
    <2>2. b \in T
      OBVIOUS
    <2>3. QED
      BY <2>1, <2>2
  <1>2. PICK g \in [0 .. n -> T] :
          g[0] = b /\ \A i \in 1 .. n : g[i] = G[i][g[i - 1]]
    <2>1. Rounds(G, n, T) /\ b \in T
      BY <1>1 DEF Rounds
    <2>2. \E g : LoopOf(g, b, G, n, T)
      <3> HIDE DEF G, b
      <3> QED
        BY <2>1, LoopExists
    <2>3. QED
      BY <2>2 DEF LoopOf
  <1> DEFINE f == [i \in 1 .. n |-> g[i]]
  <1>3. \A i \in 1 .. n : f[i] = IF i = 1 THEN seqs[i] ELSE f[i - 1] \o seqs[i]
    <2> SUFFICES ASSUME NEW i \in 1 .. n
                 PROVE  f[i] = IF i = 1 THEN seqs[i] ELSE f[i - 1] \o seqs[i]
      OBVIOUS
    <2>1. g[i - 1] \in T /\ seqs[i] \in T
      <3>1. i - 1 \in 0 .. n
        OBVIOUS
      <3>2. QED
        BY <3>1
    <2>2. f[i] = g[i - 1] \o seqs[i]
      BY <1>2, <2>1
    <2>3. CASE i = 1
      <3>1. g[i - 1] = <<>>
        BY <1>2, <2>3
      <3>2. <<>> \o seqs[i] = seqs[i]
        BY <2>1
      <3>3. QED
        BY <2>2, <2>3, <3>1, <3>2
    <2>4. CASE i # 1
      <3>1. f[i - 1] = g[i - 1]
        BY <2>4
      <3>2. QED
        BY <2>2, <2>4, <3>1
    <2>5. QED
      BY <2>3, <2>4
  <1>4. f \in [1 .. n -> T]
    OBVIOUS
  <1>5. QED
    <2> HIDE DEF f
    <2>1. Joined(f, seqs, n, T)
      BY <1>3, <1>4 DEF Joined
    <2>2. QED
      BY <2>1

(* FlattenSeq is what that loop has after the last sequence.               *)
LEMMA FlattenIsLoop ==
  ASSUME NEW S, NEW seqs \in Seq(Seq(S)), Len(seqs) # 0
  PROVE  \E f : FlattenLoop(f, seqs) /\ FlattenSeq(seqs) = f[Len(seqs)]
  <1> DEFINE n == Len(seqs)
             T == Seq(S)
  <1>1. n \in Nat /\ T = Seq(S) /\ seqs \in [1 .. n -> T]
    OBVIOUS
  <1>2. PICK f \in [1 .. n -> T] :
           \A i \in 1 .. n : f[i] = IF i = 1 THEN seqs[i] ELSE f[i - 1] \o seqs[i]
    <2>1. \E f : Joined(f, seqs, n, T)
      <3> HIDE DEF n, T
      <3> QED
        BY <1>1, FlattenLoopExists
    <2>2. QED
      BY <2>1 DEF Joined
  <1>3. f = [i \in 1 .. n |-> IF i = 1 THEN seqs[i] ELSE f[i - 1] \o seqs[i]]
    <2>1. f = [i \in 1 .. n |-> f[i]]
      OBVIOUS
    <2>2. QED
      BY <1>2, <2>1
  <1>4. FlattenLoop(f, seqs)
    BY <1>3 DEF FlattenLoop
  <1>5. QED
    BY <1>4 DEF FlattenSeq, FlattenLoop

(* What the loop of FlattenSeq has after n sequences.                      *)
Flattened(f, seqs, S, n) ==
  /\ f[n] \in Seq(S)
  /\ \A i \in 1 .. n : \A k \in DOMAIN seqs[i] : \E j \in DOMAIN f[n] : f[n][j] = seqs[i][k]
  /\ \A j \in DOMAIN f[n] : \E i \in 1 .. n : \E k \in DOMAIN seqs[i] : seqs[i][k] = f[n][j]

(* A turn of the loop adds the elements of one more sequence.              *)
LEMMA FlattenStep ==
  ASSUME NEW S, NEW f, NEW seqs, NEW n \in Nat, Flattened(f, seqs, S, n),
         seqs[n + 1] \in Seq(S), f[n + 1] = f[n] \o seqs[n + 1]
  PROVE  Flattened(f, seqs, S, n + 1)
  <1> DEFINE a == f[n]
             b == seqs[n + 1]
             c == f[n + 1]
  <1>1. a \in Seq(S) /\ b \in Seq(S) /\ c = a \o b
    BY DEF Flattened
  <1>2. /\ \A j \in DOMAIN a : j \in DOMAIN c /\ c[j] = a[j]
        /\ \A k \in DOMAIN b : Len(a) + k \in DOMAIN c /\ c[Len(a) + k] = b[k]
        /\ \A j \in DOMAIN c : j \notin DOMAIN a => j - Len(a) \in DOMAIN b /\ c[j] = b[j - Len(a)]
    <2> HIDE DEF a, b, c
    <2> QED
      BY <1>1
  <1>3. c \in Seq(S)
    <2> HIDE DEF a, b, c
    <2> QED
      BY <1>1
  <1>4. ASSUME NEW i \in 1 .. n + 1, NEW k \in DOMAIN seqs[i]
        PROVE  \E j \in DOMAIN c : c[j] = seqs[i][k]
    <2>1. CASE i \in 1 .. n
      <3>1. PICK j \in DOMAIN a : a[j] = seqs[i][k]
        BY <2>1 DEF Flattened
      <3> HIDE DEF a, b, c
      <3>2. QED
        BY <1>2, <3>1
    <2>2. CASE i = n + 1
      <3>1. k \in DOMAIN b /\ b[k] = seqs[i][k]
        BY <2>2
      <3> HIDE DEF a, b, c
      <3>2. Len(a) + k \in DOMAIN c /\ c[Len(a) + k] = seqs[i][k]
        BY <1>2, <3>1
      <3>3. QED
        BY <3>2
    <2>3. i \in 1 .. n \/ i = n + 1
      OBVIOUS
    <2>4. QED
      BY <2>1, <2>2, <2>3
  <1>5. ASSUME NEW j \in DOMAIN c
        PROVE  \E i \in 1 .. n + 1 : \E k \in DOMAIN seqs[i] : seqs[i][k] = c[j]
    <2>1. CASE j \in DOMAIN a
      <3>1. PICK i \in 1 .. n : \E k \in DOMAIN seqs[i] : seqs[i][k] = a[j]
        BY <2>1 DEF Flattened
      <3>2. a[j] = c[j]
        <4> HIDE DEF a, b, c
        <4> QED
          BY <1>2, <2>1
      <3>3. QED
        BY <3>1, <3>2
    <2>2. CASE j \notin DOMAIN a
      <3>1. j - Len(a) \in DOMAIN b /\ c[j] = b[j - Len(a)]
        <4> HIDE DEF a, b, c
        <4> QED
          BY <1>2, <2>2
      <3>2. QED
        BY <3>1
    <2>3. QED
      BY <2>1, <2>2
  <1>6. QED
    BY <1>3, <1>4, <1>5 DEF Flattened

(* FlattenSeq has the elements of all the sequences and no others.         *)
LEMMA FlattenElements ==
  ASSUME NEW S, NEW seqs \in Seq(Seq(S))
  PROVE  /\ FlattenSeq(seqs) \in Seq(S)
         /\ \A i \in DOMAIN seqs : \A k \in DOMAIN seqs[i] :
              \E j \in DOMAIN FlattenSeq(seqs) : FlattenSeq(seqs)[j] = seqs[i][k]
         /\ \A j \in DOMAIN FlattenSeq(seqs) :
              \E i \in DOMAIN seqs : \E k \in DOMAIN seqs[i] : seqs[i][k] = FlattenSeq(seqs)[j]
  <1>1. CASE Len(seqs) = 0
    <2>1. seqs = <<>> /\ FlattenSeq(seqs) = <<>>
      BY <1>1 DEF FlattenSeq
    <2>2. DOMAIN seqs = {} /\ DOMAIN FlattenSeq(seqs) = {}
      BY <2>1
    <2>3. FlattenSeq(seqs) \in Seq(S)
      <3>1. <<>> \in Seq(S)
        OBVIOUS
      <3>2. QED
        BY <2>1, <3>1, Zenon
    <2>4. QED
      BY <2>2, <2>3, Zenon
  <1>2. CASE Len(seqs) # 0
    <2>1. PICK f : FlattenLoop(f, seqs) /\ FlattenSeq(seqs) = f[Len(seqs)]
      BY <1>2, FlattenIsLoop
    <2>2. \A i \in 1 .. Len(seqs) : f[i] = IF i = 1 THEN seqs[i] ELSE f[i - 1] \o seqs[i]
      BY <2>1 DEF FlattenLoop
    <2>3. \A i \in 1 .. Len(seqs) : seqs[i] \in Seq(S)
      OBVIOUS
    <2> DEFINE D == {n \in Nat : n \in 1 .. Len(seqs) => Flattened(f, seqs, S, n)}
    <2>4. 0 \in D
      OBVIOUS
    <2>5. ASSUME NEW n \in Nat, n \in D
          PROVE  n + 1 \in D
      <3> SUFFICES ASSUME n + 1 \in 1 .. Len(seqs) PROVE Flattened(f, seqs, S, n + 1)
        OBVIOUS
      <3>1. CASE n = 0
        <4>1. f[1] = seqs[1] /\ n + 1 = 1 /\ seqs[1] \in Seq(S)
          BY <2>2, <2>3, <3>1
        <4>2. QED
          BY <4>1 DEF Flattened
      <3>2. CASE n # 0
        <4>1. n \in 1 .. Len(seqs) /\ n + 1 # 1 /\ (n + 1) - 1 = n
          BY <3>2
        <4>2. Flattened(f, seqs, S, n)
          BY <2>5, <4>1
        <4>3. f[n + 1] = f[n] \o seqs[n + 1] /\ seqs[n + 1] \in Seq(S)
          BY <2>2, <2>3, <4>1
        <4>4. QED
          BY <4>2, <4>3, FlattenStep
      <3>3. QED
        BY <3>1, <3>2
    <2>6. Len(seqs) \in Nat /\ Len(seqs) \in 1 .. Len(seqs) /\ DOMAIN seqs = 1 .. Len(seqs)
      BY <1>2
    <2>7. \A n \in Nat : n \in D
      <3> HIDE DEF D
      <3> QED
        BY <2>4, <2>5, Induction
    <2>8. Flattened(f, seqs, S, Len(seqs))
      BY <2>6, <2>7
    <2>9. QED
      <3> DEFINE m == Len(seqs)
                 l == FlattenSeq(seqs)
      <3>1. l = f[m] /\ Flattened(f, seqs, S, m) /\ DOMAIN seqs = 1 .. m
        BY <2>1, <2>6, <2>8
      <3>2. /\ l \in Seq(S)
            /\ \A i \in DOMAIN seqs : \A k \in DOMAIN seqs[i] : \E j \in DOMAIN l : l[j] = seqs[i][k]
            /\ \A j \in DOMAIN l : \E i \in DOMAIN seqs : \E k \in DOMAIN seqs[i] : seqs[i][k] = l[j]
        <4> HIDE DEF m, l
        <4> QED
          BY <3>1 DEF Flattened
      <3>3. QED
        BY <3>2
  <1>3. QED
    BY <1>1, <1>2

(* RemoveAt takes one element out and moves those after it.                *)
LEMMA Removed ==
  ASSUME NEW S, NEW s \in Seq(S), NEW i \in DOMAIN s
  PROVE  /\ RemoveAt(s, i) \in Seq(S)
         /\ DOMAIN RemoveAt(s, i) = 1 .. Len(s) - 1
         /\ \A j \in 1 .. Len(s) - 1 : RemoveAt(s, i)[j] = IF j < i THEN s[j] ELSE s[j + 1]
  <1> DEFINE a == SubSeq(s, 1, i - 1)
             b == SubSeq(s, i + 1, Len(s))
             n == Len(s)
  <1>1. i \in 1 .. n /\ n \in Nat
    OBVIOUS
  <1>2. /\ a \in Seq(S) /\ Len(a) = i - 1
        /\ \A j \in 1 .. i - 1 : a[j] = s[j]
    OBVIOUS
  <1>3. /\ b \in Seq(S) /\ Len(b) = n - i
        /\ \A j \in 1 .. n - i : b[j] = s[i + j]
    OBVIOUS
  <1>4. RemoveAt(s, i) = a \o b
    BY DEF RemoveAt
  <1>5. QED
    <2> HIDE DEF a, b, n
    <2>1. a \o b \in Seq(S) /\ Len(a \o b) = n - 1
      <3>1. a \o b \in Seq(S) /\ Len(a \o b) = Len(a) + Len(b)
        BY <1>2, <1>3, ConcatProperties
      <3>2. QED
        BY <1>1, <1>2, <1>3, <3>1
    <2>2. ASSUME NEW j \in 1 .. n - 1
          PROVE  (a \o b)[j] = IF j < i THEN s[j] ELSE s[j + 1]
      <3>1. CASE j < i
        <4>1. j \in 1 .. i - 1
          BY <1>1, <3>1
        <4>2. (a \o b)[j] = a[j]
          BY <1>1, <1>2, <1>3, <4>1
        <4>3. QED
          BY <1>2, <3>1, <4>1, <4>2
      <3>2. CASE ~ (j < i)
        <4>1. j - (i - 1) \in 1 .. n - i /\ i + (j - (i - 1)) = j + 1
          BY <1>1, <3>2
        <4>2. (a \o b)[j] = b[j - (i - 1)]
          BY <1>1, <1>2, <1>3, <3>2
        <4>3. QED
          BY <1>3, <3>2, <4>1, <4>2
      <3>3. QED
        BY <3>1, <3>2
    <2>3. DOMAIN (a \o b) = 1 .. n - 1
      BY <2>1
    <2>4. n = Len(s)
      BY DEF n
    <2>5. QED
      BY <1>4, <2>1, <2>2, <2>3, <2>4

-----------------------------------------------------------------------------
(* The invariant                                                           *)

Versions  == {"inet", "inet6"}
Interface == [node : Nat, index : Nat, family : Families, addresses : [Versions -> Seq(Addresses)],
              routes : [Versions -> Seq(Nat)], default : Nat]
IpRoute   == [node : Nat, index : Nat, family : Versions, dst : {"default", "match", "other"},
              priority : Nat, owner : Nat, source : {"kernel", "none", "own", "garbage"}]
Message(request) == {Entry(x) : x \in Table(request)} \cup {End(t) : t \in {"done", "error", "other"}}

Typed ==
  /\ interfaces \in Seq(Interface) /\ routes \in Seq(IpRoute)
  /\ interfaceFamily \in Families /\ made \in Nat
  /\ cursor \in Nat \ {0} /\ best \in Nat
  /\ pc \in {"new", "idle", "attach", "prune", "scan"} \cup Requests
  /\ pc # "new" => call.name \in {"Initialize", "Lookup"}

\* The nodes of a list are numbered, differently, up to m.
Numbered(is, rs, m) ==
  /\ \A i \in DOMAIN is : is[i].node \in 1 .. m
  /\ \A i, q \in DOMAIN is : is[i].node = is[q].node => i = q
  /\ \A j \in DOMAIN rs : rs[j].node \in 1 .. m
  /\ \A j, q \in DOMAIN rs : rs[j].node = rs[q].node => j = q

\* The end message of a reply is its last, and is not received before it is looked at.
IsEnd(m) == m.type \in {"done", "error"}
Ends(messages) ==
  messages # <<>> /\ \A i \in DOMAIN messages : IsEnd(messages[i]) <=> i = Len(messages)
Received ==
  /\ pc \notin Requests => ~asked
  /\ ~asked => socket = <<>> /\ buffer = <<>>
  /\ asked => /\ socket \in Seq(Message(pc)) /\ buffer \in Seq(Message(pc))
              /\ Ends(socket)
              /\ \A i \in DOMAIN buffer : ~IsEnd(buffer[i])

\* Nothing points anywhere while the lists are filled.
Unlinked(is, rs) ==
  /\ \A i \in DOMAIN is : is[i].routes = [v \in Versions |-> <<>>] /\ is[i].default = 0
  /\ \A j \in DOMAIN rs : rs[j].owner = 0 /\ rs[j].source \in {"kernel", "none"}
Filling ==
  /\ pc \in {"new", "links"} => interfaces = <<>>
  /\ pc \in {"new"} \cup Requests => routes = <<>> /\ Unlinked(interfaces, routes)

\* A route that has an owner has the one that the search for it finds again.
FindsOwner(is, rs) ==
  \A j \in DOMAIN rs : rs[j].owner # 0 =>
    LET found == Found(is, rs[j].index, rs[j].family)
    IN  found # {} /\ is[First(found)].node = rs[j].owner

\* The three kinds of pointers.
ListsRoute(f, r, k) ==
  /\ r.node = f.routes[r.family][k] /\ r.owner = f.node
  /\ r.family = "inet" /\ r.dst = "default" => f.default # 0
Listed(is, rs) ==
  \A i \in DOMAIN is, v \in Versions : \A k \in DOMAIN is[i].routes[v] :
    \E j \in DOMAIN rs : rs[j].family = v /\ ListsRoute(is[i], rs[j], k)
Defaults(is, rs) ==
  \A i \in DOMAIN is : is[i].default # 0 =>
    \E j \in DOMAIN rs : rs[j].node = is[i].default /\ rs[j].dst = "default"
                         /\ \E k \in DOMAIN is[i].routes["inet"] : is[i].routes["inet"][k] = is[i].default
Owns(f, r) ==
  /\ f.node = r.owner
  /\ \E k \in DOMAIN f.routes[r.family] : f.routes[r.family][k] = r.node
  /\ r.source = "own" => f.addresses[r.family] # <<>>
Owned(is, rs) ==
  \A j \in DOMAIN rs :
    IF rs[j].owner = 0 THEN rs[j].source \in {"kernel", "none"}
    ELSE rs[j].source # "none" /\ \E i \in DOMAIN is : Owns(is[i], rs[j])
Linked(is, rs) == Listed(is, rs) /\ Defaults(is, rs) /\ Owned(is, rs)

\* What a lookup begins a round with.
Looking ==
  /\ pc = "scan" => /\ call.name = "Lookup"
                    /\ best = 0 \/ \E i \in DOMAIN interfaces : best = interfaces[i].default
  /\ pc \notin {"idle", "scan"} /\ call.name = "Lookup" => best = 0

\* What a lookup for an address of the family ip returns.
Routed(r) == r.owner # 0 /\ r.family = "inet"
Answered(is, rs, ip, a) ==
  IF a = 0
  THEN \/ ip = "inet6" \/ \E i \in DOMAIN is : is[i].family = "inet6"
       \/ \A j \in DOMAIN rs : Routed(rs[j]) => rs[j].dst = "other"
  ELSE \E j \in DOMAIN rs :
         /\ rs[j].node = a /\ Routed(rs[j])
         /\ \/ /\ rs[j].dst = "match"
               /\ \A q \in DOMAIN rs : Routed(rs[q]) /\ rs[q].dst = "match" => rs[j].priority <= rs[q].priority
            \/ /\ rs[j].dst = "default"
               /\ \A q \in DOMAIN rs : Routed(rs[q]) => rs[q].dst # "match"
               /\ \A i \in DOMAIN is, q \in DOMAIN rs :
                    is[i].default # 0 /\ rs[q].node = is[i].default => rs[j].priority <= rs[q].priority
Answering ==
  pc = "idle" /\ call.name = "Lookup" /\ call.ip # "none" =>
    Answered(interfaces, routes, call.ip, answer.route)

Inv ==
  /\ Typed /\ Numbered(interfaces, routes, made) /\ Received /\ Filling
  /\ pc = "attach" => FindsOwner(interfaces, routes)
  /\ Linked(interfaces, routes) /\ Looking /\ Answering

-----------------------------------------------------------------------------
(* The lists under the steps of Initialize                                 *)

LEMMA UnlinkedIsLinked ==
  ASSUME NEW is \in Seq(Interface), NEW rs \in Seq(IpRoute), Unlinked(is, rs)
  PROVE  Linked(is, rs)
  <1>1. \A i \in DOMAIN is, v \in Versions : DOMAIN is[i].routes[v] = {}
    BY DEF Unlinked
  <1>2. Listed(is, rs)
    BY <1>1 DEF Listed
  <1>3. QED
    BY <1>2 DEF Unlinked, Linked, Defaults, Owned

\* A sequence without its c-th element.
Without(t, s, c) ==
  /\ \A j \in DOMAIN t : \E q \in DOMAIN s \ {c} : t[j] = s[q]
  /\ \A q \in DOMAIN s \ {c} : \E j \in DOMAIN t : t[j] = s[q]
  /\ \A j, k \in DOMAIN t : j # k => \E p, q \in DOMAIN s : p # q /\ t[j] = s[p] /\ t[k] = s[q]

(* What is left when an element is removed: the others, each once.         *)
LEMMA RemovedIsWithout ==
  ASSUME NEW S, NEW s \in Seq(S), NEW c \in DOMAIN s
  PROVE  RemoveAt(s, c) \in Seq(S) /\ Without(RemoveAt(s, c), s, c)
  <1> DEFINE t == RemoveAt(s, c)
             n == Len(s)
  <1>1. /\ t \in Seq(S) /\ DOMAIN t = 1 .. n - 1 /\ n \in Nat
        /\ DOMAIN s = 1 .. n /\ c \in 1 .. n
        /\ \A j \in 1 .. n - 1 : t[j] = IF j < c THEN s[j] ELSE s[j + 1]
    <2>1. Len(s) \in Nat /\ DOMAIN s = 1 .. Len(s)
      OBVIOUS
    <2>2. /\ RemoveAt(s, c) \in Seq(S)
          /\ DOMAIN RemoveAt(s, c) = 1 .. Len(s) - 1
          /\ \A j \in 1 .. Len(s) - 1 : RemoveAt(s, c)[j] = IF j < c THEN s[j] ELSE s[j + 1]
      BY Removed, Zenon
    <2>3. QED
      BY <2>1, <2>2, Zenon
  <1> HIDE DEF t, n
  <1>2. ASSUME NEW j \in DOMAIN t
        PROVE  \E q \in DOMAIN s \ {c} : t[j] = s[q]
    <2>1. CASE j < c
      <3>1. j \in DOMAIN s \ {c} /\ t[j] = s[j]
        BY <1>1, <2>1
      <3>2. QED
        BY <3>1
    <2>2. CASE ~ (j < c)
      <3>1. j + 1 \in DOMAIN s \ {c} /\ t[j] = s[j + 1]
        BY <1>1, <2>2
      <3>2. QED
        BY <3>1
    <2>3. QED
      BY <2>1, <2>2
  <1>3. ASSUME NEW q \in DOMAIN s \ {c}
        PROVE  \E j \in DOMAIN t : t[j] = s[q]
    <2>1. CASE q < c
      <3>1. q \in DOMAIN t /\ t[q] = s[q]
        BY <1>1, <2>1
      <3>2. QED
        BY <3>1
    <2>2. CASE ~ (q < c)
      <3>1. q - 1 \in DOMAIN t /\ (q - 1) + 1 = q /\ t[q - 1] = s[(q - 1) + 1]
        BY <1>1, <2>2
      <3>2. QED
        BY <3>1
    <2>3. QED
      BY <2>1, <2>2
  <1>4. ASSUME NEW j \in DOMAIN t, NEW k \in DOMAIN t, j # k
        PROVE  \E p, q \in DOMAIN s : p # q /\ t[j] = s[p] /\ t[k] = s[q]
    <2> DEFINE p == IF j < c THEN j ELSE j + 1
               q == IF k < c THEN k ELSE k + 1
    <2>1. p \in DOMAIN s /\ q \in DOMAIN s /\ p # q /\ t[j] = s[p] /\ t[k] = s[q]
      BY <1>1, <1>4
    <2> HIDE DEF p, q
    <2>2. QED
      BY <2>1
  <1>5. t = RemoveAt(s, c)
    BY DEF t
  <1>6. QED
    BY <1>1, <1>2, <1>3, <1>4, <1>5 DEF Without

(* A route is erased when it has no interface: no interface lists it, for  *)
(* then it would have an owner, and the search would find that.            *)
LEMMA RouteErased ==
  ASSUME NEW is \in Seq(Interface), NEW rs \in Seq(IpRoute), NEW m \in Nat, NEW c \in DOMAIN rs,
         Numbered(is, rs, m), FindsOwner(is, rs), Linked(is, rs),
         Found(is, rs[c].index, rs[c].family) = {}
  PROVE  LET t == RemoveAt(rs, c)
         IN  t \in Seq(IpRoute) /\ Numbered(is, t, m) /\ FindsOwner(is, t) /\ Linked(is, t)
  <1> DEFINE t == RemoveAt(rs, c)
  <1>1. t \in Seq(IpRoute) /\ Without(t, rs, c)
    BY RemovedIsWithout
  <1>2. \A j, q \in DOMAIN t : t[j].node = t[q].node => j = q
    <2> HIDE DEF t
    <2> SUFFICES ASSUME NEW j \in DOMAIN t, NEW q \in DOMAIN t, j # q
                 PROVE  t[j].node # t[q].node
      OBVIOUS
    <2>1. PICK a, b \in DOMAIN rs : a # b /\ t[j] = rs[a] /\ t[q] = rs[b]
      BY <1>1 DEF Without
    <2>2. QED
      BY <2>1 DEF Numbered
  <1> HIDE DEF t
  <1>3. rs[c].owner = 0
    BY DEF FindsOwner
  <1>4. Numbered(is, t, m)
    BY <1>1, <1>2 DEF Numbered, Without
  <1>5. FindsOwner(is, t)
    BY <1>1 DEF FindsOwner, Without
  <1>6. Listed(is, t)
    <2> SUFFICES ASSUME NEW i \in DOMAIN is, NEW v \in Versions, NEW k \in DOMAIN is[i].routes[v]
                 PROVE  \E j \in DOMAIN t : t[j].family = v /\ ListsRoute(is[i], t[j], k)
      BY DEF Listed
    <2>1. PICK q \in DOMAIN rs : rs[q].family = v /\ ListsRoute(is[i], rs[q], k)
      BY DEF Linked, Listed
    <2>2. rs[q].owner # 0
      BY <2>1 DEF ListsRoute, Numbered
    <2>3. PICK j \in DOMAIN t : t[j] = rs[q]
      BY <1>1, <1>3, <2>2 DEF Without
    <2>4. QED
      BY <2>1, <2>3
  <1>7. Defaults(is, t)
    <2> SUFFICES ASSUME NEW i \in DOMAIN is, is[i].default # 0
                 PROVE  \E j \in DOMAIN t : t[j].node = is[i].default /\ t[j].dst = "default"
                         /\ \E k \in DOMAIN is[i].routes["inet"] : is[i].routes["inet"][k] = is[i].default
      BY DEF Defaults
    <2>1. PICK q \in DOMAIN rs : rs[q].node = is[i].default /\ rs[q].dst = "default"
                         /\ \E k \in DOMAIN is[i].routes["inet"] : is[i].routes["inet"][k] = is[i].default
      BY DEF Linked, Defaults
    <2>2. PICK k \in DOMAIN is[i].routes["inet"] : is[i].routes["inet"][k] = is[i].default
      BY <2>1
    <2>3. PICK j \in DOMAIN rs : rs[j].family = "inet" /\ ListsRoute(is[i], rs[j], k)
      BY DEF Linked, Listed, Versions
    <2>4. j = q /\ rs[q].owner # 0
      BY <2>1, <2>2, <2>3 DEF ListsRoute, Numbered
    <2>5. PICK j2 \in DOMAIN t : t[j2] = rs[q]
      BY <1>1, <1>3, <2>4 DEF Without
    <2>6. QED
      BY <2>1, <2>5
  <1>8. Owned(is, t)
    BY <1>1 DEF Linked, Owned, Without
  <1>9. QED
    BY <1>1, <1>4, <1>5, <1>6, <1>7, <1>8 DEF Linked, t

(* An interface is erased when it lists no routes: it owns none.           *)
LEMMA InterfaceErased ==
  ASSUME NEW is \in Seq(Interface), NEW rs \in Seq(IpRoute), NEW m \in Nat, NEW c \in DOMAIN is,
         Numbered(is, rs, m), Linked(is, rs), WithoutRoutes(is[c])
  PROVE  LET t == RemoveAt(is, c)
         IN  t \in Seq(Interface) /\ Numbered(t, rs, m) /\ Linked(t, rs)
  <1> DEFINE t == RemoveAt(is, c)
  <1>1. t \in Seq(Interface) /\ Without(t, is, c)
    BY RemovedIsWithout
  <1> HIDE DEF t
  <1>2. Numbered(t, rs, m)
    <2>1. ASSUME NEW j \in DOMAIN t, NEW q \in DOMAIN t, j # q
          PROVE  t[j].node # t[q].node
      <3>1. PICK a, b \in DOMAIN is : a # b /\ t[j] = is[a] /\ t[q] = is[b]
        BY <1>1, <2>1 DEF Without
      <3>2. QED
        BY <3>1 DEF Numbered
    <2>2. \A j \in DOMAIN t : t[j].node \in 1 .. m
      BY <1>1 DEF Numbered, Without
    <2>3. QED
      BY <2>1, <2>2 DEF Numbered
  <1>3. Listed(t, rs)
    <2> SUFFICES ASSUME NEW i \in DOMAIN t, NEW v \in Versions, NEW k \in DOMAIN t[i].routes[v]
                 PROVE  \E j \in DOMAIN rs : rs[j].family = v /\ ListsRoute(t[i], rs[j], k)
      BY DEF Listed
    <2>1. PICK q \in DOMAIN is : t[i] = is[q]
      BY <1>1 DEF Without
    <2>2. QED
      BY <2>1 DEF Linked, Listed
  <1>4. Defaults(t, rs)
    <2> SUFFICES ASSUME NEW i \in DOMAIN t, t[i].default # 0
                 PROVE  \E j \in DOMAIN rs : rs[j].node = t[i].default /\ rs[j].dst = "default"
                         /\ \E k \in DOMAIN t[i].routes["inet"] : t[i].routes["inet"][k] = t[i].default
      BY DEF Defaults
    <2>1. PICK q \in DOMAIN is : t[i] = is[q]
      BY <1>1 DEF Without
    <2>2. QED
      BY <2>1 DEF Linked, Defaults
  <1>5. Owned(t, rs)
    <2> SUFFICES ASSUME NEW j \in DOMAIN rs, rs[j].owner # 0
                 PROVE  rs[j].source # "none" /\ \E i \in DOMAIN t : Owns(t[i], rs[j])
      BY DEF Linked, Owned
    <2>1. PICK q \in DOMAIN is : Owns(is[q], rs[j])
      BY DEF Linked, Owned
    <2>2. q # c
      <3>1. rs[j].family \in Versions
        <4>1. rs[j] \in IpRoute
          OBVIOUS
        <4>2. QED
          BY <4>1 DEF IpRoute
      <3>2. is[c].routes["inet"] = <<>> /\ is[c].routes["inet6"] = <<>>
        BY DEF WithoutRoutes
      <3>3. is[c].routes[rs[j].family] = <<>>
        BY <3>1, <3>2 DEF Versions
      <3>4. QED
        BY <2>1, <3>3 DEF Owns
    <2>3. PICK i \in DOMAIN t : t[i] = is[q]
      BY <1>1, <2>2 DEF Without
    <2>4. QED
      BY <2>1, <2>3 DEF Linked, Owned
  <1>6. QED
    BY <1>1, <1>2, <1>3, <1>4, <1>5 DEF Linked, t

(* Two fields of one element change, nothing else does.                    *)
LEMMA SequenceWith ==
  ASSUME NEW s, NEW c, NEW a, NEW b, NEW t, c \in DOMAIN s,
         t = [s EXCEPT ![c].owner = a, ![c].source = b]
  PROVE  t = [q \in DOMAIN s |-> IF q = c THEN t[c] ELSE s[q]]
  OBVIOUS

(* Attaching a route to an interface changes its list and its default.     *)
LEMMA AttachedFields ==
  ASSUME NEW f \in Interface, NEW r \in IpRoute
  PROVE  LET g == Attached(f, r)
         IN  /\ g \in Interface
             /\ g.node = f.node /\ g.index = f.index /\ g.family = f.family /\ g.addresses = f.addresses
             /\ g.routes[r.family] = Append(f.routes[r.family], r.node)
             /\ \A v \in Versions : v # r.family => g.routes[v] = f.routes[v]
             /\ g.default = IF r.dst = "default" /\ r.family = "inet" THEN r.node ELSE f.default
  <1> DEFINE g == Attached(f, r)
  <1>1. /\ f.node \in Nat /\ f.index \in Nat /\ f.family \in Families /\ f.default \in Nat
        /\ f.addresses \in [Versions -> Seq(Addresses)] /\ f.routes \in [Versions -> Seq(Nat)]
        /\ r.family \in Versions /\ r.node \in Nat
    BY DEF Interface, IpRoute
  <1>2. /\ g.node = f.node /\ g.index = f.index /\ g.family = f.family /\ g.addresses = f.addresses
        /\ g.routes = [f.routes EXCEPT ![r.family] = Append(@, r.node)]
        /\ g.default = IF r.dst = "default" /\ r.family = "inet" THEN r.node ELSE f.default
    BY DEF Attached, Interface
  <1>3. Append(f.routes[r.family], r.node) \in Seq(Nat)
    BY <1>1
  <1>4. /\ g.routes \in [Versions -> Seq(Nat)]
        /\ g.routes[r.family] = Append(f.routes[r.family], r.node)
        /\ \A v \in Versions : v # r.family => g.routes[v] = f.routes[v]
    BY <1>1, <1>2, <1>3
  <1>5. g \in Interface
    <2> DEFINE R == [f.routes EXCEPT ![r.family] = Append(@, r.node)]
               D == IF r.dst = "default" /\ r.family = "inet" THEN r.node ELSE f.default
    <2>1. R \in [Versions -> Seq(Nat)] /\ D \in Nat
      BY <1>1, <1>3
    <2>2. g = [f EXCEPT !.routes = R, !.default = D]
      BY DEF Attached
    <2>3. [f EXCEPT !.routes = R, !.default = D] \in Interface
      <3> HIDE DEF R, D
      <3> QED
        BY <2>1 DEF Interface
    <2>4. QED
      BY <2>2, <2>3
  <1>6. QED
    BY <1>2, <1>4, <1>5

(* A route is attached to an interface.  It may have been attached to it   *)
(* before, when the loop begins again at the front.                        *)
LEMMA RouteAttached ==
  ASSUME NEW is \in Seq(Interface), NEW rs \in Seq(IpRoute), NEW m \in Nat, NEW c \in DOMAIN rs,
         Numbered(is, rs, m), FindsOwner(is, rs), Linked(is, rs),
         NEW i, i = First(Found(is, rs[c].index, rs[c].family)),
         Found(is, rs[c].index, rs[c].family) # {}
  PROVE  LET js == [is EXCEPT ![i] = Attached(@, rs[c])]
             ts == [rs EXCEPT ![c].owner = is[i].node, ![c].source = SourceOf(rs[c], is[i])]
         IN  /\ js \in Seq(Interface) /\ ts \in Seq(IpRoute)
             /\ Numbered(js, ts, m) /\ FindsOwner(js, ts) /\ Linked(js, ts)
  <1> DEFINE js == [is EXCEPT ![i] = Attached(@, rs[c])]
             ts == [rs EXCEPT ![c].owner = is[i].node, ![c].source = SourceOf(rs[c], is[i])]
             r  == rs[c]
             f  == is[i]
             g  == js[i]
             t  == ts[c]
  <1>1. i \in DOMAIN is /\ f.index = r.index /\ f.family \in {"unspec", r.family}
    <2>1. Found(is, r.index, r.family) \in SUBSET Nat
      BY DEF Found
    <2>2. i \in Found(is, r.index, r.family)
      <3> HIDE DEF r
      <3>1. Found(is, r.index, r.family) # {} /\ i = First(Found(is, r.index, r.family))
        BY DEF r
      <3>2. QED
        BY <2>1, <3>1, FirstIsLeast
    <2>3. QED
      BY <2>2 DEF Found
  <1>2. f \in Interface /\ r \in IpRoute
    BY <1>1
  <1>3. g = Attached(f, r)
    BY <1>1
  <1>4. /\ g \in Interface
        /\ g.node = f.node /\ g.index = f.index /\ g.family = f.family /\ g.addresses = f.addresses
        /\ g.routes[r.family] = Append(f.routes[r.family], r.node)
        /\ \A v \in Versions : v # r.family => g.routes[v] = f.routes[v]
        /\ g.default = IF r.dst = "default" /\ r.family = "inet" THEN r.node ELSE f.default
    <2> HIDE DEF f, r, g
    <2> QED
      BY <1>2, <1>3, AttachedFields
  <1>5. SourceOf(r, f) \in {"kernel", "own", "garbage"}
    BY <1>2 DEF SourceOf, IpRoute
  <1>6. /\ t.node = r.node /\ t.index = r.index /\ t.family = r.family /\ t.dst = r.dst
        /\ t.priority = r.priority /\ t.owner = f.node /\ t.source = SourceOf(r, f)
    BY <1>2 DEF IpRoute
  <1>7. t \in IpRoute
    <2>1. t = [node |-> t.node, index |-> t.index, family |-> t.family, dst |-> t.dst,
               priority |-> t.priority, owner |-> t.owner, source |-> t.source]
      BY <1>2 DEF IpRoute
    <2>2. f.node \in Nat
      BY <1>2 DEF Interface
    <2> HIDE DEF t, r, f
    <2>3. QED
      BY <1>2, <1>5, <1>6, <2>1, <2>2 DEF IpRoute
  <1>8. /\ js \in Seq(Interface) /\ DOMAIN js = DOMAIN is
        /\ \A q \in DOMAIN is : q # i => js[q] = is[q]
    <2>1. js = [q \in DOMAIN is |-> IF q = i THEN g ELSE is[q]]
      BY <1>1, <1>3
    <2> HIDE DEF js, f, r, g
    <2>2. \A q \in DOMAIN is : js[q] \in Interface
      BY <1>4, <2>1
    <2>3. DOMAIN is = 1 .. Len(is) /\ Len(is) \in Nat
      OBVIOUS
    <2>4. js \in Seq(Interface)
      BY <2>1, <2>2, <2>3
    <2>5. QED
      BY <2>1, <2>4
  <1>9. /\ ts \in Seq(IpRoute) /\ DOMAIN ts = DOMAIN rs
        /\ \A q \in DOMAIN rs : q # c => ts[q] = rs[q]
    <2>1. ts = [q \in DOMAIN rs |-> IF q = c THEN t ELSE rs[q]]
      <3>1. ts = [rs EXCEPT ![c].owner = is[i].node, ![c].source = SourceOf(rs[c], is[i])]
        OBVIOUS
      <3> HIDE DEF ts
      <3>2. ts = [q \in DOMAIN rs |-> IF q = c THEN ts[c] ELSE rs[q]]
        BY <3>1, SequenceWith, Zenon
      <3>3. QED
        BY <3>2 DEF t
    <2>2. DOMAIN ts = DOMAIN rs /\ \A q \in DOMAIN rs : q # c => ts[q] = rs[q]
      <3> HIDE DEF ts, t
      <3> QED
        BY <2>1
    <2>3. \A q \in DOMAIN rs : ts[q] \in IpRoute
      <3> HIDE DEF ts
      <3> QED
        BY <1>7, <2>2 DEF t
    <2> HIDE DEF ts, t
    <2>4. DOMAIN rs = 1 .. Len(rs) /\ Len(rs) \in Nat
      OBVIOUS
    <2>5. ts \in Seq(IpRoute)
      BY <2>2, <2>3, <2>4, <2>1
    <2>6. QED
      BY <2>2, <2>5
  <1> HIDE DEF js, ts, r, f, g, t
  <1>10. /\ Len(f.routes[r.family]) + 1 \in DOMAIN g.routes[r.family]
         /\ g.routes[r.family][Len(f.routes[r.family]) + 1] = r.node
         /\ \A k \in DOMAIN f.routes[r.family] :
              k \in DOMAIN g.routes[r.family] /\ g.routes[r.family][k] = f.routes[r.family][k]
         /\ \A k \in DOMAIN g.routes[r.family] :
              k \in DOMAIN f.routes[r.family] \/ k = Len(f.routes[r.family]) + 1
    <2> DEFINE l == f.routes[r.family]
               a == Append(l, r.node)
    <2>1. l \in Seq(Nat) /\ r.node \in Nat
      BY <1>2 DEF Interface, IpRoute
    <2>2. g.routes[r.family] = a
      BY <1>4
    <2> HIDE DEF l
    <2>3. /\ Len(l) + 1 \in DOMAIN a /\ a[Len(l) + 1] = r.node
          /\ \A k \in DOMAIN l : k \in DOMAIN a /\ a[k] = l[k]
          /\ \A k \in DOMAIN a : k \in DOMAIN l \/ k = Len(l) + 1
      BY <2>1
    <2> HIDE DEF a
    <2>4. QED
      BY <2>2, <2>3 DEF l
  <1>11. f.node # 0 /\ r.node # 0 /\ r.family \in Versions /\ (r.owner # 0 => r.owner = f.node)
    <2>1. f = is[i] /\ r = rs[c]
      BY DEF f, r
    <2>2. f.node \in 1 .. m /\ r.node \in 1 .. m
      BY <1>1, <2>1 DEF Numbered
    <2>3. r.family \in Versions
      BY <1>2 DEF IpRoute
    <2>4. r.owner # 0 => r.owner = f.node
      BY <2>1 DEF FindsOwner
    <2>5. QED
      BY <2>2, <2>3, <2>4
  <1>12. g = js[i] /\ f = is[i] /\ r = rs[c] /\ t = ts[c]
    BY DEF f, g, r, t
  <1>13. ASSUME NEW x \in DOMAIN is
         PROVE  /\ js[x].node = is[x].node /\ js[x].index = is[x].index /\ js[x].family = is[x].family
                /\ js[x].addresses = is[x].addresses /\ (is[x].default # 0 => js[x].default # 0)
                /\ \A v \in Versions : \A k \in DOMAIN is[x].routes[v] :
                     k \in DOMAIN js[x].routes[v] /\ js[x].routes[v][k] = is[x].routes[v][k]
    <2>1. CASE x = i
      <3>1. js[x] = g /\ is[x] = f
        BY <1>12, <2>1
      <3>2. g.default = f.default \/ g.default = r.node
        BY <1>4
      <3>3. ASSUME NEW v \in Versions, NEW k \in DOMAIN f.routes[v]
            PROVE  k \in DOMAIN g.routes[v] /\ g.routes[v][k] = f.routes[v][k]
        BY <1>4, <1>10
      <3>4. QED
        BY <1>4, <1>11, <3>1, <3>2, <3>3
    <2>2. CASE x # i
      BY <1>8, <2>2
    <2>3. QED
      BY <2>1, <2>2
  <1>14. ASSUME NEW j \in DOMAIN rs
         PROVE  /\ ts[j].node = rs[j].node /\ ts[j].index = rs[j].index /\ ts[j].family = rs[j].family
                /\ ts[j].dst = rs[j].dst /\ (rs[j].owner # 0 => ts[j].owner = rs[j].owner)
    BY <1>6, <1>9, <1>11, <1>12
  <1>15. Numbered(js, ts, m)
    BY <1>8, <1>9, <1>13, <1>14, ZenonT(60) DEF Numbered
  <1>16. FindsOwner(js, ts)
    <2>1. \A index, family : Found(js, index, family) = Found(is, index, family)
      BY <1>8, <1>13 DEF Found
    <2> SUFFICES ASSUME NEW j \in DOMAIN ts, ts[j].owner # 0
                 PROVE  /\ Found(is, rs[j].index, rs[j].family) # {}
                        /\ js[First(Found(is, rs[j].index, rs[j].family))].node = ts[j].owner
      BY <1>9, <1>14, <2>1 DEF FindsOwner
    <2>2. CASE j = c
      BY <1>4, <1>6, <1>12, <2>2
    <2>3. CASE j # c
      <3> DEFINE x == First(Found(is, rs[j].index, rs[j].family))
      <3>1. Found(is, rs[j].index, rs[j].family) # {} /\ is[x].node = rs[j].owner /\ ts[j] = rs[j]
        BY <1>9, <2>3 DEF FindsOwner
      <3>2. x \in DOMAIN is
        <4>1. Found(is, rs[j].index, rs[j].family) \in SUBSET Nat
          BY DEF Found
        <4>2. x \in Found(is, rs[j].index, rs[j].family)
          BY <3>1, <4>1, FirstIsLeast
        <4>3. QED
          BY <4>2 DEF Found
      <3>3. QED
        BY <1>13, <3>1, <3>2
    <2>4. QED
      BY <2>2, <2>3
  <1>17. Listed(js, ts)
    <2> SUFFICES ASSUME NEW x \in DOMAIN js, NEW v \in Versions, NEW k \in DOMAIN js[x].routes[v]
                 PROVE  \E j \in DOMAIN ts : ts[j].family = v /\ ListsRoute(js[x], ts[j], k)
      BY DEF Listed
    <2>1. CASE x = i /\ v = r.family /\ k = Len(f.routes[r.family]) + 1
      <3>1. t.family = v /\ ListsRoute(g, t, k)
        BY <1>4, <1>6, <1>10, <1>11, <2>1 DEF ListsRoute
      <3>2. QED
        BY <1>9, <1>12, <2>1, <3>1
    <2>2. CASE k \in DOMAIN is[x].routes[v]
      <3>1. PICK j \in DOMAIN rs : rs[j].family = v /\ ListsRoute(is[x], rs[j], k)
        BY <1>8, <2>2 DEF Linked, Listed
      <3>2. rs[j].owner # 0
        BY <1>8, <3>1 DEF ListsRoute, Numbered
      <3>3. ts[j].family = v /\ ListsRoute(js[x], ts[j], k)
        BY <1>8, <1>13, <1>14, <2>2, <3>1, <3>2 DEF ListsRoute
      <3>4. QED
        BY <1>9, <3>3
    <2>3. k \in DOMAIN is[x].routes[v] \/ (x = i /\ v = r.family /\ k = Len(f.routes[r.family]) + 1)
      BY <1>4, <1>8, <1>10, <1>12, ZenonT(60)
    <2>4. QED
      BY <2>1, <2>2, <2>3
  <1>18. Defaults(js, ts)
    <2> SUFFICES ASSUME NEW x \in DOMAIN js, js[x].default # 0
                 PROVE  \E j \in DOMAIN ts : ts[j].node = js[x].default /\ ts[j].dst = "default"
                         /\ \E k \in DOMAIN js[x].routes["inet"] : js[x].routes["inet"][k] = js[x].default
      BY DEF Defaults
    <2>1. CASE x = i /\ r.dst = "default" /\ r.family = "inet"
      <3>1. /\ t.node = g.default /\ t.dst = "default"
            /\ \E k \in DOMAIN g.routes["inet"] : g.routes["inet"][k] = g.default
        BY <1>4, <1>6, <1>10, <2>1
      <3>2. QED
        BY <1>9, <1>12, <2>1, <3>1
    <2>2. CASE js[x].default = is[x].default
      <3>1. PICK j \in DOMAIN rs : rs[j].node = is[x].default /\ rs[j].dst = "default"
                         /\ \E k \in DOMAIN is[x].routes["inet"] : is[x].routes["inet"][k] = is[x].default
        BY <1>8, <2>2 DEF Linked, Defaults
      <3>2. "inet" \in Versions
        BY DEF Versions
      <3>3. \E k \in DOMAIN js[x].routes["inet"] : js[x].routes["inet"][k] = js[x].default
        BY <1>8, <1>13, <2>2, <3>1, <3>2
      <3>4. QED
        BY <1>9, <1>14, <2>2, <3>1, <3>3
    <2>3. js[x].default = is[x].default \/ (x = i /\ r.dst = "default" /\ r.family = "inet")
      BY <1>4, <1>8, <1>12
    <2>4. QED
      BY <2>1, <2>2, <2>3
  <1>19. Owned(js, ts)
    <2> SUFFICES ASSUME NEW j \in DOMAIN ts
                 PROVE  IF ts[j].owner = 0 THEN ts[j].source \in {"kernel", "none"}
                        ELSE ts[j].source # "none" /\ \E x \in DOMAIN js : Owns(js[x], ts[j])
      BY DEF Owned
    <2>1. CASE j = c
      <3>1. SourceOf(r, f) = "own" => f.addresses[r.family] # <<>>
        <4>1. CASE r.source = "own"
          <5>1. r.owner # 0
            BY <1>12, <4>1 DEF Linked, Owned
          <5>2. PICK x \in DOMAIN is : Owns(is[x], r)
            BY <1>12, <5>1 DEF Linked, Owned
          <5>3. x = i
            BY <1>1, <1>11, <1>12, <5>1, <5>2 DEF Owns, Numbered
          <5>4. QED
            BY <1>12, <4>1, <5>2, <5>3 DEF Owns
        <4>2. CASE r.source # "own"
          BY <4>2 DEF SourceOf
        <4>3. QED
          BY <4>1, <4>2
      <3>2. Owns(g, t)
        BY <1>4, <1>6, <1>10, <3>1 DEF Owns
      <3>3. t.source # "none" /\ t.owner # 0
        BY <1>5, <1>6, <1>11
      <3>4. QED
        BY <1>1, <1>8, <1>12, <2>1, <3>2, <3>3
    <2>2. CASE j # c
      <3>1. ts[j] = rs[j] /\ j \in DOMAIN rs
        BY <1>9, <2>2
      <3>2. CASE rs[j].owner = 0
        BY <3>1, <3>2 DEF Linked, Owned
      <3>3. CASE rs[j].owner # 0
        <4>1. rs[j].source # "none" /\ \E x \in DOMAIN is : Owns(is[x], rs[j])
          BY <3>1, <3>3 DEF Linked, Owned
        <4>2. PICK x \in DOMAIN is : Owns(is[x], rs[j])
          BY <4>1
        <4>3. rs[j].family \in Versions
          <5>1. rs[j] \in IpRoute
            BY <3>1
          <5>2. QED
            BY <5>1 DEF IpRoute
        <4>4. Owns(js[x], rs[j])
          BY <1>13, <4>2, <4>3 DEF Owns
        <4>5. QED
          BY <1>8, <3>1, <3>3, <4>1, <4>4
      <3>4. QED
        BY <3>2, <3>3
    <2>3. QED
      BY <2>1, <2>2
  <1>20. QED
    BY <1>8, <1>9, <1>15, <1>16, <1>17, <1>18, <1>19 DEF Linked, js, ts

-----------------------------------------------------------------------------
(* Messages                                                                *)

LEMMA MessageFields ==
  ASSUME NEW request \in Requests, NEW x \in Message(request)
  PROVE  x.type \in {"new", "done", "error", "other"} /\ (x.type = "new" => x.entry \in Table(request))
  <1>1. CASE \E e \in Table(request) : x = Entry(e)
    BY <1>1 DEF Entry
  <1>2. CASE \E t \in {"done", "error", "other"} : x = End(t)
    BY <1>2 DEF End
  <1>3. QED
    BY <1>1, <1>2 DEF Message

(* The entries before the first message that is none.                      *)
LEMMA EntriesTyped ==
  ASSUME NEW request \in Requests, NEW messages \in Seq(Message(request))
  PROVE  Entries(messages) \in Seq(Table(request))
  <1> DEFINE I == {i \in DOMAIN messages : \A j \in 1 .. i : messages[j].type = "new"}
             B == {i \in DOMAIN messages : messages[i].type # "new"}
             l == Len(messages)
  <1>1. l \in Nat /\ DOMAIN messages = 1 .. l
    OBVIOUS
  <1>2. \E n \in 0 .. l : I = 1 .. n
    <2>1. CASE B = {}
      <3>1. I = 1 .. l
        <4>1. \A i \in 1 .. l : messages[i].type = "new"
          BY <1>1, <2>1
        <4>2. I \subseteq 1 .. l
          BY <1>1
        <4>3. \A i \in 1 .. l : \A j \in 1 .. i : j \in 1 .. l
          BY <1>1
        <4>4. \A i \in 1 .. l : i \in I
          BY <1>1, <4>1, <4>3
        <4>5. QED
          BY <4>2, <4>4
      <3>2. QED
        BY <1>1, <3>1
    <2>2. CASE B # {}
      <3>1. PICK b \in B : \A y \in B : b <= y
        <4>1. B \in SUBSET Nat
          BY <1>1
        <4> HIDE DEF B
        <4>2. QED
          BY <2>2, <4>1, LeastExists
      <3>2. \A i \in 1 .. l : i < b => messages[i].type = "new"
        BY <1>1, <3>1
      <3>3. b \in 1 .. l /\ messages[b].type # "new"
        BY <1>1
      <3> HIDE DEF B
      <3>4. I \subseteq 1 .. b - 1
        <4> SUFFICES ASSUME NEW i \in I PROVE i \in 1 .. b - 1
          OBVIOUS
        <4>1. i \in 1 .. l /\ b \notin 1 .. i
          BY <1>1, <3>3
        <4>2. QED
          BY <1>1, <3>3, <4>1
      <3>5. 1 .. b - 1 \subseteq I
        <4> SUFFICES ASSUME NEW i \in 1 .. b - 1 PROVE i \in I
          OBVIOUS
        <4>1. i \in 1 .. l /\ \A j \in 1 .. i : j \in 1 .. l /\ j < b
          BY <1>1, <3>3
        <4>2. QED
          BY <1>1, <3>2, <4>1
      <3>6. I = 1 .. b - 1 /\ b - 1 \in 0 .. l
        BY <1>1, <3>3, <3>4, <3>5
      <3>7. QED
        BY <3>6
    <2>3. QED
      BY <2>1, <2>2
  <1>3. PICK n \in 0 .. l : I = 1 .. n
    BY <1>2
  <1>4. Cardinality(I) = n
    <2>1. n \in Nat
      BY <1>1
    <2> HIDE DEF I
    <2>2. Cardinality(1 .. n) = n
      BY <2>1, FS_Interval
    <2>3. QED
      BY <1>3, <2>2
  <1>5. \A i \in 1 .. n : messages[i].entry \in Table(request)
    <2> SUFFICES ASSUME NEW i \in 1 .. n
                 PROVE  messages[i].entry \in Table(request)
      OBVIOUS
    <2>1. i \in I /\ i \in 1 .. i
      BY <1>1, <1>3
    <2>2. messages[i].type = "new" /\ messages[i] \in Message(request)
      BY <2>1
    <2>3. QED
      BY <2>2, MessageFields
  <1>6. Entries(messages) = [i \in 1 .. n |-> messages[i].entry]
    <2> HIDE DEF I
    <2>1. Entries(messages) = [i \in 1 .. Cardinality(I) |-> messages[i].entry]
      BY DEF Entries, I
    <2>2. QED
      BY <1>4, <2>1
  <1>7. n \in Nat
    BY <1>1
  <1>8. QED
    <2> HIDE DEF I, l
    <2> QED
      BY <1>5, <1>6, <1>7

(* A reply ends with its end message.                                      *)
LEMMA ReplyEnds ==
  ASSUME NEW request \in Requests, NEW reply \in Replies(request)
  PROVE  reply \in Seq(Message(request)) /\ Ends(reply)
  <1> DEFINE M == Message(request)
  <1>1. /\ \A x \in Table(request) : Entry(x) \in M /\ ~IsEnd(Entry(x))
        /\ \A t \in {"done", "error", "other"} : End(t) \in M
        /\ IsEnd(End("done")) /\ IsEnd(End("error")) /\ ~IsEnd(End("other"))
    BY DEF Message, IsEnd, Entry, End
  <1>2. ASSUME NEW s \in SeqOf(Table(request), Sizes[request]), NEW t \in {"done", "error"},
               reply = Reply(s, t)
        PROVE  reply \in Seq(M) /\ Ends(reply)
    <2>1. Sizes[request] \in Nat
      BY NetworkAssumption
    <2>2. s \in Seq(Table(request))
      BY <2>1 DEF SeqOf
    <2> DEFINE e == [i \in DOMAIN s |-> Entry(s[i])]
               d == End(t)
    <2>3. /\ e \in Seq(M) /\ d \in M /\ IsEnd(d)
          /\ \A i \in DOMAIN e : ~IsEnd(e[i])
      <3> HIDE DEF M
      <3> QED
        BY <1>1, <2>2
    <2>4. reply = e \o <<d>>
      BY <1>2 DEF Reply
    <2> HIDE DEF e, d, M
    <2>5. /\ reply \in Seq(M) /\ Len(reply) = Len(e) + 1 /\ reply[Len(e) + 1] = d
          /\ \A i \in DOMAIN reply : i # Len(e) + 1 => i \in DOMAIN e /\ reply[i] = e[i]
      BY <2>3, <2>4
    <2>6. QED
      BY <2>3, <2>5 DEF Ends
  <1>3. ASSUME reply = <<End("other"), End("done")>>
        PROVE  reply \in Seq(M) /\ Ends(reply)
    <2> DEFINE a == End("other")
               b == End("done")
    <2>1. a \in M /\ b \in M /\ ~IsEnd(a) /\ IsEnd(b) /\ reply = <<a, b>>
      BY <1>1, <1>3
    <2> HIDE DEF M, a, b
    <2>2. reply \in Seq(M)
      BY <2>1
    <2>3. Len(reply) = 2 /\ reply[1] = a /\ reply[2] = b
      BY <2>1
    <2>4. reply # <<>> /\ \A i \in DOMAIN reply : i = 1 \/ i = 2
      BY <2>2, <2>3
    <2>5. \A i \in DOMAIN reply : IsEnd(reply[i]) <=> i = Len(reply)
      <3> SUFFICES ASSUME NEW i \in DOMAIN reply
                   PROVE  IsEnd(reply[i]) <=> i = 2
        BY <2>3
      <3>1. CASE i = 1
        BY <2>1, <2>3, <3>1
      <3>2. CASE i = 2
        BY <2>1, <2>3, <3>2
      <3>3. QED
        BY <2>4, <3>1, <3>2
    <2>6. QED
      BY <2>2, <2>4, <2>5 DEF Ends
  <1>4. QED
    <2> HIDE DEF M
    <2>1. \/ reply = <<End("other"), End("done")>>
          \/ \E s \in SeqOf(Table(request), Sizes[request]), t \in {"done", "error"} :
                reply = Reply(s, t)
      <3>1. \/ reply = <<End("other"), End("done")>>
            \/ \E s \in Listings(request), t \in {"done", "error"} : reply = Reply(s, t)
        BY DEF Replies
      <3>2. QED
        BY <3>1 DEF Listings
    <2>2. reply \in Seq(M) /\ Ends(reply)
      BY <1>2, <1>3, <2>1
    <2>3. QED
      BY <2>2 DEF M

(* The buffer b and the next k messages of the socket s: when the end of a *)
(* reply is among them, the socket is empty.                               *)
LEMMA Datagram ==
  ASSUME NEW request \in Requests, NEW b \in Seq(Message(request)), NEW s \in Seq(Message(request)),
         Ends(s), \A i \in DOMAIN b : ~IsEnd(b[i]), NEW k \in 1 .. Len(s)
  PROVE  LET m == b \o SubSeq(s, 1, k)
             r == SubSeq(s, k + 1, Len(s))
         IN  /\ m \in Seq(Message(request))
             /\ Complete(m) => r = <<>>
             /\ ~Complete(m) => /\ r \in Seq(Message(request)) /\ Ends(r)
                                /\ \A i \in DOMAIN m : ~IsEnd(m[i])
             /\ Complete(m) /\ Succeeds(m) => Last(s).type = "done"
  <1> DEFINE M == Message(request)
             a == SubSeq(s, 1, k)
             m == b \o a
             r == SubSeq(s, k + 1, Len(s))
             l == Len(s)
             n == Len(b)
  <1> HIDE DEF M
  <1>1. l \in Nat /\ k \in Nat /\ k <= l /\ k # 0 /\ DOMAIN s = 1 .. l /\ n \in Nat /\ DOMAIN b = 1 .. n
    BY DEF M
  <1>2. a \in Seq(M) /\ Len(a) = k /\ \A i \in 1 .. k : a[i] = s[i]
    BY DEF M
  <1>3. r \in Seq(M) /\ Len(r) = l - k /\ \A i \in 1 .. l - k : r[i] = s[k + i]
    BY DEF M
  <1>4. b \in Seq(M)
    BY DEF M
  <1> HIDE DEF a, r, l, n
  <1>5. /\ m \in Seq(M) /\ DOMAIN m = 1 .. n + k
        /\ \A i \in 1 .. n : m[i] = b[i]
        /\ \A i \in 1 .. k : m[n + i] = s[i]
    <2>1. m \in Seq(M) /\ Len(m) = n + k
      <3>1. m \in Seq(M) /\ Len(m) = Len(b) + Len(a)
        BY <1>2, <1>4
      <3> HIDE DEF m
      <3>2. QED
        BY <1>2, <3>1 DEF n
    <2>2. \A i \in 1 .. n : m[i] = b[i]
      BY <1>1, <1>2, <1>4 DEF n
    <2>3. ASSUME NEW i \in 1 .. k
          PROVE  m[n + i] = s[i]
      <3>1. n = Len(b) /\ Len(a) = k
        BY <1>2 DEF n
      <3>2. ASSUME NEW x \in 1 .. Len(b) + Len(a), x > Len(b)
            PROVE  m[x] = a[x - Len(b)]
        BY <1>2, <1>4, <3>2
      <3>3. n + i \in 1 .. Len(b) + Len(a) /\ n + i > Len(b) /\ (n + i) - Len(b) = i
        BY <1>1, <3>1
      <3>4. m[n + i] = a[i]
        BY <3>2, <3>3
      <3>5. QED
        BY <1>2, <3>4
    <2> HIDE DEF m
    <2>4. QED
      BY <1>1, <2>1, <2>2, <2>3
  <1> HIDE DEF m
  <1>6. \A i \in 1 .. l : IsEnd(s[i]) <=> i = l
    BY <1>1 DEF Ends, l
  <1>7. \A i \in 1 .. n + k : IsEnd(m[i]) <=> (k = l /\ i = n + l)
    <2> SUFFICES ASSUME NEW i \in 1 .. n + k
                 PROVE  IsEnd(m[i]) <=> (k = l /\ i = n + l)
      OBVIOUS
    <2>1. CASE i \in 1 .. n
      <3>1. ~IsEnd(m[i])
        BY <1>1, <1>5, <2>1
      <3>2. i # n + l
        BY <1>1, <2>1
      <3>3. QED
        BY <3>1, <3>2
    <2>2. CASE i \notin 1 .. n
      <3>1. i - n \in 1 .. k /\ n + (i - n) = i /\ i - n \in 1 .. l
        BY <1>1, <2>2
      <3>2. m[i] = s[i - n]
        BY <1>5, <3>1
      <3>3. IsEnd(m[i]) <=> i - n = l
        BY <1>6, <3>1, <3>2
      <3>4. i - n = l <=> (k = l /\ i = n + l)
        BY <1>1, <3>1
      <3>5. QED
        BY <3>3, <3>4
    <2>3. QED
      BY <2>1, <2>2
  <1>8. ASSUME Complete(m)
        PROVE  r = <<>> /\ k = l
    <2>1. PICK i \in DOMAIN m : IsEnd(m[i])
      BY <1>8 DEF Complete, IsEnd
    <2>2. k = l
      BY <1>5, <1>7, <2>1
    <2>3. QED
      BY <1>1, <1>3, <2>2
  <1>9. ASSUME ~Complete(m)
        PROVE  Ends(r) /\ \A i \in DOMAIN m : ~IsEnd(m[i])
    <2>1. \A i \in DOMAIN m : ~IsEnd(m[i])
      BY <1>9 DEF Complete, IsEnd
    <2>2. k # l
      <3>1. n + k \in DOMAIN m /\ n + k \in 1 .. n + k
        BY <1>1, <1>5
      <3>2. QED
        BY <1>7, <2>1, <3>1
    <2>3. DOMAIN r = 1 .. l - k /\ r # <<>>
      BY <1>1, <1>3, <2>2
    <2>4. ASSUME NEW i \in 1 .. l - k
          PROVE  IsEnd(r[i]) <=> i = Len(r)
      <3>1. k + i \in 1 .. l /\ (k + i = l <=> i = l - k)
        BY <1>1
      <3>2. r[i] = s[k + i]
        BY <1>3
      <3>3. QED
        BY <1>3, <1>6, <3>1, <3>2
    <2>5. QED
      BY <2>1, <2>3, <2>4 DEF Ends
  <1>10. ASSUME Complete(m), Succeeds(m)
         PROVE  Last(s).type = "done"
    <2>1. PICK i \in DOMAIN m : m[i].type = "done"
      BY <1>10 DEF Succeeds
    <2>2. IsEnd(m[i])
      BY <2>1 DEF IsEnd
    <2>3. k = l /\ i = n + l
      BY <1>5, <1>7, <2>2
    <2>4. l \in 1 .. k /\ m[i] = s[l]
      BY <1>1, <1>5, <2>3
    <2>5. QED
      BY <2>1, <2>4 DEF Last, l
  <1>11. QED
    BY <1>3, <1>5, <1>8, <1>9, <1>10 DEF M, a, m, r, l

-----------------------------------------------------------------------------
(* What the parsers make of the entries                                    *)

Parsed(is, rs, m) ==
  /\ is \in Seq(Interface) /\ rs \in Seq(IpRoute) /\ m \in Nat
  /\ Numbered(is, rs, m) /\ Unlinked(is, rs)

(* The three parsers leave lists that are numbered and not linked.         *)
LEMMA LinksParsed ==
  ASSUME NEW entries \in Seq(Links), ParseLinks(entries),
         interfaceFamily \in Families, interfaces = <<>>, routes = <<>>, made \in Nat
  PROVE  Parsed(interfaces', routes', made') /\ routes' = <<>>
  <1> DEFINE wanted == Kept(entries, {l \in Links : l.listed})
             new == [i \in DOMAIN wanted |-> NewInterface(wanted[i], made + i)]
             n == Len(wanted)
  <1>1. wanted \in Seq(Links)
    <2>1. wanted \in Seq(Links \cap {l \in Links : l.listed})
      BY KeptElements DEF Selection
    <2>2. Links \cap {l \in Links : l.listed} \subseteq Links
      OBVIOUS
    <2> HIDE DEF wanted
    <2>3. QED
      BY <2>1, <2>2
  <1>2. interfaces' = <<>> \o new /\ made' = made + n /\ routes' = <<>>
    BY DEF ParseLinks
  <1> HIDE DEF wanted
  <1>3. n \in Nat /\ DOMAIN wanted = 1 .. n
    BY <1>1
  <1>4. ASSUME NEW i \in 1 .. n
        PROVE  /\ NewInterface(wanted[i], made + i) \in Interface
               /\ NewInterface(wanted[i], made + i).node = made + i
               /\ NewInterface(wanted[i], made + i).routes = [v \in Versions |-> <<>>]
               /\ NewInterface(wanted[i], made + i).default = 0
    <2>1. wanted[i] \in Links
      BY <1>1, <1>3
    <2>2. wanted[i].index \in Nat /\ made + i \in Nat
      BY <1>3, <2>1, NetworkAssumption
    <2>3. /\ [inet |-> <<>>, inet6 |-> <<>>] = [v \in Versions |-> <<>>]
          /\ [v \in Versions |-> <<>>] \in [Versions -> Seq(Nat)]
          /\ [v \in Versions |-> <<>>] \in [Versions -> Seq(Addresses)]
      BY DEF Versions
    <2>4. QED
      BY <2>2, <2>3 DEF NewInterface, Interface, Families
  <1>5. /\ new \in Seq(Interface) /\ DOMAIN new = 1 .. n
        /\ \A i \in 1 .. n : new[i].node = made + i /\ new[i].routes = [v \in Versions |-> <<>>]
                             /\ new[i].default = 0
    BY <1>3, <1>4
  <1> HIDE DEF new
  <1>6. interfaces' = new
    BY <1>2, <1>5
  <1> HIDE DEF n
  <1>7. Numbered(interfaces', routes', made')
    <2>1. \A i \in 1 .. n : made + i \in 1 .. made + n
      BY <1>3
    <2>2. \A i, j \in 1 .. n : made + i = made + j => i = j
      BY <1>3
    <2>3. DOMAIN routes' = {}
      BY <1>2
    <2>4. QED
      BY <1>2, <1>5, <1>6, <2>1, <2>2, <2>3 DEF Numbered
  <1>8. Unlinked(interfaces', routes')
    BY <1>2, <1>5, <1>6 DEF Unlinked
  <1>9. made' \in Nat /\ routes' \in Seq(IpRoute)
    BY <1>2, <1>3
  <1>10. QED
    BY <1>2, <1>5, <1>6, <1>7, <1>8, <1>9 DEF Parsed

LEMMA AddressesParsed ==
  ASSUME NEW entries \in Seq(Addresses), ParseAddresses(entries), Parsed(interfaces, routes, made)
  PROVE  Parsed(interfaces', routes', made') /\ routes' = routes
  <1>1. /\ interfaces' = [i \in DOMAIN interfaces |-> Enriched(i, entries)]
        /\ routes' = routes /\ made' = made
    BY DEF ParseAddresses
  <1>2. ASSUME NEW i \in DOMAIN interfaces
        PROVE  /\ Enriched(i, entries) \in Interface
               /\ Enriched(i, entries).node = interfaces[i].node
               /\ Enriched(i, entries).routes = interfaces[i].routes
               /\ Enriched(i, entries).default = interfaces[i].default
    <2> DEFINE f == interfaces[i]
               all == [family \in Versions |-> f.addresses[family] \o Kept(entries, OwnAddresses(i, family))]
    <2>1. f \in Interface
      BY DEF Parsed
    <2>2. ASSUME NEW family \in Versions
          PROVE  f.addresses[family] \o Kept(entries, OwnAddresses(i, family)) \in Seq(Addresses)
      <3> DEFINE kept == Kept(entries, OwnAddresses(i, family))
      <3>1. kept \in Seq(Addresses \cap OwnAddresses(i, family))
        BY KeptElements DEF Selection
      <3>2. Addresses \cap OwnAddresses(i, family) \subseteq Addresses
        OBVIOUS
      <3>3. f.addresses[family] \in Seq(Addresses)
        BY <2>1 DEF Interface
      <3> HIDE DEF kept, f
      <3>4. kept \in Seq(Addresses)
        BY <3>1, <3>2
      <3>5. f.addresses[family] \o kept \in Seq(Addresses)
        BY <3>3, <3>4
      <3>6. QED
        BY <3>5 DEF kept
    <2>3. all \in [Versions -> Seq(Addresses)]
      BY <2>2
    <2>4. Enriched(i, entries) = [f EXCEPT !.addresses = all]
      BY DEF Enriched, Versions
    <2> HIDE DEF all, f
    <2>5. /\ [f EXCEPT !.addresses = all] \in Interface
          /\ [f EXCEPT !.addresses = all].node = f.node
          /\ [f EXCEPT !.addresses = all].routes = f.routes
          /\ [f EXCEPT !.addresses = all].default = f.default
      BY <2>1, <2>3 DEF Interface
    <2>6. f = interfaces[i]
      BY DEF f
    <2>7. QED
      BY <2>4, <2>5, <2>6
  <1>3. /\ interfaces' \in Seq(Interface) /\ DOMAIN interfaces' = DOMAIN interfaces
        /\ \A i \in DOMAIN interfaces : interfaces'[i] = Enriched(i, entries)
    <2>1. interfaces \in Seq(Interface)
      BY DEF Parsed
    <2>2. DOMAIN interfaces = 1 .. Len(interfaces) /\ Len(interfaces) \in Nat
      BY <2>1
    <2>3. QED
      BY <1>1, <1>2, <2>2
  <1>4. Numbered(interfaces', routes', made')
    BY <1>1, <1>2, <1>3, SMTT(30) DEF Numbered, Parsed
  <1>5. Unlinked(interfaces', routes')
    BY <1>1, <1>2, <1>3 DEF Unlinked, Parsed
  <1>6. QED
    BY <1>1, <1>3, <1>4, <1>5 DEF Parsed

LEMMA RoutesParsed ==
  ASSUME NEW entries \in Seq(Routes), ParseRoutes(entries), Parsed(interfaces, routes, made), routes = <<>>
  PROVE  Parsed(interfaces', routes', made')
  <1> DEFINE set == {r \in Routes : OfFamily(r) /\ r.dst # "prohibited"}
             wanted == Kept(entries, set)
             new == [i \in DOMAIN wanted |-> NewRoute(wanted[i], made + i)]
             n == Len(wanted)
  <1>1. wanted \in Seq(set)
    <2>1. wanted \in Seq(Routes \cap set)
      BY KeptElements DEF Selection
    <2>2. Routes \cap set \subseteq set
      OBVIOUS
    <2> HIDE DEF wanted, set
    <2>3. QED
      BY <2>1, <2>2
  <1>2. routes' = <<>> \o new /\ made' = made + n /\ interfaces' = interfaces
    BY DEF ParseRoutes
  <1>3. made \in Nat
    BY DEF Parsed
  <1> HIDE DEF wanted
  <1>4. n \in Nat /\ DOMAIN wanted = 1 .. n
    BY <1>1
  <1>5. ASSUME NEW i \in 1 .. n
        PROVE  /\ NewRoute(wanted[i], made + i) \in IpRoute
               /\ NewRoute(wanted[i], made + i).node = made + i
               /\ NewRoute(wanted[i], made + i).owner = 0
               /\ NewRoute(wanted[i], made + i).source \in {"kernel", "none"}
    <2>1. wanted[i] \in Routes /\ wanted[i].dst # "prohibited"
      BY <1>1, <1>4
    <2>2. /\ wanted[i].index \in Nat /\ wanted[i].family \in Versions /\ made + i \in Nat
          /\ wanted[i].priority \in Nat /\ wanted[i].dst \in {"default", "match", "other"}
      BY <1>3, <1>4, <2>1, NetworkAssumption DEF Versions
    <2>3. QED
      BY <2>2 DEF NewRoute, IpRoute
  <1>6. /\ new \in Seq(IpRoute) /\ DOMAIN new = 1 .. n
        /\ \A i \in 1 .. n : new[i].node = made + i /\ new[i].owner = 0 /\ new[i].source \in {"kernel", "none"}
    BY <1>4, <1>5
  <1> HIDE DEF new
  <1>7. routes' = new
    BY <1>2, <1>6
  <1> HIDE DEF n
  <1>8. Numbered(interfaces', routes', made')
    <2>1. \A i \in 1 .. n : made + i \in 1 .. made + n
      BY <1>3, <1>4
    <2>2. \A i, j \in 1 .. n : made + i = made + j => i = j
      BY <1>3, <1>4
    <2>3. \A x \in 1 .. made : x \in 1 .. made + n
      BY <1>3, <1>4
    <2>4. \A i \in DOMAIN interfaces : interfaces[i].node \in 1 .. made
      BY DEF Parsed, Numbered
    <2>5. \A i, q \in DOMAIN interfaces : interfaces[i].node = interfaces[q].node => i = q
      BY DEF Parsed, Numbered
    <2>6. QED
      BY <1>2, <1>6, <1>7, <2>1, <2>2, <2>3, <2>4, <2>5 DEF Numbered
  <1>9. Unlinked(interfaces', routes')
    BY <1>2, <1>6, <1>7 DEF Unlinked, Parsed
  <1>10. made' \in Nat
    BY <1>2, <1>3, <1>4
  <1>11. QED
    BY <1>2, <1>6, <1>7, <1>8, <1>9, <1>10 DEF Parsed

-----------------------------------------------------------------------------
(* What a round of a lookup finds                                          *)

LEMMA Priorities ==
  ASSUME routes \in Seq(IpRoute), NEW m, Numbered(interfaces, routes, m)
  PROVE  /\ \A j \in DOMAIN routes : /\ Live(routes[j].node) /\ Route(routes[j].node) = routes[j]
                                     /\ Priority(routes[j].node) = routes[j].priority
         /\ \A n : Priority(n) \in Nat
  <1>1. ASSUME NEW j \in DOMAIN routes
        PROVE  Live(routes[j].node) /\ Route(routes[j].node) = routes[j]
    <2> DEFINE q == CHOOSE i \in DOMAIN routes : routes[i].node = routes[j].node
    <2>1. q \in DOMAIN routes /\ routes[q].node = routes[j].node
      OBVIOUS
    <2>2. q = j
      <3> HIDE DEF q
      <3> QED
        BY <2>1 DEF Numbered
    <2>3. Route(routes[j].node) = routes[q]
      BY DEF Route
    <2> HIDE DEF q
    <2>4. QED
      BY <2>2, <2>3 DEF Live
  <1>2. ASSUME NEW n, Live(n)
        PROVE  Priority(n) \in Nat
    <2>1. PICK j \in DOMAIN routes : routes[j].node = n
      BY <1>2 DEF Live
    <2>2. Route(n) = routes[j] /\ routes[j] \in IpRoute
      BY <1>1, <2>1
    <2>3. QED
      BY <1>2, <2>2 DEF Priority, IpRoute
  <1>3. ASSUME NEW n, ~Live(n)
        PROVE  Priority(n) \in Nat
    BY <1>3 DEF Priority
  <1>4. QED
    BY <1>1, <1>2, <1>3 DEF Priority

(* Best finds the least priority among the pointers that are not null.     *)
LEMMA BestIsLeast ==
  ASSUME NEW numbers \in Seq(Nat), \A n : Priority(n) \in Nat
  PROVE  /\ Best(numbers) \in Nat
         /\ Best(numbers) = 0 => \A i \in DOMAIN numbers : numbers[i] = 0
         /\ Best(numbers) # 0 =>
              /\ \E i \in DOMAIN numbers : Best(numbers) = numbers[i]
              /\ \A i \in DOMAIN numbers : numbers[i] # 0 => Priority(Best(numbers)) <= Priority(numbers[i])
  <1> DEFINE P(n) == Priority(n)
             some == {i \in DOMAIN numbers : numbers[i] # 0}
             least == {i \in some : \A j \in some : P(numbers[i]) <= P(numbers[j])}
  <1>1. Best(numbers) = IF some = {} THEN 0 ELSE numbers[First(least)]
    BY DEF Best
  <1>2. DOMAIN numbers \subseteq Nat /\ \A i \in DOMAIN numbers : numbers[i] \in Nat
    OBVIOUS
  <1>3. \A n : P(n) \in Nat
    OBVIOUS
  <1>4. CASE some = {}
    BY <1>1, <1>4
  <1>5. CASE some # {}
    <2> DEFINE T == {P(numbers[i]) : i \in some}
    <2>1. PICK x \in T : \A y \in T : x <= y
      <3>1. T \in SUBSET Nat /\ T # {}
        BY <1>3, <1>5
      <3> HIDE DEF T
      <3>2. QED
        BY <3>1, LeastExists
    <2>2. PICK i \in some : P(numbers[i]) = x
      BY <2>1
    <2>3. i \in least
      <3> HIDE DEF P
      <3> QED
        BY <2>1, <2>2
    <2>4. least \in SUBSET Nat /\ least # {}
      BY <1>2, <2>3
    <2> DEFINE b == First(least)
    <2>5. b \in least
      <3> HIDE DEF least
      <3> QED
        BY <2>4, FirstIsLeast
    <2> HIDE DEF P, b
    <2>6. /\ b \in DOMAIN numbers /\ numbers[b] # 0
          /\ \A j \in DOMAIN numbers : numbers[j] # 0 => P(numbers[b]) <= P(numbers[j])
      BY <2>5
    <2>7. Best(numbers) = numbers[b]
      BY <1>1, <1>5 DEF b
    <2>8. QED
      BY <1>2, <2>6, <2>7 DEF P
  <1>6. QED
    BY <1>4, <1>5

Subsequence(t, s, set) ==
  /\ t \in Seq(Nat)
  /\ \A k \in DOMAIN t : t[k] \in set /\ \E i \in DOMAIN s : s[i] = t[k]
  /\ \A i \in DOMAIN s : s[i] \in set => \E k \in DOMAIN t : t[k] = s[i]

(* The same of numbers.                                                    *)
LEMMA KeptOf ==
  ASSUME NEW s, s \in Seq(Nat), NEW set
  PROVE  Subsequence(Kept(s, set), s, set)
  <1> DEFINE S == {s[i] : i \in DOMAIN s}
             t == Kept(s, set)
  <1>1. s \in Seq(S) /\ S \subseteq Nat
    OBVIOUS
  <1> HIDE DEF S
  <1>2. Selection(t, s, S, set)
    BY <1>1, KeptElements
  <1> HIDE DEF t
  <1>3. t \in Seq(S \cap set)
    BY <1>2 DEF Selection
  <1>4. t \in Seq(Nat) /\ \A k \in DOMAIN t : t[k] \in S /\ t[k] \in set
    <2>1. Len(t) \in Nat /\ DOMAIN t = 1 .. Len(t) /\ \A k \in 1 .. Len(t) : t[k] \in S \cap set
      BY <1>3
    <2>2. t = [k \in 1 .. Len(t) |-> t[k]] /\ \A k \in 1 .. Len(t) : t[k] \in Nat
      BY <1>1, <1>3, <2>1
    <2>3. QED
      BY <2>1, <2>2
  <1>5. QED
    BY <1>2, <1>4 DEF Selection, Subsequence, S, t

(* The candidates are the routes of the interfaces that match.             *)
LEMMA CandidatesAre ==
  ASSUME interfaces \in Seq(Interface), routes \in Seq(IpRoute), NEW m \in Nat,
         Numbered(interfaces, routes, m), Linked(interfaces, routes)
  PROVE  /\ Candidates \in Seq(Nat)
         /\ \A k \in DOMAIN Candidates : \E j \in DOMAIN routes :
              routes[j].node = Candidates[k] /\ Routed(routes[j]) /\ routes[j].dst = "match"
         /\ \A j \in DOMAIN routes : Routed(routes[j]) /\ routes[j].dst = "match" =>
              \E k \in DOMAIN Candidates : Candidates[k] = routes[j].node
  <1> DEFINE seqs == [i \in DOMAIN interfaces |-> interfaces[i].routes["inet"]]
             flat == FlattenSeq(seqs)
             set  == {routes[i].node : i \in {i \in DOMAIN routes : routes[i].dst = "match"}}
  <1>1. Candidates = Kept(flat, set)
    BY DEF Candidates
  <1>2. seqs \in Seq(Seq(Nat))
    <2>1. ASSUME NEW i \in DOMAIN interfaces
          PROVE  interfaces[i].routes["inet"] \in Seq(Nat)
      <3>1. interfaces[i] \in Interface
        OBVIOUS
      <3>2. QED
        BY <3>1 DEF Interface, Versions
    <2>2. DOMAIN interfaces = 1 .. Len(interfaces) /\ Len(interfaces) \in Nat
      OBVIOUS
    <2> DEFINE T == Seq(Nat)
    <2>3. \A i \in 1 .. Len(interfaces) : seqs[i] \in T
      BY <2>1, <2>2
    <2>4. seqs \in Seq(T)
      <3>1. seqs = [i \in 1 .. Len(interfaces) |-> seqs[i]]
        BY <2>2
      <3> HIDE DEF seqs, T
      <3>2. QED
        BY <2>2, <2>3, <3>1
    <2>5. QED
      BY <2>4
  <1>3. DOMAIN seqs = DOMAIN interfaces /\ \A i \in DOMAIN interfaces : seqs[i] = interfaces[i].routes["inet"]
    OBVIOUS
  <1> HIDE DEF seqs
  <1>4. /\ flat \in Seq(Nat)
        /\ \A i \in DOMAIN seqs : \A k \in DOMAIN seqs[i] : \E j \in DOMAIN flat : flat[j] = seqs[i][k]
        /\ \A j \in DOMAIN flat : \E i \in DOMAIN seqs : \E k \in DOMAIN seqs[i] : seqs[i][k] = flat[j]
    BY <1>2, FlattenElements
  <1> HIDE DEF flat
  <1>5. /\ Kept(flat, set) \in Seq(Nat)
        /\ \A k \in DOMAIN Kept(flat, set) :
             Kept(flat, set)[k] \in set /\ \E i \in DOMAIN flat : flat[i] = Kept(flat, set)[k]
        /\ \A i \in DOMAIN flat : flat[i] \in set => \E k \in DOMAIN Kept(flat, set) : Kept(flat, set)[k] = flat[i]
    <2> HIDE DEF set
    <2>1. Subsequence(Kept(flat, set), flat, set)
      BY <1>4, KeptOf
    <2>2. QED
      BY <2>1 DEF Subsequence
  <1>6. ASSUME NEW k \in DOMAIN Candidates
        PROVE  \E j \in DOMAIN routes :
                 routes[j].node = Candidates[k] /\ Routed(routes[j]) /\ routes[j].dst = "match"
    <2>1. Candidates[k] \in set /\ \E x \in DOMAIN flat : flat[x] = Candidates[k]
      <3> HIDE DEF set
      <3> QED
        BY <1>1, <1>5
    <2>2. PICK x \in DOMAIN flat : flat[x] = Candidates[k]
      BY <2>1
    <2>3. PICK i \in DOMAIN seqs : \E y \in DOMAIN seqs[i] : seqs[i][y] = flat[x]
      BY <1>4
    <2>4. PICK y \in DOMAIN seqs[i] : seqs[i][y] = flat[x]
      BY <2>3
    <2>5. i \in DOMAIN interfaces /\ y \in DOMAIN interfaces[i].routes["inet"]
          /\ interfaces[i].routes["inet"][y] = Candidates[k]
      BY <1>3, <2>2, <2>4
    <2>6. PICK j \in DOMAIN routes : routes[j].family = "inet" /\ ListsRoute(interfaces[i], routes[j], y)
      BY <2>5 DEF Linked, Listed, Versions
    <2>7. routes[j].node = Candidates[k] /\ Routed(routes[j])
      BY <2>5, <2>6 DEF ListsRoute, Routed, Numbered
    <2>8. PICK q \in DOMAIN routes : routes[q].dst = "match" /\ routes[q].node = Candidates[k]
      BY <2>1
    <2>9. q = j
      BY <2>7, <2>8 DEF Numbered
    <2>10. QED
      BY <2>7, <2>8, <2>9
  <1>7. ASSUME NEW j \in DOMAIN routes, Routed(routes[j]), routes[j].dst = "match"
        PROVE  \E k \in DOMAIN Candidates : Candidates[k] = routes[j].node
    <2>1. PICK i \in DOMAIN interfaces : Owns(interfaces[i], routes[j])
      BY <1>7 DEF Linked, Owned, Routed
    <2>2. PICK y \in DOMAIN interfaces[i].routes["inet"] : interfaces[i].routes["inet"][y] = routes[j].node
      BY <1>7, <2>1 DEF Owns, Routed
    <2>3. PICK x \in DOMAIN flat : flat[x] = routes[j].node
      BY <1>3, <1>4, <2>2
    <2>4. flat[x] \in set
      BY <1>7, <2>3
    <2> HIDE DEF set
    <2>5. QED
      BY <1>1, <1>5, <2>3, <2>4
  <1>8. QED
    BY <1>1, <1>5, <1>6, <1>7

(* An element in front of a sequence.                                      *)
LEMMA Prepended ==
  ASSUME NEW x \in Nat, NEW b \in Seq(Nat)
  PROVE  LET s == <<x>> \o b
         IN  /\ s \in Seq(Nat)
             /\ \A i \in DOMAIN s : s[i] = x \/ \E j \in DOMAIN b : s[i] = b[j]
             /\ \A j \in DOMAIN b : \E i \in DOMAIN s : s[i] = b[j]
  <1> DEFINE a == <<x>>
             s == a \o b
             n == Len(b)
  <1>1. a \in Seq(Nat) /\ Len(a) = 1 /\ a[1] = x
    OBVIOUS
  <1>2. n \in Nat /\ DOMAIN b = 1 .. n
    OBVIOUS
  <1> HIDE DEF a
  <1>3. /\ s \in Seq(Nat) /\ DOMAIN s = 1 .. 1 + n
        /\ s[1] = x /\ \A i \in 1 .. 1 + n : i > 1 => s[i] = b[i - 1]
    <2>1. /\ s \in Seq(Nat) /\ Len(s) = Len(a) + Len(b)
          /\ \A i \in 1 .. Len(a) + Len(b) : s[i] = IF i <= Len(a) THEN a[i] ELSE b[i - Len(a)]
      BY <1>1, ConcatProperties
    <2> HIDE DEF s
    <2>2. Len(s) = 1 + n /\ \A i \in 1 .. 1 + n : s[i] = IF i <= 1 THEN a[i] ELSE b[i - 1]
      BY <1>1, <2>1
    <2>3. 1 \in 1 .. 1 + n /\ DOMAIN s = 1 .. Len(s)
      BY <1>2, <2>1
    <2>4. s[1] = x
      BY <1>1, <2>2, <2>3
    <2>5. ASSUME NEW i \in 1 .. 1 + n, i > 1
          PROVE  s[i] = b[i - 1]
      BY <2>2, <2>5
    <2>6. QED
      BY <2>1, <2>2, <2>3, <2>4, <2>5
  <1> HIDE DEF s, n
  <1>4. \A i \in DOMAIN s : s[i] = x \/ \E j \in DOMAIN b : s[i] = b[j]
    <2> SUFFICES ASSUME NEW i \in DOMAIN s, s[i] # x PROVE \E j \in DOMAIN b : s[i] = b[j]
      OBVIOUS
    <2>1. i \in 1 .. 1 + n /\ i # 1
      BY <1>3
    <2>2. i > 1 /\ i - 1 \in 1 .. n
      BY <1>2, <2>1
    <2>3. i - 1 \in DOMAIN b /\ s[i] = b[i - 1]
      BY <1>2, <1>3, <2>1, <2>2
    <2>4. QED
      BY <2>3
  <1>5. \A j \in DOMAIN b : \E i \in DOMAIN s : s[i] = b[j]
    <2> SUFFICES ASSUME NEW j \in DOMAIN b PROVE \E i \in DOMAIN s : s[i] = b[j]
      OBVIOUS
    <2>1. j + 1 \in DOMAIN s /\ (j + 1) - 1 = j /\ s[j + 1] = b[(j + 1) - 1]
      BY <1>2, <1>3, SMTT(30)
    <2>2. QED
      BY <2>1
  <1>6. QED
    BY <1>3, <1>4, <1>5 DEF a, s

(* The default route of a lookup is the best that an interface has.        *)
LEMMA DefaultsAre ==
  ASSUME interfaces \in Seq(Interface), routes \in Seq(IpRoute), NEW m \in Nat,
         Numbered(interfaces, routes, m), best \in Nat,
         best = 0 \/ \E i \in DOMAIN interfaces : best = interfaces[i].default
  PROVE  /\ DefaultRoute \in Nat
         /\ DefaultRoute = 0 => \A i \in DOMAIN interfaces : interfaces[i].default = 0
         /\ DefaultRoute # 0 =>
              /\ \E i \in DOMAIN interfaces : DefaultRoute = interfaces[i].default
              /\ \A i \in DOMAIN interfaces : interfaces[i].default # 0 =>
                   Priority(DefaultRoute) <= Priority(interfaces[i].default)
  <1> DEFINE a == <<best>>
             b == [i \in DOMAIN interfaces |-> interfaces[i].default]
             numbers == a \o b
  <1>1. /\ b \in Seq(Nat) /\ DOMAIN b = DOMAIN interfaces
        /\ \A i \in DOMAIN interfaces : b[i] = interfaces[i].default
    <2>1. ASSUME NEW i \in DOMAIN interfaces
          PROVE  interfaces[i].default \in Nat
      <3>1. interfaces[i] \in Interface
        OBVIOUS
      <3>2. QED
        BY <3>1 DEF Interface
    <2>2. DOMAIN interfaces = 1 .. Len(interfaces) /\ Len(interfaces) \in Nat
      OBVIOUS
    <2>3. QED
      BY <2>1, <2>2
  <1>2. DefaultRoute = Best(numbers)
    BY DEF DefaultRoute
  <1> HIDE DEF a, b
  <1>3. /\ numbers \in Seq(Nat)
        /\ \A i \in DOMAIN numbers : numbers[i] = best \/ \E j \in DOMAIN b : numbers[i] = b[j]
        /\ \A j \in DOMAIN b : \E i \in DOMAIN numbers : numbers[i] = b[j]
    <2>1. numbers = <<best>> \o b
      BY DEF a
    <2> HIDE DEF numbers
    <2>2. QED
      BY <1>1, <2>1, Prepended
  <1> HIDE DEF numbers
  <1>4. \A n : Priority(n) \in Nat
    BY Priorities
  <1>5. /\ Best(numbers) \in Nat
        /\ Best(numbers) = 0 => \A i \in DOMAIN numbers : numbers[i] = 0
        /\ Best(numbers) # 0 =>
             /\ \E i \in DOMAIN numbers : Best(numbers) = numbers[i]
             /\ \A i \in DOMAIN numbers : numbers[i] # 0 => Priority(Best(numbers)) <= Priority(numbers[i])
    BY <1>3, <1>4, BestIsLeast
  <1>6. DefaultRoute = 0 => \A i \in DOMAIN interfaces : interfaces[i].default = 0
    BY <1>1, <1>2, <1>3, <1>5
  <1>7. ASSUME DefaultRoute # 0
        PROVE  \E i \in DOMAIN interfaces : DefaultRoute = interfaces[i].default
    <2>1. PICK x \in DOMAIN numbers : DefaultRoute = numbers[x]
      BY <1>2, <1>5, <1>7
    <2>2. CASE \E j \in DOMAIN b : numbers[x] = b[j]
      BY <1>1, <2>1, <2>2
    <2>3. CASE numbers[x] = best
      BY <1>7, <2>1, <2>3
    <2>4. QED
      BY <1>3, <2>2, <2>3
  <1>8. ASSUME DefaultRoute # 0, NEW i \in DOMAIN interfaces, interfaces[i].default # 0
        PROVE  Priority(DefaultRoute) <= Priority(interfaces[i].default)
    BY <1>1, <1>2, <1>3, <1>5, <1>8, ZenonT(60)
  <1>9. QED
    BY <1>2, <1>5, <1>6, <1>7, <1>8

(* A round over the linked lists that finds something answers the lookup.  *)
LEMMA RoundAnswers ==
  ASSUME interfaces \in Seq(Interface), routes \in Seq(IpRoute), NEW m \in Nat,
         Numbered(interfaces, routes, m), Linked(interfaces, routes), best \in Nat,
         best = 0 \/ \E i \in DOMAIN interfaces : best = interfaces[i].default
  PROVE  /\ NotImplemented \/ NothingFound => Answered(interfaces, routes, call.ip, 0)
         /\ ~NothingFound => Answered(interfaces, routes, call.ip,
                                      IF Candidates = <<>> THEN DefaultRoute ELSE Best(Candidates))
  <1>1. /\ \A j \in DOMAIN routes : Priority(routes[j].node) = routes[j].priority
        /\ \A n : Priority(n) \in Nat
    BY Priorities
  <1>2. /\ Candidates \in Seq(Nat)
        /\ \A k \in DOMAIN Candidates : \E j \in DOMAIN routes :
             routes[j].node = Candidates[k] /\ Routed(routes[j]) /\ routes[j].dst = "match"
        /\ \A j \in DOMAIN routes : Routed(routes[j]) /\ routes[j].dst = "match" =>
             \E k \in DOMAIN Candidates : Candidates[k] = routes[j].node
    BY CandidatesAre
  <1>3. /\ DefaultRoute = 0 => \A i \in DOMAIN interfaces : interfaces[i].default = 0
        /\ DefaultRoute # 0 =>
             /\ \E i \in DOMAIN interfaces : DefaultRoute = interfaces[i].default
             /\ \A i \in DOMAIN interfaces : interfaces[i].default # 0 =>
                  Priority(DefaultRoute) <= Priority(interfaces[i].default)
    BY DefaultsAre
  <1>4. Candidates = <<>> => \A j \in DOMAIN routes : Routed(routes[j]) => routes[j].dst # "match"
    BY <1>2
  <1>5. ASSUME NothingFound, NEW j \in DOMAIN routes, Routed(routes[j])
        PROVE  routes[j].dst = "other"
    <2>1. routes[j].dst # "match"
      BY <1>4, <1>5 DEF NothingFound
    <2>2. \A i \in DOMAIN interfaces : interfaces[i].default = 0
      BY <1>3, <1>5 DEF NothingFound
    <2>3. PICK i \in DOMAIN interfaces : Owns(interfaces[i], routes[j])
      BY <1>5 DEF Linked, Owned, Routed
    <2>4. PICK y \in DOMAIN interfaces[i].routes["inet"] : interfaces[i].routes["inet"][y] = routes[j].node
      BY <1>5, <2>3 DEF Owns, Routed
    <2>5. PICK q \in DOMAIN routes : routes[q].family = "inet" /\ ListsRoute(interfaces[i], routes[q], y)
      BY <2>4 DEF Linked, Listed, Versions
    <2>6. q = j
      BY <2>4, <2>5 DEF ListsRoute, Numbered
    <2>7. routes[j].dst # "default"
      BY <2>2, <2>5, <2>6 DEF ListsRoute
    <2>8. routes[j].dst \in {"default", "match", "other"}
      <3>1. routes[j] \in IpRoute
        OBVIOUS
      <3>2. QED
        BY <3>1 DEF IpRoute
    <2>9. QED
      BY <2>1, <2>7, <2>8
  <1>6. NotImplemented \/ NothingFound => Answered(interfaces, routes, call.ip, 0)
    BY <1>5 DEF NotImplemented, Answered
  <1>7. ASSUME ~NothingFound, Candidates = <<>>
        PROVE  Answered(interfaces, routes, call.ip, DefaultRoute)
    <2>1. DefaultRoute # 0
      BY <1>7 DEF NothingFound
    <2>2. PICK i \in DOMAIN interfaces : DefaultRoute = interfaces[i].default
      BY <1>3, <2>1
    <2>3. PICK j \in DOMAIN routes :
            /\ routes[j].node = DefaultRoute /\ routes[j].dst = "default"
            /\ \E k \in DOMAIN interfaces[i].routes["inet"] : interfaces[i].routes["inet"][k] = DefaultRoute
      BY <2>1, <2>2 DEF Linked, Defaults
    <2>4. PICK k \in DOMAIN interfaces[i].routes["inet"] : interfaces[i].routes["inet"][k] = DefaultRoute
      BY <2>3
    <2>5. PICK q \in DOMAIN routes : routes[q].family = "inet" /\ ListsRoute(interfaces[i], routes[q], k)
      BY <2>4 DEF Linked, Listed, Versions
    <2>6. q = j
      BY <2>3, <2>4, <2>5 DEF ListsRoute, Numbered
    <2>7. Routed(routes[j])
      BY <2>5, <2>6 DEF ListsRoute, Routed, Numbered
    <2>8. \A x \in DOMAIN interfaces, p \in DOMAIN routes :
            interfaces[x].default # 0 /\ routes[p].node = interfaces[x].default =>
              routes[j].priority <= routes[p].priority
      BY <1>1, <1>3, <2>1, <2>3
    <2>9. QED
      BY <1>4, <1>7, <2>1, <2>3, <2>7, <2>8 DEF Answered
  <1>8. ASSUME Candidates # <<>>
        PROVE  Answered(interfaces, routes, call.ip, Best(Candidates))
    <2>1. /\ Best(Candidates) = 0 => \A k \in DOMAIN Candidates : Candidates[k] = 0
          /\ Best(Candidates) # 0 =>
               /\ \E k \in DOMAIN Candidates : Best(Candidates) = Candidates[k]
               /\ \A k \in DOMAIN Candidates :
                    Candidates[k] # 0 => Priority(Best(Candidates)) <= Priority(Candidates[k])
      BY <1>1, <1>2, BestIsLeast
    <2>2. \A j \in DOMAIN routes : routes[j].node # 0
      BY DEF Numbered
    <2>3. 1 \in DOMAIN Candidates
      BY <1>2, <1>8
    <2>4. Best(Candidates) # 0
      BY <1>2, <2>1, <2>2, <2>3
    <2>5. PICK j \in DOMAIN routes :
            routes[j].node = Best(Candidates) /\ Routed(routes[j]) /\ routes[j].dst = "match"
      BY <1>2, <2>1, <2>4
    <2>6. ASSUME NEW q \in DOMAIN routes, Routed(routes[q]), routes[q].dst = "match"
          PROVE  routes[j].priority <= routes[q].priority
      <3>1. PICK k \in DOMAIN Candidates : Candidates[k] = routes[q].node
        BY <1>2, <2>6
      <3>2. Priority(Best(Candidates)) <= Priority(Candidates[k])
        BY <2>1, <2>2, <2>4, <3>1
      <3>3. QED
        BY <1>1, <2>5, <3>1, <3>2
    <2>7. QED
      BY <2>4, <2>5, <2>6 DEF Answered
  <1>9. QED
    BY <1>6, <1>7, <1>8

-----------------------------------------------------------------------------
(* The invariant is inductive                                              *)

LEMMA InitInv == Init => Inv
  <1> SUFFICES ASSUME Init PROVE Inv
    OBVIOUS
  <1>1. interfaces = <<>> /\ routes = <<>> /\ made = 0
    BY DEF Init
  <1>2. Typed /\ Received /\ Looking /\ Answering
    BY DEF Init, Typed, Received, Looking, Answering, Families, Requests
  <1>3. Numbered(interfaces, routes, made) /\ Unlinked(interfaces, routes)
    BY <1>1 DEF Numbered, Unlinked
  <1>4. Linked(interfaces, routes)
    BY <1>2, <1>3, UnlinkedIsLinked DEF Typed
  <1>5. Filling /\ pc # "attach"
    BY <1>1, <1>3 DEF Init, Filling
  <1>6. QED
    BY <1>2, <1>3, <1>4, <1>5 DEF Inv

\* A state in which a request is answered.
LEMMA FillingIsParsed ==
  ASSUME Inv, pc \in Requests \cup {"new"}
  PROVE  Parsed(interfaces, routes, made) /\ routes = <<>>
  BY DEF Inv, Typed, Filling, Parsed, Requests

\* Nothing is routed while nothing is owned.
LEMMA UnlinkedAnswers ==
  ASSUME NEW is, NEW rs, NEW ip, Unlinked(is, rs)
  PROVE  Answered(is, rs, ip, 0) /\ FindsOwner(is, rs)
  BY DEF Unlinked, Answered, Routed, FindsOwner

(* One lemma for each action.                                              *)
LEMMA SendRequestInv ==
  ASSUME Inv, SendRequest
  PROVE  Inv'
  <1>1. /\ pc \in Requests /\ ~asked /\ asked' = TRUE /\ pc' = pc /\ buffer' = buffer
        /\ interfaces' = interfaces /\ routes' = routes /\ made' = made
    BY DEF SendRequest, lists
  <1>2. PICK reply \in Replies(pc) : socket' = socket \o reply
    BY DEF SendRequest
  <1>3. reply \in Seq(Message(pc)) /\ Ends(reply)
    BY <1>1, ReplyEnds
  <1>4. socket' = reply /\ buffer' = <<>>
    <2>1. socket = <<>> /\ buffer = <<>>
      BY <1>1 DEF Inv, Received
    <2>2. <<>> \o reply = reply
      BY <1>3, ConcatEmptySeq
    <2>3. QED
      BY <1>1, <1>2, <2>1, <2>2
  <1>5. Received'
    <2>1. buffer' \in Seq(Message(pc)) /\ DOMAIN buffer' = {}
      BY <1>4
    <2>2. QED
      BY <1>1, <1>3, <1>4, <2>1 DEF Received
  <1>6. Typed' /\ Filling' /\ Looking' /\ Answering' /\ pc' # "attach"
    BY <1>1 DEF Inv, SendRequest, locals, Typed, Filling, Looking, Answering, Requests
  <1>7. Numbered(interfaces', routes', made') /\ Linked(interfaces', routes')
    BY <1>1 DEF Inv
  <1>8. QED
    BY <1>5, <1>6, <1>7 DEF Inv

\* A request fails, before or after its answer has been parsed.
LEMMA FailInv ==
  ASSUME Inv, pc \in Requests, Fail, Closed, Parsed(interfaces', routes', made'),
         UNCHANGED <<interfaceFamily, call, cursor, locals>>
  PROVE  Inv'
  <1>1. pc' = "idle" /\ answer'.route = 0
    BY DEF Fail, Return
  <1>2. Typed'
    BY <1>1 DEF Inv, Typed, Parsed, locals, Requests
  <1>3. Received'
    BY <1>1 DEF Closed, Received, Requests
  <1>4. Filling' /\ Looking' /\ pc' # "attach"
    BY <1>1 DEF Filling, Looking, Requests
  <1>5. Unlinked(interfaces', routes')
    BY DEF Parsed
  <1>6. Linked(interfaces', routes')
    BY <1>5, UnlinkedIsLinked DEF Parsed
  <1>7. Answering'
    BY <1>1, <1>5, UnlinkedAnswers DEF Answering
  <1>8. QED
    BY <1>2, <1>3, <1>4, <1>6, <1>7 DEF Inv, Parsed

LEMMA GivenUpInv ==
  ASSUME Inv, SendRequestFails \/ RecvTimeout
  PROVE  Inv'
  <1>1. /\ pc \in Requests /\ Fail /\ Closed
        /\ UNCHANGED <<interfaceFamily, call, cursor, locals>>
        /\ interfaces' = interfaces /\ routes' = routes /\ made' = made
    BY DEF SendRequestFails, RecvTimeout, lists
  <1>2. Parsed(interfaces', routes', made')
    BY <1>1, FillingIsParsed
  <1>3. QED
    BY <1>1, <1>2, FailInv

LEMMA RecvPartInv ==
  ASSUME Inv, NEW k \in 1 .. Len(socket), RecvPart(k)
  PROVE  Inv'
  <1> DEFINE messages == buffer \o SubSeq(socket, 1, k)
             rest == SubSeq(socket, k + 1, Len(socket))
             entries == Entries(messages)
  <1>1. pc \in Requests /\ UNCHANGED <<interfaceFamily, call, locals>>
    BY DEF RecvPart
  <1>2. Parsed(interfaces, routes, made) /\ routes = <<>>
    BY <1>1, FillingIsParsed
  <1>3. asked
    <2>1. socket # <<>>
      OBVIOUS
    <2>2. QED
      BY <2>1 DEF Inv, Received
  <1>4. /\ socket \in Seq(Message(pc)) /\ buffer \in Seq(Message(pc)) /\ Ends(socket)
        /\ \A i \in DOMAIN buffer : ~IsEnd(buffer[i])
    BY <1>3 DEF Inv, Received
  <1>5. /\ messages \in Seq(Message(pc))
        /\ Complete(messages) => rest = <<>>
        /\ ~Complete(messages) => /\ rest \in Seq(Message(pc)) /\ Ends(rest)
                                  /\ \A i \in DOMAIN messages : ~IsEnd(messages[i])
    BY <1>1, <1>4, Datagram
  <1>6. entries \in Seq(Table(pc))
    <2> HIDE DEF messages
    <2> QED
      BY <1>1, <1>5, EntriesTyped
  <1>7. \/ Fail /\ Closed /\ UNCHANGED <<lists, cursor>>
        \/ /\ Complete(messages)
           /\ CASE pc = "links" -> ParseLinks(entries)
                [] pc = "addresses" -> ParseAddresses(entries)
                [] pc = "routes" -> ParseRoutes(entries)
           /\ \/ Proceed /\ socket' = rest
              \/ Fail /\ Closed /\ UNCHANGED cursor
        \/ /\ ~Complete(messages) /\ buffer' = messages /\ socket' = rest
           /\ UNCHANGED <<lists, pc, asked, cursor, answer>>
    <2> HIDE DEF messages, rest, entries
    <2> QED
      BY DEF RecvPart, messages, rest, entries
  <1> HIDE DEF messages, rest, entries
  <1>8. CASE Fail /\ Closed /\ UNCHANGED <<lists, cursor>>
    BY <1>1, <1>2, <1>8, FailInv DEF lists
  <1>9. CASE /\ Complete(messages)
             /\ CASE pc = "links" -> ParseLinks(entries)
                  [] pc = "addresses" -> ParseAddresses(entries)
                  [] pc = "routes" -> ParseRoutes(entries)
             /\ \/ Proceed /\ socket' = rest
                \/ Fail /\ Closed /\ UNCHANGED cursor
    <2>1. Parsed(interfaces', routes', made') /\ (pc # "routes" => routes' = <<>>)
      <3>1. CASE pc = "links"
        <4>1. entries \in Seq(Links) /\ ParseLinks(entries)
          BY <1>6, <1>9, <3>1 DEF Table
        <4>2. interfaceFamily \in Families /\ interfaces = <<>> /\ made \in Nat
          BY <3>1 DEF Inv, Typed, Filling
        <4>3. QED
          BY <1>2, <4>1, <4>2, LinksParsed
      <3>2. CASE pc = "addresses"
        <4>1. entries \in Seq(Addresses) /\ ParseAddresses(entries)
          BY <1>6, <1>9, <3>2 DEF Table
        <4>2. QED
          BY <1>2, <4>1, AddressesParsed
      <3>3. CASE pc = "routes"
        <4>1. entries \in Seq(Routes) /\ ParseRoutes(entries)
          BY <1>6, <1>9, <3>3 DEF Table
        <4>2. QED
          BY <1>2, <3>3, <4>1, RoutesParsed
      <3>4. QED
        BY <1>1, <3>1, <3>2, <3>3 DEF Requests
    <2>2. CASE Fail /\ Closed /\ UNCHANGED cursor
      BY <1>1, <2>1, <2>2, FailInv
    <2>3. CASE Proceed /\ socket' = rest
      <3>1. /\ pc' = CASE pc = "links" -> "addresses" [] pc = "addresses" -> "routes" [] pc = "routes" -> "attach"
            /\ asked' = FALSE /\ buffer' = <<>> /\ cursor' = 1 /\ answer' = answer /\ socket' = <<>>
        BY <1>5, <1>9, <2>3 DEF Proceed
      <3>2. pc' \in {"addresses", "routes", "attach"} /\ (pc' # "attach" => pc # "routes")
        BY <1>1, <3>1 DEF Requests
      <3>3. Typed'
        BY <1>1, <2>1, <3>1, <3>2 DEF Inv, Typed, Parsed, locals, Requests
      <3>4. Received'
        BY <3>1 DEF Received
      <3>5. Unlinked(interfaces', routes')
        BY <2>1 DEF Parsed
      <3>6. Filling'
        BY <2>1, <3>2, <3>5 DEF Filling, Requests
      <3>7. FindsOwner(interfaces', routes')
        BY <3>5, UnlinkedAnswers
      <3>8. Linked(interfaces', routes')
        BY <2>1, <3>5, UnlinkedIsLinked DEF Parsed
      <3>9. Looking' /\ Answering'
        BY <1>1, <3>2 DEF Inv, Looking, Answering, locals, Requests
      <3>10. QED
        BY <2>1, <3>3, <3>4, <3>6, <3>7, <3>8, <3>9 DEF Inv, Parsed
    <2>4. QED
      BY <1>9, <2>2, <2>3
  <1>10. CASE /\ ~Complete(messages) /\ buffer' = messages /\ socket' = rest
              /\ UNCHANGED <<lists, pc, asked, cursor, answer>>
    <2>1. Received'
      BY <1>1, <1>3, <1>5, <1>10 DEF Received
    <2>2. Typed' /\ Filling' /\ Looking' /\ Answering' /\ pc' # "attach"
      BY <1>1, <1>10 DEF Inv, lists, locals, Typed, Filling, Looking, Answering, Requests
    <2>3. Numbered(interfaces', routes', made') /\ Linked(interfaces', routes')
      BY <1>10 DEF Inv, lists
    <2>4. QED
      BY <2>1, <2>2, <2>3 DEF Inv
  <1>11. QED
    BY <1>7, <1>8, <1>9, <1>10

(* The iterator points to an element, or to the end.                       *)
LEMMA AfterErasePositive ==
  ASSUME cursor \in Nat \ {0}, NEW list
  PROVE  AfterErase(list) \in Nat \ {0}
  BY DEF AfterErase

LEMMA AttachRouteInv ==
  ASSUME Inv, AttachRoute
  PROVE  Inv'
  <1> DEFINE r == routes[cursor]
             found == Found(interfaces, r.index, r.family)
             i == First(found)
  <1>1. /\ pc = "attach" /\ pc' = pc /\ made' = made
        /\ UNCHANGED <<interfaceFamily, call, netlink, locals, answer>>
    BY DEF AttachRoute
  <1>2. /\ interfaces \in Seq(Interface) /\ routes \in Seq(IpRoute) /\ made \in Nat
        /\ Numbered(interfaces, routes, made) /\ FindsOwner(interfaces, routes)
        /\ Linked(interfaces, routes)
    BY <1>1 DEF Inv, Typed
  <1>3. cursor \in DOMAIN routes /\ cursor \in Nat \ {0}
    <2>1. cursor \in Nat \ {0} /\ cursor <= Len(routes)
      BY DEF Inv, Typed, AttachRoute
    <2>2. QED
      BY <1>2, <2>1
  <1>4. /\ interfaces' \in Seq(Interface) /\ routes' \in Seq(IpRoute)
        /\ Numbered(interfaces', routes', made) /\ FindsOwner(interfaces', routes')
        /\ Linked(interfaces', routes') /\ cursor' \in Nat \ {0}
    <2>1. CASE found = {}
      <3>1. interfaces' = interfaces /\ routes' = RemoveAt(routes, cursor) /\ cursor' = AfterErase(routes)
        BY <2>1 DEF AttachRoute
      <3>2. /\ RemoveAt(routes, cursor) \in Seq(IpRoute)
            /\ Numbered(interfaces, RemoveAt(routes, cursor), made)
            /\ FindsOwner(interfaces, RemoveAt(routes, cursor))
            /\ Linked(interfaces, RemoveAt(routes, cursor))
        BY <1>2, <1>3, <2>1, RouteErased
      <3>3. QED
        BY <1>2, <1>3, <3>1, <3>2, AfterErasePositive
    <2>2. CASE found # {}
      <3> DEFINE js == [interfaces EXCEPT ![i] = Attached(@, routes[cursor])]
                 ts == [routes EXCEPT ![cursor].owner = interfaces[i].node,
                                      ![cursor].source = SourceOf(routes[cursor], interfaces[i])]
      <3>1. interfaces' = js /\ routes' = ts /\ cursor' = cursor + 1
        BY <2>2 DEF AttachRoute
      <3>2. /\ js \in Seq(Interface) /\ ts \in Seq(IpRoute)
            /\ Numbered(js, ts, made) /\ FindsOwner(js, ts) /\ Linked(js, ts)
        BY <1>2, <1>3, <2>2, RouteAttached
      <3> HIDE DEF js, ts
      <3>3. QED
        BY <1>3, <3>1, <3>2
    <2>3. QED
      BY <2>1, <2>2
  <1>5. Typed' /\ Received' /\ Filling' /\ Looking' /\ Answering'
    BY <1>1, <1>4 DEF Inv, Typed, Received, Filling, Looking, Answering, netlink, locals, Requests
  <1>6. QED
    BY <1>1, <1>4, <1>5 DEF Inv

LEMMA PruneInterfaceInv ==
  ASSUME Inv, PruneInterface
  PROVE  Inv'
  <1>1. /\ pc = "prune" /\ pc' = pc /\ made' = made /\ routes' = routes
        /\ UNCHANGED <<interfaceFamily, call, netlink, locals, answer>>
    BY DEF PruneInterface
  <1>2. /\ interfaces \in Seq(Interface) /\ routes \in Seq(IpRoute) /\ made \in Nat
        /\ Numbered(interfaces, routes, made) /\ Linked(interfaces, routes)
    BY DEF Inv, Typed
  <1>3. cursor \in DOMAIN interfaces /\ cursor \in Nat \ {0}
    <2>1. cursor \in Nat \ {0} /\ cursor <= Len(interfaces)
      BY DEF Inv, Typed, PruneInterface
    <2>2. QED
      BY <1>2, <2>1
  <1>4. /\ interfaces' \in Seq(Interface) /\ Numbered(interfaces', routes, made)
        /\ Linked(interfaces', routes) /\ cursor' \in Nat \ {0}
    <2>1. CASE WithoutRoutes(interfaces[cursor])
      <3>1. interfaces' = RemoveAt(interfaces, cursor) /\ cursor' = AfterErase(interfaces)
        BY <2>1 DEF PruneInterface
      <3>2. /\ RemoveAt(interfaces, cursor) \in Seq(Interface)
            /\ Numbered(RemoveAt(interfaces, cursor), routes, made)
            /\ Linked(RemoveAt(interfaces, cursor), routes)
        BY <1>2, <1>3, <2>1, InterfaceErased
      <3>3. QED
        BY <1>3, <3>1, <3>2, AfterErasePositive
    <2>2. CASE ~WithoutRoutes(interfaces[cursor])
      <3>1. interfaces' = interfaces /\ cursor' = cursor + 1
        BY <2>2 DEF PruneInterface
      <3>2. QED
        BY <1>2, <1>3, <3>1
    <2>3. QED
      BY <2>1, <2>2
  <1>5. Typed' /\ Received' /\ Filling' /\ Looking' /\ Answering' /\ pc' # "attach"
    BY <1>1, <1>4 DEF Inv, Typed, Received, Filling, Looking, Answering, netlink, locals, Requests
  <1>6. QED
    BY <1>1, <1>4, <1>5 DEF Inv

LEMMA LoopDoneInv ==
  ASSUME Inv, AttachDone \/ PruneDone
  PROVE  Inv'
  <1>1. /\ interfaces' = interfaces /\ routes' = routes /\ made' = made
        /\ UNCHANGED <<interfaceFamily, call, netlink, locals>>
        /\ cursor' \in {1, cursor}
    BY DEF AttachDone, PruneDone, lists
  <1>2. \/ pc = "attach" /\ pc' = "prune"
        \/ pc = "prune" /\ call.name = "Initialize" /\ pc' = "idle"
        \/ pc = "prune" /\ call.name # "Initialize" /\ pc' = "scan"
    BY DEF AttachDone, PruneDone, Return
  <1>3. Typed'
    BY <1>1, <1>2 DEF Inv, Typed, locals, Requests
  <1>4. Received' /\ Filling' /\ pc' # "attach"
    BY <1>1, <1>2 DEF Inv, Received, Filling, netlink, Requests
  <1>5. Looking'
    BY <1>1, <1>2 DEF Inv, Typed, Looking, locals
  <1>6. Answering'
    BY <1>1, <1>2 DEF Answering
  <1>7. Numbered(interfaces', routes', made') /\ Linked(interfaces', routes')
    BY <1>1 DEF Inv
  <1>8. QED
    BY <1>3, <1>4, <1>5, <1>6, <1>7 DEF Inv

LEMMA ScanInv ==
  ASSUME Inv, Scan
  PROVE  Inv'
  <1>1. pc = "scan" /\ best' = DefaultRoute /\ UNCHANGED <<call, netlink, cursor>>
    BY DEF Scan
  <1>2. /\ interfaces \in Seq(Interface) /\ routes \in Seq(IpRoute) /\ made \in Nat /\ best \in Nat
        /\ Numbered(interfaces, routes, made) /\ Linked(interfaces, routes)
        /\ best = 0 \/ \E i \in DOMAIN interfaces : best = interfaces[i].default
    BY <1>1 DEF Inv, Typed, Looking
  <1>3. best' \in Nat
    BY <1>1, <1>2, DefaultsAre
  <1>4. ~asked /\ socket = <<>> /\ buffer = <<>>
    BY <1>1 DEF Inv, Received, Requests
  <1>5. Received'
    BY <1>1, <1>4 DEF Received, netlink
  <1>6. ASSUME NEW route, Return(route # 0, route), UNCHANGED <<lists, interfaceFamily>>,
               Answered(interfaces, routes, call.ip, route)
        PROVE  Inv'
    <2>1. pc' = "idle" /\ answer'.route = route /\ interfaces' = interfaces /\ routes' = routes /\ made' = made
      BY <1>6 DEF Return, lists
    <2>2. Typed' /\ Filling' /\ Looking' /\ pc' # "attach"
      BY <1>1, <1>3, <1>6, <2>1 DEF Inv, Typed, Filling, Looking, Requests
    <2>3. Answering'
      BY <1>1, <1>6, <2>1 DEF Answering
    <2>4. QED
      BY <1>2, <1>5, <2>1, <2>2, <2>3 DEF Inv
  <1>7. CASE NotImplemented \/ (NothingFound /\ alreadyUpdate)
    <2>1. Return(0 # 0, 0) /\ UNCHANGED <<lists, interfaceFamily>>
      BY <1>7 DEF Scan, Answer
    <2>2. Answered(interfaces, routes, call.ip, 0)
      BY <1>2, <1>7, RoundAnswers
    <2>3. QED
      BY <1>6, <2>1, <2>2
  <1>8. CASE ~NotImplemented /\ ~NothingFound
    <2> DEFINE route == IF Candidates = <<>> THEN DefaultRoute ELSE Best(Candidates)
    <2>1. Return(route # 0, route) /\ UNCHANGED <<lists, interfaceFamily>>
      BY <1>8 DEF Scan, Answer
    <2>2. Answered(interfaces, routes, call.ip, route)
      BY <1>2, <1>8, RoundAnswers
    <2> HIDE DEF route
    <2>3. QED
      BY <1>6, <2>1, <2>2
  <1>9. CASE ~NotImplemented /\ NothingFound /\ ~alreadyUpdate
    <2>1. Update
      BY <1>9 DEF Scan
    <2>2. /\ interfaces' = <<>> /\ routes' = <<>> /\ made' = IF made < Nodes THEN Nodes ELSE 0
          /\ interfaceFamily' = "unspec" /\ pc' = "links"
      BY <2>1 DEF Update
    <2>3. made' \in Nat
      BY <2>2, NetworkAssumption DEF Nodes, Requests
    <2>4. best' = 0
      BY <1>1, <1>9 DEF NothingFound
    <2>5. Typed'
      <3>1. call'.name \in {"Initialize", "Lookup"} /\ cursor' \in Nat \ {0}
        BY <1>1 DEF Inv, Typed
      <3>2. interfaces' \in Seq(Interface) /\ routes' \in Seq(IpRoute)
        BY <2>2
      <3>3. QED
        BY <1>3, <2>2, <2>3, <3>1, <3>2 DEF Typed, Families, Requests
    <2>6. Numbered(interfaces', routes', made') /\ Unlinked(interfaces', routes')
      BY <2>2 DEF Numbered, Unlinked
    <2>7. Linked(interfaces', routes')
      BY <2>5, <2>6, UnlinkedIsLinked DEF Typed
    <2>8. Filling' /\ Looking' /\ Answering' /\ pc' # "attach"
      BY <2>2, <2>4, <2>6 DEF Filling, Looking, Answering
    <2>9. QED
      BY <1>5, <2>5, <2>6, <2>7, <2>8 DEF Inv
  <1>10. QED
    BY <1>7, <1>8, <1>9

LEMMA LookupInv ==
  ASSUME Inv, NEW ip \in {"inet", "inet6", "none"}, Lookup(ip)
  PROVE  Inv'
  <1>1. /\ pc = "idle" /\ call'.name = "Lookup" /\ call'.ip = ip
        /\ interfaces' = interfaces /\ routes' = routes /\ made' = made
        /\ UNCHANGED <<interfaceFamily, netlink, cursor>>
    BY DEF Lookup, lists
  <1>2. Received'
    BY <1>1 DEF Inv, Received, netlink, Requests
  <1>3. Numbered(interfaces', routes', made') /\ Linked(interfaces', routes')
    BY <1>1 DEF Inv
  <1>4. CASE interfaces = <<>> \/ ip = "none"
    <2>1. pc' = "idle" /\ answer'.route = 0 /\ best' = 0
      BY <1>4 DEF Lookup, Answer, Return
    <2>2. Typed' /\ Filling' /\ Looking' /\ pc' # "attach"
      BY <1>1, <2>1 DEF Inv, Typed, Filling, Looking, Requests
    <2>3. ASSUME interfaces = <<>>
          PROVE  Answered(interfaces', routes', ip, 0)
      <3>1. \A j \in DOMAIN routes : routes[j].owner = 0
        BY <2>3 DEF Inv, Linked, Owned
      <3>2. QED
        BY <1>1, <3>1 DEF Answered, Routed
    <2>4. Answering'
      BY <1>1, <1>4, <2>1, <2>3 DEF Answering
    <2>5. QED
      BY <1>2, <1>3, <2>2, <2>4 DEF Inv
  <1>5. CASE interfaces # <<>> /\ ip # "none"
    <2>1. pc' = "scan" /\ best' = interfaces[1].default
      BY <1>5 DEF Lookup
    <2>2. 1 \in DOMAIN interfaces /\ interfaces[1] \in Interface
      BY <1>5 DEF Inv, Typed
    <2>3. best' \in Nat
      BY <2>1, <2>2 DEF Interface
    <2>4. Typed'
      BY <1>1, <2>1, <2>3 DEF Inv, Typed
    <2>5. Filling' /\ Looking' /\ Answering' /\ pc' # "attach"
      BY <1>1, <2>1, <2>2 DEF Filling, Looking, Answering, Requests
    <2>6. QED
      BY <1>2, <1>3, <2>4, <2>5 DEF Inv
  <1>6. QED
    BY <1>4, <1>5

LEMMA InitializeInv ==
  ASSUME Inv, NEW family \in Families \cup {"other"}, Initialize(family)
  PROVE  Inv'
  <1>1. /\ pc = "new" /\ call'.name = "Initialize"
        /\ interfaces' = interfaces /\ routes' = routes /\ made' = made
        /\ UNCHANGED <<netlink, cursor, locals>>
    BY DEF Initialize, lists
  <1>2. \/ pc' = "links" /\ interfaceFamily' \in Families
        \/ pc' = "idle" /\ interfaceFamily' = interfaceFamily
    BY DEF Initialize, Return
  <1>3. Parsed(interfaces, routes, made) /\ routes = <<>> /\ interfaces = <<>>
    BY <1>1, FillingIsParsed DEF Inv, Filling
  <1>4. Typed'
    BY <1>1, <1>2 DEF Inv, Typed, locals, Requests
  <1>5. Received'
    BY <1>1, <1>2 DEF Inv, Received, netlink, Requests
  <1>6. Filling'
    BY <1>1, <1>2, <1>3 DEF Filling, Parsed, Requests
  <1>7. Looking' /\ Answering' /\ pc' # "attach"
    BY <1>1, <1>2 DEF Looking, Answering
  <1>8. Numbered(interfaces', routes', made') /\ Linked(interfaces', routes')
    BY <1>1 DEF Inv
  <1>9. QED
    BY <1>4, <1>5, <1>6, <1>7, <1>8 DEF Inv

LEMMA NextInv == Inv /\ [Next]_vars => Inv'
  <1> SUFFICES ASSUME Inv, [Next]_vars PROVE Inv'
    OBVIOUS
  <1>1. CASE \E family \in Families \cup {"other"} : Initialize(family)
    BY <1>1, InitializeInv
  <1>2. CASE \E ip \in {"inet", "inet6", "none"} : Lookup(ip)
    BY <1>2, LookupInv
  <1>3. CASE SendRequest
    BY <1>3, SendRequestInv
  <1>4. CASE SendRequestFails \/ RecvTimeout
    BY <1>4, GivenUpInv
  <1>5. CASE \E k \in 1 .. Len(socket) : RecvPart(k)
    BY <1>5, RecvPartInv
  <1>6. CASE AttachRoute
    BY <1>6, AttachRouteInv
  <1>7. CASE PruneInterface
    BY <1>7, PruneInterfaceInv
  <1>8. CASE AttachDone \/ PruneDone
    BY <1>8, LoopDoneInv
  <1>9. CASE Scan
    BY <1>9, ScanInv
  <1>10. CASE UNCHANGED vars
    BY <1>10 DEF vars, lists, netlink, locals, Inv, Typed, Received, Filling, Looking, Answering
  <1>11. QED
    BY <1>1, <1>2, <1>3, <1>4, <1>5, <1>6, <1>7, <1>8, <1>9, <1>10 DEF Next, Step

LEMMA Invariance == Spec => []Inv
  BY InitInv, NextInv, PTL DEF Spec

-----------------------------------------------------------------------------
(* The properties                                                          *)

LEMMA InvPointersLive == Inv => PointersLive
  <1> SUFFICES ASSUME Inv PROVE PointersLive
    OBVIOUS
  <1>1. /\ interfaces \in Seq(Interface) /\ routes \in Seq(IpRoute)
        /\ Numbered(interfaces, routes, made) /\ Linked(interfaces, routes)
    BY DEF Inv, Typed
  <1>2. \A j \in DOMAIN routes : Live(routes[j].node) /\ Route(routes[j].node) = routes[j]
    BY <1>1, Priorities
  <1>3. ASSUME NEW interface \in Elements(interfaces), NEW family \in {"inet", "inet6"},
               NEW n \in Elements(interface.routes[family])
        PROVE  Live(n) /\ Route(n).owner = interface.node /\ Route(n).family = family
    <2>1. PICK i \in DOMAIN interfaces : interface = interfaces[i]
      BY DEF Elements
    <2>2. PICK k \in DOMAIN interfaces[i].routes[family] : n = interfaces[i].routes[family][k]
      BY <2>1 DEF Elements
    <2>3. PICK j \in DOMAIN routes : routes[j].family = family /\ ListsRoute(interfaces[i], routes[j], k)
      BY <1>1, <2>2 DEF Linked, Listed, Versions
    <2>4. routes[j].node = n /\ routes[j].owner = interface.node
      BY <2>1, <2>2, <2>3 DEF ListsRoute
    <2>5. QED
      BY <1>2, <2>3, <2>4
  <1>4. ASSUME NEW interface \in Elements(interfaces), interface.default # 0
        PROVE  interface.default \in Elements(interface.routes["inet"])
    <2>1. PICK i \in DOMAIN interfaces : interface = interfaces[i]
      BY DEF Elements
    <2>2. PICK j \in DOMAIN routes :
            \E k \in DOMAIN interfaces[i].routes["inet"] : interfaces[i].routes["inet"][k] = interfaces[i].default
      BY <1>1, <1>4, <2>1 DEF Linked, Defaults
    <2>3. QED
      BY <2>1, <2>2 DEF Elements
  <1>5. ASSUME NEW route \in Elements(routes), route.owner # 0
        PROVE  \E interface \in Elements(interfaces) :
                 /\ interface.node = route.owner
                 /\ route.node \in Elements(interface.routes[route.family])
                 /\ route.source = "own" => interface.addresses[route.family] # <<>>
                 /\ route.source # "none"
    <2>1. PICK j \in DOMAIN routes : route = routes[j]
      BY DEF Elements
    <2>2. route.source # "none" /\ \E i \in DOMAIN interfaces : Owns(interfaces[i], route)
      BY <1>1, <1>5, <2>1 DEF Linked, Owned
    <2>3. PICK i \in DOMAIN interfaces : Owns(interfaces[i], route)
      BY <2>2
    <2>4. interfaces[i] \in Elements(interfaces)
      BY DEF Elements
    <2>5. route.node \in Elements(interfaces[i].routes[route.family])
      BY <2>3 DEF Owns, Elements
    <2>6. QED
      BY <2>2, <2>3, <2>4, <2>5 DEF Owns
  <1>6. QED
    BY <1>3, <1>4, <1>5 DEF PointersLive

(* The owner of a default route keeps one, itself or another one.          *)
LEMMA KeptDefault ==
  ASSUME NEW is \in Seq(Interface), NEW rs \in Seq(IpRoute), NEW m, Numbered(is, rs, m), Linked(is, rs),
         NEW p \in DOMAIN rs, Routed(rs[p]), rs[p].dst = "default"
  PROVE  \E d \in DOMAIN rs :
           /\ Routed(rs[d]) /\ rs[d].dst = "default" /\ rs[d].owner = rs[p].owner
           /\ \E i \in DOMAIN is : is[i].default # 0 /\ rs[d].node = is[i].default
  <1>0. "inet" \in Versions
    BY DEF Versions
  <1>1. PICK i \in DOMAIN is : Owns(is[i], rs[p])
    BY DEF Linked, Owned, Routed
  <1>2. PICK k \in DOMAIN is[i].routes["inet"] : is[i].routes["inet"][k] = rs[p].node
    BY <1>1 DEF Owns, Routed
  <1>3. is[i].default # 0
    <2>1. PICK q \in DOMAIN rs : rs[q].family = "inet" /\ ListsRoute(is[i], rs[q], k)
      BY <1>0, <1>2 DEF Linked, Listed
    <2>2. q = p
      BY <1>2, <2>1 DEF ListsRoute, Numbered
    <2>3. QED
      BY <2>1, <2>2 DEF ListsRoute
  <1>4. PICK d \in DOMAIN rs :
          /\ rs[d].node = is[i].default /\ rs[d].dst = "default"
          /\ \E l \in DOMAIN is[i].routes["inet"] : is[i].routes["inet"][l] = is[i].default
    BY <1>3 DEF Linked, Defaults
  <1>5. PICK l \in DOMAIN is[i].routes["inet"] : is[i].routes["inet"][l] = is[i].default
    BY <1>4
  <1>6. rs[d].family = "inet" /\ rs[d].owner = is[i].node
    <2>1. PICK q \in DOMAIN rs : rs[q].family = "inet" /\ ListsRoute(is[i], rs[q], l)
      BY <1>0, <1>5 DEF Linked, Listed
    <2>2. q = d
      BY <1>4, <1>5, <2>1 DEF ListsRoute, Numbered
    <2>3. QED
      BY <2>1, <2>2 DEF ListsRoute
  <1>7. rs[d].owner = rs[p].owner /\ rs[d].owner # 0
    BY <1>1, <1>6 DEF Owns, Routed
  <1>8. QED
    BY <1>3, <1>4, <1>6, <1>7 DEF Routed

(* The invariant has more than what BestRoute asks.                        *)
LEMMA InvBestRoute == Inv => BestRoute
  <1> SUFFICES ASSUME Inv, pc = "idle", call.name = "Lookup", call.ip # "none"
               PROVE  LET routed   == {r \in Elements(routes) : r.owner # 0 /\ r.family = "inet"}
                          matches  == {r \in routed : r.dst = "match"}
                          defaults == {r \in routed : r.dst = "default"}
                      IN  IF answer.route = 0
                          THEN NotImplemented \/ \A r \in routed : r.dst = "other"
                          ELSE \E r \in routed :
                                 /\ r.node = answer.route
                                 /\ IF matches # {}
                                    THEN r \in matches /\ \A q \in matches : r.priority <= q.priority
                                    ELSE /\ r \in defaults
                                         /\ \A q \in defaults :
                                              q.priority < r.priority =>
                                                \E other \in defaults \ {q} :
                                                  other.owner = q.owner /\ r.priority <= other.priority
    BY DEF BestRoute
  <1> DEFINE routed   == {r \in Elements(routes) : r.owner # 0 /\ r.family = "inet"}
             matches  == {r \in routed : r.dst = "match"}
             defaults == {r \in routed : r.dst = "default"}
  <1>1. /\ routes \in Seq(IpRoute) /\ Numbered(interfaces, routes, made)
        /\ Linked(interfaces, routes) /\ Answered(interfaces, routes, call.ip, answer.route)
    BY DEF Inv, Typed, Answering
  <1>2. interfaces \in Seq(Interface) /\ \A j \in DOMAIN routes : routes[j].priority \in Nat
    <2>1. \A j \in DOMAIN routes : routes[j] \in IpRoute
      BY <1>1
    <2>2. interfaces \in Seq(Interface)
      BY DEF Inv, Typed
    <2>3. QED
      BY <2>1, <2>2 DEF IpRoute
  <1>3. /\ \A j \in DOMAIN routes : Routed(routes[j]) => routes[j] \in routed
        /\ \A r \in routed : \E j \in DOMAIN routes : r = routes[j] /\ Routed(routes[j])
    BY DEF Elements, Routed
  <1>4. CASE answer.route = 0
    <2>1. NotImplemented \/ \A j \in DOMAIN routes : Routed(routes[j]) => routes[j].dst = "other"
      BY <1>1, <1>4 DEF Answered, NotImplemented
    <2>2. QED
      BY <1>3, <1>4, <2>1
  <1>5. CASE answer.route # 0
    <2>1. PICK j \in DOMAIN routes :
            /\ routes[j].node = answer.route /\ Routed(routes[j])
            /\ \/ /\ routes[j].dst = "match"
                  /\ \A q \in DOMAIN routes :
                       Routed(routes[q]) /\ routes[q].dst = "match" => routes[j].priority <= routes[q].priority
               \/ /\ routes[j].dst = "default"
                  /\ \A q \in DOMAIN routes : Routed(routes[q]) => routes[q].dst # "match"
                  /\ \A i \in DOMAIN interfaces, q \in DOMAIN routes :
                       interfaces[i].default # 0 /\ routes[q].node = interfaces[i].default =>
                         routes[j].priority <= routes[q].priority
      BY <1>1, <1>5 DEF Answered
    <2>2. routes[j] \in routed
      BY <1>3, <2>1
    <2>3. CASE routes[j].dst = "match"
      <3>1. routes[j] \in matches /\ \A q \in matches : routes[j].priority <= q.priority
        BY <1>3, <2>1, <2>2, <2>3
      <3>2. QED
        BY <1>5, <2>1, <2>2, <3>1
    <2>4. CASE routes[j].dst # "match"
      <3>1. matches = {}
        BY <1>3, <2>1, <2>4
      <3>2. ASSUME NEW q \in defaults, q.priority < routes[j].priority
            PROVE  \E other \in defaults \ {q} :
                     other.owner = q.owner /\ routes[j].priority <= other.priority
        <4>1. PICK p \in DOMAIN routes : q = routes[p] /\ Routed(routes[p]) /\ routes[p].dst = "default"
          BY <1>3
        <4>2. PICK d \in DOMAIN routes :
                /\ Routed(routes[d]) /\ routes[d].dst = "default" /\ routes[d].owner = routes[p].owner
                /\ \E i \in DOMAIN interfaces : interfaces[i].default # 0 /\ routes[d].node = interfaces[i].default
          BY <1>1, <1>2, <4>1, KeptDefault
        <4>3. routes[j].priority <= routes[d].priority
          BY <2>1, <2>4, <4>2
        <4>4. routes[d] # q
          BY <1>2, <3>2, <4>1, <4>3
        <4>5. routes[d] \in defaults
          BY <1>3, <4>2
        <4>6. QED
          BY <4>1, <4>2, <4>3, <4>4, <4>5
      <3>3. routes[j] \in defaults
        BY <2>1, <2>2, <2>4
      <3>4. QED
        BY <1>5, <2>1, <2>2, <3>1, <3>2, <3>3
    <2>5. QED
      BY <2>3, <2>4
  <1>6. QED
    BY <1>4, <1>5

(* A step to the next request has received what was sent to the end.       *)
LEMMA RepliesWholeStep ==
  ASSUME Inv, [Next]_vars, pc \in Requests, pc' \notin {pc, "idle"}
  PROVE  AllReceived
  <1>1. PICK k \in 1 .. Len(socket) : RecvPart(k)
    BY DEF Next, Step, vars, Initialize, Lookup, SendRequest, SendRequestFails, RecvTimeout, Fail, Return,
           AttachRoute, AttachDone, PruneInterface, PruneDone, Scan, Requests
  <1> DEFINE messages == buffer \o SubSeq(socket, 1, k)
             rest == SubSeq(socket, k + 1, Len(socket))
  <1>2. asked
    BY DEF Inv, Received
  <1>3. /\ socket \in Seq(Message(pc)) /\ buffer \in Seq(Message(pc)) /\ Ends(socket)
        /\ \A i \in DOMAIN buffer : ~IsEnd(buffer[i])
    BY <1>2 DEF Inv, Received
  <1>4. /\ Complete(messages) => rest = <<>>
        /\ Complete(messages) /\ Succeeds(messages) => Last(socket).type = "done"
    BY <1>3, Datagram
  <1>5. Complete(messages) /\ Succeeds(messages) /\ socket' = rest
    <2> HIDE DEF messages, rest
    <2> QED
      BY <1>1 DEF RecvPart, Fail, Return, messages, rest
  <1>6. QED
    BY <1>4, <1>5 DEF AllReceived

(* In every state, whatever was left out of the replies, erased, or failed *)
(* half way, no pointer of the lists dangles.                              *)
THEOREM PointersStayLive == Spec => []PointersLive
  BY Invariance, InvPointersLive, PTL

(* Every lookup returns a route that exists and has an owner: the best     *)
(* match, or else a default route than which one is better only if its     *)
(* interface has another that is not; nullptr only when there is no route  *)
(* or IPv6 comes into it.                                                  *)
THEOREM BestRouteFound == Spec => []BestRoute
  BY Invariance, InvBestRoute, PTL

(* A request is followed by the next only when its reply has been received *)
(* to the end: no reply is read in place of another.                       *)
THEOREM RepliesNeverMix == Spec => RepliesWhole
  <1>1. Inv /\ [Next]_vars => [(pc \in Requests /\ pc' \notin {pc, "idle"}) => AllReceived]_vars
    BY RepliesWholeStep
  <1>2. QED
    BY <1>1, Invariance, PTL DEF Spec, RepliesWhole
=============================================================================
