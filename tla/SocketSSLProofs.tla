-------------------------- MODULE SocketSSLProofs ---------------------------
(***************************************************************************)
(* Ownership, errors, messages and the received stream of SocketSSL, for   *)
(* buffers, handshakes, records, peers and error queues of any size.       *)
(***************************************************************************)
EXTENDS SocketSSL, TLAPS

SendLabels == {"send", "sendwait"}
RecvLabels == {"recv", "recvwait", "done"}
Labels     == {"connect", "hs", "hswait"} \cup SendLabels \cup RecvLabels

(* n bytes of a stream, after the first a.                                 *)
Segment(a, n) == [i \in 1 .. n |-> a + i]

(* As much of the types as the arithmetic of the loops needs.              *)
Types ==
  /\ fd \in BOOLEAN /\ ssl \in BOOLEAN /\ errors \in Nat
  /\ pc \in {"new", "idle"} \cup Labels
  /\ room \in Nat /\ idx \in Nat /\ call.length \in Nat /\ idx <= call.length
  /\ arrived \in Nat /\ decrypted \in Nat /\ consumed \in Nat /\ consumed <= decrypted
  /\ dropped \subseteq 1 .. consumed /\ buffer \in Seq(Nat) /\ received \in Seq(Nat)
  /\ pc \in SendLabels => call.name = "Send"
  /\ pc \in RecvLabels => call.name \in RecvCalls
  /\ pc \in {"connect", "hs", "hswait"} => call.name = "Connect"

(* Between two objects, nothing is left of the first.                      *)
Fresh ==
  pc = "new" => /\ ~fd /\ ~ssl /\ call = NoCall /\ answer = NoAnswer
                /\ consumed = 0 /\ dropped = {} /\ received = <<>>

(* The message so far.                                                     *)
Sending ==
  /\ pc \in SendLabels =>
       \E n \in 0 .. call.length :
         wire = Segment(0, n) /\ (idx = call.length => n = call.length)
  /\ pc = "idle" /\ call.name = "Send" /\ (answer.ok \/ fd) => wire = Segment(0, call.length)

(* s has the bytes of K, each once and in order.                           *)
Holds(s, K) ==
  /\ \A i, j \in 1 .. Len(s) : i < j => s[i] < s[j]
  /\ {s[i] : i \in 1 .. Len(s)} = K

(* The bytes that SSL_read has handed over.                                *)
Kept == (1 .. consumed) \ dropped

(* The stream so far: what callers have, and what the buffer adds to it.   *)
Receiving ==
  /\ pc \in RecvLabels => Len(buffer) = idx /\ Holds(received \o buffer, Kept)
  /\ (pc = "idle" \/ pc \in Labels \ RecvLabels) /\ fd => Holds(received, Kept)

Inv == Types /\ Fresh /\ SslOwned /\ FailuresClose /\ Sending /\ Receiving

-----------------------------------------------------------------------------
LEMMA MinOfTwo ==
  ASSUME NEW a \in Int, NEW b \in Int
  PROVE  Min({a, b}) \in {a, b} /\ Min({a, b}) <= a /\ Min({a, b}) <= b
  <1>1. \E x \in {a, b} : \A y \in {a, b} : x <= y
    OBVIOUS
  <1>2. Min({a, b}) \in {a, b} /\ \A y \in {a, b} : Min({a, b}) <= y
    BY <1>1 DEF Min
  <1>3. QED
    BY <1>2

LEMMA JoinedTwice ==
  ASSUME NEW a \in Seq(Nat), NEW b \in Seq(Nat), NEW c \in Seq(Nat)
  PROVE  a \o (b \o c) = (a \o b) \o c
  OBVIOUS

LEMMA JoinedSegments ==
  ASSUME NEW a \in Nat, NEW n \in Nat, NEW m \in Nat
  PROVE  Segment(a, n) \o Segment(a + n, m) = Segment(a, n + m)
  BY DEF Segment

LEMMA SegmentFacts ==
  ASSUME NEW a \in Nat, NEW n \in Nat
  PROVE  /\ Segment(a, 0) = <<>> /\ Segment(a, n) \in Seq(Nat) /\ Len(Segment(a, n)) = n
         /\ SubSeq(Segment(a, n), 1, n) = Segment(a, n)
         /\ First(n) = Segment(0, n)
  BY DEF Segment, First

LEMMA Joined ==
  ASSUME NEW s \in Seq(Nat), NEW t \in Seq(Nat)
  PROVE  s \o t \in Seq(Nat) /\ Len(s \o t) = Len(s) + Len(t)
  OBVIOUS

(* The next bytes follow the ones that are there.                          *)
LEMMA HoldsMore ==
  ASSUME NEW s \in Seq(Nat), NEW a \in Nat, NEW k \in Nat, NEW D \in SUBSET (1 .. a),
         Holds(s, (1 .. a) \ D)
  PROVE  Holds(s \o Segment(a, k), (1 .. a + k) \ D)
  <1> DEFINE t == s \o Segment(a, k)
             m == Len(s)
  <1>1. m \in Nat /\ \A i \in 1 .. m : s[i] \in 1 .. a
    BY DEF Holds
  <1>2. /\ Len(t) = m + k
        /\ \A i \in 1 .. m : t[i] = s[i]
        /\ \A i \in 1 .. k : t[m + i] = a + i
    BY DEF Segment
  <1>3. \A i \in 1 .. m + k : i \in 1 .. m \/ (i - m \in 1 .. k /\ i = m + (i - m))
    BY <1>1
  <1>4. \A i \in 1 .. m + k : i \notin 1 .. m => t[i] = a + (i - m)
    BY <1>1, <1>2, <1>3
  <1> HIDE DEF t, m
  <1>5. ASSUME NEW i \in 1 .. m + k, NEW j \in 1 .. m + k, i < j PROVE t[i] < t[j]
    <2>1. CASE j \in 1 .. m
      <3>1. i \in 1 .. m
        BY <1>1, <1>5, <2>1
      <3>2. s[i] < s[j]
        BY <1>5, <2>1, <3>1 DEF Holds, m
      <3>3. QED
        BY <1>2, <2>1, <3>1, <3>2
    <2>2. CASE j \notin 1 .. m /\ i \in 1 .. m
      <3>1. t[j] = a + (j - m) /\ j - m \in 1 .. k
        BY <1>3, <1>4, <2>2
      <3>2. t[i] \in 1 .. a
        BY <1>1, <1>2, <2>2
      <3>3. QED
        BY <1>1, <3>1, <3>2
    <2>3. CASE j \notin 1 .. m /\ i \notin 1 .. m
      <3>1. t[j] = a + (j - m) /\ t[i] = a + (i - m)
        BY <1>4, <2>3
      <3>2. QED
        BY <1>1, <1>5, <3>1
    <2>4. QED
      BY <2>1, <2>2, <2>3
  <1>6. ASSUME NEW i \in 1 .. m + k PROVE t[i] \in (1 .. a + k) \ D
    <2>1. CASE i \in 1 .. m
      <3>1. t[i] \in (1 .. a) \ D
        BY <1>2, <2>1 DEF Holds, m
      <3>2. QED
        BY <3>1
    <2>2. CASE i \notin 1 .. m
      <3>1. t[i] = a + (i - m) /\ i - m \in 1 .. k
        BY <1>3, <1>4, <2>2
      <3>2. t[i] \in 1 .. a + k /\ t[i] \notin 1 .. a
        BY <1>1, <3>1
      <3>3. QED
        BY <3>2
    <2>3. QED
      BY <2>1, <2>2
  <1>7. ASSUME NEW b \in (1 .. a + k) \ D PROVE \E i \in 1 .. m + k : t[i] = b
    <2>1. CASE b \in 1 .. a
      <3>1. PICK i \in 1 .. m : s[i] = b
        BY <1>7, <2>1 DEF Holds, m
      <3>2. i \in 1 .. m + k /\ t[i] = b
        BY <1>1, <1>2, <3>1
      <3>3. QED
        BY <3>2
    <2>2. CASE b \notin 1 .. a
      <3>1. PICK e \in 1 .. k : a + e = b
        <4>1. b - a \in 1 .. k /\ a + (b - a) = b
          BY <1>7, <2>2
        <4>2. QED
          BY <4>1
      <3>2. t[m + e] = b
        BY <1>2, <3>1
      <3>3. m + e \in 1 .. m + k
        BY <1>1, <3>1
      <3>4. QED
        BY <3>2, <3>3
    <2>3. QED
      BY <2>1, <2>2
  <1>8. Holds(t, (1 .. a + k) \ D)
    <2>1. {t[i] : i \in 1 .. m + k} = (1 .. a + k) \ D
      BY <1>6, <1>7
    <2>2. \A i, j \in 1 .. m + k : i < j => t[i] < t[j]
      BY <1>5
    <2>3. QED
      BY <1>2, <2>1, <2>2 DEF Holds
  <1>9. QED
    BY <1>8 DEF t

LEMMA InitInv == Init => Inv
  <1> SUFFICES ASSUME Init PROVE Inv
    OBVIOUS
  <1> USE SocketSSLAssumption DEF Init, NoCall, NoAnswer, RecvCalls, SendLabels, RecvLabels, Labels
  <1>1. call.name = "none" /\ call.length = 0 /\ answer.count = 0
    OBVIOUS
  <1>2. Types
    <2>1. errors \in Nat /\ room \in Nat /\ idx = 0 /\ arrived = 0 /\ decrypted = 0 /\ consumed = 0
      OBVIOUS
    <2>2. pc = "new" /\ fd \in BOOLEAN /\ ssl \in BOOLEAN
      OBVIOUS
    <2>3. QED
      BY <1>1, <2>1, <2>2 DEF Types
  <1>3. Fresh
    BY DEF Fresh
  <1>4. SslOwned /\ FailuresClose
    BY DEF SslOwned, FailuresClose
  <1>5. Sending /\ Receiving
    BY DEF Sending, Receiving
  <1>6. QED
    BY <1>2, <1>3, <1>4, <1>5 DEF Inv

(* A call begins: with a usable socket, or by closing what there is.       *)
LEMMA BeginInv ==
  ASSUME Inv, NEW c, NEW label \in Labels, Begin(c, label), c.length \in Nat,
         label \in SendLabels => c.name = "Send",
         label \in RecvLabels => c.name \in RecvCalls,
         label \in {"connect", "hs", "hswait"} => c.name = "Connect"
  PROVE  Inv'
  <1> USE SocketSSLAssumption
      DEF Begin, Goto, Inv, SSLCloseAfterError, members, link, stream, SendLabels, RecvLabels, Labels
  <1>0. pc' \in {"idle", label} /\ pc' # "new" /\ call' = c
    OBVIOUS
  <1>1. Types'
    <2>1. fd' \in BOOLEAN /\ ssl' \in BOOLEAN /\ errors' \in Nat
      BY DEF Types
    <2>2. room' \in Nat /\ idx' \in Nat /\ call'.length \in Nat /\ idx' <= call'.length
      BY DEF Types
    <2>3. arrived' \in Nat /\ decrypted' \in Nat /\ consumed' \in Nat /\ consumed' <= decrypted'
      BY DEF Types
    <2>4. QED
      BY <1>0, <2>1, <2>2, <2>3 DEF Types
  <1>2. SslOwned' /\ Fresh'
    BY <1>0 DEF SslOwned, Fresh
  <1>3. FailuresClose'
    BY DEF FailuresClose, Types
  <1>4. Sending'
    <2>1. wire' = Segment(0, 0) /\ idx' = 0
      BY SegmentFacts
    <2>2. CASE fd /\ ssl /\ bio
      BY <2>1, <2>2 DEF Sending
    <2>3. CASE ~(fd /\ ssl /\ bio)
      BY <2>3 DEF Sending
    <2>4. QED
      BY <2>2, <2>3
  <1>5. Receiving'
    <2>1. CASE fd /\ ssl /\ bio
      <3>1. Holds(received, Kept) /\ received \in Seq(Nat)
        BY <2>1 DEF Receiving, Types
      <3>2. received' \o buffer' = received /\ Len(buffer') = 0
        BY <3>1
      <3>3. Kept' = Kept
        BY DEF Kept
      <3>4. received' = received /\ idx' = 0
        OBVIOUS
      <3>5. Holds(received' \o buffer', Kept') /\ Holds(received', Kept')
        BY <3>1, <3>2, <3>3, <3>4
      <3>6. QED
        BY <3>2, <3>4, <3>5 DEF Receiving
    <2>2. CASE ~(fd /\ ssl /\ bio)
      BY <2>2 DEF Receiving
    <2>3. QED
      BY <2>1, <2>2
  <1>6. QED
    BY <1>1, <1>2, <1>3, <1>4, <1>5

(* A call gives up, and whatever it was doing no longer matters.           *)
LEMMA GiveUpInv ==
  ASSUME Inv, pc \in Labels, GiveUp, UNCHANGED call,
         room' \in Nat, errors' \in Nat, idx' \in Nat, idx' <= call.length,
         arrived' \in Nat, decrypted' \in Nat, consumed' \in Nat, consumed' <= decrypted',
         dropped' \subseteq 1 .. consumed', buffer' \in Seq(Nat), received' \in Seq(Nat)
  PROVE  Inv'
  <1> USE DEF Inv, GiveUp, Return, Goto, SSLCloseAfterError, SendLabels, RecvLabels, Labels
  <1>1. Types' /\ Fresh'
    BY DEF Types, Fresh
  <1>2. SslOwned' /\ FailuresClose'
    BY DEF SslOwned, FailuresClose
  <1>3. Sending' /\ Receiving'
    BY DEF Sending, Receiving
  <1>4. QED
    BY <1>1, <1>2, <1>3

(* A step inside a call that leaves the object and what it has done alone. *)
LEMMA OnInv ==
  ASSUME Inv, pc \in Labels, pc' \in Labels, UNCHANGED <<members, answer, call, idx, buffer, wire, received>>,
         room' \in Nat, errors' \in Nat, UNCHANGED stream,
         \/ pc \in SendLabels /\ pc' \in SendLabels
         \/ pc \in RecvLabels /\ pc' \in RecvLabels
         \/ pc \in {"connect", "hs", "hswait"} /\ pc' \in {"connect", "hs", "hswait"}
  PROVE  Inv'
  <1> USE DEF Inv, members, stream, Kept, SendLabels, RecvLabels, Labels
  <1>1. Types' /\ Fresh'
    BY DEF Types, Fresh
  <1>2. SslOwned' /\ FailuresClose'
    BY DEF SslOwned, FailuresClose
  <1>3. Sending'
    BY DEF Sending
  <1>4. Receiving'
    BY DEF Receiving
  <1>5. QED
    BY <1>1, <1>2, <1>3, <1>4

(* Connect or Send has done its work.                                      *)
LEMMA DoneInv ==
  ASSUME Inv, pc \in Labels \ RecvLabels, NEW count \in Nat, Return(TRUE, count),
         idx = call.length \/ call.name = "Connect",
         UNCHANGED <<members, call, idx, buffer, wire, received>>,
         room' \in Nat, errors' \in Nat, UNCHANGED stream
  PROVE  Inv'
  <1> USE DEF Inv, members, stream, Kept, Return, Goto, SendLabels, RecvLabels, Labels
  <1>1. Types' /\ Fresh'
    BY DEF Types, Fresh
  <1>2. SslOwned'
    BY DEF SslOwned
  <1>3. FailuresClose'
    BY DEF FailuresClose, Types, SslOwned
  <1>4. Sending'
    BY DEF Sending, Types
  <1>5. Receiving'
    BY DEF Receiving, SslOwned
  <1>6. QED
    BY <1>1, <1>2, <1>3, <1>4, <1>5

(* After a call of OpenSSL: an entry in the queue makes the call give up.  *)
LEMMA CheckedStayInv ==
  ASSUME Inv, pc \in Labels, NEW label \in Labels, Checked(Stay(label)),
         UNCHANGED <<call, idx, buffer, wire, received>>,
         room' \in Nat, UNCHANGED stream,
         \/ pc \in SendLabels /\ label \in SendLabels
         \/ pc \in RecvLabels /\ label \in RecvLabels
         \/ pc \in {"connect", "hs", "hswait"} /\ label \in {"connect", "hs", "hswait"}
  PROVE  Inv'
  <1>1. CASE errors > 0
    <2>1. GiveUp /\ errors' \in Nat
      BY <1>1 DEF Checked, Pop, Inv, Types
    <2>2. QED
      BY <2>1, GiveUpInv DEF stream, Inv, Types
  <1>2. CASE ~(errors > 0)
    <2>1. Stay(label) /\ errors' = errors
      BY <1>2 DEF Checked
    <2>2. QED
      BY <2>1, OnInv DEF Stay, Goto, Inv, Types
  <1>3. QED
    BY <1>1, <1>2

LEMMA FailedInv ==
  ASSUME Inv, pc \in Labels, Failed, UNCHANGED <<call, idx, buffer, received, room, stream>>
  PROVE  Inv'
  <1>1. GiveUp /\ errors' \in Nat
    BY DEF Failed, Pop, Inv, Types
  <1>2. QED
    BY <1>1, GiveUpInv DEF stream, Inv, Types

-----------------------------------------------------------------------------
(* The handshake.                                                          *)
LEMMA HandshakeInv ==
  ASSUME Inv,
         \/ ConnectStarts \/ HandshakeSend \/ HandshakeDone \/ HandshakeBlocked
         \/ HandshakeFails \/ HandshakeRetry \/ NotReady("hswait")
  PROVE  Inv'
  <1> USE DEF locals, stream, link, members
  <1>1. ASSUME ConnectStarts PROVE Inv'
    <2>1. pc = "connect" /\ errors' \in Nat
      BY <1>1 DEF ConnectStarts, Inv, Types
    <2>2. CASE GiveUp
      BY <1>1, <2>1, <2>2, GiveUpInv DEF ConnectStarts, Inv, Types, Labels
    <2>3. CASE Stay("hs")
      BY <1>1, <2>1, <2>3, OnInv DEF ConnectStarts, Inv, Types, Labels, Stay, Goto
    <2>4. QED
      BY <1>1, <2>2, <2>3 DEF ConnectStarts
  <1>2. ASSUME HandshakeSend PROVE Inv'
    <2>1. /\ pc = "hs" /\ room' \in Nat
          /\ UNCHANGED <<call, idx, buffer, wire, received, stream>>
      BY <1>2 DEF HandshakeSend, Inv, Types
    <2>2. CASE flight' # Over
      <3>1. Checked(Stay("hswait"))
        BY <1>2, <2>2 DEF HandshakeSend, Checked
      <3>2. QED
        BY <2>1, <3>1, CheckedStayInv DEF Labels
    <2>3. CASE flight' = Over
      <3>1. CASE errors > 0
        <4>1. GiveUp /\ errors' \in Nat
          BY <1>2, <2>3, <3>1 DEF HandshakeSend, Checked, Pop, Inv, Types
        <4>2. QED
          BY <2>1, <4>1, GiveUpInv DEF Inv, Types, Labels
      <3>2. CASE ~(errors > 0)
        <4>1. Return(TRUE, 0) /\ UNCHANGED <<members, errors>> /\ call.name = "Connect"
          BY <1>2, <2>1, <2>3, <3>2 DEF HandshakeSend, Checked, Inv, Types
        <4>2. QED
          BY <2>1, <4>1, DoneInv DEF Inv, Types, Labels, RecvLabels
      <3>3. QED
        BY <3>1, <3>2
    <2>4. QED
      BY <2>2, <2>3
  <1>3. ASSUME HandshakeDone PROVE Inv'
    <2>1. pc = "hs" /\ UNCHANGED <<call, idx, buffer, wire, received, room, stream>>
      BY <1>3 DEF HandshakeDone
    <2>2. CASE errors > 0
      <3>1. GiveUp /\ errors' \in Nat
        BY <1>3, <2>2 DEF HandshakeDone, Checked, Pop, Inv, Types
      <3>2. QED
        BY <2>1, <3>1, GiveUpInv DEF Inv, Types, Labels
    <2>3. CASE ~(errors > 0)
      <3>1. Return(TRUE, 0) /\ UNCHANGED <<members, errors>> /\ call.name = "Connect"
        BY <1>3, <2>1, <2>3 DEF HandshakeDone, Checked, Inv, Types
      <3>2. QED
        BY <2>1, <3>1, DoneInv DEF Inv, Types, Labels, RecvLabels
    <2>4. QED
      BY <2>2, <2>3
  <1>4. ASSUME HandshakeBlocked PROVE Inv'
    BY <1>4, CheckedStayInv DEF HandshakeBlocked, Inv, Types, Labels
  <1>5. ASSUME HandshakeFails PROVE Inv'
    BY <1>5, FailedInv DEF HandshakeFails, Labels
  <1>6. ASSUME HandshakeRetry PROVE Inv'
    BY <1>6, OnInv DEF HandshakeRetry, Stay, Goto, Inv, Types, Labels
  <1>7. ASSUME NotReady("hswait") PROVE Inv'
    BY <1>7, GiveUpInv DEF NotReady, Inv, Types, Labels
  <1>8. QED
    BY <1>1, <1>2, <1>3, <1>4, <1>5, <1>6, <1>7

(* Send: however the kernel cuts the message, what went out is its begin.  *)
LEMMA WriteInv == ASSUME Inv, Write PROVE Inv'
  <1> USE DEF locals, stream, link, members
  <1> DEFINE left == call.length - Len(wire)
             n    == Min({room, left})
  <1>1. PICK sent \in 0 .. call.length :
          wire = Segment(0, sent) /\ (idx = call.length => sent = call.length)
    BY DEF Write, Inv, Sending, SendLabels
  <1>2. /\ Len(wire) = sent /\ left \in Nat /\ n \in Nat /\ n <= left /\ n <= room
        /\ left = call.length - sent /\ sent \in Nat
        /\ room \in Nat /\ call.length \in Nat /\ idx \in Nat
    <2>1. room \in Nat /\ call.length \in Nat /\ idx \in Nat /\ sent \in Nat /\ sent <= call.length
      BY <1>1 DEF Inv, Types
    <2>2. Len(wire) = sent
      BY <1>1, <2>1, SegmentFacts
    <2>3. left \in Nat /\ left = call.length - sent
      BY <2>1, <2>2
    <2>4. n \in {room, left} /\ n <= room /\ n <= left
      <3>1. left \in Int /\ room \in Int
        BY <2>1, <2>3
      <3> HIDE DEF left
      <3>2. QED
        BY <3>1, MinOfTwo
    <2>5. QED
      BY <2>1, <2>2, <2>3, <2>4
  <1>3. /\ pc = "send" /\ call.name = "Send" /\ idx # call.length
        /\ wire' = wire \o [i \in 1 .. n |-> Len(wire) + i] /\ room' = room - n
        /\ UNCHANGED <<call, buffer, received, arrived, decrypted, consumed, dropped>>
    BY DEF Write, Inv, Types, SendLabels
  <1>4. wire' = Segment(0, sent + n)
    <2>1. [i \in 1 .. n |-> Len(wire) + i] = Segment(sent, n)
      BY <1>2 DEF Segment
    <2>2. Segment(0, sent) \o Segment(0 + sent, n) = Segment(0, sent + n)
      <3> HIDE DEF n
      <3>1. QED
        BY <1>2, JoinedSegments, ZenonT(60)
    <2>3. 0 + sent = sent
      BY <1>1
    <2>4. QED
      BY <1>1, <1>3, <2>1, <2>2, <2>3
  <1>5. CASE errors > 0
    <2>1. GiveUp /\ errors' \in Nat /\ idx' = idx
      BY <1>5 DEF Write, Checked, Pop, Inv, Types
    <2>2. room' \in Nat /\ idx' <= call.length /\ consumed' <= decrypted'
      BY <1>2, <1>3, <2>1 DEF Inv, Types
    <2>3. arrived' \in Nat /\ decrypted' \in Nat /\ consumed' \in Nat /\ idx' \in Nat
      BY <1>3, <2>1 DEF Inv, Types
    <2>4. dropped' \subseteq 1 .. consumed' /\ buffer' \in Seq(Nat) /\ received' \in Seq(Nat)
      BY <1>3 DEF Inv, Types
    <2>5. QED
      BY <1>3, <2>1, <2>2, <2>3, <2>4, GiveUpInv DEF Labels, SendLabels
  <1>6. CASE ~(errors > 0)
    <2>1. /\ pc' \in SendLabels /\ UNCHANGED <<members, answer, errors>>
          /\ idx' = IF n = left THEN call.length ELSE idx
      BY <1>6 DEF Write, Checked, Stay, Goto, SendLabels, Inv, Types
    <2>2. Types' /\ Fresh' /\ SslOwned' /\ FailuresClose'
      BY <1>2, <1>3, <2>1 DEF Inv, Types, Fresh, SslOwned, FailuresClose, SendLabels, RecvLabels, Labels
    <2>3. Sending'
      <3>1. sent + n \in 0 .. call.length /\ (idx' = call.length => sent + n = call.length)
        BY <1>2, <1>3, <2>1
      <3>2. QED
        BY <1>3, <1>4, <2>1, <3>1 DEF Sending, SendLabels
    <2>4. Receiving'
      BY <1>3, <2>1 DEF Inv, Receiving, Kept, SendLabels, RecvLabels, Labels
    <2>5. QED
      BY <2>2, <2>3, <2>4 DEF Inv
  <1>7. QED
    BY <1>5, <1>6

LEMMA SendInv ==
  ASSUME Inv, Write \/ WriteFails \/ SendReady \/ SendNotReady \/ SendDone
  PROVE  Inv'
  <1> USE DEF locals, stream, link, members, Labels, SendLabels, RecvLabels
  <1>1. ASSUME WriteFails PROVE Inv'
    BY <1>1, FailedInv DEF WriteFails
  <1>2. ASSUME SendReady PROVE Inv'
    BY <1>2, OnInv DEF SendReady, Stay, Goto, Inv, Types
  <1>3. ASSUME SendNotReady PROVE Inv'
    BY <1>3, GiveUpInv DEF SendNotReady, NotReady, Inv, Types
  <1>4. ASSUME SendDone PROVE Inv'
    BY <1>4, DoneInv DEF SendDone, Inv, Types
  <1>5. QED
    BY <1>1, <1>2, <1>3, <1>4, WriteInv

-----------------------------------------------------------------------------
(* Recv and RecvToEnd.                                                     *)

LEMMA LoopLabel ==
  ASSUME NEW c, NEW i, NEW time
  PROVE  LoopTo(c, i, time) \in RecvLabels
  BY DEF LoopTo, RecvLabels

(* SSL_read hands over bytes: they follow the ones that the buffer has.    *)
LEMMA ReadSomeInv == ASSUME Inv, NEW r \in 0 .. MaxArrived, ReadSome(r) PROVE Inv'
  <1> USE SocketSSLAssumption DEF link, members
  <1> DEFINE k == Taken(decrypted' - consumed)
  <1>1. /\ pc = "recv" /\ call.name \in RecvCalls /\ decrypted' = decrypted + r /\ consumed' = consumed + k
        /\ UNCHANGED <<call, room, arrived, dropped, wire, received>>
    BY DEF ReadSome, Inv, Types, RecvLabels
  <1>2. /\ decrypted \in Nat /\ consumed \in Nat /\ consumed <= decrypted /\ r \in Nat
        /\ idx \in Nat /\ call.length \in Nat /\ idx <= call.length
        /\ received \in Seq(Nat) /\ buffer \in Seq(Nat) /\ dropped \subseteq 1 .. consumed
        /\ Len(buffer) = idx /\ Holds(received \o buffer, Kept)
    BY <1>1 DEF Inv, Types, Receiving, RecvLabels
  <1>3. k \in Nat /\ k <= decrypted' - consumed /\ k <= call.length - idx
    <2>1. decrypted' - consumed \in Nat /\ call.length - idx \in Nat
      BY <1>1, <1>2
    <2> DEFINE held == decrypted' - consumed
               free == call.length - idx
    <2>2. Min({held, free}) \in {held, free} /\ Min({held, free}) <= held /\ Min({held, free}) <= free
      <3>1. held \in Int /\ free \in Int
        BY <2>1
      <3> HIDE DEF held, free
      <3>2. QED
        BY <3>1, MinOfTwo
    <2>3. QED
      BY <2>1, <2>2 DEF Taken
  <1>4. room' \in Nat /\ arrived' \in Nat /\ decrypted' \in Nat /\ consumed' \in Nat /\ consumed' <= decrypted'
    BY <1>1, <1>2, <1>3 DEF Inv, Types
  <1>5. CASE errors > 0
    <2>1. GiveUp /\ errors' \in Nat /\ UNCHANGED <<idx, buffer>>
      BY <1>5 DEF ReadSome, Checked, Pop, Inv, Types
    <2>2. dropped' \subseteq 1 .. consumed'
      BY <1>1, <1>2, <1>3
    <2>3. QED
      BY <1>1, <1>2, <1>4, <2>1, <2>2, GiveUpInv DEF Labels, RecvLabels
  <1>6. CASE ~(errors > 0)
    <2>1. /\ pc' \in RecvLabels /\ UNCHANGED <<members, answer, errors>>
          /\ idx' = idx + k /\ buffer' = Stored(k)
      BY <1>6, LoopLabel DEF ReadSome, Checked, Stay, Goto, RecvLabels
    <2>2. idx' \in Nat /\ idx' <= call.length
      <3> HIDE DEF k
      <3>1. QED
        BY <1>1, <1>2, <1>3, <2>1
    <2>3. buffer' = buffer \o Segment(consumed, k)
      <3>1. SubSeq(buffer, 1, idx) = buffer
        BY <1>2
      <3>2. QED
        BY <2>1, <3>1 DEF Stored, Segment
    <2>4. Segment(consumed, k) \in Seq(Nat) /\ Len(Segment(consumed, k)) = k
      BY <1>2, <1>3, SegmentFacts
    <2>5. dropped' \subseteq 1 .. consumed'
      BY <1>1, <1>2, <1>3
    <2> HIDE DEF k
    <2>6. buffer' \in Seq(Nat) /\ Len(buffer') = idx'
      <3> DEFINE more == Segment(consumed, k)
      <3>1. more \in Seq(Nat) /\ Len(more) = k /\ buffer' = buffer \o more
        BY <2>3, <2>4
      <3> HIDE DEF more
      <3>2. buffer \in Seq(Nat) /\ Len(buffer) = idx /\ idx' = idx + k
        BY <1>2, <2>1
      <3>3. buffer \o more \in Seq(Nat) /\ Len(buffer \o more) = idx + k
        BY <3>1, <3>2, Joined
      <3>4. QED
        BY <3>1, <3>2, <3>3
    <2>7. Types'
      BY <1>1, <1>2, <1>4, <2>1, <2>2, <2>5, <2>6 DEF Inv, Types, SendLabels, RecvLabels, Labels
    <2>8. Fresh' /\ SslOwned' /\ FailuresClose'
      BY <1>1, <2>1 DEF Inv, Fresh, SslOwned, FailuresClose, RecvLabels
    <2>9. Sending'
      BY <1>1, <2>1 DEF Sending, RecvLabels, SendLabels
    <2>10. Holds(received' \o buffer', Kept')
      <3> DEFINE more == Segment(consumed, k)
      <3>0. more \in Seq(Nat) /\ buffer' = buffer \o more
        BY <2>3, <2>4
      <3> HIDE DEF more
      <3>a. received \in Seq(Nat) /\ buffer \in Seq(Nat)
        BY <1>2
      <3>b. received \o (buffer \o more) = (received \o buffer) \o more
        BY <3>0, <3>a, JoinedTwice
      <3>1. received \o buffer' = (received \o buffer) \o Segment(consumed, k)
        BY <3>0, <3>b DEF more
      <3>2. received \o buffer \in Seq(Nat)
        BY <1>2
      <3>3. Holds((received \o buffer) \o Segment(consumed, k), (1 .. consumed + k) \ dropped)
        BY <1>2, <1>3, <3>2, HoldsMore DEF Kept
      <3>4. Kept' = (1 .. consumed + k) \ dropped
        BY <1>1 DEF Kept
      <3>5. QED
        BY <1>1, <3>1, <3>3, <3>4
    <2>11. Receiving'
      BY <2>1, <2>6, <2>10 DEF Receiving, RecvLabels, SendLabels, Labels
    <2>12. QED
      BY <2>7, <2>8, <2>9, <2>11 DEF Inv
  <1>7. QED
    BY <1>5, <1>6

(* The caller gets the buffer, and with it the stream up to here.          *)
LEMMA RecvDoneInv == ASSUME Inv, RecvDone PROVE Inv'
  <1> USE DEF locals, stream, link, members, Inv
  <1>1. /\ pc = "done" /\ pc' = "idle" /\ call.name \in RecvCalls
        /\ answer'.count = idx /\ answer'.ok = TRUE /\ answer'.name = call.name
        /\ UNCHANGED <<members, errors, call, idx, room, stream, wire>>
        /\ received' = received \o buffer
    BY DEF RecvDone, Return, Goto, Types, RecvLabels
  <1>2. Types' /\ Fresh' /\ SslOwned' /\ fd
    <2>1. received' \in Seq(Nat) /\ buffer' = buffer
      BY <1>1 DEF Types, RecvDone
    <2>2. QED
      BY <1>1, <2>1 DEF Types, Fresh, SslOwned, SendLabels, RecvLabels, Labels
  <1>3. FailuresClose'
    BY <1>1, <1>2 DEF Types, FailuresClose
  <1>4. Sending'
    BY <1>1 DEF Sending, SendLabels, RecvCalls
  <1>5. Holds(received', Kept')
    BY <1>1 DEF Receiving, Kept, RecvLabels
  <1>6. Receiving'
    BY <1>1, <1>5 DEF Receiving, SendLabels, RecvLabels, Labels
  <1>7. QED
    BY <1>2, <1>3, <1>4, <1>6

LEMMA RecvInv ==
  ASSUME Inv,
         \/ \E r \in 0 .. MaxArrived : ReadSome(r)
         \/ ReadEnd \/ ReadBlocked \/ ReadFails
         \/ \E d \in 0 .. Wait : RecvReady(d)
         \/ RecvNotReady \/ RecvEnough \/ RecvDone
  PROVE  Inv'
  <1> USE DEF locals, stream, link, members, Labels, RecvLabels
  <1>1. ASSUME ReadEnd PROVE Inv'
    BY <1>1, CheckedStayInv DEF ReadEnd, Inv, Types
  <1>2. ASSUME ReadBlocked PROVE Inv'
    BY <1>2, CheckedStayInv DEF ReadBlocked, Inv, Types
  <1>3. ASSUME NEW d \in 0 .. Wait, RecvReady(d) PROVE Inv'
    <2>1. pc = "recvwait" /\ pc' \in RecvLabels
      BY <1>3, LoopLabel DEF RecvReady, Stay, Goto
    <2>2. UNCHANGED <<members, answer, errors, call, idx, buffer, room, stream, wire, received>>
      BY <1>3 DEF RecvReady, Stay
    <2>3. QED
      BY <2>1, <2>2, OnInv DEF Inv, Types
  <1>4. ASSUME RecvNotReady PROVE Inv'
    BY <1>4, GiveUpInv DEF RecvNotReady, NotReady, Inv, Types
  <1>5. ASSUME RecvEnough PROVE Inv'
    BY <1>5, OnInv DEF RecvEnough, Stay, Goto, Inv, Types
  <1>6. ASSUME ReadFails PROVE Inv'
    BY <1>6, FailedInv DEF ReadFails
  <1>7. QED
    BY <1>1, <1>2, <1>3, <1>4, <1>5, <1>6, ReadSomeInv, RecvDoneInv

-----------------------------------------------------------------------------
(* Calls that begin, and the environment.                                  *)

LEMMA ConstructInv == ASSUME Inv, Construct PROVE Inv'
  <1> USE DEF locals, stream, link, members, Inv, SendLabels, RecvLabels, Labels
  <1>1. /\ pc = "new" /\ pc' = "idle" /\ fd' \in BOOLEAN /\ ssl' \in BOOLEAN /\ errors' \in Nat
        /\ UNCHANGED <<call, idx, buffer, answer, room, stream, wire, received>>
        /\ heap' = (IF fd' THEN {"fd"} ELSE {}) \cup (IF ssl' THEN {"ssl", "bio"} ELSE {})
    <2> USE DEF Construct, Goto
    <2>1. pc = "new" /\ pc' = "idle" /\ UNCHANGED <<call, idx, buffer, answer, room, stream, wire, received>>
      OBVIOUS
    <2>2. PICK socket \in BOOLEAN : 
            \/ fd' = FALSE /\ ssl' = FALSE /\ heap' = {}
            \/ fd' = socket /\ ssl' = TRUE /\ heap' = {"ssl", "bio"} \cup (IF socket THEN {"fd"} ELSE {})
      OBVIOUS
    <2>3. errors' \in Nat
      BY DEF Pop, Types
    <2>4. CASE fd' = FALSE /\ ssl' = FALSE /\ heap' = {}
      BY <2>1, <2>3, <2>4
    <2>5. CASE fd' = socket /\ ssl' = TRUE /\ heap' = {"ssl", "bio"} \cup (IF socket THEN {"fd"} ELSE {})
      BY <2>1, <2>3, <2>5
    <2>6. QED
      BY <2>2, <2>4, <2>5
  <1>2. call = NoCall /\ answer = NoAnswer /\ consumed = 0 /\ received = <<>>
    BY <1>1 DEF Fresh
  <1>3. Types' /\ Fresh'
    BY <1>1 DEF Types, Fresh
  <1>4. SslOwned' /\ FailuresClose'
    BY <1>1, <1>2 DEF SslOwned, FailuresClose, NoAnswer
  <1>5. Sending'
    BY <1>1, <1>2 DEF Sending, NoCall
  <1>6. Receiving'
    <2>1. received' = <<>> /\ Kept' = {} /\ Len(<<>>) = 0
      BY <1>1, <1>2 DEF Kept
    <2>2. Holds(received', Kept')
      BY <2>1 DEF Holds
    <2>3. QED
      BY <1>1, <2>2 DEF Receiving
  <1>7. QED
    BY <1>3, <1>4, <1>5, <1>6

LEMMA DestroyInv == ASSUME Inv, Destroy PROVE Inv'
  <1> USE DEF Inv, SSLCloseAfterError, SendLabels, RecvLabels, Labels
  <1>1. /\ pc' = "new" /\ fd' = FALSE /\ ssl' = FALSE /\ heap' = {} /\ UNCHANGED errors
        /\ call' = NoCall /\ idx' = 0 /\ answer' = NoAnswer /\ room' \in Nat /\ received' = <<>>
        /\ arrived' = 0 /\ decrypted' = 0 /\ consumed' = 0 /\ dropped' = {} /\ buffer' = <<>>
    <2>1. heap' = {}
      BY DEF Destroy, SslOwned
    <2>2. QED
      BY <2>1, SocketSSLAssumption DEF Destroy, Goto
  <1>2. Types'
    <2>1. call'.length = 0
      BY <1>1 DEF NoCall
    <2>2. errors' \in Nat
      BY <1>1 DEF Types
    <2>3. fd' \in BOOLEAN /\ ssl' \in BOOLEAN
      BY <1>1
    <2>4. pc' \in {"new", "idle"} \cup Labels /\ pc' \notin SendLabels \cup RecvLabels \cup {"connect", "hs", "hswait"}
      BY <1>1
    <2>5. /\ room' \in Nat /\ idx' \in Nat /\ call'.length \in Nat /\ idx' <= call'.length
          /\ arrived' \in Nat /\ decrypted' \in Nat /\ consumed' \in Nat /\ consumed' <= decrypted'
      BY <1>1, <2>1
    <2>6. dropped' \subseteq 1 .. consumed' /\ buffer' \in Seq(Nat) /\ received' \in Seq(Nat)
      BY <1>1
    <2>7. QED
      BY <2>2, <2>3, <2>4, <2>5, <2>6 DEF Types
  <1>3. Fresh' /\ SslOwned' /\ FailuresClose' /\ Sending' /\ Receiving'
    BY <1>1 DEF Fresh, SslOwned, FailuresClose, Sending, Receiving
  <1>4. QED
    BY <1>2, <1>3

(* Close, or a setting of an object that cannot be used.                   *)
LEMMA ClosedInv ==
  ASSUME Inv, pc = "idle", SSLCloseAfterError,
         UNCHANGED <<errors, pc, locals, answer, link, stream, wire, received>>
  PROVE  Inv'
  <1> USE DEF Inv, SSLCloseAfterError, locals, stream, link, SendLabels, RecvLabels, Labels
  <1>1. Types' /\ Fresh'
    BY DEF Types, Fresh
  <1>2. SslOwned' /\ FailuresClose'
    BY DEF SslOwned, FailuresClose
  <1>3. Sending' /\ Receiving'
    BY DEF Sending, Receiving
  <1>4. QED
    BY <1>1, <1>2, <1>3

(* Nothing that the invariant speaks of changes, save for the counters of  *)
(* the error queue, the kernel and the peer.                               *)
LEMMA OutsideInv ==
  ASSUME Inv, UNCHANGED <<members, pc, locals, answer, decrypted, consumed, dropped, wire, received>>,
         errors' \in Nat, room' \in Nat, arrived' \in Nat
  PROVE  Inv'
  <1> USE DEF Inv, members, locals, Kept
  <1>1. Types' /\ Fresh'
    BY DEF Types, Fresh
  <1>2. SslOwned' /\ FailuresClose'
    BY DEF SslOwned, FailuresClose
  <1>3. Sending' /\ Receiving'
    BY DEF Sending, Receiving
  <1>4. QED
    BY <1>1, <1>2, <1>3

(* Shutdown: what is read and thrown away is a gap of which the history    *)
(* knows, and no other.                                                    *)
LEMMA ShutdownInv == ASSUME Inv, NEW how, Shutdown(how) PROVE Inv'
  <1> USE DEF locals, stream, link, members
  <1>1. errors' \in Nat
    BY DEF Shutdown, Pop, Inv, Types
  <1>2. room' \in Nat
    BY DEF Shutdown, AlertImpossible, AlertOnly, AlertAwaited, Inv, Types
  <1>3. /\ pc = "idle" /\ ssl
        /\ UNCHANGED <<members, pc, locals, answer, hiccups, wire, received>>
    BY DEF Shutdown
  <1>4. CASE UNCHANGED stream
    BY <1>1, <1>2, <1>3, <1>4, OutsideInv DEF Inv, Types
  <1>5. CASE ~UNCHANGED stream
    <2>1. /\ decrypted' \in IF decrypted > consumed THEN {decrypted} ELSE decrypted + 1 .. arrived
          /\ consumed' = decrypted' /\ dropped' = dropped \cup (consumed + 1 .. consumed')
          /\ arrived' = arrived
      BY <1>5 DEF Shutdown, AlertImpossible, AlertOnly, AlertAwaited
    <2>2. /\ consumed \in Nat /\ decrypted \in Nat /\ consumed <= decrypted
          /\ dropped \subseteq 1 .. consumed /\ arrived \in Nat
      BY DEF Inv, Types
    <2>3. decrypted' \in Nat /\ consumed' \in Nat /\ consumed <= consumed' /\ consumed' <= decrypted'
      BY <2>1, <2>2
    <2>4. dropped' \subseteq 1 .. consumed'
      BY <2>1, <2>2, <2>3
    <2>5. Kept' = Kept
      BY <2>1, <2>2, <2>3 DEF Kept
    <2>6. Types' /\ Fresh'
      BY <1>1, <1>2, <1>3, <2>1, <2>2, <2>3, <2>4 DEF Inv, Types, Fresh
    <2>7. SslOwned' /\ FailuresClose' /\ Sending'
      BY <1>3 DEF Inv, SslOwned, FailuresClose, Sending
    <2>8. Receiving'
      BY <1>3, <2>5 DEF Inv, Receiving, RecvLabels
    <2>9. QED
      BY <2>6, <2>7, <2>8 DEF Inv
  <1>6. QED
    BY <1>4, <1>5

LEMMA CallInv == ASSUME Inv, Call PROVE Inv'
  <1> USE DEF Labels, SendLabels, RecvLabels
  <1>1. ASSUME Close PROVE Inv'
    BY <1>1, ClosedInv DEF Close
  <1>2. ASSUME Connect PROVE Inv'
    <2> DEFINE c == [name |-> "Connect", length |-> 0]
    <2>1. Begin(c, "connect") /\ c.name = "Connect" /\ c.length \in Nat
      BY <1>2 DEF Connect
    <2> HIDE DEF c
    <2>2. QED
      BY <2>1, BeginInv
  <1>3. ASSUME Configure PROVE Inv'
    <2>1. CASE fd /\ ssl /\ bio
      <3>1. errors' \in Nat /\ UNCHANGED members
        BY <1>3, <2>1 DEF Configure, Inv, Types
      <3>2. QED
        BY <1>3, <3>1, OutsideInv DEF Configure, link, stream, Inv, Types
    <2>2. CASE ~(fd /\ ssl /\ bio)
      BY <1>3, <2>2, ClosedInv DEF Configure
    <2>3. QED
      BY <2>1, <2>2
  <1>4. ASSUME NEW how, Shutdown(how) PROVE Inv'
    BY <1>4, ShutdownInv
  <1>5. ASSUME NEW n \in Lengths, Send(n) PROVE Inv'
    <2> DEFINE c == [name |-> "Send", length |-> n]
    <2>1. Begin(c, "send") /\ c.name = "Send" /\ c.length \in Nat
      BY <1>5, SocketSSLAssumption DEF Send
    <2> HIDE DEF c
    <2>2. QED
      BY <2>1, BeginInv
  <1>6. ASSUME NEW n \in Lengths, NEW name \in RecvCalls, Recv(name, n) PROVE Inv'
    <2> DEFINE c == [name |-> name, length |-> n]
    <2>1. Begin(c, LoopTo(c, 0, 0)) /\ c.name \in RecvCalls /\ c.length \in Nat
      BY <1>6, SocketSSLAssumption DEF Recv
    <2> HIDE DEF c
    <2>2. LoopTo(c, 0, 0) \in {"recv", "recvwait", "done"}
      BY LoopLabel
    <2>3. QED
      BY <2>1, <2>2, BeginInv
  <1>7. QED
    BY <1>1, <1>2, <1>3, <1>4, <1>5, <1>6, ConstructInv, DestroyInv DEF Call

LEMMA EnvironmentInv == ASSUME Inv, Environment PROVE Inv'
  <1>1. room' \in Nat /\ arrived' \in Nat /\ errors' \in Nat
    BY SocketSSLAssumption
    DEF Environment, ConnectEnds, PeerAnswers, PeerSends, PeerReads, PeerCloses, link, Inv, Types
  <1>2. QED
    BY <1>1, OutsideInv DEF Environment

LEMMA NextInv == ASSUME Inv, [Next]_vars PROVE Inv'
  <1>1. CASE UNCHANGED vars
    BY <1>1, OutsideInv DEF vars, link, stream, Inv, Types
  <1>2. CASE Next
    BY <1>2, CallInv, EnvironmentInv, HandshakeInv, SendInv, RecvInv DEF Next, Step
  <1>3. QED
    BY <1>1, <1>2

LEMMA InvAlways == Spec => []Inv
  <1>1. QED
    BY InitInv, NextInv, PTL DEF Spec

-----------------------------------------------------------------------------
(* Whichever calls fail and in which order, the object frees what it has   *)
(* made exactly once, and a call that uses the SSL object has it           *)
(* (SocketSSL.cpp:30-70, 386, 497-508).                                    *)
THEOREM SslIsOwned == Spec => []SslOwned
  <1>1. Inv => SslOwned
    BY DEF Inv
  <1>2. QED
    BY <1>1, InvAlways, PTL

(* A failure of any call closes the socket and frees the SSL object, and   *)
(* no other call but a constructor leaves one of them without the other    *)
(* (SocketSSL.cpp:212, 251, 390-394, 497-501).                             *)
THEOREM FailuresCloseTheSocket == Spec => []FailuresClose
  <1>1. Inv => FailuresClose
    BY DEF Inv
  <1>2. QED
    BY <1>1, InvAlways, PTL

(* Send: TRUE, or a socket that is still open, means that the message went *)
(* out whole, once and in order, for messages of every length and however  *)
(* the kernel cuts them (SocketSSL.cpp:145-177).                           *)
THEOREM WholeMessages == Spec => []MessagesWhole
  <1>1. Inv => MessagesWhole
    BY SegmentFacts DEF Inv, Types, Sending, MessagesWhole
  <1>2. QED
    BY <1>1, InvAlways, PTL

(* Recv and RecvToEnd: an open socket has handed its callers every byte    *)
(* that SSL_read has passed, once and in order, save for what              *)
(* Shutdown(SHUT_WR) has thrown away, for records and buffers of every     *)
(* length (SocketSSL.cpp:180-260, 374, 381).                               *)
THEOREM IntactStream == Spec => []StreamIntact
  <1>1. Inv => StreamIntact
    BY DEF Inv, Receiving, Holds, Kept, StreamIntact
  <1>2. QED
    BY <1>1, InvAlways, PTL
=============================================================================
