------------------------------ MODULE SocketSSL ------------------------------
(***************************************************************************)
(* net::SocketSSL (include/framework/Socket.hpp, src/framework/            *)
(* SocketSSL.cpp): the SSL object on top of a Socket, its handshake, and   *)
(* the error queue of OpenSSL, which all the objects of a thread share and *)
(* which a call pops one entry from.                                       *)
(*                                                                         *)
(* The objects of a thread come one after the other.  One step is one call *)
(* of OpenSSL or of epoll and the code up to the next one.  OpenSSL, the   *)
(* kernel and the peer are the environment: records are decrypted one by   *)
(* one, and the bytes of the stream are numbered from 1.                   *)
(***************************************************************************)
EXTENDS Integers, Sequences, FiniteSetsExt

CONSTANTS Lengths,      \* the lengths of the buffers that callers pass
          Flights,      \* how many messages handshakes may have, client and peer in turn
          Timeout,      \* GetTimeout, in ticks
          Wait,         \* the 1500 ms given to epoll_wait, in ticks
          Room,         \* the bytes the kernel takes before a peer reads
          MaxArrived,   \* bound: the bytes a peer sends
          MaxErrors,    \* bound: entries in the error queue
          MaxHiccups    \* bound: wake-ups for part of one record

ASSUME SocketSSLAssumption ==
  /\ Lengths \subseteq Nat /\ Flights \subseteq Nat \ {0}
  /\ Timeout \in Nat /\ Wait \in Nat /\ Room \in Nat
  /\ MaxArrived \in Nat /\ MaxErrors \in Nat /\ MaxHiccups \in Nat

VARIABLES
  fd, ssl, bio,   \* are the members valid, or not null?
  heap,           \* the SSL objects and descriptors that exist
  errors,         \* entries in the error queue of the thread
  pc,             \* the call of OpenSSL or epoll that comes next
  call,           \* the call in progress, with its arguments
  idx, elapsed,   \* its locals: bytes done, ticks since it began
  buffer,         \* the bytes it has stored in the caller's buffer
  answer,         \* what the last call returned
  conn, flight,   \* the TCP connection, the messages of its handshake so far, or Over
  shut,           \* the shutdown flags of the SSL object, and whether it has failed for good
  closed,         \* the directions of the TCP connection that are shut down
  room,           \* bytes the kernel takes at once
  arrived,        \* bytes that have arrived in whole records
  decrypted,      \* bytes of the records that the SSL object has taken
  consumed,       \* bytes that SSL_read has handed over
  dropped,        \* history: bytes that SSL_shutdown has thrown away
  hiccups,
  wire,           \* history: the bytes of the current call that were sent
  received        \* history: the bytes handed to the callers of Recv

members == <<fd, ssl, bio, heap>>
locals  == <<call, idx, elapsed, buffer>>
link    == <<conn, flight, shut, closed, room>>
stream  == <<arrived, decrypted, consumed, dropped>>
vars    == <<members, errors, pc, locals, answer, link, stream, hiccups, wire, received>>

RecvCalls == {"Recv", "RecvNoWait", "RecvToEnd"}
NoCall    == [name |-> "none", length |-> 0]
NoAnswer  == [name |-> "none", ok |-> FALSE, count |-> 0]
Over      == 0 - 1
First(n)  == [i \in 1 .. n |-> i]

TypeOK ==
  /\ fd \in BOOLEAN /\ ssl \in BOOLEAN /\ bio \in BOOLEAN
  /\ heap \in SUBSET {"fd", "ssl", "bio"}
  /\ errors \in 0 .. MaxErrors
  /\ pc \in {"new", "idle", "connect", "hs", "hswait", "send", "sendwait",
             "recv", "recvwait", "done"}
  /\ call.name \in RecvCalls \cup {"Connect", "Send", "none"} /\ call.length \in Lengths \cup {0}
  /\ idx \in 0 .. call.length /\ elapsed \in Nat
  /\ buffer \in Seq(1 .. MaxArrived) /\ Len(buffer) = idx * (IF call.name = "Send" THEN 0 ELSE 1)
  /\ answer.ok \in BOOLEAN /\ answer.count \in Lengths \cup {0, -1}
  /\ conn \in {"unconnected", "connecting", "connected", "finished", "broken"}
  /\ flight \in Nat \cup {Over} /\ room \in 0 .. Room
  /\ shut \in SUBSET {"sent", "received", "failed"} /\ closed \in SUBSET {"sent", "received"}
  /\ arrived \in 0 .. MaxArrived /\ decrypted \in 0 .. arrived /\ consumed \in 0 .. decrypted
  /\ dropped \subseteq 1 .. consumed
  /\ hiccups \in 0 .. MaxHiccups
  /\ wire \in Seq(Nat) /\ received \in Seq(1 .. MaxArrived)

Init ==
  /\ fd = FALSE /\ ssl = FALSE /\ bio = FALSE /\ heap = {}
  /\ errors = 0
  /\ pc = "new"
  /\ call = NoCall /\ idx = 0 /\ elapsed = 0 /\ buffer = <<>> /\ answer = NoAnswer
  /\ conn = "unconnected" /\ flight = 0 /\ shut = {} /\ closed = {} /\ room = Room
  /\ arrived = 0 /\ decrypted = 0 /\ consumed = 0 /\ dropped = {} /\ hiccups = 0
  /\ wire = <<>> /\ received = <<>>

-----------------------------------------------------------------------------
(* The members                                                             *)

Goto(label) == pc' = label

\* Mutant: the pointer is cleared and the object is not freed.
SSLCloseAfterErrorForgets ==
  /\ fd' = FALSE /\ ssl' = FALSE /\ heap' = heap \ (IF fd THEN {"fd"} ELSE {})
  /\ UNCHANGED bio

\* Freeing the SSL object frees the BIO that was given to it; the BIO does not
\* close the descriptor, and the pointer to it stays.  Close, and with it
\* Socket::CloseAfterError, which calls the virtual Close, do the same.
SSLCloseAfterError ==
  /\ fd' = FALSE /\ ssl' = FALSE
  /\ heap' = heap \ ((IF fd THEN {"fd"} ELSE {}) \cup (IF ssl THEN {"ssl", "bio"} ELSE {}))
  /\ UNCHANGED bio

\* ERR_get_error, after n more entries.
Pop(n) == errors' = IF errors + n = 0 THEN 0 ELSE errors + n - 1
Fits(n) == errors + n <= MaxErrors

\* The constructors: Socket, SSL_new, SSL_set_cipher_list and BIO_new_socket,
\* each of which may fail.  A Socket that failed does not stop them.
Construct ==
  /\ pc = "new"
  /\ \E socket, badMethod \in BOOLEAN :
       IF badMethod
       THEN fd' = FALSE /\ ssl' = FALSE /\ bio' = FALSE /\ heap' = {} /\ UNCHANGED errors
       ELSE \/ /\ fd' = socket /\ ssl' = TRUE /\ bio' = TRUE
               /\ heap' = {"ssl", "bio"} \cup (IF socket THEN {"fd"} ELSE {})
               /\ UNCHANGED errors
            \/ /\ fd' = FALSE /\ ssl' = FALSE /\ bio' = FALSE /\ heap' = {}
               /\ \E n \in 0 .. 2 : Fits(n) /\ Pop(n)
  /\ Goto("idle")
  /\ UNCHANGED <<locals, answer, link, stream, hiccups, wire, received>>

Close ==
  /\ pc = "idle" /\ SSLCloseAfterError
  /\ UNCHANGED <<errors, pc, locals, answer, link, stream, hiccups, wire, received>>

\* The destructor; the thread may make another object, with another connection.
Destroy ==
  /\ pc = "idle" /\ SSLCloseAfterError /\ Goto("new")
  /\ UNCHANGED errors
  /\ call' = NoCall /\ idx' = 0 /\ elapsed' = 0 /\ buffer' = <<>> /\ answer' = NoAnswer
  /\ conn' = "unconnected" /\ flight' = 0 /\ shut' = {} /\ closed' = {} /\ room' = Room
  /\ arrived' = 0 /\ decrypted' = 0 /\ consumed' = 0 /\ dropped' = {} /\ hiccups' = 0
  /\ wire' = <<>> /\ received' = <<>>

-----------------------------------------------------------------------------
(* Calls                                                                   *)

Return(ok, count) == Goto("idle") /\ answer' = [name |-> call.name, ok |-> ok, count |-> count]
GiveUp == SSLCloseAfterError /\ Return(FALSE, -1)

Begin(c, label) ==
  /\ pc = "idle"
  /\ call' = c /\ idx' = 0 /\ elapsed' = 0 /\ buffer' = <<>> /\ wire' = <<>>
  /\ IF fd /\ ssl /\ bio
     THEN Goto(label) /\ UNCHANGED <<members, answer>>
     ELSE /\ SSLCloseAfterError /\ UNCHANGED pc
          /\ answer' = [name |-> c.name, ok |-> FALSE, count |-> -1]
  /\ UNCHANGED <<errors, link, stream, hiccups, received>>

\* What the code does after a call of OpenSSL that has not failed: an entry that
\* an earlier call left in the queue counts as its error.
Checked(next) ==
  IF errors > 0 THEN Pop(0) /\ GiveUp ELSE next /\ UNCHANGED errors

\* ... and after one that has failed, with entries of its own or with none.
Failed == GiveUp /\ \E n \in 0 .. 2 : Fits(n) /\ Pop(n)

Stay(label) == Goto(label) /\ UNCHANGED <<members, answer>>

Broken   == conn \in {"unconnected", "broken"}
Writable == Broken \/ (conn # "connecting" /\ room > 0)
Finished == conn = "finished" \/ "received" \in closed
Readable == Broken \/ Finished \/ arrived > decrypted
Ready    == flight = Over

\* IsReadyForSend and IsReadyForRecv report false: the time is up, or epoll fails.
NotReady(label) ==
  /\ pc = label /\ GiveUp
  /\ UNCHANGED <<errors, locals, link, stream, hiccups, wire, received>>

-----------------------------------------------------------------------------
(* Connect and the handshake                                               *)

Connect == Begin([name |-> "Connect", length |-> 0], "connect")

\* SetServerNameIndication, whose result is ignored, and Socket::Connect; the
\* handshake begins with clear flags.
ConnectStarts ==
  /\ pc = "connect"
  /\ \E n \in 0 .. 1 : Fits(n) /\ errors' = IF n = 0 THEN errors ELSE errors + n - 1
  /\ \/ /\ conn = "unconnected" /\ conn' \in {"connecting", "connected"} /\ shut' = {}
        /\ Stay("hs")
     \/ UNCHANGED <<conn, shut>> /\ GiveUp
  /\ UNCHANGED <<locals, flight, closed, room, stream, hiccups, wire, received>>

PeersTurn == ~Ready /\ flight % 2 = 1

\* One message more, which may be the last one.
Flown ==
  (IF flight + 1 \in Flights THEN {Over} ELSE {})
    \cup (IF \E n \in Flights : n > flight + 1 THEN {flight + 1} ELSE {})

\* SSL_do_handshake sends what is the client's turn to send ...
HandshakeSend ==
  /\ pc = "hs" /\ ~Ready /\ ~PeersTurn
  /\ conn \in {"connected", "finished"} /\ room > 0
  /\ flight' \in Flown /\ room' = room - 1
  /\ Checked(IF flight' = Over THEN Return(TRUE, 0) /\ UNCHANGED members ELSE Stay("hswait"))
  /\ UNCHANGED <<locals, conn, shut, closed, stream, hiccups, wire, received>>

\* ... or finds everything done, or must wait, or fails.
HandshakeDone ==
  /\ pc = "hs" /\ Ready
  /\ Checked(Return(TRUE, 0) /\ UNCHANGED members)
  /\ UNCHANGED <<locals, link, stream, hiccups, wire, received>>

HandshakeBlocked ==
  /\ pc = "hs" /\ ~Ready
  /\ IF PeersTurn THEN conn = "connected" ELSE ~Writable
  /\ Checked(Stay("hswait"))
  /\ UNCHANGED <<locals, link, stream, hiccups, wire, received>>

HandshakeFails ==
  /\ pc = "hs" /\ ~Ready
  /\ Broken \/ (PeersTurn /\ conn = "finished") \/ (~PeersTurn /\ flight > 0)
  /\ Failed
  /\ UNCHANGED <<locals, link, stream, hiccups, wire, received>>

\* Whichever the SSL object waits for, the loop waits to write.
HandshakeRetry ==
  /\ pc = "hswait" /\ Writable /\ Stay("hs")
  /\ UNCHANGED <<errors, locals, link, stream, hiccups, wire, received>>

-----------------------------------------------------------------------------
(* Send                                                                    *)

Send(n) == Begin([name |-> "Send", length |-> n], "send")

CanWrite == Ready /\ shut \cap {"sent", "failed"} = {} /\ "sent" \notin closed /\ ~Broken

\* SSL_write takes the whole message or, when the kernel is full, asks for the
\* same call again and goes on from where it was.
Write ==
  /\ pc = "send" /\ idx # call.length /\ CanWrite
  /\ LET left == call.length - Len(wire)
         n == Min({room, left})
     IN /\ wire' = wire \o [i \in 1 .. n |-> Len(wire) + i]
        /\ room' = room - n
        /\ IF errors = 0 /\ n = left THEN idx' = call.length ELSE UNCHANGED idx
        /\ Checked(Stay(IF n = left THEN "send" ELSE "sendwait"))
  /\ UNCHANGED <<call, elapsed, buffer, conn, flight, shut, closed, stream, hiccups, received>>

WriteFails ==
  /\ pc = "send" /\ idx # call.length /\ ~CanWrite
  /\ Failed
  /\ UNCHANGED <<locals, link, stream, hiccups, wire, received>>

SendReady ==
  /\ pc = "sendwait" /\ Writable /\ Stay("send")
  /\ UNCHANGED <<errors, locals, link, stream, hiccups, wire, received>>

\* Mutant: a message that was cut short leaves the socket open.
SendNotReadyReturns ==
  /\ pc = "sendwait" /\ Return(FALSE, -1)
  /\ UNCHANGED <<members, errors, locals, link, stream, hiccups, wire, received>>

SendNotReady == NotReady("sendwait")

SendDone ==
  /\ pc = "send" /\ idx = call.length
  /\ Return(TRUE, idx)
  /\ UNCHANGED <<members, errors, locals, link, stream, hiccups, wire, received>>

-----------------------------------------------------------------------------
(* Recv and RecvToEnd                                                      *)

\* The conditions of the two loops, in their order, after i bytes.
LoopTo(c, i, time) ==
  IF i = c.length THEN "done"
  ELSE IF c.name = "RecvToEnd" THEN "recvwait"
  ELSE IF time >= Timeout THEN "done" ELSE "recv"

Recv(name, n) == LET c == [name |-> name, length |-> n] IN Begin(c, LoopTo(c, 0, 0))

CanRead == Ready /\ shut \cap {"received", "failed"} = {}

\* How many of n bytes SSL_read hands over.
Taken(n) == Min({n, call.length - idx})

\* Mutant: every SSL_read stores at the beginning of the buffer.
StoredAtStart(k) == [i \in 1 .. idx + k |-> IF i <= k THEN consumed + i ELSE buffer[i - k]]

\* The buffer when SSL_read has stored k bytes at data[idx].
Stored(k) == SubSeq(buffer, 1, idx) \o [i \in 1 .. k |-> consumed + i]

\* SSL_read hands over what is left of a record, or decrypts the next one, of r
\* bytes.
ReadSome(r) ==
  /\ pc = "recv" /\ CanRead
  /\ IF decrypted > consumed THEN r = 0 ELSE r \in 1 .. arrived - decrypted
  /\ decrypted' = decrypted + r
  /\ LET k == Taken(decrypted' - consumed)
     IN /\ consumed' = consumed + k
        /\ IF errors > 0 THEN UNCHANGED <<idx, buffer>>
           ELSE idx' = idx + k /\ buffer' = Stored(k)
        /\ Checked(Stay(IF call.name = "RecvNoWait" THEN "done" ELSE LoopTo(call, idx + k, elapsed)))
  /\ UNCHANGED <<call, elapsed, link, arrived, dropped, hiccups, wire, received>>

Drained == decrypted = consumed /\ arrived = decrypted
Ended   == "received" \in shut \/ (CanRead /\ Drained /\ Finished)

\* Mutant: the loop goes on after a result of 0.
ReadEndIgnored ==
  /\ pc = "recv" /\ Ended
  /\ Checked(Stay(LoopTo(call, idx, elapsed)))
  /\ UNCHANGED <<locals, link, stream, hiccups, wire, received>>

\* SSL_read returns 0: the flag says so, or nothing more can arrive.
ReadEnd ==
  /\ pc = "recv" /\ Ended
  /\ Checked(Stay("done"))
  /\ UNCHANGED <<locals, link, stream, hiccups, wire, received>>

\* Recv waits then; RecvToEnd, which has waited, waits again.
ReadBlocked ==
  /\ pc = "recv" /\ CanRead /\ Drained /\ conn = "connected" /\ ~Finished
  /\ Checked(Stay("recvwait"))
  /\ UNCHANGED <<locals, link, stream, hiccups, wire, received>>

ReadCannot ==
  \/ CanRead /\ Drained /\ (Finished \/ conn = "broken")
  \/ "received" \notin shut /\ (~Ready \/ "failed" \in shut)

\* Mutant: the socket stays open.
ReadFailsReturns ==
  /\ pc = "recv" /\ ReadCannot /\ Return(FALSE, -1)
  /\ UNCHANGED <<members, errors, locals, link, stream, hiccups, wire, received>>

\* SSL_read fails.
ReadFails ==
  /\ pc = "recv" /\ ReadCannot /\ Failed
  /\ UNCHANGED <<locals, link, stream, hiccups, wire, received>>

RecvReady(d) ==
  /\ pc = "recvwait"
  /\ Readable \/ hiccups < MaxHiccups
  /\ hiccups' = IF Readable THEN 0 ELSE hiccups + 1
  /\ elapsed' = elapsed + d
  /\ Stay(IF call.name = "RecvToEnd"
          THEN IF elapsed' < Timeout THEN "recv" ELSE "done"
          ELSE LoopTo(call, idx, elapsed'))
  /\ UNCHANGED <<errors, call, idx, buffer, link, stream, wire, received>>

RecvNotReady ==
  /\ idx = 0 /\ call.name # "RecvToEnd" /\ NotReady("recvwait")

RecvEnough ==
  /\ pc = "recvwait" /\ (idx # 0 \/ call.name = "RecvToEnd")
  /\ elapsed' = elapsed + Wait /\ Stay("done")
  /\ UNCHANGED <<errors, call, idx, buffer, link, stream, hiccups, wire, received>>

RecvDone ==
  /\ pc = "done"
  /\ Return(TRUE, idx)
  /\ received' = received \o buffer
  /\ UNCHANGED <<members, errors, locals, link, stream, hiccups, wire>>

-----------------------------------------------------------------------------
(* Settings and Shutdown                                                   *)

\* SetOnlySecureCiphers, and the calls that set the ALPN protocols: the first
\* leaves the entry of a failure in the queue.
Configure ==
  /\ pc = "idle"
  /\ IF fd /\ ssl /\ bio
     THEN /\ \E n \in 0 .. 1 : Fits(n) /\ errors' = errors + n
          /\ UNCHANGED members
     ELSE SSLCloseAfterError /\ UNCHANGED errors
  /\ UNCHANGED <<pc, locals, answer, link, stream, hiccups, wire, received>>

\* SSL_shutdown on an object that cannot use the connection: an error.
AlertImpossible(how) ==
  /\ ~Ready \/ "failed" \in shut
  /\ shut' = how \cup (shut \cap {"failed"})
  /\ UNCHANGED <<room, stream>>

\* It sends the alert, now or later, unless the flag says that it was sent; with
\* both flags it has nothing to do.
AlertOnly(how) ==
  /\ Ready /\ "failed" \notin shut /\ "received" \in how
  /\ shut' = {"sent", "received"}
  /\ room' \in {room} \cup (IF "sent" \in how \/ room = 0 THEN {} ELSE {room - 1})
  /\ UNCHANGED stream

\* With the flag set it waits for the peer's alert, unless it has one to send.
\* What it reads instead, the rest of a record or the next one, it
\* throws away; newer versions then also give the connection up.
AlertAwaited(how) ==
  /\ Ready /\ "failed" \notin shut /\ how = {"sent"}
  /\ \/ UNCHANGED stream
     \/ /\ decrypted' \in IF decrypted > consumed THEN {decrypted} ELSE decrypted + 1 .. arrived
        /\ consumed' = decrypted'
        /\ dropped' = dropped \cup (consumed + 1 .. consumed')
  /\ \/ shut' = how
     \/ shut' = how \cup {"received"} /\ Drained /\ conn = "finished"
     \/ shut' = how \cup {"failed"} /\ (consumed' > consumed \/ Broken \/ Finished)
  /\ UNCHANGED <<room, arrived>>

\* The flags are assigned before SSL_shutdown, and those of an earlier Shutdown
\* are lost; then Socket::Shutdown, on a socket that IsAlive finds readable or
\* writable.
Shutdown(how) ==
  /\ pc = "idle" /\ ssl
  /\ AlertImpossible(how) \/ AlertOnly(how) \/ AlertAwaited(how)
  /\ errors' = errors \/ \E n \in 0 .. 1 : Fits(n) /\ Pop(n)
  /\ closed' = IF fd /\ ~Broken /\ (Writable \/ Readable) THEN closed \cup how ELSE closed
  /\ UNCHANGED <<members, pc, locals, answer, conn, flight, hiccups, wire, received>>

-----------------------------------------------------------------------------
(* The peer and the network                                                *)

ConnectEnds == conn = "connecting" /\ conn' \in {"connected", "broken"}
               /\ UNCHANGED <<flight, shut, closed, room, arrived>>
PeerAnswers == conn = "connected" /\ PeersTurn /\ flight' \in Flown
               /\ UNCHANGED <<conn, shut, closed, room, arrived>>
PeerSends   == conn = "connected" /\ Ready /\ arrived < MaxArrived /\ arrived' = arrived + 1
               /\ UNCHANGED link
PeerReads   == conn \in {"connected", "finished"} /\ room < Room /\ room' = room + 1
               /\ UNCHANGED <<conn, flight, shut, closed, arrived>>
PeerCloses  == conn \in {"connected", "finished"} /\ conn' \in {"finished", "broken"} \ {conn}
               /\ UNCHANGED <<flight, shut, closed, room, arrived>>

Environment ==
  /\ "fd" \in heap
  /\ ConnectEnds \/ PeerAnswers \/ PeerSends \/ PeerReads \/ PeerCloses
  /\ UNCHANGED <<members, errors, pc, locals, answer, decrypted, consumed, dropped, hiccups, wire, received>>

-----------------------------------------------------------------------------
Call ==
  \/ Construct \/ Close \/ Destroy \/ Connect \/ Configure
  \/ \E how \in {{"received"}, {"sent"}, {"sent", "received"}} : Shutdown(how)
  \/ \E n \in Lengths : Send(n) \/ \E name \in RecvCalls : Recv(name, n)

\* The steps of a call that has begun.
Step ==
  \/ ConnectStarts
  \/ HandshakeSend \/ HandshakeDone \/ HandshakeBlocked \/ HandshakeFails
  \/ HandshakeRetry \/ NotReady("hswait")
  \/ Write \/ WriteFails \/ SendReady \/ SendNotReady \/ SendDone
  \/ \E r \in 0 .. MaxArrived : ReadSome(r)
  \/ ReadEnd \/ ReadBlocked \/ ReadFails
  \/ \E d \in 0 .. Wait : RecvReady(d)
  \/ RecvNotReady \/ RecvEnough \/ RecvDone

Next == Call \/ Step \/ Environment

\* The thread inside a call runs on.
Spec == Init /\ [][Next]_vars /\ WF_vars(Step)

-----------------------------------------------------------------------------
(* Properties                                                              *)

(* Whichever calls fail, what the members name exists and what exists is   *)
(* named by a member; a call that uses the SSL object or its BIO has both, *)
(* and a destroyed object leaves nothing behind (SocketSSL.cpp:30-70, 386, *)
(* 497-508).                                                               *)
SslOwned ==
  /\ heap = (IF fd THEN {"fd"} ELSE {}) \cup (IF ssl THEN {"ssl", "bio"} ELSE {})
  /\ pc \notin {"new", "idle"} => {"fd", "ssl", "bio"} \subseteq heap /\ fd /\ ssl

(* "TRUE - if sending data is successful" (Socket.hpp:331): the whole      *)
(* message went out once and in order although every call passes the whole *)
(* length; and a message cut short is the last one of its connection.      *)
MessagesWhole ==
  pc = "idle" /\ call.name = "Send" /\ (answer.ok \/ fd) => wire = First(call.length)

(* As long as the socket is open the callers of Recv and RecvToEnd have    *)
(* got, once and in order, every byte of the peer's stream that SSL_read   *)
(* has passed, what a short buffer has left in the SSL object included,    *)
(* save for what Shutdown(SHUT_WR) has thrown away (SocketSSL.cpp:180-260, *)
(* 374, 381).                                                              *)
StreamIntact ==
  pc = "idle" /\ fd =>
    /\ \A i, j \in 1 .. Len(received) : i < j => received[i] < received[j]
    /\ {received[i] : i \in 1 .. Len(received)} = (1 .. consumed) \ dropped

(* A failure closes the socket and frees the SSL object, so that no caller *)
(* goes on with a stream of which something is missing, whichever of the   *)
(* two functions for it, one of them virtual in what it calls, an error    *)
(* path uses (SocketSSL.cpp:212, 251, 390-394, 497-501); only a            *)
(* constructor whose Socket failed leaves an SSL object without one.       *)
FailuresClose ==
  pc = "idle" =>
    /\ answer.count = -1 => ~fd /\ ~ssl
    /\ ssl /\ ~fd => answer.name = "none"

(* Every call returns, except Connect while the peer owes its answer: the  *)
(* handshake has no time limit (SocketSSL.cpp:272-294).                    *)
OnlyASilentPeerBlocks ==
  (pc \notin {"new", "idle"}) ~>
    (pc \in {"new", "idle"} \/ [](pc \in {"hs", "hswait"} /\ PeersTurn /\ conn = "connected"))
=============================================================================
