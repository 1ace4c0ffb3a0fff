-------------------------------- MODULE Socket -------------------------------
(***************************************************************************)
(* net::Socket (include/framework/Socket.hpp, src/framework/Socket.cpp): a *)
(* non-blocking socket and the epoll descriptor it waits on, with the      *)
(* kernel and the peer as its environment.                                 *)
(*                                                                         *)
(* One step of the model is one system call and the code up to the next    *)
(* one.  Time passes in epoll_wait only, in ticks; the bytes of a stream   *)
(* are numbered from 1, so that a lost, repeated or reordered byte shows.  *)
(* The callback functors of GlobalInfo may change the data and its length  *)
(* before a call uses them; the lengths here are the ones they leave.      *)
(***************************************************************************)
EXTENDS Integers, Sequences, FiniteSetsExt

CONSTANTS Lengths,      \* the lengths of the buffers that callers pass
          Addresses,    \* how many addresses getaddrinfo finds at most
          Timeout,      \* GetTimeout, in ticks
          Wait,         \* the 1500 ms given to epoll_wait, in ticks
          Room,         \* the bytes the kernel takes before a peer reads
          MaxArrived,   \* bound: the bytes a peer sends
          MaxHiccups    \* bound: EINTRs and wake-ups without a reason

ASSUME SocketAssumption ==
  /\ Lengths \subseteq Nat
  /\ Addresses \in Nat \ {0} /\ Timeout \in Nat /\ Wait \in Nat
  /\ Room \in Nat /\ MaxArrived \in Nat /\ MaxHiccups \in Nat

VARIABLES
  socketType,  \* "stream" (TCP) or "dgram" (UDP)
  fd, epfd,    \* is the member different from INVALID_SOCKET?
  open,        \* the descriptors that are open in the kernel
  pc,          \* the system call that comes next
  call,        \* the call in progress, with its arguments
  idx, addr,   \* its locals: bytes done, address tried
  elapsed,     \* ticks since it began
  buffer,      \* the bytes it has stored in the caller's buffer
  answer,      \* what the last call returned
  conn, shut,  \* the connection, and the directions shut down locally
  room,        \* bytes the kernel takes at once
  arrived, consumed,  \* bytes the peer has sent, and recv has taken
  hiccups,
  wire,        \* history: the bytes of the current call that the kernel took
  received     \* history: the bytes handed to the callers of Recv

object == <<socketType, fd, epfd, open>>
locals == <<call, idx, addr, elapsed, buffer>>
kernel == <<conn, shut, room, arrived, consumed, hiccups>>
vars == <<object, pc, locals, answer, kernel, wire, received>>

RecvCalls == {"Recv", "RecvNoWait", "RecvFunctor", "RecvToEnd"}
NoCall == [name |-> "none", length |-> 0]
Available == arrived - consumed
First(n) == [i \in 1 .. n |-> i]

TypeOK ==
  /\ socketType \in {"stream", "dgram"}
  /\ fd \in BOOLEAN /\ epfd \in BOOLEAN
  /\ open \in SUBSET {"fd", "epfd"}
  /\ pc \in {"new", "setup", "epoll", "register", "idle", "resolve", "connect", "send",
             "sendwait", "sendto", "sendtowait", "recv", "recvwait", "done", "destroyed"}
  /\ call.name \in RecvCalls \cup {"Connect", "Send", "SendTo", "none"}
  /\ idx \in 0 .. Max(Lengths) /\ idx <= call.length
  /\ addr \in 1 .. Addresses
  /\ elapsed \in Nat
  /\ buffer \in Seq(1 .. MaxArrived) /\ Len(buffer) <= call.length
  /\ answer.ok \in BOOLEAN /\ answer.count \in -1 .. Max(Lengths)
  /\ conn \in {"unconnected", "connecting", "connected", "finished", "broken"}
  /\ shut \in SUBSET {"read", "write"}
  /\ room \in 0 .. Room
  /\ consumed \in 0 .. arrived /\ arrived \in 0 .. MaxArrived
  /\ hiccups \in 0 .. MaxHiccups
  /\ wire \in Seq(1 .. Max(Lengths))
  /\ received \in Seq(1 .. MaxArrived)

Init ==
  /\ socketType \in {"stream", "dgram"}
  /\ fd = FALSE /\ epfd = FALSE /\ open = {}
  /\ pc = "new"
  /\ call = NoCall /\ idx = 0 /\ addr = 1 /\ elapsed = 0 /\ buffer = <<>>
  /\ answer = [name |-> "none", ok |-> FALSE, count |-> 0]
  /\ conn = "unconnected" /\ shut = {} /\ room = Room
  /\ arrived = 0 /\ consumed = 0 /\ hiccups = 0
  /\ wire = <<>> /\ received = <<>>

-----------------------------------------------------------------------------
(* Descriptors                                                             *)

Goto(label) == pc' = label

(* The members after a step, and what the kernel has open then.            *)
Descriptors(f, e, kept) == fd' = f /\ epfd' = e /\ open' = kept /\ UNCHANGED socketType

(* Close: each descriptor that is not invalid.                             *)
Close ==
  Descriptors(FALSE, FALSE,
              open \ ((IF fd THEN {"fd"} ELSE {}) \cup (IF epfd THEN {"epfd"} ELSE {})))

(* The constructor: socket ...                                             *)
Create ==
  /\ pc = "new"
  /\ \/ Descriptors(TRUE, FALSE, {"fd"}) /\ Goto("setup")
     \/ UNCHANGED object /\ Goto("idle")
  /\ UNCHANGED <<locals, answer, kernel, wire, received>>

(* ... blocking SIGPIPE and setting O_NONBLOCK ...                         *)
Setup ==
  /\ pc = "setup"
  /\ \/ UNCHANGED object /\ Goto("epoll")
     \/ Descriptors(FALSE, FALSE, open \ {"fd"}) /\ Goto("idle")
  /\ UNCHANGED <<locals, answer, kernel, wire, received>>

(* Mutant: the socket is forgotten and not closed.                         *)
CreateEpollLeaks ==
  /\ pc = "epoll"
  /\ \/ Descriptors(TRUE, TRUE, {"fd", "epfd"}) /\ Goto("register")
     \/ Descriptors(FALSE, FALSE, open) /\ Goto("idle")
  /\ UNCHANGED <<locals, answer, kernel, wire, received>>

(* ... epoll_create1 ...                                                   *)
CreateEpoll ==
  /\ pc = "epoll"
  /\ \/ Descriptors(TRUE, TRUE, {"fd", "epfd"}) /\ Goto("register")
     \/ Descriptors(FALSE, FALSE, open \ {"fd"}) /\ Goto("idle")
  /\ UNCHANGED <<locals, answer, kernel, wire, received>>

(* ... and epoll_ctl.                                                      *)
Register ==
  /\ pc = "register"
  /\ \/ UNCHANGED object /\ Goto("idle")
     \/ Descriptors(FALSE, FALSE, open \ {"fd", "epfd"}) /\ Goto("idle")
  /\ UNCHANGED <<locals, answer, kernel, wire, received>>

CallClose ==
  /\ pc = "idle" /\ Close
  /\ UNCHANGED <<pc, locals, answer, kernel, wire, received>>

Destroy ==
  /\ pc = "idle" /\ Close /\ Goto("destroyed")
  /\ UNCHANGED <<locals, answer, kernel, wire, received>>

-----------------------------------------------------------------------------
(* Calls                                                                   *)

(* A call begins with a look at fd; its system calls are made from label.  *)
Begin(c, label) ==
  /\ pc = "idle"
  /\ call' = c /\ idx' = 0 /\ addr' = 1 /\ elapsed' = 0
  /\ buffer' = <<>> /\ wire' = <<>>
  /\ UNCHANGED <<object, kernel, received>>
  /\ IF fd THEN Goto(label) /\ UNCHANGED answer
     ELSE UNCHANGED pc /\ answer' = [name |-> c.name, ok |-> FALSE, count |-> -1]

(* The call returns; a Recv hands its buffer over.                         *)
Return(ok, count) ==
  /\ Goto("idle")
  /\ answer' = [name |-> call.name, ok |-> ok, count |-> count]

ReturnTrue == Return(TRUE, idx) /\ UNCHANGED <<object, locals, wire, received>>

(* CloseAfterError, and FALSE or -1.                                       *)
GiveUp == Close /\ Return(FALSE, -1) /\ UNCHANGED <<locals, wire, received>>

(* A system call returns EINTR, and is made again.                         *)
Interrupted ==
  /\ pc \in {"send", "sendto"}
  /\ hiccups < MaxHiccups
  /\ hiccups' = hiccups + 1
  /\ UNCHANGED <<object, pc, locals, answer, conn, shut, room, arrived, consumed, wire, received>>

(* epoll_wait (IsReadyForSend, IsReadyForRecv) takes d ticks.              *)
Spend(d) == elapsed' = elapsed + d /\ UNCHANGED <<call, idx, addr, buffer>>

(* It reports readiness for a reason, or once in a while for none.         *)
Ready(reason) ==
  /\ reason \/ hiccups < MaxHiccups
  /\ hiccups' = IF reason THEN hiccups ELSE hiccups + 1
  /\ UNCHANGED <<conn, shut, room, arrived, consumed>>

Broken   == conn \in {"unconnected", "broken"}
Writable == Broken \/ "write" \in shut \/ (conn # "connecting" /\ room > 0)
Readable == Broken \/ conn = "finished" \/ "read" \in shut \/ Available > 0

-----------------------------------------------------------------------------
(* Connect                                                                 *)

Connect == socketType = "stream" /\ Begin([name |-> "Connect", length |-> 0], "resolve")

(* getaddrinfo, here and in SendTo.                                        *)
Resolve ==
  /\ pc = "resolve"
  /\ Goto(IF call.name = "Connect" THEN "connect" ELSE "sendto")
  /\ UNCHANGED <<object, locals, answer, kernel, wire, received>>

ConnectResolveFails ==
  /\ pc = "resolve" /\ call.name = "Connect"
  /\ GiveUp /\ UNCHANGED kernel

(* connect succeeds, or is under way: TRUE either way.                     *)
ConnectStarts ==
  /\ pc = "connect"
  /\ conn \in {"unconnected", "broken"}
  /\ conn' \in {"connecting", "connected"}
  /\ ReturnTrue
  /\ UNCHANGED <<shut, room, arrived, consumed, hiccups>>

(* connect fails: the next address, or the end.                            *)
ConnectNext ==
  /\ pc = "connect" /\ addr < Addresses
  /\ addr' = addr + 1
  /\ UNCHANGED <<object, pc, call, idx, elapsed, buffer, answer, kernel, wire, received>>

ConnectFails == pc = "connect" /\ addr = Addresses /\ GiveUp /\ UNCHANGED kernel

-----------------------------------------------------------------------------
(* Send                                                                    *)

Send(n) == socketType = "stream" /\ Begin([name |-> "Send", length |-> n], "send")

(* send takes k bytes.                                                     *)
SendSome(k) ==
  /\ pc = "send" /\ idx # call.length
  /\ conn \in {"connected", "finished"} /\ "write" \notin shut
  /\ k \in 1 .. Min({room, call.length - idx})
  /\ idx' = idx + k
  /\ room' = room - k
  /\ wire' = wire \o [i \in 1 .. k |-> idx + i]
  /\ UNCHANGED <<object, pc, call, addr, elapsed, buffer, answer,
                 conn, shut, arrived, consumed, hiccups, received>>

SendBlocked ==
  /\ pc = "send" /\ idx # call.length
  /\ ~Writable
  /\ Goto("sendwait")
  /\ UNCHANGED <<object, locals, answer, kernel, wire, received>>

SendReady(d) ==
  /\ pc = "sendwait"
  /\ Ready(Writable) /\ Spend(d) /\ Goto("send")
  /\ UNCHANGED <<object, answer, wire, received>>

(* Mutant: a message that was cut short leaves the socket open.            *)
SendNotReadyReturns ==
  /\ pc = "sendwait" /\ Return(FALSE, -1)
  /\ UNCHANGED <<object, locals, kernel, wire, received>>

(* The time is up, or epoll fails.                                         *)
SendNotReady == pc = "sendwait" /\ GiveUp /\ UNCHANGED kernel

SendError ==
  /\ pc = "send" /\ idx # call.length
  /\ Broken \/ "write" \in shut
  /\ GiveUp /\ UNCHANGED kernel

SendDone == pc = "send" /\ idx = call.length /\ ReturnTrue /\ UNCHANGED kernel

-----------------------------------------------------------------------------
(* SendTo                                                                  *)

SendTo(n) == socketType = "dgram" /\ Begin([name |-> "SendTo", length |-> n], "resolve")

(* getaddrinfo fails: `return -1' in a function that returns bool.         *)
AsBool(n) == n # 0
SendToResolveFails ==
  /\ pc = "resolve" /\ call.name = "SendTo"
  /\ Close /\ Return(AsBool(-1), -1)
  /\ UNCHANGED <<locals, kernel, wire, received>>

(* Mutant: the message goes to every address.                              *)
SendToEvery ==
  /\ pc = "sendto"
  /\ wire' = wire \o First(call.length)
  /\ IF addr < Addresses
     THEN addr' = addr + 1 /\ UNCHANGED <<pc, answer, call, idx, elapsed, buffer>>
     ELSE Return(TRUE, call.length) /\ UNCHANGED locals
  /\ UNCHANGED <<object, kernel, received>>

(* A datagram goes out as a whole.                                         *)
SendToAll ==
  /\ pc = "sendto"
  /\ wire' = wire \o [i \in 1 .. call.length - idx |-> idx + i]
  /\ Return(TRUE, call.length)
  /\ UNCHANGED <<object, locals, kernel, received>>

SendToBlocked ==
  /\ pc = "sendto" /\ idx # call.length
  /\ Goto("sendtowait")
  /\ UNCHANGED <<object, locals, answer, kernel, wire, received>>

(* The kernel's queue for datagrams is not modelled: a retry counts as a   *)
(* hiccup.                                                                 *)
SendToReady(d) ==
  /\ pc = "sendtowait"
  /\ Ready(FALSE) /\ Spend(d) /\ Goto("sendto")
  /\ UNCHANGED <<object, answer, wire, received>>

(* An error, or no readiness: the next address, or the end.                *)
SendToNext ==
  /\ pc \in {"sendto", "sendtowait"} /\ idx # call.length
  /\ addr < Addresses
  /\ addr' = addr + 1
  /\ Goto("sendto")
  /\ UNCHANGED <<object, call, idx, elapsed, buffer, answer, kernel, wire, received>>

SendToFails ==
  /\ pc \in {"sendto", "sendtowait"} /\ idx # call.length
  /\ addr = Addresses
  /\ GiveUp /\ UNCHANGED kernel

-----------------------------------------------------------------------------
(* Recv, in its three forms                                                *)

(* The functor that ends RecvFunctor approves of goal bytes or more.       *)
RecvCall(name, n, goal, chunk) == [name |-> name, length |-> n, goal |-> goal, chunk |-> chunk]

(* Mutants: the time is not looked at; the functor is not asked.           *)
LoopToUntimed(c, i, time) ==
  IF i = c.length THEN "done" ELSE IF c.name = "RecvToEnd" THEN "recvwait" ELSE "recv"
LoopToUnasked(c, i, time) ==
  IF i = c.length THEN "done" ELSE IF c.name = "RecvToEnd" THEN "recvwait"
  ELSE IF time >= Timeout THEN "done" ELSE "recv"

(* The conditions of the three loops, in their order, after i bytes.       *)
LoopTo(c, i, time) ==
  CASE i = c.length                                -> "done"
    [] i # c.length /\ c.name = "RecvToEnd"        -> "recvwait"
    [] i # c.length /\ c.name # "RecvToEnd"        ->
         IF time >= Timeout \/ (c.name = "RecvFunctor" /\ i >= c.goal) THEN "done" ELSE "recv"

Recv(name, n) ==
  /\ socketType = "stream"
  /\ LET c == RecvCall(name, n, 0, 0) IN Begin(c, LoopTo(c, 0, 0))

(* A do-while loop: recv comes before the first look at the condition.     *)
RecvFunctor(n, goal, chunk) ==
  socketType = "stream" /\ Begin(RecvCall("RecvFunctor", n, goal, chunk), "recv")

(* How many bytes recv is asked for: the space left, or a chunk of it.     *)
Want == IF call.chunk = 0 \/ call.chunk > call.length THEN call.length - idx
        ELSE Min({call.chunk, call.length - idx})

(* Mutant: every recv stores at the beginning of the buffer.               *)
RecvSomeAtStart(k) ==
  /\ pc = "recv"
  /\ conn # "unconnected"
  /\ k \in 1 .. Min({Available, Want})
  /\ buffer' = [i \in 1 .. k |-> consumed + i]
  /\ consumed' = consumed + k
  /\ idx' = idx + k
  /\ Goto(IF call.name = "RecvNoWait" THEN "done" ELSE LoopTo(call, idx + k, elapsed))
  /\ UNCHANGED <<object, call, addr, elapsed, answer, conn, shut, room, arrived, hiccups, wire, received>>

RecvSome(k) ==
  /\ pc = "recv"
  /\ conn # "unconnected"
  /\ k \in 1 .. Min({Available, Want})
  /\ buffer' = SubSeq(buffer, 1, idx) \o [i \in 1 .. k |-> consumed + i]
  /\ consumed' = consumed + k
  /\ idx' = idx + k
  /\ Goto(IF call.name = "RecvNoWait" THEN "done" ELSE LoopTo(call, idx + k, elapsed))
  /\ UNCHANGED <<object, call, addr, elapsed, answer, conn, shut, room, arrived, hiccups, wire, received>>

(* Mutant: recv returning 0 does not end the loop.                         *)
RecvEofIgnored ==
  /\ pc = "recv"
  /\ Available = 0 /\ (conn = "finished" \/ "read" \in shut)
  /\ Goto(LoopTo(call, idx, elapsed))
  /\ UNCHANGED <<object, locals, answer, kernel, wire, received>>

(* recv returns 0: the peer has finished.                                  *)
RecvEof ==
  /\ pc = "recv"
  /\ Want = 0 \/ (Available = 0 /\ (conn = "finished" \/ "read" \in shut))
  /\ Goto("done")
  /\ UNCHANGED <<object, locals, answer, kernel, wire, received>>

RecvInterrupted ==
  /\ pc = "recv"
  /\ hiccups < MaxHiccups
  /\ hiccups' = hiccups + 1
  /\ Goto(LoopTo(call, idx, elapsed))
  /\ UNCHANGED <<object, locals, answer, conn, shut, room, arrived, consumed, wire, received>>

(* The operation would block: RecvToEnd, which has waited, calls it an     *)
(* error.                                                                  *)
RecvBlocked ==
  /\ pc = "recv" /\ Want > 0
  /\ ~Readable
  /\ call.name # "RecvToEnd"
  /\ Goto("recvwait")
  /\ UNCHANGED <<object, locals, answer, kernel, wire, received>>

(* Mutant: the socket stays open.                                          *)
RecvErrorReturns ==
  /\ pc = "recv" /\ Want > 0
  /\ \/ Broken /\ Available = 0
     \/ ~Readable /\ call.name = "RecvToEnd"
  /\ Return(FALSE, -1)
  /\ UNCHANGED <<object, locals, kernel, wire, received>>

RecvError ==
  /\ pc = "recv" /\ Want > 0
  /\ \/ Broken /\ Available = 0
     \/ ~Readable /\ call.name = "RecvToEnd"
  /\ GiveUp /\ UNCHANGED kernel

RecvReady(d) ==
  /\ pc = "recvwait"
  /\ Ready(Readable) /\ Spend(d)
  /\ Goto(IF call.name # "RecvToEnd" THEN LoopTo(call, idx, elapsed + d)
          ELSE IF elapsed + d < Timeout THEN "recv" ELSE "done")
  /\ UNCHANGED <<object, answer, wire, received>>

(* Not ready in time: an error, unless there is some data or RecvToEnd has *)
(* reached what it takes for the end.                                      *)
RecvNotReady ==
  /\ pc = "recvwait" /\ idx = 0 /\ call.name # "RecvToEnd"
  /\ GiveUp /\ UNCHANGED kernel

RecvEnough ==
  /\ pc = "recvwait" /\ (idx # 0 \/ call.name = "RecvToEnd")
  /\ Spend(Wait) /\ Goto("done")
  /\ UNCHANGED <<object, answer, kernel, wire, received>>

(* The result of RecvFunctor is what the functor said, FALSE when the      *)
(* loop's condition did not come to it.                                    *)
Approved == idx # call.length /\ elapsed < Timeout /\ idx >= call.goal

RecvDone ==
  /\ pc = "done"
  /\ Return(IF call.name = "RecvFunctor" THEN Approved ELSE TRUE, idx)
  /\ received' = received \o buffer
  /\ UNCHANGED <<object, locals, kernel, wire>>

-----------------------------------------------------------------------------
(* Shutdown, on a stream that IsAlive finds readable or writable.          *)
Shutdown(how) ==
  /\ pc = "idle" /\ fd /\ socketType = "stream"
  /\ Writable \/ Readable
  /\ conn \in {"connected", "finished"}
  /\ shut' = shut \cup how
  /\ UNCHANGED <<object, pc, locals, answer, conn, room, arrived, consumed, hiccups, wire, received>>

-----------------------------------------------------------------------------
(* The peer and the network                                                *)

ConnectEnds ==
  /\ conn = "connecting" /\ conn' \in {"connected", "broken"}
  /\ UNCHANGED <<shut, room, arrived, consumed, hiccups>>

PeerSends ==
  /\ conn = "connected" /\ arrived < MaxArrived
  /\ arrived' = arrived + 1
  /\ UNCHANGED <<conn, shut, room, consumed, hiccups>>

PeerReads ==
  /\ conn \in {"connected", "finished"} /\ room < Room
  /\ room' = room + 1
  /\ UNCHANGED <<conn, shut, arrived, consumed, hiccups>>

PeerCloses ==
  /\ \/ conn = "connected" /\ conn' \in {"finished", "broken"}
     \/ conn = "finished" /\ conn' = "broken"
  /\ UNCHANGED <<shut, room, arrived, consumed, hiccups>>

Environment ==
  /\ "fd" \in open
  /\ ConnectEnds \/ PeerSends \/ PeerReads \/ PeerCloses
  /\ UNCHANGED <<object, pc, locals, answer, wire, received>>

-----------------------------------------------------------------------------
Construct == Create \/ Setup \/ CreateEpoll \/ Register

Call ==
  \/ Connect \/ CallClose \/ Destroy
  \/ \E how \in {{"read"}, {"write"}, {"read", "write"}} : Shutdown(how)
  \/ \E n \in Lengths :
       \/ Send(n) \/ SendTo(n)
       \/ \E name \in RecvCalls \ {"RecvFunctor"} : Recv(name, n)
       \/ \E goal \in 1 .. n + 1, chunk \in 0 .. n + 1 : RecvFunctor(n, goal, chunk)

(* The steps of a call that has begun.                                     *)
Step ==
  \/ Resolve \/ ConnectResolveFails \/ ConnectStarts \/ ConnectNext \/ ConnectFails
  \/ \E k \in 1 .. Max(Lengths) : SendSome(k) \/ RecvSome(k)
  \/ \E d \in 0 .. Wait : SendReady(d) \/ SendToReady(d) \/ RecvReady(d)
  \/ Interrupted \/ SendBlocked \/ SendNotReady \/ SendError \/ SendDone
  \/ SendToResolveFails \/ SendToAll \/ SendToBlocked \/ SendToNext \/ SendToFails
  \/ RecvEof \/ RecvInterrupted \/ RecvBlocked \/ RecvError
  \/ RecvNotReady \/ RecvEnough \/ RecvDone

Next == Construct \/ Call \/ Step \/ Environment

(* The thread inside a call runs on.                                       *)
Spec == Init /\ [][Next]_vars /\ WF_vars(Step)

-----------------------------------------------------------------------------
(* Properties                                                              *)

(* Whichever step of the constructor or of a call fails, the descriptors   *)
(* open in the kernel are those in the members, and outside the            *)
(* constructor there are both or none (Socket.cpp:21-63, 579-602).         *)
Constructing == {"new", "setup", "epoll", "register"}
DescriptorsOwned ==
  /\ open = (IF fd THEN {"fd"} ELSE {}) \cup (IF epfd THEN {"epfd"} ELSE {})
  /\ pc \notin Constructing => fd = epfd

(* "TRUE - if sending data is successful" (Socket.hpp:331): the kernel has *)
(* every byte once and in order, whatever partial sends, interrupts and    *)
(* waits there were; and a message that was cut short is the last one on   *)
(* its connection.                                                         *)
MessagesWhole ==
  pc = "idle" /\ call.name = "Send" /\ (answer.ok \/ fd) => wire = First(call.length)

(* SendTo tries several addresses: it never sends the message to two, and  *)
(* to none if it returns FALSE (Socket.cpp:405-436).                       *)
DatagramOnce ==
  pc = "idle" /\ call.name = "SendTo" =>
    wire = IF answer.count = -1 THEN <<>> ELSE First(call.length)

(* No call of Recv loses a byte: as long as the socket is open, what the   *)
(* callers got is the peer's stream (Socket.cpp:214-371).                  *)
StreamIntact == pc = "idle" /\ fd => received = First(consumed)

(* "Has expired connection timeout" (Socket.hpp:348): a peer that sends    *)
(* its bytes one by one does not keep a Recv longer than the timeout and   *)
(* one wait.                                                               *)
RecvInTime == call.name \in RecvCalls => elapsed < Timeout + Wait

(* RecvFunctor never asks for more once it has stored what its functor     *)
(* calls complete, also when an interrupt or a wait has sent it round the  *)
(* loop again: what follows on the stream is left to the next call         *)
(* (Socket.cpp:299-314).                                                   *)
StopsWhenApproved ==
  call.name = "RecvFunctor" /\ pc \in {"recv", "recvwait"} => idx < call.goal

(* An error code goes with a closed socket, so that no caller goes on with *)
(* a stream of which something is missing (Socket.cpp:590-594).            *)
ErrorsClose == pc = "idle" /\ answer.count = -1 => ~fd

(* Every call returns, whatever the peer does (Socket.cpp:188, 226, 343).  *)
CallsReturn == (pc \notin Constructing) ~> (pc \in {"idle", "destroyed"})
=============================================================================
