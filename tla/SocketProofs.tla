---------------------------- MODULE SocketProofs -----------------------------
(***************************************************************************)
(* Descriptors, errors, the time limit of the receive loops, the end of    *)
(* RecvFunctor, and the data: messages, datagrams and the stream, for      *)
(* buffers, timeouts and peers of any size.                                *)
(***************************************************************************)
EXTENDS Socket, TLAPS

SendLabels == {"resolve", "connect", "send", "sendwait", "sendto", "sendtowait"}

(* As much of the types as the arithmetic of the loops needs.              *)
Types ==
  /\ fd \in BOOLEAN /\ epfd \in BOOLEAN
  /\ idx \in Nat /\ elapsed \in Nat
  /\ room \in Int /\ arrived \in Int /\ consumed \in Int
  /\ call.length \in Nat
  /\ call.name \in RecvCalls => call.goal \in Nat /\ call.chunk \in Nat
  /\ pc \in {"recv", "recvwait", "done"} => call.name \in RecvCalls
  /\ pc \in SendLabels => call.name \notin RecvCalls

(* Which members are set between the system calls of the constructor.      *)
Built ==
  /\ pc = "new" => ~fd /\ ~epfd
  /\ pc \in {"setup", "epoll"} => fd /\ ~epfd
  /\ pc = "register" => fd /\ epfd

(* The socket is closed from the call that returned an error on.           *)
ClosedByErrors ==
  /\ answer.count = -1 => ~fd
  /\ pc \in Constructing => answer.count # -1

(* A receive loop waits only while its time is not up.                     *)
TimeLeft ==
  Timeout > 0 /\ call.name \in RecvCalls =>
    /\ elapsed < Timeout + Wait
    /\ pc \in {"recv", "recvwait"} => elapsed < Timeout

IInv ==
  /\ Types
  /\ Built /\ DescriptorsOwned
  /\ ClosedByErrors
  /\ StopsWhenApproved

-----------------------------------------------------------------------------
LEMMA MinOfTwo ==
  ASSUME NEW a \in Int, NEW b \in Int
  PROVE  Min({a, b}) \in Int
  <1>1. \E x \in {a, b} : \A y \in {a, b} : x <= y
    OBVIOUS
  <1>2. Min({a, b}) \in {a, b}
    BY <1>1 DEF Min
  <1>3. QED
    BY <1>2

(* The constructor has not begun: nothing is open.                         *)
LEMMA InitIInv == Init => IInv
  <1> SUFFICES ASSUME Init
               PROVE  IInv
    OBVIOUS
  <1> USE DEF Init, NoCall, RecvCalls
  <1>0. call.name = "none" /\ call.length = 0
    OBVIOUS
  <1>1. Types
    <2>1. fd \in BOOLEAN /\ epfd \in BOOLEAN
      OBVIOUS
    <2>2. room \in Int /\ arrived \in Int /\ consumed \in Int
      BY SocketAssumption
    <2>3. QED
      BY <1>0, <2>1, <2>2 DEF Types, SendLabels
  <1>2. Built /\ ClosedByErrors /\ StopsWhenApproved
    BY DEF Built, ClosedByErrors, StopsWhenApproved
  <1>3. DescriptorsOwned
    BY DEF DescriptorsOwned, Constructing
  <1>4. QED
    BY <1>1, <1>2, <1>3 DEF IInv

(* How much one send or recv is asked for is a number.                     *)
LEMMA Amounts ==
  ASSUME Types
  PROVE  /\ Min({room, call.length - idx}) \in Int
         /\ call.name \in RecvCalls => Want \in Int /\ Min({Available, Want}) \in Int
  <1>1. Min({room, call.length - idx}) \in Int
    BY MinOfTwo DEF Types, SendLabels
  <1>2. ASSUME call.name \in RecvCalls
        PROVE  Want \in Int
    <2>1. Min({call.chunk, call.length - idx}) \in Int
      BY <1>2, MinOfTwo DEF Types, SendLabels
    <2>2. QED
      BY <1>2, <2>1 DEF Want, Types
  <1>3. ASSUME call.name \in RecvCalls
        PROVE  Min({Available, Want}) \in Int
    BY <1>2, <1>3, MinOfTwo DEF Available, Types
  <1>4. QED
    BY <1>1, <1>2, <1>3

-----------------------------------------------------------------------------
(* Calls begin and end in the same ways.                                   *)

(* A call that names its buffer, and for Recv its goal and chunk, begins.  *)
LEMMA BeginStep ==
  ASSUME IInv, NEW c, NEW label, Begin(c, label),
         c.length \in Nat,
         c.name \in RecvCalls => c.goal \in Nat /\ c.chunk \in Nat,
         label \in {"recv", "recvwait", "done"} => c.name \in RecvCalls,
         label \in SendLabels => c.name \notin RecvCalls,
         label \in {"recv", "recvwait"} /\ c.name = "RecvFunctor" => 0 < c.goal,
         label \notin Constructing
  PROVE  IInv'
  <1> USE DEF Begin, Goto, object, kernel
  <1>1. Types'
    BY DEF IInv, Types, SendLabels
  <1>2. Built'
    BY DEF IInv, Built, Constructing
  <1>3. DescriptorsOwned'
    BY DEF IInv, DescriptorsOwned, Constructing
  <1>4. ClosedByErrors'
    BY DEF IInv, ClosedByErrors, Constructing
  <1>5. StopsWhenApproved'
    BY DEF IInv, StopsWhenApproved, RecvCalls
  <1>6. QED
    BY <1>1, <1>2, <1>3, <1>4, <1>5 DEF IInv

(* Nothing stays open after Close.                                         *)
LEMMA CloseAll ==
  ASSUME DescriptorsOwned, Close
  PROVE  fd' = FALSE /\ epfd' = FALSE /\ open' = {}
  BY DEF Close, Descriptors, DescriptorsOwned

(* CloseAfterError.                                                        *)
LEMMA GiveUpStep ==
  ASSUME IInv, GiveUp, UNCHANGED kernel
  PROVE  IInv'
  <1> USE DEF GiveUp, Return, Goto, locals, kernel
  <1>0. fd' = FALSE /\ epfd' = FALSE /\ open' = {}
    BY CloseAll DEF IInv
  <1>1. Types'
    BY <1>0 DEF IInv, Types, SendLabels, Close, Descriptors
  <1>2. Built' /\ ClosedByErrors' /\ StopsWhenApproved'
    BY <1>0 DEF Built, ClosedByErrors, StopsWhenApproved, Constructing
  <1>3. DescriptorsOwned'
    BY <1>0 DEF DescriptorsOwned
  <1>4. QED
    BY <1>1, <1>2, <1>3 DEF IInv

(* A step inside a call that leaves the object and the answer alone, and   *)
(* asks for no more than its functor does.                                 *)
LEMMA InsideStep ==
  ASSUME IInv, Types', UNCHANGED object, UNCHANGED answer, UNCHANGED call,
         pc \notin Constructing, pc' \notin Constructing,
         StopsWhenApproved'
  PROVE  IInv'
  BY DEF IInv, Built, DescriptorsOwned, ClosedByErrors, Constructing, object

(* A call returns a number of bytes.                                       *)
LEMMA ReturnStep ==
  ASSUME IInv, Types', UNCHANGED object, NEW ok, NEW count \in Nat, Return(ok, count),
         pc \notin Constructing
  PROVE  IInv'
  BY DEF IInv, Built, DescriptorsOwned, ClosedByErrors, Constructing, StopsWhenApproved,
         Return, Goto, object

-----------------------------------------------------------------------------
(* The constructor: each failure closes what was open.                     *)
LEMMA ConstructStep == ASSUME IInv, Construct PROVE IInv'
  <1> USE DEF IInv, Types, SendLabels, Built, DescriptorsOwned, ClosedByErrors, StopsWhenApproved,
              Constructing, Descriptors, Goto, locals, kernel, object
  <1>1. CASE Create
    <2>1. fd = FALSE /\ epfd = FALSE /\ open = {}
      BY <1>1 DEF Create
    <2>2. CASE Descriptors(TRUE, FALSE, {"fd"}) /\ Goto("setup")
      BY <1>1, <2>2 DEF Create
    <2>3. CASE UNCHANGED object /\ Goto("idle")
      BY <1>1, <2>1, <2>3 DEF Create
    <2>4. QED
      BY <1>1, <2>2, <2>3 DEF Create
  <1>2. CASE Setup
    <2>1. fd = TRUE /\ epfd = FALSE /\ open = {"fd"}
      BY <1>2 DEF Setup
    <2>2. CASE UNCHANGED object /\ Goto("epoll")
      BY <1>2, <2>1, <2>2 DEF Setup
    <2>3. CASE Descriptors(FALSE, FALSE, open \ {"fd"}) /\ Goto("idle")
      BY <1>2, <2>1, <2>3 DEF Setup
    <2>4. QED
      BY <1>2, <2>2, <2>3 DEF Setup
  <1>3. CASE CreateEpoll
    BY <1>3 DEF CreateEpoll
  <1>4. CASE Register
    BY <1>4 DEF Register
  <1>5. QED
    BY <1>1, <1>2, <1>3, <1>4 DEF Construct

(* The beginning of every call, Close and the destructor.                  *)
LEMMA CallStep == ASSUME IInv, Call PROVE IInv'
  <1> USE SocketAssumption
  <1>1. CASE Connect
    BY <1>1, BeginStep DEF Connect, RecvCalls, SendLabels, Constructing
  <1>2. CASE CallClose \/ Destroy
    <2>1. fd' = FALSE /\ epfd' = FALSE /\ open' = {}
      BY <1>2, CloseAll DEF CallClose, Destroy, IInv
    <2>2. /\ pc = "idle" /\ pc' \in {"idle", "destroyed"}
          /\ UNCHANGED <<call, idx, elapsed, room, arrived, consumed, answer>>
      BY <1>2 DEF CallClose, Destroy, Goto, locals, kernel
    <2>3. Types'
      BY <2>1, <2>2 DEF IInv, Types, SendLabels
    <2>4. QED
      BY <2>1, <2>2, <2>3
         DEF IInv, Built, DescriptorsOwned, ClosedByErrors, StopsWhenApproved, Constructing
  <1>3. ASSUME NEW how, Shutdown(how)
        PROVE  IInv'
    <2>1. Types'
      BY <1>3 DEF Shutdown, IInv, Types, object, locals
    <2>2. StopsWhenApproved'
      BY <1>3 DEF Shutdown, StopsWhenApproved
    <2>3. QED
      BY <1>3, <2>1, <2>2, InsideStep DEF Shutdown, locals, Constructing
  <1>4. ASSUME NEW n \in Lengths, Send(n) \/ SendTo(n)
        PROVE  IInv'
    BY <1>4, BeginStep DEF Send, SendTo, RecvCalls, SendLabels, Constructing
  <1>5. ASSUME NEW n \in Lengths, NEW name \in RecvCalls \ {"RecvFunctor"}, Recv(name, n)
        PROVE  IInv'
    BY <1>5, BeginStep DEF Recv, RecvCall, LoopTo, RecvCalls, SendLabels, Constructing
  <1>6. ASSUME NEW n \in Lengths, NEW goal \in 1 .. n + 1, NEW chunk \in 0 .. n + 1,
               RecvFunctor(n, goal, chunk)
        PROVE  IInv'
    BY <1>6, BeginStep DEF RecvFunctor, RecvCall, RecvCalls, SendLabels, Constructing
  <1>7. QED
    BY <1>1, <1>2, <1>3, <1>4, <1>5, <1>6 DEF Call

(* Connect, Send and SendTo after their beginning.                         *)
LEMMA SendingStep ==
  ASSUME IInv,
         \/ Resolve \/ ConnectResolveFails \/ ConnectStarts \/ ConnectNext \/ ConnectFails
         \/ \E k \in 1 .. Max(Lengths) : SendSome(k)
         \/ \E d \in 0 .. Wait : SendReady(d) \/ SendToReady(d)
         \/ Interrupted \/ SendBlocked \/ SendNotReady \/ SendError \/ SendDone
         \/ SendToResolveFails \/ SendToAll \/ SendToBlocked \/ SendToNext \/ SendToFails
  PROVE  IInv'
  <1> USE DEF Goto, object, locals, kernel
  <1>1. CASE ConnectResolveFails \/ ConnectFails \/ SendNotReady \/ SendError \/ SendToFails
    BY <1>1, GiveUpStep DEF ConnectResolveFails, ConnectFails, SendNotReady, SendError, SendToFails
  <1>2. CASE ConnectStarts
    <2>1. Types'
      BY <1>2 DEF ConnectStarts, ReturnTrue, Return, IInv, Types, SendLabels
    <2>2. QED
      BY <1>2, <2>1, ReturnStep DEF ConnectStarts, ReturnTrue, IInv, Types, SendLabels, Constructing
  <1>3. CASE SendDone
    <2>1. Types'
      BY <1>3 DEF SendDone, ReturnTrue, Return, IInv, Types, SendLabels
    <2>2. QED
      BY <1>3, <2>1, ReturnStep DEF SendDone, ReturnTrue, IInv, Types, SendLabels, Constructing
  <1>4. CASE SendToAll
    <2>1. Types'
      BY <1>4 DEF SendToAll, Return, IInv, Types, SendLabels
    <2>2. QED
      BY <1>4, <2>1, ReturnStep DEF SendToAll, IInv, Types, SendLabels, Constructing
  <1>5. CASE SendToResolveFails
    <2>1. fd' = FALSE /\ epfd' = FALSE /\ open' = {}
      BY <1>5, CloseAll DEF SendToResolveFails, IInv
    <2>2. /\ pc' = "idle"
          /\ UNCHANGED <<call, idx, elapsed, room, arrived, consumed>>
      BY <1>5 DEF SendToResolveFails, Return
    <2>3. Types'
      BY <2>1, <2>2 DEF IInv, Types, SendLabels
    <2>4. QED
      BY <2>1, <2>2, <2>3
         DEF IInv, Built, DescriptorsOwned, ClosedByErrors, StopsWhenApproved, Constructing
  <1>6. CASE Resolve \/ ConnectNext \/ Interrupted \/ SendBlocked \/ SendToBlocked \/ SendToNext
    <2>1. Types'
      BY <1>6 DEF Resolve, ConnectNext, Interrupted, SendBlocked, SendToBlocked, SendToNext,
                  IInv, Types, SendLabels
    <2>2. /\ pc \notin Constructing /\ pc' \notin Constructing /\ pc' \notin {"recv", "recvwait"}
          /\ UNCHANGED <<object, answer, call>>
      BY <1>6 DEF Resolve, ConnectNext, Interrupted, SendBlocked, SendToBlocked, SendToNext,
                  Constructing
    <2>3. QED
      BY <2>1, <2>2, InsideStep DEF StopsWhenApproved
  <1>7. ASSUME NEW k \in 1 .. Max(Lengths), SendSome(k)
        PROVE  IInv'
    <2>1. Types'
      BY <1>7, Amounts DEF SendSome, IInv, Types, SendLabels
    <2>2. QED
      BY <1>7, <2>1, InsideStep DEF SendSome, StopsWhenApproved, Constructing
  <1>8. ASSUME NEW d \in 0 .. Wait, SendReady(d) \/ SendToReady(d)
        PROVE  IInv'
    <2>1. Types'
      BY <1>8, SocketAssumption DEF SendReady, SendToReady, Ready, Spend, IInv, Types, SendLabels
    <2>2. QED
      BY <1>8, <2>1, InsideStep
         DEF SendReady, SendToReady, Spend, StopsWhenApproved, Constructing
  <1>9. QED
    BY <1>1, <1>2, <1>3, <1>4, <1>5, <1>6, <1>7, <1>8

(* Where the loops go after i bytes and some time.                         *)
LEMMA LoopGoesOn ==
  ASSUME NEW c, NEW i \in Nat, NEW time \in Nat,
         c.name = "RecvFunctor" => c.goal \in Nat
  PROVE  /\ LoopTo(c, i, time) \in {"recv", "recvwait", "done"}
         /\ c.name = "RecvFunctor" /\ LoopTo(c, i, time) \in {"recv", "recvwait"} => i < c.goal
         /\ c.name # "RecvToEnd" /\ LoopTo(c, i, time) # "done" =>
              LoopTo(c, i, time) = "recv" /\ time < Timeout
         /\ c.name = "RecvToEnd" => LoopTo(c, i, time) \in {"recvwait", "done"}
  BY SocketAssumption DEF LoopTo

(* The three receive loops.                                                *)
LEMMA ReceivingStep ==
  ASSUME IInv,
         \/ \E k \in 1 .. Max(Lengths) : RecvSome(k)
         \/ \E d \in 0 .. Wait : RecvReady(d)
         \/ RecvEof \/ RecvInterrupted \/ RecvBlocked \/ RecvError
         \/ RecvNotReady \/ RecvEnough \/ RecvDone
  PROVE  IInv'
  <1> USE DEF Goto, object, locals, kernel
  <1>0. call.name = "RecvFunctor" => call.goal \in Nat
    BY DEF IInv, Types, SendLabels, RecvCalls
  <1>1. CASE RecvError \/ RecvNotReady
    BY <1>1, GiveUpStep DEF RecvError, RecvNotReady
  <1>2. ASSUME NEW k \in 1 .. Max(Lengths), RecvSome(k)
        PROVE  IInv'
    <2>1. k \in Nat /\ idx + k \in Nat /\ elapsed \in Nat /\ consumed + k \in Int
      BY <1>2, Amounts DEF RecvSome, IInv, Types, SendLabels
    <2>2. LoopTo(call, idx + k, elapsed) \in {"recv", "recvwait", "done"}
      BY <1>0, <2>1, LoopGoesOn
    <2>3. Types'
      BY <1>2, <2>1, <2>2 DEF RecvSome, IInv, Types, SendLabels
    <2>4. StopsWhenApproved'
      BY <1>0, <1>2, <2>1, LoopGoesOn DEF RecvSome, StopsWhenApproved
    <2>5. pc \notin Constructing /\ pc' \notin Constructing
      BY <1>2, <2>2 DEF RecvSome, Constructing
    <2>6. QED
      BY <1>2, <2>3, <2>4, <2>5, InsideStep DEF RecvSome
  <1>3. ASSUME NEW d \in 0 .. Wait, RecvReady(d)
        PROVE  IInv'
    <2>1. d \in Nat /\ idx \in Nat /\ elapsed + d \in Nat
      BY <1>3, SocketAssumption DEF IInv, Types, SendLabels
    <2>2. LoopTo(call, idx, elapsed + d) \in {"recv", "recvwait", "done"}
      BY <1>0, <2>1, LoopGoesOn
    <2>3. Types'
      BY <1>3, <2>1, <2>2 DEF RecvReady, Ready, Spend, IInv, Types, SendLabels
    <2>4. StopsWhenApproved'
      BY <1>0, <1>3, <2>1, LoopGoesOn DEF RecvReady, Spend, StopsWhenApproved
    <2>5. pc \notin Constructing /\ pc' \notin Constructing
      BY <1>3, <2>2 DEF RecvReady, Constructing
    <2>6. QED
      BY <1>3, <2>3, <2>4, <2>5, InsideStep DEF RecvReady, Spend
  <1>4. CASE RecvInterrupted
    <2>1. idx \in Nat /\ elapsed \in Nat
      BY DEF IInv, Types, SendLabels
    <2>2. LoopTo(call, idx, elapsed) \in {"recv", "recvwait", "done"}
      BY <1>0, <2>1, LoopGoesOn
    <2>3. Types'
      BY <1>4, <2>2 DEF RecvInterrupted, IInv, Types, SendLabels
    <2>4. StopsWhenApproved'
      BY <1>0, <1>4, <2>1, LoopGoesOn DEF RecvInterrupted, StopsWhenApproved
    <2>5. pc \notin Constructing /\ pc' \notin Constructing
      BY <1>4, <2>2 DEF RecvInterrupted, Constructing
    <2>6. QED
      BY <1>4, <2>3, <2>4, <2>5, InsideStep DEF RecvInterrupted
  <1>5. CASE RecvEof \/ RecvBlocked \/ RecvEnough
    <2>1. Types'
      BY <1>5, SocketAssumption DEF RecvEof, RecvBlocked, RecvEnough, Spend, IInv, Types, SendLabels
    <2>2. StopsWhenApproved'
      BY <1>5 DEF RecvEof, RecvBlocked, RecvEnough, IInv, StopsWhenApproved
    <2>3. /\ pc \notin Constructing /\ pc' \notin Constructing
          /\ UNCHANGED <<object, answer, call>>
      BY <1>5 DEF RecvEof, RecvBlocked, RecvEnough, Spend, Constructing
    <2>4. QED
      BY <2>1, <2>2, <2>3, InsideStep
  <1>6. CASE RecvDone
    <2>1. Types'
      BY <1>6 DEF RecvDone, Return, IInv, Types, SendLabels
    <2>2. QED
      BY <1>6, <2>1, ReturnStep DEF RecvDone, IInv, Types, SendLabels, Constructing
  <1>7. QED
    BY <1>1, <1>2, <1>3, <1>4, <1>5, <1>6

(* The kernel and the peer.                                                *)
LEMMA EnvironmentStep == ASSUME IInv, Environment PROVE IInv'
  <1>1. room' \in Int /\ arrived' \in Int /\ consumed' \in Int
    BY DEF Environment, ConnectEnds, PeerSends, PeerReads, PeerCloses, IInv, Types, SendLabels
  <1>2. UNCHANGED <<object, pc, locals, answer>>
    BY DEF Environment
  <1>3. Types'
    BY <1>1, <1>2 DEF IInv, Types, SendLabels, object, locals
  <1>4. QED
    BY <1>2, <1>3 DEF IInv, Built, DescriptorsOwned, ClosedByErrors, StopsWhenApproved,
                      Constructing, object, locals

LEMMA IInvStep == IInv /\ [Next]_vars => IInv'
  <1>1. ASSUME IInv, Step
        PROVE  IInv'
    BY <1>1, SendingStep, ReceivingStep DEF Step
  <1>2. ASSUME IInv, UNCHANGED vars
        PROVE  IInv'
    BY <1>2 DEF IInv, Types, SendLabels, Built, DescriptorsOwned, ClosedByErrors, StopsWhenApproved,
                Constructing, vars, object, locals, kernel
  <1>3. QED
    BY <1>1, <1>2, ConstructStep, CallStep, EnvironmentStep DEF Next

LEMMA IInvAlways == Spec => []IInv
  BY InitIInv, IInvStep, PTL DEF Spec

-----------------------------------------------------------------------------
(* No descriptor leaks and none is closed twice, whichever system call of  *)
(* the constructor or of a call fails.                                     *)
THEOREM NothingLeaks == Spec => []DescriptorsOwned
  <1>1. IInv => DescriptorsOwned
    BY DEF IInv
  <1>2. QED
    BY <1>1, IInvAlways, PTL

(* An error code always goes with a closed socket.                         *)
THEOREM ErrorsAreFinal == Spec => []ErrorsClose
  <1>1. IInv => ErrorsClose
    BY DEF IInv, ClosedByErrors, ErrorsClose
  <1>2. QED
    BY <1>1, IInvAlways, PTL

(* RecvFunctor asks for nothing beyond what its functor approves of,       *)
(* whatever interrupts, waits and chunk lengths there are.                 *)
THEOREM FunctorObeyed == Spec => []StopsWhenApproved
  <1>1. IInv => StopsWhenApproved
    BY DEF IInv
  <1>2. QED
    BY <1>1, IInvAlways, PTL

(* The arguments of a call stay what they are until the next call.         *)
LEMMA StepKeepsCall == Step => UNCHANGED call
  <1> USE DEF locals
  <1>1. ASSUME NEW k, SendSome(k) \/ RecvSome(k)
        PROVE  UNCHANGED call
    BY <1>1 DEF SendSome, RecvSome
  <1>2. ASSUME NEW d, SendReady(d) \/ SendToReady(d) \/ RecvReady(d)
        PROVE  UNCHANGED call
    BY <1>2 DEF SendReady, SendToReady, RecvReady, Spend
  <1>3. QED
    BY <1>1, <1>2
       DEF Step, Resolve, ConnectResolveFails, ConnectStarts, ConnectNext, ConnectFails,
           Interrupted, SendBlocked, SendNotReady, SendError, SendDone,
           SendToResolveFails, SendToAll, SendToBlocked, SendToNext, SendToFails,
           RecvEof, RecvInterrupted, RecvBlocked, RecvError, RecvNotReady, RecvEnough, RecvDone,
           GiveUp, ReturnTrue, Return, Spend

(* Time passes in the waits only, each of which begins in time.            *)
LEMMA TimeLeftStep == IInv /\ TimeLeft /\ [Next]_vars => TimeLeft'
  <1> SUFFICES ASSUME IInv, TimeLeft, [Next]_vars
               PROVE  TimeLeft'
    OBVIOUS
  <1> USE SocketAssumption DEF Goto, object, locals, kernel
  <1>0. /\ idx \in Nat /\ elapsed \in Nat
        /\ call.name = "RecvFunctor" => call.goal \in Nat
    BY DEF IInv, Types, RecvCalls
  <1>1. ASSUME UNCHANGED <<call, elapsed>>, pc' \in {"recv", "recvwait"} => pc \in {"recv", "recvwait"}
        PROVE  TimeLeft'
    BY <1>1 DEF TimeLeft
  <1>2. CASE Construct \/ Environment \/ UNCHANGED vars
    BY <1>1, <1>2 DEF Construct, Create, Setup, CreateEpoll, Register, Environment, vars
  <1>3. ASSUME NEW c, NEW label, Begin(c, label), fd
        PROVE  TimeLeft'
    BY <1>3 DEF Begin, TimeLeft
  <1>4. ASSUME NEW c, NEW label, Begin(c, label), ~fd
        PROVE  TimeLeft'
    BY <1>4 DEF Begin, TimeLeft
  <1>5. CASE Call
    BY <1>1, <1>3, <1>4, <1>5
       DEF Call, Connect, CallClose, Destroy, Shutdown, Send, SendTo, Recv, RecvFunctor
  <1>6. ASSUME call.name \in RecvCalls, Step
        PROVE  TimeLeft'
    <2>1. pc \notin SendLabels
      BY <1>6 DEF IInv, Types
    <2>2. ASSUME NEW k \in 1 .. Max(Lengths), RecvSome(k)
          PROVE  TimeLeft'
      BY <1>1, <2>2 DEF RecvSome
    <2>3. ASSUME NEW d \in 0 .. Wait, RecvReady(d)
          PROVE  TimeLeft'
      <3>1. elapsed' = elapsed + d /\ call' = call /\ elapsed' \in Nat
        BY <1>0, <2>3 DEF RecvReady, Spend
      <3>2. Timeout > 0 => elapsed' < Timeout + Wait
        BY <1>0, <1>6, <2>3, <3>1 DEF RecvReady, TimeLeft
      <3>3. pc' \in {"recv", "recvwait"} => elapsed' < Timeout
        <4>1. CASE call.name = "RecvToEnd"
          BY <2>3, <3>1, <4>1 DEF RecvReady
        <4>2. CASE call.name # "RecvToEnd"
          BY <1>0, <2>3, <3>1, <4>2, LoopGoesOn DEF RecvReady
        <4>3. QED
          BY <4>1, <4>2
      <3>4. QED
        BY <3>2, <3>3 DEF TimeLeft
    <2>4. CASE RecvEof \/ RecvInterrupted \/ RecvBlocked \/ RecvError \/ RecvNotReady \/ RecvDone
      BY <1>1, <2>4 DEF RecvEof, RecvInterrupted, RecvBlocked, RecvError, RecvNotReady,
                        RecvDone, GiveUp, Return
    <2>5. CASE RecvEnough
      BY <1>0, <1>6, <2>5 DEF RecvEnough, Spend, TimeLeft
    <2>6. QED
      BY <1>6, <2>1, <2>2, <2>3, <2>4, <2>5
         DEF Step, SendLabels, Resolve, ConnectResolveFails, ConnectStarts, ConnectNext, ConnectFails,
             SendSome, SendReady, SendToReady, Interrupted, SendBlocked, SendNotReady, SendError,
             SendDone, SendToResolveFails, SendToAll, SendToBlocked, SendToNext, SendToFails
  <1>7. ASSUME call.name \notin RecvCalls, Step
        PROVE  TimeLeft'
    BY <1>7, StepKeepsCall DEF TimeLeft
  <1>8. QED
    BY <1>2, <1>5, <1>6, <1>7 DEF Next

(* With a timeout of at least one tick no peer keeps a Recv longer than    *)
(* the timeout and one wait; with a timeout of zero RecvFunctor may use    *)
(* the whole wait, since its loop looks at the clock only after it.        *)
THEOREM TimeIsLimited == Spec => [](Timeout > 0 => RecvInTime)
  <1>1. Init => TimeLeft
    BY DEF Init, NoCall, RecvCalls, TimeLeft
  <1>2. IInv /\ TimeLeft /\ [Next]_vars => TimeLeft'
    BY TimeLeftStep
  <1>3. TimeLeft => (Timeout > 0 => RecvInTime)
    BY DEF TimeLeft, RecvInTime
  <1>4. QED
    BY <1>1, <1>2, <1>3, IInvAlways, PTL DEF Spec
-----------------------------------------------------------------------------
(* The data.                                                               *)
RecvLabels == {"recv", "recvwait", "done"}

(* n bytes of a stream, after the first a.                                 *)
Segment(a, n) == [i \in 1 .. n |-> a + i]

(* The message so far.                                                     *)
Sending ==
  /\ pc \in Constructing => call.name = "none"
  /\ pc \in {"send", "sendwait"} => call.name = "Send" /\ wire = Segment(0, idx)
  /\ pc = "idle" /\ call.name = "Send" /\ (answer.ok \/ fd) => wire = Segment(0, call.length)

(* No address has got the datagram yet.                                    *)
Datagrams ==
  /\ pc \in {"resolve", "sendto", "sendtowait"} => idx = 0 /\ wire = <<>>
  /\ pc = "resolve" => call.name \in {"Connect", "SendTo"}
  /\ pc = "connect" => call.name = "Connect"
  /\ pc \in {"sendto", "sendtowait"} => call.name = "SendTo"
  /\ pc = "idle" /\ call.name = "SendTo" =>
       wire = IF answer.count = -1 THEN <<>> ELSE Segment(0, call.length)

(* The stream so far: what callers have, and what the buffer adds to it.   *)
Receiving ==
  /\ consumed \in Nat
  /\ pc \in RecvLabels =>
       /\ idx <= consumed
       /\ received = Segment(0, consumed - idx) /\ buffer = Segment(consumed - idx, idx)
  /\ pc \notin RecvLabels /\ (fd \/ pc \in Constructing) => received = Segment(0, consumed)

DInv == Sending /\ Datagrams /\ Receiving

LEMMA JoinedSegments ==
  ASSUME NEW a \in Nat, NEW n \in Nat, NEW m \in Nat
  PROVE  Segment(a, n) \o Segment(a + n, m) = Segment(a, n + m)
  BY DEF Segment

LEMMA SegmentFacts ==
  ASSUME NEW a \in Nat, NEW n \in Nat
  PROVE  /\ Segment(a, 0) = <<>> /\ Segment(a, n) \in Seq(Nat) /\ Len(Segment(a, n)) = n
         /\ SubSeq(Segment(a, n), 1, n) = Segment(a, n)
         /\ First(n) = Segment(0, n)
  BY DEF Segment, First

LEMMA InitDInv == Init => DInv
  <1> SUFFICES ASSUME Init PROVE DInv
    OBVIOUS
  <1>1. pc = "new" /\ call.name = "none" /\ consumed = 0 /\ received = <<>>
    BY DEF Init, NoCall
  <1>2. Segment(0, 0) = <<>>
    BY SegmentFacts
  <1>3. QED
    BY <1>1, <1>2 DEF DInv, Sending, Datagrams, Receiving, Constructing, RecvLabels

(* Nothing that the data invariant speaks of changes.                      *)
LEMMA SameData ==
  ASSUME DInv, UNCHANGED <<fd, pc, call, idx, buffer, answer, consumed, wire, received>>
  PROVE  DInv'
  BY DEF DInv, Sending, Datagrams, Receiving

(* The socket is closed and the call, if any, has failed.                  *)
LEMMA ClosedData ==
  ASSUME DInv, pc' \in {"idle", "destroyed"}, fd' = FALSE,
         UNCHANGED <<call, consumed, wire, received>>,
         \/ pc = "idle" /\ UNCHANGED answer
         \/ /\ answer'.count = -1 /\ (call.name = "Send" => answer'.ok = FALSE)
            /\ call.name = "SendTo" => wire = <<>>
  PROVE  DInv'
  <1> USE DEF DInv, Constructing, RecvLabels
  <1>1. Sending'
    BY DEF Sending
  <1>2. Datagrams'
    BY DEF Datagrams
  <1>3. Receiving'
    BY DEF Receiving
  <1>4. QED
    BY <1>1, <1>2, <1>3

LEMMA GiveUpData ==
  ASSUME IInv, DInv, GiveUp, UNCHANGED kernel, call.name = "SendTo" => wire = <<>>
  PROVE  DInv'
  <1>1. fd' = FALSE
    BY CloseAll DEF IInv, GiveUp
  <1>2. QED
    BY <1>1, ClosedData DEF GiveUp, Return, Goto, locals, kernel

LEMMA ConstructData == ASSUME IInv, DInv, Construct PROVE DInv'
  <1>1. /\ pc \in Constructing /\ pc' \in Constructing \cup {"idle"}
        /\ UNCHANGED <<locals, answer, kernel, wire, received>>
    BY DEF Construct, Create, Setup, CreateEpoll, Register, Goto, Constructing
  <1> USE <1>1 DEF DInv, Constructing, RecvLabels, locals, kernel
  <1>2. Sending'
    BY DEF Sending
  <1>3. Datagrams'
    BY DEF Datagrams, Sending
  <1>4. Receiving'
    BY DEF Receiving
  <1>5. QED
    BY <1>2, <1>3, <1>4

LEMMA BeginData ==
  ASSUME IInv, DInv, NEW c, NEW label, Begin(c, label), label \notin Constructing,
         label \in {"send", "sendwait"} => c.name = "Send",
         label = "resolve" => c.name \in {"Connect", "SendTo"},
         label \notin {"idle", "connect", "sendto", "sendtowait"}
  PROVE  DInv'
  <1> USE DEF Begin, Goto, object, kernel
  <1>1. Segment(0, 0) = <<>> /\ Segment(consumed, 0) = <<>> /\ consumed \in Nat /\ consumed - 0 = consumed
    BY SegmentFacts DEF DInv, Receiving
  <1>2. CASE fd
    <2>1. received = Segment(0, consumed)
      BY <1>2 DEF DInv, Receiving, RecvLabels
    <2>2. /\ pc' = label /\ call' = c /\ idx' = 0 /\ buffer' = <<>> /\ wire' = <<>>
          /\ UNCHANGED <<consumed, received>>
      BY <1>2
    <2>3. Sending' /\ Datagrams'
      BY <1>1, <2>2 DEF Sending, Datagrams
    <2>4. Receiving'
      BY <1>1, <2>1, <2>2 DEF Receiving
    <2>5. QED
      BY <2>3, <2>4 DEF DInv
  <1>3. CASE ~fd
    <2>1. /\ pc' = "idle" /\ call' = c /\ fd' = fd /\ wire' = <<>>
          /\ answer'.ok = FALSE /\ answer'.count = -1 /\ UNCHANGED <<consumed, received>>
      BY <1>3
    <2>2. QED
      BY <1>1, <1>3, <2>1 DEF DInv, Sending, Datagrams, Receiving, Constructing, RecvLabels, IInv, Types
  <1>4. QED
    BY <1>2, <1>3

LEMMA CallData == ASSUME IInv, DInv, Call PROVE DInv'
  <1>1. CASE Connect
    BY <1>1, BeginData DEF Connect, Constructing
  <1>2. CASE CallClose \/ Destroy
    <2>1. fd' = FALSE
      BY <1>2, CloseAll DEF CallClose, Destroy, IInv
    <2>2. QED
      BY <1>2, <2>1, ClosedData DEF CallClose, Destroy, Goto, locals, kernel
  <1>3. ASSUME NEW how, Shutdown(how)
        PROVE  DInv'
    BY <1>3, SameData DEF Shutdown, object, locals
  <1>4. ASSUME NEW n \in Lengths, Send(n) \/ SendTo(n)
        PROVE  DInv'
    BY <1>4, BeginData DEF Send, SendTo, Constructing
  <1>5. ASSUME NEW n \in Lengths, NEW name \in RecvCalls \ {"RecvFunctor"}, Recv(name, n)
        PROVE  DInv'
    BY <1>5, BeginData DEF Recv, RecvCall, LoopTo, Constructing
  <1>6. ASSUME NEW n \in Lengths, NEW goal \in 1 .. n + 1, NEW chunk \in 0 .. n + 1,
               RecvFunctor(n, goal, chunk)
        PROVE  DInv'
    BY <1>6, BeginData DEF RecvFunctor, RecvCall, Constructing
  <1>7. QED
    BY <1>1, <1>2, <1>3, <1>4, <1>5, <1>6 DEF Call

LEMMA SendingData ==
  ASSUME IInv, DInv,
         \/ Resolve \/ ConnectResolveFails \/ ConnectStarts \/ ConnectNext \/ ConnectFails
         \/ \E k \in 1 .. Max(Lengths) : SendSome(k)
         \/ \E d \in 0 .. Wait : SendReady(d) \/ SendToReady(d)
         \/ Interrupted \/ SendBlocked \/ SendNotReady \/ SendError \/ SendDone
         \/ SendToResolveFails \/ SendToAll \/ SendToBlocked \/ SendToNext \/ SendToFails
  PROVE  DInv'
  <1> USE DEF Goto, object, locals, kernel, Constructing, RecvLabels
  <1>0. idx \in Nat /\ call.length \in Nat
    BY DEF IInv, Types
  <1>1. CASE ConnectResolveFails \/ ConnectFails \/ SendNotReady \/ SendError \/ SendToFails
    BY <1>1, GiveUpData DEF ConnectResolveFails, ConnectFails, SendNotReady, SendError, SendToFails,
                            DInv, Datagrams, Sending
  <1>2. CASE ConnectStarts
    BY <1>2 DEF ConnectStarts, ReturnTrue, Return, DInv, Sending, Datagrams, Receiving
  <1>3. CASE SendDone
    <2>1. call.name = "Send" /\ wire = Segment(0, call.length)
      BY <1>3 DEF SendDone, DInv, Sending
    <2>2. QED
      BY <1>3, <2>1 DEF SendDone, ReturnTrue, Return, DInv, Sending, Datagrams, Receiving
  <1>4. CASE SendToAll
    <2>1. idx = 0 /\ wire = <<>> /\ call.name = "SendTo"
      BY <1>4 DEF SendToAll, DInv, Datagrams
    <2>2. wire' = Segment(0, 0) \o Segment(0 + 0, call.length)
      <3>1. [i \in 1 .. call.length - idx |-> idx + i] = Segment(0 + 0, call.length)
        BY <1>0, <2>1 DEF Segment
      <3>2. QED
        BY <1>4, <2>1, <3>1, SegmentFacts DEF SendToAll
    <2>3. wire' = Segment(0, call.length)
      <3>1. Segment(0, 0) \o Segment(0 + 0, call.length) = Segment(0, 0 + call.length)
        BY <1>0, JoinedSegments
      <3>2. 0 + call.length = call.length
        BY <1>0
      <3>3. QED
        BY <2>2, <3>1, <3>2
    <2>4. answer'.count # -1 /\ pc' = "idle"
      BY <1>0, <1>4 DEF SendToAll, Return
    <2>5. QED
      BY <1>4, <2>1, <2>3, <2>4 DEF SendToAll, DInv, Sending, Datagrams, Receiving
  <1>5. CASE SendToResolveFails
    <2>1. fd' = FALSE
      BY <1>5, CloseAll DEF SendToResolveFails, IInv
    <2>2. QED
      BY <1>5, <2>1, ClosedData DEF SendToResolveFails, Return, DInv, Datagrams
  <1>6. CASE Resolve
    BY <1>6 DEF Resolve, DInv, Sending, Datagrams, Receiving
  <1>7. CASE ConnectNext \/ Interrupted
    BY <1>7, SameData DEF ConnectNext, Interrupted
  <1>8. CASE SendBlocked \/ SendToBlocked \/ SendToNext
    BY <1>8 DEF SendBlocked, SendToBlocked, SendToNext, DInv, Sending, Datagrams, Receiving
  <1>9. ASSUME NEW k \in 1 .. Max(Lengths), SendSome(k)
        PROVE  DInv'
    <2>1. k \in Nat /\ 0 + idx = idx
      BY <1>0, <1>9, Amounts DEF SendSome, IInv
    <2>2. pc = "send" /\ call.name = "Send" /\ wire = Segment(0, idx)
      BY <1>9 DEF SendSome, DInv, Sending
    <2>3. wire' = Segment(0, idx) \o Segment(0 + idx, k)
      BY <1>9, <2>1, <2>2 DEF SendSome, Segment
    <2>4. wire' = Segment(0, idx + k)
      BY <1>0, <2>1, <2>3, JoinedSegments
    <2>5. QED
      BY <1>9, <2>2, <2>4 DEF SendSome, DInv, Sending, Datagrams, Receiving
  <1>10. ASSUME NEW d \in 0 .. Wait, SendReady(d) \/ SendToReady(d)
         PROVE  DInv'
    BY <1>10 DEF SendReady, SendToReady, Ready, Spend, DInv, Sending, Datagrams, Receiving
  <1>11. QED
    BY <1>1, <1>2, <1>3, <1>4, <1>5, <1>6, <1>7, <1>8, <1>9, <1>10

LEMMA ReceivingData ==
  ASSUME IInv, DInv,
         \/ \E k \in 1 .. Max(Lengths) : RecvSome(k)
         \/ \E d \in 0 .. Wait : RecvReady(d)
         \/ RecvEof \/ RecvInterrupted \/ RecvBlocked \/ RecvError
         \/ RecvNotReady \/ RecvEnough \/ RecvDone
  PROVE  DInv'
  <1> USE DEF Goto, object, locals, kernel
  <1>0. /\ idx \in Nat /\ elapsed \in Nat /\ consumed \in Nat
        /\ call.name = "RecvFunctor" => call.goal \in Nat
    BY DEF IInv, Types, SendLabels, RecvCalls, DInv, Receiving
  <1>1. pc \in RecvLabels /\ call.name \in RecvCalls
    BY DEF RecvSome, RecvReady, RecvEof, RecvInterrupted, RecvBlocked, RecvError,
           RecvNotReady, RecvEnough, RecvDone, RecvLabels, IInv, Types
  <1>2. /\ idx <= consumed
        /\ received = Segment(0, consumed - idx) /\ buffer = Segment(consumed - idx, idx)
    BY <1>1 DEF DInv, Receiving
  <1>3. CASE RecvError \/ RecvNotReady
    BY <1>1, <1>3, GiveUpData DEF RecvError, RecvNotReady, RecvCalls
  <1>4. ASSUME pc' \in RecvLabels, UNCHANGED <<call, idx, buffer, consumed, received>>
        PROVE  DInv'
    BY <1>0, <1>1, <1>2, <1>4
    DEF DInv, Sending, Datagrams, Receiving, RecvLabels, RecvCalls, Constructing
  <1>5. CASE RecvEof \/ RecvBlocked \/ RecvEnough \/ RecvInterrupted
    BY <1>0, <1>4, <1>5, LoopGoesOn
    DEF RecvEof, RecvBlocked, RecvEnough, RecvInterrupted, Spend, RecvLabels
  <1>6. ASSUME NEW d \in 0 .. Wait, RecvReady(d)
        PROVE  DInv'
    <2>1. elapsed + d \in Nat
      BY <1>0, SocketAssumption
    <2>2. LoopTo(call, idx, elapsed + d) \in RecvLabels
      BY <1>0, <2>1, LoopGoesOn DEF RecvLabels
    <2>3. QED
      BY <1>4, <1>6, <2>2 DEF RecvReady, Ready, Spend, RecvLabels
  <1>7. ASSUME NEW k \in 1 .. Max(Lengths), RecvSome(k)
        PROVE  DInv'
    <2>1. k \in Nat /\ idx + k \in Nat /\ consumed + k \in Nat
      BY <1>0, <1>1, <1>7, Amounts DEF RecvSome, IInv
    <2>2. pc' \in RecvLabels
      BY <1>0, <1>7, <2>1, LoopGoesOn DEF RecvSome, RecvLabels
    <2>3. consumed - idx \in Nat /\ (consumed - idx) + idx = consumed
      BY <1>0, <1>2
    <2>4. buffer' = Segment(consumed - idx, idx) \o Segment((consumed - idx) + idx, k)
      <3>1. SubSeq(buffer, 1, idx) = Segment(consumed - idx, idx)
        BY <1>0, <1>2, <2>3, SegmentFacts
      <3>2. [i \in 1 .. k |-> consumed + i] = Segment((consumed - idx) + idx, k)
        BY <2>3 DEF Segment
      <3>3. QED
        BY <1>7, <3>1, <3>2 DEF RecvSome
    <2>5. buffer' = Segment(consumed - idx, idx + k)
      BY <1>0, <2>1, <2>3, <2>4, JoinedSegments
    <2>6. /\ consumed' = consumed + k /\ idx' = idx + k /\ consumed' - idx' = consumed - idx
          /\ UNCHANGED <<call, received>>
      BY <1>0, <1>7, <2>1 DEF RecvSome
    <2>7. QED
      BY <1>0, <1>1, <1>2, <2>1, <2>2, <2>5, <2>6
      DEF DInv, Sending, Datagrams, Receiving, RecvLabels, RecvCalls, Constructing
  <1>8. CASE RecvDone
    <2>1. consumed - idx \in Nat /\ 0 + (consumed - idx) = consumed - idx /\ (consumed - idx) + idx = consumed
      BY <1>0, <1>2
    <2>2. received' = Segment(0, consumed - idx) \o Segment(0 + (consumed - idx), idx)
      BY <1>2, <1>8, <2>1 DEF RecvDone
    <2>3. received' = Segment(0, consumed)
      <3>1. Segment(0, consumed - idx) \o Segment(0 + (consumed - idx), idx)
              = Segment(0, (consumed - idx) + idx)
        BY <1>0, <2>1, JoinedSegments
      <3>2. QED
        BY <2>1, <2>2, <3>1
    <2>4. pc' = "idle" /\ UNCHANGED <<call, consumed>>
      BY <1>8 DEF RecvDone, Return
    <2>5. QED
      BY <1>0, <1>1, <2>3, <2>4
      DEF DInv, Sending, Datagrams, Receiving, RecvLabels, RecvCalls, Constructing
  <1>9. QED
    BY <1>3, <1>5, <1>6, <1>7, <1>8

LEMMA DInvStep == IInv /\ DInv /\ [Next]_vars => DInv'
  <1> SUFFICES ASSUME IInv, DInv, [Next]_vars
               PROVE  DInv'
    OBVIOUS
  <1>1. CASE Step
    BY <1>1, SendingData, ReceivingData DEF Step
  <1>2. CASE Environment \/ UNCHANGED vars
    <2>1. UNCHANGED <<fd, pc, call, idx, buffer, answer, consumed, wire, received>>
      BY <1>2 DEF Environment, ConnectEnds, PeerSends, PeerReads, PeerCloses, vars, object, locals, kernel
    <2>2. QED
      BY <2>1, SameData
  <1>3. QED
    BY <1>1, <1>2, ConstructData, CallData DEF Next

LEMMA DInvAlways == Spec => [](IInv /\ DInv)
  <1>1. Spec => []DInv
    BY InitDInv, DInvStep, IInvAlways, PTL DEF Spec
  <1>2. QED
    BY <1>1, IInvAlways, PTL

(* A Send that reports success, or leaves the socket open, has given the   *)
(* kernel every byte once and in order (Socket.cpp:150-209).               *)
THEOREM WholeMessages == Spec => []MessagesWhole
  <1>1. IInv /\ DInv => MessagesWhole
    BY SegmentFacts DEF IInv, Types, DInv, Sending, MessagesWhole
  <1>2. QED
    BY <1>1, DInvAlways, PTL

(* SendTo never sends its datagram twice, whatever number of addresses it  *)
(* tries (Socket.cpp:405-436).                                             *)
THEOREM DatagramsOnce == Spec => []DatagramOnce
  <1>1. IInv /\ DInv => DatagramOnce
    BY SegmentFacts DEF IInv, Types, DInv, Datagrams, DatagramOnce
  <1>2. QED
    BY <1>1, DInvAlways, PTL

(* While the socket is open the callers of Recv have got the peer's stream *)
(* without a gap, whichever of its forms they use (Socket.cpp:214-371).    *)
THEOREM IntactStream == Spec => []StreamIntact
  <1>1. IInv /\ DInv => StreamIntact
    BY SegmentFacts DEF DInv, Receiving, RecvLabels, StreamIntact
  <1>2. QED
    BY <1>1, DInvAlways, PTL
=============================================================================
