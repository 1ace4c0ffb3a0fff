# Protocol Analyzer: a TLA+ verification project

TLA+ models of the `framework` library of Protocol Analyzer (C++17, Linux), the
TLC configurations that check them on small instances, and theorems that TLAPS
checks for every instance. Paths are relative to the repository; `Log.hpp:329`
stands for `include/framework/Log.hpp`, line 329, and `Log.cpp` for
`src/framework/Log.cpp`.

The models were written from the code. What a doc comment promises is only used
to state properties; where code and comment disagree, a run shows it
(section 5).

## 1. The system

The library is a set of classes without a main loop. Threads are the user's;
the library keeps three process-wide objects (the logger, the callback registry
`storage::GI` and a static `sigset_t`) and three classes that are made to be
shared by threads (`LocalMutex`, `Notification`, `LockedDeque`).

| component | state | operations | uses |
|---|---|---|---|
| `LocalMutex` (Mutex) | a pthread mutex; three atomic flags: requested, already locked, already unlocked | Lock, TryLock, TryLockUntil/For, Unlock, Reset*Flag | pthread |
| `Notification` | a value, a `LocalMutex` | subject: SetValue, Notify; observers: Wait, WaitUntil/For | `LocalMutex`, its flags |
| `LockedDeque` | `std::deque`, `std::mutex` | Push, Pop*, Move, Swap, Clear, Size, IsEmpty, operator= | `std::scoped_lock` |
| `GlobalInfo` | per module an array of `unique_ptr` to functors; a mutex | SetCallback, GetCallback | called by `Socket` and `SocketSSL` on every send and receive |
| `Logger` | output stream, logfile descriptor, name, records limit and counter, a mutex | Push, SetLogFileRecordsLimit, ChangeLogFileName, SwitchLoggingEngine, ChangeVolume | the file system; used by every other component |
| `Socket` | a non-blocking descriptor, an epoll descriptor | Connect, Send, SendTo, three Recv loops, Shutdown, Close | kernel, `GlobalInfo` |
| `SocketSSL` | a `Socket`, an SSL object and its BIO; OpenSSL keeps an error queue per thread | Connect with handshake, Send, Recv, RecvToEnd, Shutdown, Close, settings | `Socket`, OpenSSL |
| `NetlinkInterface` | a netlink socket, a sequence number | three requests with multi-part replies, parsers that fill lists | `Socket` |
| `SystemNetworkConfiguration` | lists of interfaces and of routes that point into each other, a mutex | Initialize, Update, GetBestRouteForIpAddress | `NetlinkInterface` |
| `BinaryDataEngine` | a `unique_ptr` to bytes that it owns or refers to, a length, a mode, an endian | construction, copies, moves, assignments, references, growth, conversion of the endian, literals, Clear, Reset | allocation |
| `ByteStreamEngine`, `BitStreamEngine` | none: views of the bytes of a `BinaryDataEngine` | shifts, round shifts, set, invert, reverse, logical operators, predicates, conversions | `BinaryDataEngine` |
| `BinaryStructuredDataEngine` | a `BinaryDataEngine`, a template of field sizes | layouts | `BinaryDataEngine` |
| `Timer`, `Clock` | time points, run state; a global lag and advance | Start, Pause, Reset, UpdateAndGetCount, arithmetic | `Clock` |
| `PortsParser` | a text position, a current range | SetPorts, GetNextPort | |
| URI parser, HTTP tables, `NetworkTypes`, `IntegerValue`, `Common`, `System`, `Utilities` | none worth a state | text and address conversion | |
| scanner | parsed options | command line | boost |

What is hard in it:

* **Interleaving.** `Notification` builds an event out of a mutex that is owned
  most of the time, a polled flag and a value written with no lock at all.
  `LockedDeque` locks two objects at once. `GlobalInfo` and `Logger` declare
  their `lock_guard` inside a `try` block that ends before the work begins.
* **Failure in the middle.** `Logger` has three operations that change the name,
  the descriptor and the counter together, over opens and writes that may fail;
  `Socket` has a constructor of four system calls and loops over partial
  transfers.
* **Time.** Each receive loop has a limit of its own and one per `epoll_wait`.
* **Liveness.** `Notify` spins; `Swap` may be called in opposite orders; every
  socket call must return whatever the peer does; the loops that link routes and
  interfaces erase from the list they iterate over.
* **Order of calls.** A `BinaryDataEngine` owns its memory or only refers to it,
  and a dozen calls move it between the two. `SocketSSL` shares the error queue
  of OpenSSL with every other object of its thread.
* **Boundaries.** The bit engine has a branch per endian and mode for the first,
  the last and the middle byte of every shift; four of them are wrong
  (section 5).

What makes each component correct: the mutex is exclusive and its flags tell the
truth when they change (`LocalMutex`); no torn value, no event before its
signal, no signal unseen (`Notification`); linearizable calls, no element lost
or delivered twice, queue order, no deadlock (`LockedDeque`); each functor has
one owner and is found where it was set last (`GlobalInfo`); name, descriptor,
stream and counter agree and full volumes are left (`Logger`); no descriptor
leaks, messages are whole, the received stream has no gap, time limits hold
(`Socket`), and the SSL object lives as long as the socket (`SocketSSL`); lists
without dangling pointers, replies that do not mix, the best route
(`SystemNetworkConfiguration`); one owner per block, borrowed memory untouched
(`BinaryDataEngine`); the same result for a call in every endian as for a vector
of bits (`ByteStreamEngine`, `BitStreamEngine`).

## 2. The modules

| module | models | built on |
|---|---|---|
| `LocalMutex` | `Mutex.hpp/.cpp` | |
| `Notification` | `Notification.hpp` | EXTENDS `LocalMutex` |
| `NotificationProofs` | theorems about `LocalMutex` and `Notification` | EXTENDS `Notification`, `TLAPS` |
| `DequeCalls` | the methods of `LockedDeque` as operators on sequences | |
| `AtomicDeque` | what `LockedDeque` promises: one call, one instant | EXTENDS `DequeCalls` |
| `LockedDeque` | the same calls with their locks | EXTENDS `DequeCalls`, refines `AtomicDeque` |
| `LockedDequeProofs` | the refinement and the order of queues, proved | EXTENDS `LockedDeque`, `TLAPS` |
| `GlobalInfo` | the callback registry | |
| `GlobalInfoProofs` | theorems | EXTENDS `GlobalInfo`, `TLAPS` |
| `Logger` | engines, volumes and rotation, one thread | |
| `LoggerProofs` | theorems | EXTENDS `Logger`, `TLAPS` |
| `Socket` | a socket, with kernel and peer | |
| `SocketProofs` | theorems | EXTENDS `Socket`, `TLAPS` |
| `SocketSSL` | the SSL object, its handshake, its loops; OpenSSL, kernel and peer | |
| `SocketSSLProofs` | theorems | EXTENDS `SocketSSL`, `TLAPS` |
| `NetworkConfiguration` | `SystemNetworkConfiguration` with `NetlinkInterface` | |
| `NetworkConfigurationProofs` | theorems | EXTENDS `NetworkConfiguration`, `TLAPS` |
| `BitForms` | bytes as functions from positions to boolean forms | |
| `BitVector` | what the byte and bit engines promise: a vector of bits | EXTENDS `BitForms` |
| `BitStream` | `ByteStreamEngine.cpp`, `BitStreamEngine.cpp`, endian conversion and logical operators of `BinaryDataEngine` | EXTENDS `BitForms`, refines `BitVector` |
| `BinaryData` | ownership of the memory of `BinaryDataEngine` objects | |
| `BinaryDataProofs` | theorems about `BinaryData` and `BitStream` | EXTENDS both, `TLAPS` |
| `MCLockedDeque`, `MCGlobalInfo`, `MCLogger`, `MCNetworkConfiguration` | constants for TLC | |

In every module variables have the names of the members, actions those of the
methods. `pc` is a thread's place in its call. Definitions preceded by a comment
that begins with `Mutant:` are wrong on purpose: each is put in the place of the
definition below it to see that a property notices.

**LocalMutex.** `stage` splits a locking call where other threads may come in:
the request flag is stored (`Request`), pthread gives the mutex (`Acquire`) or
not (`GiveUp`), the flag is stored (`StoreLocked`); and unlocking is `Unlock`,
then `StoreUnlocked`, when somebody else may own the mutex already. The
framework locks only what it does not hold; that is `MutexNext`.

**Notification.** `Notify` is the sequence `Notify`, `NotifyUnlock`,
`NotifyUnlocked`, `NotifySeen`, `NotifyRelock`, `NotifyReturn`; `Wait` and
`WaitUntil` differ in how they may give up. Copying and assigning `Type` are two
steps each, so that a race has a state to be seen in.

**LockedDeque.** The body of a call is a `Read` and a `Write` step: if the
mutexes did not make it atomic, the model would show the lost update.
`std::scoped_lock` is `LockOne`, `LockBoth` and `BackOff`, from either end.
The copy constructor and copy assignment lock the mutex of a const object and do
not compile when they are used, so no program has them. `PopFront` catches
`std::system_error` only (`LockedDeque.hpp:259`): an element whose copy throws ends
the program there, where `Push` and `PopBack` return FALSE (`Throws`).

**GlobalInfo.** `SetCheck` is all that happens under the lock; allocation and
the three steps of `unique_ptr::reset` interleave freely, and so do readers,
which hold a raw pointer while they call it. A thread that does several calls is
enough to reach overwriting.

**Logger.** The calls are whole steps on a record `[log, disk]`; failing opens
follow from the sets `Unwritable` and `Unreadable`, failing writes are actions
(`PushPrefixFails`, `PushMessageFails`, `PushRotateFails`, `FlushFails`; the last
two leave the file behind that was to take over). Lines
written stay in the buffer of the stream (`unflushed`) until it is flushed or
closed: readers of the file do not see them before.

**Socket.** A step is one system call and the code up to the next one. Bytes of
a stream are numbered. `hiccups` bounds interrupts and spurious readiness, both
of which change nothing the loops count.

**SocketSSL.** A step is one call of OpenSSL or of `epoll_wait` and the code up to
the next one; the TCP connect below is one step. `heap` has what exists, `fd`,
`ssl` and `bio` what the members say. OpenSSL is written down as the code uses
it: a record is decrypted whole and handed over in parts, `SSL_write` wants the
same call again, a failure leaves entries in `errors` or none, and
`ERR_get_error` (`Pop`) takes one. The queue survives `Destroy`, since it belongs
to the thread, and so the next object meets what the last one left. A handshake
is over (`Over`) after one of the numbers of messages in `Flights`; `MaxHiccups`
bounds the wake-ups for part of one record. `Socket::CloseAfterError` calls the
virtual `Close`, so every error path of the derived class frees the SSL object
too (`SSLCloseAfterError`). `Shutdown` assigns the flags, calls `SSL_shutdown` and
then `Socket::Shutdown` (`closed`). `SSL_shutdown` with the flag "sent" looks for
the peer's alert and may read, and throw away, what the peer has sent instead:
these bytes are `dropped`, and the object may be unusable after it ("failed" in
`shut`).

**NetworkConfiguration.** A list is a sequence, a pointer the number of a list
node; numbers are used again after an Update, as memory is. The kernel's reply is
a sequence of messages that datagrams cut anywhere (`RecvPart`); it may be long,
end in an error or never end. `cursor` is the iterator, and `AfterErase` what
`it = list.erase(it)` followed by `++it` does in the circular list of libstdc++.

**BitForms, BitVector, BitStream.** The bits of a block are not 0 and 1 but the
numbers of the variables they come from (with zero, one, and the exclusive or,
and, or of two of them), so that one state stands for every content of a block.
`BitStream` has one operator per function of the engines, loop by loop, each
loop as a recursive function of its index;
`BitVector` has the result of the same call on a vector of bits, in which an
endian does not exist. `Vector` is the refinement mapping: the index a call uses
is turned into a byte and a position of it. A predicate's answer is the set or
sequence of bits it looks at, which is all it depends on. Calls that the
engine gets wrong are listed in `Defect` and `DefectOfOperands` and left out of
the passing run; `StreamDefects` puts them back. Its specification is called
`StreamSpec`, because the proofs extend `BitStream` and `BinaryData` together.

**BinaryData.** `block` is the heap, `object` the members that own or refer to it.
Assigning to `data` deletes what the `unique_ptr` held, whatever the mode says;
only Clear looks at the mode. The calls this breaks are excluded by `MayReplace`
and by conditions with `WithDefects`.

## 3. The runs

Passing runs:

| run | question | bounds |
|---|---|---|
| `local_mutex` | is the mutex exclusive, and what does a flag that turns true say of the thread that stores it? | 3 threads; nothing else grows |
| `notification` | races, early events, lost signals, both loops of `Notify` | 1 subject, 2 observers, 2 values; nothing else grows |
| `locked_deque` | linearizability (which includes that no element is lost or taken twice), order, termination | 2 threads, 2 deques, 2 calls each |
| `global_info` | life and place of functors with one setting thread | 1 setter, 2 readers, 4 functors, 2 slots |
| `logger` | consistency of name, descriptor, stream and counter; rotation | 2 names, 3 volumes, 3 lines, limits 1 and 2 (first 2), one file unwritable, one unreadable |
| `socket` | descriptors, whole messages, gapless stream, time, termination | buffers to 2 bytes, 2 addresses, 2 ticks |
| `socket_ssl` | SSL object and descriptor, whole messages, gapless stream, what a failure closes, who can block a call | buffers to 2 bytes, handshakes of 3 and 4 messages, 2 entries in the error queue, a kernel that takes 1 byte, waits and calls of one tick, any number of objects one after the other |
| `network` | dangling pointers, the best route, replies that mix, termination | 3 links of which one is not listed, 1 address, 7 routes with two defaults on one interface; replies of 3, 1 and 3 entries; any number of lookups and updates |
| `bit_stream` | is every call the call on a vector of bits? | blocks of 1 to 3 bytes (5 for predicates), 3 endians, 2 modes, all contents, every index and shift up to one past the end; 1 call |
| `binary_data` | who owns which block after any sequence of calls? | 2 objects, 3 blocks to allocate and 1 of the caller, sizes 0 to 2; any number of calls |

Why the bounds suffice. Two threads and two deques are what a lock-order
deadlock or a lost update takes; two calls each let an element be pushed, moved
and taken. A second observer is what can steal, time out or delay; a third one
can only repeat that, and the theorems of section 4 hold for any number. One
functor per slot plus two are enough to overwrite twice while a reader holds
the first. A logger with three lines per file and limits of one and two reaches
full and over-full volumes on both names, and three volumes let the loop in
`ChangeVolume` skip one. Two bytes of buffer make a partial transfer followed by
each outcome; two ticks of time with a wait of two make, in `socket`, both the
case where the call's limit ends it and the one where the wait does; in
`socket_ssl`, whose loops are the same in this, one tick ends both. Handshakes of
three and four messages end on either side; one byte of room blocks every longer message.
Three bytes have a first, a middle and a last one, which is what the loops of the
bit engine distinguish, and a word of four is overrun by five; one call is enough
because the refinement starts from every block. Three routes and three interfaces
let an erased element stand at the front, in the middle and at the end, with a
neighbour that is then skipped; two default routes on one of the interfaces let the
worse overwrite the better one. IPv6 addresses and prohibited routes, which the
parsers file apart or drop, are left to the theorems. Two objects and one more block than both can own
show a leak, a second owner and an allocation that fails or does not.

Every variable has a declaration of its type (`TypeOK`, `MutexTypeOK`,
`StreamTypeOK`). It is
part of the invariants that section 4 proves and no property of a run: a value
out of its type shows in the other properties first.

`CHECK_DEADLOCK FALSE` stands in the runs with bounded calls or inputs, and
where the program may end (a destroyed socket, a crash on a null array).
`binary_data`, `socket_ssl` and `network` check for deadlock.

**Fairness.** Only steps inside a call that has begun are fair: a thread that can
run is scheduled again. Nobody has to call anything, and no timeout has to
expire (`WaitTimeout` is not fair). Pthread mutexes promise no order, so
`NotifyReturns` carries the exception that observers keep taking the mutex;
`WaiterEndsSpin` needs none. `LockBoth` is strongly fair: the back-off of
`std::scoped_lock` may fail any number of times, not for ever. In `Socket` and
`SocketSSL`, an `epoll_wait` ends because it has a timeout: `Step` contains its
outcomes. The peer and the kernel are not fair, they may stop at any time. The
handshake has no limit of its own: `OnlyASilentPeerBlocks` says that a peer who
owes an answer is the only one who can keep it going. In `NetworkConfiguration`
`Step` has the steps of the one thread inside a call, the timeout of a request
among them.

Every property of a passing run is broken by at least one mutant (see
`PROJECT.json`).

## 4. The proofs

`NotificationProofs` proves, for any set of threads with any subject among them
and any non-empty set of values (`NotificationAssumption`,
`NoThreadAssumption`: the owner of a free mutex is not a thread):

* `TypeCorrect`: `Spec => []TypeOK`
* `EventsAfterSignals`: `Spec => []NoEventBeforeSignal`
* `RaceFree`: `Spec => []NoDataRace`
* `NotifyTells`: `Spec => []SignalDelivered`

None of them is inductive. `IInv` adds

* `MutexHeld`: the owner is the thread whose `stage` says so;
* `SubjectStage`, `ObserverStage`: `pc` and `stage` fit together; in particular
  the subject owns the mutex except between Notify's unlock and relock, and an
  observer that reads owns it. The two together give `NoDataRace` and
  `NoEventBeforeSignal`, since there is one owner;
* `FlagMeansReader`: if the subject polls and the flag is up, then somebody has
  read since the mutex was opened, or owns the mutex and has not read yet. This
  is why the flag may stand for the event: it is reset while the mutex is held,
  hence nobody else can raise it before the unlock;
* `ReadIsCurrent`: while the mutex is open nobody writes, so that what was read
  is still the value.

When Notify owns the mutex no observer does, so that `FlagMeansReader` leaves
"somebody has read", and `ReadIsCurrent` makes it the current value: that is
`SignalDelivered`.

The same module proves of `LocalMutex`, for any set of threads
(`NoThreadAssumption`):

* `Exclusion`: `MutexSpec => []MutualExclusion`
* `FlagsStoredTruly`: `MutexSpec => FlagsTrueWhenRaised`, an action property

`MutualExclusion` says both ways that a thread owns the mutex exactly in the
stages from `Acquire` to `Unlock`; with the types it is inductive. The thread that
stores a flag is the one whose stage changes: `isAlreadyLocked` is stored from the
stage after `Acquire`, which is an owner's, `isAlreadyUnlocked` from the one after
the unlock, which is not. Nothing more can be said of the second flag: another
thread may own the mutex by then.

`LockedDequeProofs` proves, for any sets of threads and deques and any bound on
the calls (`LockedDequeAssumption`: elements are made by the threads, the owner
of a free mutex is not a thread):

* `ImplementsAtomicDeque`: `Spec => Linearizable`
* `QueuesKeepOrder`: `Spec => []OldestFirst`

The refinement is the identity on `deque`, `local` and `answer`. A call takes
effect in its `Write` step (`ReturnOnItself` for a deque with itself), and every
other step changes nothing that is seen from outside. For `Write` to be the
abstract call, what it writes must be computed from what the deques hold now.
That is `SeenIsCurrent`, which needs

* `Locked`: from `Read` to `UnlockReturn` a thread owns every mutex of its call;
* `HalfLocked`: between the two halves of `std::scoped_lock` it owns one of two
  different mutexes, so that getting the other one makes `Locked` true;
* `NotOnItself`: a call of a deque with itself never gets that far (it would lock
  one mutex twice).

Since two owners of one mutex are one thread, a `Write` touches no deque that
another thread has read. `SameCalls` shows that the operators of `DequeCalls`
mean the same in both modules.

For `QueuesKeepOrder` the invariant `QInv` adds the order: what a thread is about
to push has a greater number than all it has pushed (`Calling`), and in every
deque of `queues` the elements of one thread get older from front to back, with
what was taken from it older still (`Ordered`). A deque leaves `queues` with the
first call that is no push or pop of a queue, and such a call touches only deques
that have left.

`GlobalInfoProofs` proves, for any numbers of readers, modules, slots and functors
and for one setting thread (`OneSetter`, an assumption of each theorem):

* `FunctorsHaveOneOwner`: `Spec => []OneOwner`
* `SettingTakesEffect`: `Spec => []SetTakesEffect`
* `ReadersAreSafe`: `Spec => []NoUseAfterDelete`
* `TypesKept`: `Spec => []TypeOK`, and no functor is deleted twice

`OneSetter` is what the code needs and does not ensure: with two setters the run
`global_info_two_setters` violates the second property. `Inv` says where a functor
is at each step: not in any slot until it is put there, nobody else's once it is,
and on its way to be deleted when it was replaced (`SetterHas`, `SlotHas`,
`FunctorHas`). With one setter the array is missing when it is allocated, and so
the allocation replaces nothing.

`LoggerProofs` proves, for any names, volumes, limits, lengths and sets of files
that cannot be opened (`LoggerAssumption`):

* `NameIsRestored`: `Spec => []FdIsNamedFile`
* `OutIsConnected`: `Spec => []OutFollowsEngine`
* `FullVolumesAreLeft`: `Spec => []RotatesInTime`
* `FilesOnlyGrow`: `Spec => NothingTruncated`, an action property

The invariant is `Good` (types, `Named`, `Wired`) with `Waits`, which is
`RotatesInTime` without its condition on `fd`: with the console engine a full
volume is left too, and otherwise going back to the logfile would find it full.
There is a lemma for each step of a call (`CommonLogger`, `Close`, `Create`, `Open`,
`MoveTo`, `ChangeVolume`), one for each call, and two about rotation: the next
volume has room (`NextVolumeHasRoom`), and what happens to the current file
changes nothing about the volumes after it (`WaitsStays`).

`SocketProofs` proves, for all sizes of buffers and messages, all timeouts and
numbers of addresses (`SocketAssumption`):

* `NothingLeaks`: `Spec => []DescriptorsOwned`
* `ErrorsAreFinal`: `Spec => []ErrorsClose`
* `FunctorObeyed`: `Spec => []StopsWhenApproved`
* `TimeIsLimited`: `Spec => [](Timeout > 0 => RecvInTime)`
* `WholeMessages`: `Spec => []MessagesWhole`
* `DatagramsOnce`: `Spec => []DatagramOnce`
* `IntactStream`: `Spec => []StreamIntact`

`IInv` holds the types that the arithmetic of the loops needs, `Built` (which
descriptors exist between the system calls of the constructor) and
`ClosedByErrors` (an error answer goes with a closed socket at every point of a
call, where `ErrorsClose` speaks of the end). `TimeLeft` is a second invariant:
a receive loop waits again only while its time is not up, so that the last wait
is all it can overrun. With a timeout of zero the property is false as stated
for `RecvFunctor`, whose loop looks at the clock only after its first wait; TLC
checks `RecvInTime` for a positive timeout, and the theorem says so.

For the last three, `DInv` adds what is where in the middle of a call: on the wire
is the initial segment of the message that `idx` counts (`Sending`), nothing of a
datagram until the one call that sends it (`Datagrams`), and the callers have the
stream up to where the current buffer begins (`Receiving`).

`SocketSSLProofs` proves, for all buffers and messages, handshakes of any length
and every bound (`SocketSSLAssumption`):

* `SslIsOwned`: `Spec => []SslOwned`
* `FailuresCloseTheSocket`: `Spec => []FailuresClose`
* `WholeMessages`: `Spec => []MessagesWhole`
* `IntactStream`: `Spec => []StreamIntact`

The invariant adds `Types` (which call is in which loop, the order of the
counters), `Fresh` (a new object starts from nothing) and the two halves of the
data: `Sending` (what is on the wire is an initial segment of the message, and
all of it once `idx` has reached the length) and `Receiving` (what the callers
have and what the buffer adds to it are, in order and without what `Shutdown` has
dropped, the stream up to `consumed`, which is why a loop that stops between two
reads loses nothing). Both speak of sequences
that grow at their end and need no induction.

`BinaryDataProofs` proves, for any sets of objects, blocks, sizes and contents
(`BinaryDataAssumption`) and without the excluded calls (`~WithDefects`):

* `Ownership`: `Spec => []OneOwner`
* `CallersKeepTheirMemory`: `Spec => []BorrowedSurvives`
* `TrueIsUsable`: `Spec => []TrueHasBytes`
* `Isolation`: `Spec => OthersKeepTheirValue`, an action property
* `Types`: `Spec => []TypeOK`; `kind` has no value for a block that was deleted
  twice or without having been allocated

The first three need each other: an object that refers to memory
points to the caller's (`BorrowedSurvives`), so that deleting what the others hold
deletes only what one of them owns (`OneOwner`). `NothingHeld` adds that a
destroyed object has no pointer. `Isolation` follows with the lemma `Frame`: a call
changes its objects, free blocks, and the block its object held.

The rest of the module is about `BitStream`, for blocks of any size and any number
of calls (`BitStreamAssumption`), the first two with the calls the engine gets
wrong and the third without them:

* `BuffersTyped`: `StreamSpec => []StreamTypeOK`
* `WordsHoldTheirBytes`: `StreamSpec => []WordHoldsItsBytes`
* `BytesAreAVector`: `StreamSpec => ImplementsBitVector`, if `~StreamDefects`

Every loop of the engines is a recursive function, whose value is known only
through an induction. For each of them the proofs give a closed form, show that it
satisfies the equation of the loop, and conclude with `OneSolution` that it is the
loop; `SwapBytes`, whose turns depend on more than their index, has an invariant
(`Rotating`) and `LoopExists` instead. A label is a set of integers, so that the
exclusive or of two labels is again one, and every loop returns bytes of eight
labels: these are the two halves of the type. `WordHoldsItsBytes` follows
from `WordFits`: the condition on the number of bits bounds the bytes of the word, in
either order of the bytes.

`BytesAreAVector` is the refinement: one lemma per action (`ShiftStep` to
`AskBytesStep`), which says that the vector of the new block, and the answer in
terms of indexes, are those that `BitVector` has for the same call. `Positions`
and `VectorIs` turn a byte and a place into an index and back. What is left is
one argument per kind of call:

* shifts: moving bytes is `Shifting` or `Rotated` of the vector by eight times the
  distance (`BytesMoveBits`, `BytesRotateBits`), in the direction of the layout;
  `TailPlaces` shows from where each bit of `TailShift` comes, across the border of
  two bytes, and the whole distance is the sum of the two (`RestOfShift`,
  `RestOfRotation`). Its hypotheses, `Directed`, are the layouts for which the code
  passes the right neighbour and direction: the negation of `Defect` is just what
  the proof needs;
* set, invert, reverse, convert: each turn changes one or two elements of the vector
  (`OneSet`, `OneInverted`, `TwoExchanged`);
* conversions between endians: bytes and places turn around together
  (`ConvertedBits`), except in the middle byte that `Exact` leaves out;
* operators: the byte that is paired with a byte holds the bits of the same
  indexes, and growing pads the vector with zeros (`RightPadded`, `LeftPadded`);
* predicates: the positions read are those of the bits asked for, whether whole
  bytes are compared, one by one or as a run (`PredicatesRead`), or a word is
  shifted until only they are left (`WordLow`, `WordHigh`).

`NetworkConfigurationProofs` proves, for all tables of the kernel, addresses and
sizes of replies (`NetworkAssumption`), and for replies that are cut anywhere:

* `PointersStayLive`: `Spec => []PointersLive`
* `BestRouteFound`: `Spec => []BestRoute`
* `RepliesNeverMix`: `Spec => RepliesWhole`, an action property

The lists are sequences of any length, filled, searched and shortened by loops,
so that every step about them is an induction. The induction theorems of the
library take an operator as a parameter and cannot be used; its theorem on
well-founded relations takes none. It gives the least element of a set of
numbers (`LeastExists`), and induction as the absence of a least counterexample
(`Induction`). From there on one lemma says that a loop of n turns exists
(`LoopExists`), and others what the loops of the model leave behind: a selection
(`KeptElements`), a concatenation (`FlattenElements`), a least element
(`BestIsLeast`), a list without one element (`Removed`).

`Inv` is one invariant for all three theorems:

* `Numbered`: no two nodes of a list have the same number, so that a pointer means
  one element;
* `Filling`: while replies are still coming, nothing is linked. A failure at any
  point of `Initialize` leaves lists without pointers;
* `Linked` (`Listed`, `Defaults`, `Owned`): the three kinds of pointers, each with
  the way back. It is stronger than `PointersLive`: an erased route was listed
  nowhere because it had no owner, an erased interface owned nothing because it
  listed nothing, and both need the way back (`RouteErased`, `InterfaceErased`);
* `FindsOwner`: the loop that attaches routes may pass an element again, when the
  iterator has wrapped around the list. A route that has an owner finds the same
  interface again, which makes the second turn harmless;
* `Received`: the end message of a reply is the last one in the socket, and none is
  in the buffer while the request waits. A datagram that completes a reply
  therefore empties the socket (`Datagram`), which is `RepliesNeverMix`;
* `Looking`, `Answering`: what a lookup starts a round with, and what it returned.
  The candidates are exactly the routes with an owner that match
  (`CandidatesAre`). A default route is compared with those that interfaces hold;
  for any other one its interface holds another (`KeptDefault`).

Each inductive step has one step per action and under it one per conjunct that
the action disturbs. What is only model-checked:

* all liveness (`WaiterEndsSpin`, `NotifyReturns`, `OnlyASilentPeerBlocks` and the
  three `CallsReturn`): it rests on fairness, which is out of the prover's reach;
* `GlobalInfo` with two setters, which is where it fails;
* that the calls listed in `Defect` do fail: of one of them a run shows it.

## 5. Where the code and its documentation disagree

Two of these have a run with `expect: violation`:

| run | source | what happens |
|---|---|---|
| `global_info_two_setters` | `GlobalInfo.cpp:52` | the lock ends with its `try` block: two first `SetCallback`s both allocate the array and one functor is gone |
| `bit_stream_round_shift` | `BitStreamEngine.cpp:467` | a round shift to the right by less than a byte loses a bit in little endian, the default |

Seen while modelling, without a run. Synchronisation and shared objects:

* `test/test_notification.cpp:30`: the only thread waits for the mutex that its
  own constructor call has locked.
* `Notification.hpp:78`: a second `Wait` while the mutex is still open returns
  the same event again; the doc (`:74`) leaves open whether it may.
* `Notification`: `NotificationInit` does not pass its value to the virtual base
  (`Init` takes an arbitrary one).
* `GlobalInfo.hpp:95`: a functor fetched before its own slot is set again is
  deleted under the reader; `NoUseAfterDelete` states what remains true.
* `GlobalInfo.cpp:58`: the array is indexed although its allocation may have
  failed; the model stops there (`crashed`).

Logger:

* `Log.cpp:293`: `ChangeLogFileName` returns TRUE after it has restored the old
  name, where `Log.hpp:387` promises FALSE.
* `Log.cpp:287`, `:318`: lines that are still in the buffer are not counted on
  disk, and the volume takes more records than the limit (`Log.hpp:378`).
  `RotatesInTime` speaks of the counter.
* `Log.hpp:329`: the lock ends with its `try` block, so that the records of two
  threads mix, in a class that calls itself thread-safe (`Log.hpp:153`).
* `Log.hpp:276`: when the message of a record throws, `CommonLogger` sends the
  stream to the standard output and swallows the exception; `fd` stays open, so
  the logger is in neither engine and counts console records against the logfile.
  `OutFollowsEngine` names the exception (`out # "stdout"`).

Sockets:

* `Socket.cpp:392`: `return -1` in a `bool` function: TRUE for a name that does
  not resolve (`Socket.hpp:360` promises FALSE). `:392` and `:435` do not free
  the address list.
* `Socket.hpp:344` says "until the functor returns false value"; the loop ends
  when it returns true (`Socket.cpp:314`), as the functor's own comment says.
* `RecvToEnd` takes a spurious readiness (EAGAIN) for an error
  (`Socket.cpp:351`), where `Recv` waits again.
* `SocketSSL.cpp:157`: an entry that an earlier call has left in the error queue
  of the thread (`:347` does) is taken for a failure of this one: `Send` closes
  the socket and returns FALSE after the whole message was sent
  (`Socket.hpp:331`), Recv drops the bytes it has just got. What remains true is
  in `MessagesWhole`, `StreamIntact` and `FailuresClose`.
* `SocketSSL.cpp:272`: the handshake has no time limit and waits for the socket
  to be writable, also when OpenSSL waits to read: it spins.
* `SocketSSL.cpp:370`: Shutdown sets the flag that the alert was sent before it
  calls `SSL_shutdown`: with SHUT_WR no alert is sent, and a record that has arrived
  is thrown away while the direction to read stays open. `StreamIntact` names the
  bytes (`dropped`). The flags of an earlier Shutdown are lost, since
  `SSL_set_shutdown` assigns them.
* `SocketSSL.cpp:311`, `:483`: accessors pass `ssl` on without a test; it is null
  after an error.

Network configuration:

* `SystemNetworkConfiguration.cpp:51`, `:80`: the element after an erased one is
  skipped. A skipped route has no owner and is never found, and of two interfaces
  without routes that stand side by side one stays, despite the comment "Clear
  interfaces without routes." (`:76`).
* `:60`: of several default routes of an interface the last one wins, not the best,
  where `SystemNetworkConfiguration.hpp:74` promises the best route. `BestRoute`
  says how far that goes: a better default route than the one returned has been
  overwritten by another one of its interface that is no better than the result.
* `:68`: `front()` of a list of addresses that may be empty (`"garbage"`).
* `:98`: the lock ends with its `try` block although the mutex is there to
  "update network routes" (`SystemNetworkConfiguration.hpp:30`); the pointer that
  is returned lives until the next lookup that updates.
* A second `Initialize` appends to the lists of the first; a failed one leaves
  what it has got so far.
* `NetlinkInterface.cpp:360` overwrites the route type it has just set; a reply of
  16392 bytes or more always fails.

Binary data, excluded from the passing runs where they break a property:

* `BinaryDataEngine.cpp:114`, `:131`, `:143`, `BinaryDataEngine.hpp:1459`,
  `BitStreamEngine.cpp:574`: assignment over memory that is only referred to
  deletes it.
* The constructor from memory with size 0 keeps the mode of the caller and owns
  what it only refers to (`BinaryDataEngine.cpp:78`); with `destruct` in
  `DATA_MODE_NO_ALLOCATION` it leaks. `SetDataModeType` changes the owner of
  memory that is held.
* `AssignData` of the stored length after a failed allocation copies to a null
  pointer; assigning an empty object keeps the old value (`:112`).
* `BinaryDataEngine.cpp:570`: the 64-bit literals read `errno`, which nobody
  resets: after one overflow every valid literal of the thread is refused.
* `BitStreamEngine.cpp`: in the endian dependent mode, the rest of `ShiftLeft` is
  wrong for big endian, those of `ShiftRight` and `RoundShiftLeft` for reverse big
  endian, that of `RoundShiftRight` for both but big endian; `Any` within a word
  is wrong for reverse big endian; `ToString` from index 1 prints bit 0 as well.
* `BinaryDataEngine.cpp:231`: between little and reverse big endian the middle byte
  of an odd length is not reversed; `operator&=` uses exclusive or on whole words;
  operators on two endians of which one is reverse big endian mix the bytes, and
  the unsafe ones pad on the wrong side in the independent mode.
* `BitStreamEngine.cpp:550`, `:567`: outside the safe mode `operator&=` on two
  lengths keeps the length of the left operand or grows to that of a longer right
  one, where `BinaryDataEngine.hpp:780`, `:793` and `:1741` promise the lesser of
  the two. `BitVector` has the promise (`Common`), so that these calls are among
  `DefectOfOperands`.
* `ByteStreamTransform::Set` does not compare its index with the length;
  `CheckSystemEndian` answers little endian everywhere; `SetBitSequence` cannot be
  instantiated.

## 6. What is not modelled

* Left out of the modelled components: `Socket::Bind` (no state of the object),
  `RecvFrom` (no body) and `SocketStatePool` (no operation yet); `Logger`'s level
  filter and flush modes, which only gate a `Push` or a flush, and its dumps;
  `GlobalInfo::GetNetworkInformation`; `SSLContext`, whose contexts are made at
  start-up, and the accessors of `SocketSSL`; `NetlinkInterface::Bind` and the
  filters that nothing calls; `GetAt`, `operator[]` and the conversions of
  `BinaryDataEngine` to text and numbers, which change nothing.
* `SystemNetworkConfiguration` and `SocketSSL` have one thread in the model. For
  the former the mutex is without effect (section 5); the latter has none, and
  OpenSSL allows an SSL object one thread at a time.
* Memory is modelled in `BinaryData` and where a descriptor or an SSL object can
  leak, not elsewhere; allocation failure also in `GlobalInfo`. The undefined
  write to a const parameter at `Socket.cpp:184` is left out.
* `Timer` and `Clock`: arithmetic on one object, without interleavings or
  failures. Reading has shown that `Reset` clears the start time and keeps the
  running state (`Timer.cpp:48`), that the compound operators leave out what a
  running left operand has counted since its start (`:165`), and that one instant
  is read from the clock twice (`:68`).
* `PortsParser`: an iterator over a text. Port 0 is also the value that means the
  end (`Parser.cpp:58`), and a range of one port is refused.
* `BinaryStructuredDataEngine`: templates that lay fields over a
  `BinaryDataEngine`; the ownership is that of `BinaryData`, the bytes are those
  of `BitStream`.
* Address and text conversion, HTTP tables, URI parser, callback interfaces, the
  command line: no state.

## 7. Plan

Done: the synchronisation core (`LocalMutex`, `Notification`, `LockedDeque`), the
shared objects (`GlobalInfo`, `Logger`), the sockets (`Socket`, `SocketSSL`), the
network configuration on top of them, and the data engines (`BitStream`,
`BinaryData`); proofs of the safety properties and refinements of all of these.

What could come next:

1. `SystemNetworkConfiguration` for two threads, and `GlobalInfo` as the owner of
   the one object the process has.
2. `BinaryStructuredDataEngine` over `BitStream`: a field occupies the bits its
   template says, in every endian.
3. `Timer` over `Clock`: no time lost or counted twice over Start, Pause, Reset and
   clock changes; `PortsParser`: every port once and in order.
