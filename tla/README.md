# TLA+ models of muduo_rebuild

These modules model the concurrent core of this network library, check it with
TLC on small instances, and prove with TLAPS, for every instance, all that the
runs check except liveness. Line numbers refer to the sources beside this
directory; the exact lines behind each definition are in `PROJECT.json` under
`map`.

The library is a C++ rewrite of muduo: every thread that does io runs an
`EventLoop`; a loop owns a poller, a timer queue and a queue of functors;
`TcpServer` accepts on one loop and spreads connections over others;
`TcpClient` connects on one. Sharing between threads is meant to happen in one
way only, by handing functors to the loop that owns the object.

## Inventory

| Component | State it keeps | Operations | What is hard, and what makes it correct |
|---|---|---|---|
| EventLoop | `looping_`, `quit_`, `callingPendingFucntors_`, `pendingFunctors_` (under `mutex_`), `activeChannels_`, `wakeupFd_` | `loop`, `quit`, `runInLoop`, `queueInLoop`, `wakeup`, `handleRead`, `doPendingFunctors` | Pushes and quits race with falling asleep: no functor and no quit may wait for the ten-second poll timeout; functors run in order, once |
| TimerQueue, Timer, TimerId | `timers_`, `activeTimers_`, `cancelingTimers_`, `callingExpiredTimers_`, the timerfd, the heap of `Timer`s | `addTimer`, `cancel`, `handleRead`, `getExpired`, `reset`, `insert` | Callbacks add and cancel while a batch runs; ids outlive timers and addresses are reused; the timerfd must never be armed too late |
| Channel, EpollPoller, PollPoller | `events_`, `index_`, `channels_`, the kernel's interest list or `pollfds_` | `poll`, `updateChannel`, `removeChannel`, `fillActiveChannels` | Three copies of the same facts, changed by callbacks while the loop is walking over the active channels |
| TcpConnection | `state_`, its channel, the two buffers | `send`, `shutdown`, `forceClose`, `forceCloseWithDelay`, `connEstablished`, `connDestroyed`, `handle*` | Callable from any thread without a lock; the lifetime is spread over shared pointers, raw `this` functors and timers |
| TcpServer, EventLoopThreadPool | `connections_`, `loops_`, `next_` | `newConnection`, `removeConnection`, `removeConnectionInLoop`, `getNextLoop`, `start` | The last owner travels io loop, base loop, io loop |
| EventLoopThread, Thread | `loop_`, `exiting_`, a mutex and a condition | `startLoop`, the destructor, `threadFunc` | Hand-over of a pointer to a local, read without the mutex; a `quit()` before `loop()` is lost, and one after it touches a loop that may have ended |
| Acceptor | listening socket, reserve descriptor | `listen`, `handleRead` | Running out of descriptors |
| Connector, TcpClient | `connect_` (one in each), `state_`, `channel_`, `retryDelayMs_`, `timerId_`, `connection_` | `start`, `restart`, `stop`, `connect`, `retry`, `handleWrite`, `handleError`; `connect`, `disconnect`, `stop`, `newConnection`, `removeConnection` | Three roads to `connect()` (start, restart, retry timer) while users stop and start; descriptors must not pile up |
| Buffer | a vector and two indices | `append`, `retrieve*`, `prepend`, `readFd`, `makeSpace` | Index arithmetic at the boundaries: content is neither lost nor moved, and there is room for what is appended |
| LengthHeaderCodec, ChatServer, ChatClient (`asio/`) | none; the chat server's set of connections | `onMessage`, `send` | Framing of a stream cut anywhere: messages arrive whole, in order, once; the set is shared by io threads without a lock |
| Socket, InetAddress, Timestamp, Logger, CurrentThread | no shared state of interest | wrappers | - |

How they interact. A channel's callbacks are the only way a poller reaches
its users. `runInLoop` runs a functor at once on the loop's own thread and
queues it from any other one; `queueInLoop` always queues. `TcpServer` hands a
connection to an io loop with `connEstablished`; the close callback hands it
back with `removeConnectionInLoop`, which hands it on to the io loop with
`connDestroyed`. `Connector` uses its loop's timer queue to retry and a functor
to destroy its channel, and hands a connected socket to `TcpClient`.

The hazards behind the properties are listed one by one, with their lines, in
`PROJECT.json`.

## Modules

| Module | Models | State and actions |
|---|---|---|
| `TaskQueue` | the promise of `queueInLoop` | What was submitted and what was executed; nothing else |
| `EventLoop` | `EventLoop.{h,cpp}` | The owner thread is a program counter `loopPc` over `loop()` and `doPendingFunctors()`; each critical section, and each access to the unlocked `quit_`, is one step. Other threads push, then write to the eventfd, as two steps |
| `TimerQueue` | `TimerQueue.{h,cpp}`, `Timer.h`, `TimerId.h` | The heap is a function from addresses to `Timer`s; the two sets are sets of pairs as in the code. Calls of other threads go through a queue, calls of the loop take effect at once, in `idle` or in a `callback` of the batch |
| `Poller` | `Channel.{h,cpp}`, `Poller.h`, the part of `loop()` that polls and handles | Which channels want what, which are active, which one is being handled, and who may call the poller when (`MayUpdate`, `MayRemove`: a contract with the callers, see below) |
| `EpollPoller`, `PollPoller` | the two pollers | `index_`, and the kernel's interest list or the `pollfds_` array, on top of `Poller` |
| `TcpConnection` | `TcpConnection.{h,cpp}` | A connection is a record, and each handler an operator on records |
| `Buffer` | `Buffer.{h,cpp}` | A buffer is a record of a vector and two indices, each member function an operator on records; sizes wrap like `size_t` |
| `MessageStream` | the promise of `LengthHeaderCodec` | The messages sent and those delivered; nothing else |
| `Codec` | `asio/Codec.h`, `TcpConnection::sendInLoop`, `TcpConnection::handleRead` for data | Composes two ends: frames written through a buffer of their own, `sendInLoop` with whatever `write(2)` takes of them, the sender's output buffer, the kernel, the receiver's input buffer, and `onMessage` one turn of its loop at a time |
| `EventLoopThreadPool` | `EventLoopThreadPool.{h,cpp}`, `EventLoopThread.{h,cpp}`, `Thread::start` and `join`, `TcpServer::start` and destructor as far as the pool goes | The base thread is a program counter `pc` over `startLoop` and the destructor, for the thread it is at (`current`); each thread one over `threadFunc` and `loop()`. Locking, testing and waiting are separate steps |
| `TcpServer` | `TcpServer.{h,cpp}`, `getNextLoop`, calls of users | Composes `TcpConnection` with several loops, each reduced to a queue and a batch, and with the owners of the shared pointers |
| `Connector` | `Connector.{h,cpp}` | The members, the sockets still in its hands, and its retry timers; its operators are completed to actions by `TcpClient` |
| `TcpClient` | `TcpClient.{h,cpp}` | Extends `Connector` with the client's flags and connection, the loop's functors and the calls of users |
| `EventLoop_proofs`, `EpollPoller_proofs`, `PollPoller_proofs`, `TimerQueue_proofs`, `EventLoopThreadPool_proofs`, `TcpServer_proofs`, `TcpClient_proofs`, `Codec_proofs` | - | The theorems below, each about the module it is named after |
| `MCEpollPoller`, `MCPollPoller`, `MCTcpServer`, `MCCodec` | - | Constants for TLC that a `.cfg` cannot write |

Conventions. A thread may be interrupted wherever another thread can observe
the difference, and nowhere else. `crashed` means that an `assert` failed (the
makefile does not define `NDEBUG`) or a destroyed object was used, after which
nothing happens any more. Definitions introduced by "Mutation of D" are wrong
versions of D; they appear in no specification and serve to see that a property
notices the mistake.

What is abstracted. Messages are two units long, so that a `write(2)` can take
all, half or nothing. Sockets are numbered in order of creation. The event array
of epoll (16 entries, growing) is reduced to "any of the ready descriptors may
be reported". The eventfd is readable or not. Time in `TimerQueue` counts units
of 100 microseconds, the shortest delay `howMuchTimeFromNow` arms. A retry timer
of `Connector` may expire at any time after the iteration that set it: the real
delays are at least 500 ms, so the functor that resets the channel, queued in
the same iteration, comes first; `TimerExpires` and `PeerCloses` state that with
a guard. In `Codec` a byte is a digit of base 4 and the header has two of them,
so that a header, like an `int32_t`, has a sign and a range that lengths can
exceed; message bytes look like header bytes. What `write(2)` leaves of a frame
stays in the sender's output buffer for good, because no write callback is set
(`TcpServerOutput` below). Neither end of `Codec` closes the connection; a
`send` on one that is no longer connected changes nothing. `EventLoopThreadPool`
reduces `loop()` to its treatment of `quit_`: the reset on entry and the test.

What is assumed of callers. The pollers assert that a channel they are given is
the one filed under its descriptor, and, for a removal, that it wants nothing
(`EpollPoller.cpp:77`, 116-118; `PollPoller.cpp:50`, 63, 83-85). `MayUpdate` and
`MayRemove` have these as guards: a contract with the environment, not a result.
That a channel is removed only from a functor, or by its own handler, is what
the callers do (`TcpConnection.cpp:116-125`, `Connector.cpp:120-127`), and
`ActiveAreRegistered` rests on it. A channel that was removed is destroyed and
not used again. `PollPoller`, which leaves its `index_` as it was, has
`Construct` for the next one on that descriptor; a caller that enabled the old
one again would fail the assert of `PollPoller.cpp:63`.

## What the runs check

| Run | Instance | Distinct states | Shows |
|---|---|---|---|
| `EventLoop` | 2 threads, 3 functors, one of them queued before `loop()` | 8 118 | No lost wakeup, no lost quit, iterations are completed, the queue implements `TaskQueue`; functors run and quits end the loop without the poll timeout |
| `TimerQueue` | 3 timers at 2 addresses, one period, clock 1 to 4, one other thread | 635 774 | Both sets agree, each `Timer` has one holder, the timerfd is never late, a cancelled timer is not queued again, a due timer runs |
| `EpollPoller` | 4 channels, 2 descriptors used twice each | 1 571 | `index_`, `channels_` and the interest list agree; no stale pointer in the kernel or among the active channels |
| `PollPoller` | 4 channels on 3 descriptors, one used twice | 493 614 | The swap in `removeChannel` keeps every registered channel's index right, beside the stale ones of removed channels; a channel that wants nothing is hidden |
| `TcpServer` | one connection, on the base loop or an io loop, 3 user calls of any kind from two threads, with and without a write-complete callback | 499 260 | Output in order, POLLOUT asked for exactly while output waits, one UP and one DOWN, the hand-over keeps the connection alive, a peer's close is reported |
| `TcpClient` | one `connect()`, two `stop()` or `disconnect()`, loop and one thread, 4 sockets | 64 118 | One pursuit of one connection at a time, no assert fails, sockets do not pile up, a failed attempt is retried, a closed connection is destroyed, and no connection comes up after a `stop()` |
| `Codec` | 3 messages of 6 kinds, vectors of 3 + 6 bytes, limit 5, `extrabuf` 3, `write(2)` taking any part | 109 227 | The two buffers and the kernel hold the stream byte for byte; messages come out as they went in, and do come out if `write(2)` took them whole; a buffer fails only when it would have to hold more than its initial size |
| `EventLoopThreadPool` | 3 threads, at most 3 connections each | 1 915 | `startLoop` returns the thread's live loop; connections are spread evenly; `start()` and, but for a lost `quit()`, the destructor return |

Why the bounds are enough. Two threads and three functors let one functor be
pushed on each side of the swap while a third is in the batch. Three timers at
two addresses are the least that reuse an address while another timer is queued;
the clock leaves room for a timer to expire, be restarted and expire again. Two
channels per descriptor are the least in which one channel replaces another; three
entries in the array let the first be removed with the last not its neighbour. Connections of a server share
nothing but the order of the two queues, so one is enough for properties of
single connections; an instance with two connections and one call each was
checked by hand, invariants only (2 644 346 states). Four sockets are three failures and then
something else, with the retry delay at its limit. The sizes of `Codec`
keep the order of the real ones (prepend < vector < longest valid frame) and let
these happen: a header cut in two, by `write(2)` or by a read, several messages
in one read, a read that spills into `extrabuf` and is saved by compaction, one
that is not, a rest that makes the output buffer grow, one that joins an earlier
rest there, a length within the limit that still never fits the vector, one over
the limit and one that turns negative. Three messages are one that has been
read, one that is being decoded and one that waits; a run with four, made by
hand, found nothing else (842 100 states).
Three threads tell the first, a middle and the last one apart, which is where
the round robin wraps.

### Where the code and its own words differ

Each of these runs checks one statement of the repository and ends in a
counterexample.

| Run | Statement | What happens |
|---|---|---|
| `TcpServerRemovedOnce` | `assert(n == 1)` (`TcpServer.cpp:82`) | `handleClose` leaves `state_` alone; a send before `connDestroyed` registers the channel again, and it is closed twice |
| `TcpServerUseAfterFree` | `shared_ptr` manages the objects that do io (`README.md:21`) | `sendInLoop` bound to a raw `this` runs on a destroyed connection |
| `TcpServerOutput` | left data waits for the socket to be writable (`TcpConnection.h:54`) | No write callback is ever set, so it waits for ever |
| `BufferGrowth` | `ensureWritable` makes room for the data (`Buffer.h:54`) | `makeSpace` resizes to `writableBytes() + len`, which ignores what lies before `writeIndex_`: an append that must grow a buffer with less free space than lies before `writeIndex_` fails the assert, or wraps `writableBytes()` and copies past the end; so does every read that must grow one. TLC's trace is of the sender: a frame waits in `outputBuffer_`, and the next does not fit behind it |

`OverrunOnlyIfOverfull` of `Codec` says what is left of the promise, for the
buffers of both ends: all is well as long as what a buffer holds and what is
added to it, by one read or by what `write(2)` left of one frame, together stay
within `kInitialSize`, 1024 in the code. A message longer than that, though well
below the 65536 that `onMessage` accepts, cannot be received.

`TcpServerOutput` limits what `Codec` can promise, too: what is left in the
sender's output buffer never arrives, nor does anything sent after it.
`Delivery` is therefore about the messages that `write(2)` took whole
(`TakenWhole`), which arrive if no buffer overruns; of the others it says
nothing. The safety properties are about all of them.

Met on the way, and without a run of their own:

- `TimerQueue.cpp:97` reads `timer->sequence()` after `runInLoop` has handed the
  timer over. Called from another thread, as `TimerQueue.h:21` allows, the loop
  may by then have run and deleted it.
- `PollPoller.cpp:69` does not restore the descriptor that disabling negated, so
  a channel that is enabled again stays invisible to `poll(2)`. `IndexAgrees` of
  `PollPoller` therefore accepts either form for a channel that wants events.
- `Connector.cpp:152`: an error found only by `handleWrite` neither closes the
  socket nor retries, although every attempt is to close its socket
  (`Connector.h:16`); `OldSocketsClosed` allows the newest socket to stay open.
- `Socket.cpp:55` reports any failed `accept` with `LOG_FATAL`, which exits, so
  the EMFILE branch of `Acceptor.cpp:66` is never reached.
- A second `connect()` of a `TcpClient`, also after its connection has closed,
  fails the assert of `Connector.cpp:35`; the properties of `TcpClient` but
  `StopHolds` and `ClosedIsDestroyed` are therefore about a single `connect()`.
- A `stop()` that comes between the test of `connect_` in `removeConnection` and
  the assignment in `restart()` is lost (`TcpClient.cpp:128`); `StopHolds`
  excludes this one moment.
- `LengthHeaderCodec::send` does not check the limit that `onMessage` enforces,
  and a refused header stays in the buffer: the receiver refuses it again on
  every read. `Delivery` is about what came before.
- `~EventLoopThread` waits for ever when its `quit()` comes before `loop()`
  resets the flag (`EventLoop.cpp:76`), and `quit()` writes to the eventfd of a
  loop that may have ended (`EventLoop.cpp:98`). `CallsReturn` names both.

### Fairness

- `EventLoop`: the owner thread runs, callbacks and functors return, a thread
  inside `queueInLoop` or `quit` finishes, and `epoll_wait` returns while the
  eventfd is readable. The poll timeout is deliberately not fair: what is shown
  to happen happens because of `wakeup()`.
- `TimerQueue`: the loop's thread runs and time passes, up to the bound.
- `TcpServer`: each loop's thread runs and a call that was begun ends (weak
  fairness). An event of a connection is handled under strong fairness, because
  a loop is busy in between and a level-triggered poller reports the event again.
- `TcpClient`: the loop's thread runs. Sockets, peers and timers owe nothing.
- `Codec`: the receiver's loop runs, and a level-triggered poller reports what
  has arrived until it is read. How much a `write(2)` takes and a read returns is
  left open, so that a sender whose kernel takes nothing is among the cases.
- `EventLoopThreadPool`: every thread runs, `start()` and the destructor finish
  what they have begun. Locking is strongly fair for the new thread, because the
  base thread may take and release the mutex on every spurious wakeup; these
  are not fair, nor are the calls of `start()` and the destructor. That a loop
  whose `quit_` is set returns promptly is `QuitStopsLoop` of `EventLoop`.

Users, peers, io readiness and new connections are never fair.

`TcpServer`, `TcpClient`, `Codec` and `EventLoopThreadPool` are checked with
deadlock detection off: when the users have made their calls and the peer is
silent, when all messages are delivered, when the pool is destroyed, nothing is
left to do.

## What is proved

Every invariant, action property and refinement that a passing run checks is
also a theorem, for every value of the constants. Each proof module has the same
shape: an inductive invariant `IInv`, a conjunction of named parts that starts
with the type invariant; lemmas about sequences and about the operators of the
model; one lemma or step for each action; the theorem `InductiveInvariant`; and
the properties as its consequences. What is assumed of the constants
are the `ASSUME`s of the modules: the bounds are naturals, special values differ
from ordinary ones, and the sizes have the order they have in the code.

`EventLoop_proofs` holds for any set of threads and functors; its only
assumption is that `EarlyFunctors` is a subset of `Functors`.

- `TypeCorrect`: the type invariant.
- `InductiveInvariant`: `IInv`, the conjunction of four parts. `TypeOK`;
  `ControlInv`, that `loopPc` determines `looping_`, `callingPendingFucntors_`
  and where the batch and the active channels may be non-empty; `WakeupInv`; and
  `NoLostQuit`.
- `WakeupProtocol`: `NoLostWakeup`. By itself it speaks of `poll` only and is
  not inductive: the functor may have been pushed at any point since the last
  swap. `WakeupInv` extends it to every `loopPc` but the three, from the return
  of `poll()` to the swap, where the eventfd may have been read while the swap
  is still to come. The steps that need care are a push of another thread (its
  write is in flight: `StartedWakeupIsInFlight`), a push by the loop (it writes
  because `callingPendingFucntors_` is up, by `ControlInv`) and the swap (it
  leaves the queue empty).
- `QuitProtocol` and `IterationCompleted`: from the same invariant.
- `TaskQueueImplemented`: `EventLoop` implements `TaskQueue`, where submitted is
  executed, batch and queue one after the other. A push appends to that
  sequence (`PushSubmits`), the swap does not change it, and running a functor
  executes its oldest unexecuted member (`RunExecutesOldest`).

`EpollPoller_proofs` holds for any channels and any assignment of descriptors to
them (naturals, shared as they like); it assumes of the constants that `Fd` is
such an assignment and that `NoChannel` is not a channel.

- `InductiveInvariant`: `TypeOK`, `BooksAgree` and `RoundInv`. `BooksAgree` adds
  two facts to `IndexAgrees`: the map and the kernel's list file a channel under
  its own descriptor, and what `index_` says of `events_`. Without the first a
  descriptor could lead to another channel; without the second the kernel's
  events could not be compared with the wanted ones. `AddSucceeds`, that a
  channel about to be added finds its descriptor free in the kernel's list, is
  the step that needs all of them. `RoundInv` adds to `ActiveAreRegistered` that
  the channel being handled has left the active list, so that it may remove
  itself.
- `BooksCorrect` (`IndexAgrees`, hence the asserts of `updateChannel` and
  `removeChannel`), `WatchedAsWanted`, `NothingDangles`, `ActiveStayRegistered`,
  `TypeCorrect`: from that invariant.

`PollPoller_proofs` holds under the same assumptions.

- `InductiveInvariant`: `TypeOK`, `BooksAgree` and `RoundInv`. `IndexAgrees`
  speaks of registered channels only; but `removeChannel` finds the owner of the
  last entry through `channels_`, so `BooksAgree` adds `EntriesBelong`: every
  entry belongs to a registered channel, and that channel's index names it.
  A registered channel has an index (`RegisteredHaveIndex`), so `updateChannel`
  appends only for new ones; a removed one keeps an index that is no longer its
  own, and the books do not speak of it.
- `PositionsCorrect` (`IndexAgrees`: where the entry of a registered channel is
  and which events are stored in it; hence the asserts of `updateChannel` and
  `removeChannel`). It does not say that `poll(2)` looks at the entry: one that
  was disabled and enabled again keeps its negated descriptor
  (`PollPoller.cpp:69`). Two more that no run checks for this poller:
  `TypeCorrect` and `ActiveStayRegistered`.

`TimerQueue_proofs` holds for any addresses, delays, intervals and threads.

- `InductiveInvariant`: beside the properties themselves, `SequencesInv`, that
  no two live timers share a sequence number and none has one still to be given;
  `AddedOnce`, that no two queued `addTimerInLoop` bring the same timer;
  `BatchInv`, that there is a batch only inside `handleRead`; and `CancelInv`,
  that a cancelled timer which still exists is in the batch, where `reset` will
  find it in `cancelingTimers_`.
- `SetsAlwaysAgree`, `TimersHaveOneHolder`, `EarliestIsArmed`,
  `CancelledStayOut`, `TypeCorrect`. The sets are handled through `Filed`, which
  says that both consist of the timers at given addresses; `insert`, `getExpired`
  and `cancelInLoop` each change these addresses alone.

`EventLoopThreadPool_proofs` holds for any number of threads and connections.

- `InductiveInvariant`: `HandshakeInv` says what the base thread can tell of
  every other one from the variables they share: `loop_` is set exactly while
  the thread's loop exists, the mutex is held where the code holds it, and only
  the destructor sets `quit_`. `SharesInv` says that the loops before `next_`
  have been handed one connection more than the others.
- `PointersLive` (`LoopsAreLive`), `SharesAreFair` (`FairShare`), `TypeCorrect`.

`TcpServer_proofs` holds for any loops, pools made of them, connections, threads
and numbers of calls. It assumes that pools consist of loops and that "none", the
model's word for "not yet assigned", is not a loop.

- `InductiveInvariant`: `LoopsInv` (how far a batch has been run), `ConnsInv`
  (of each connection: what it wrote and what waits are what was sent, it asks
  for POLLOUT exactly while output waits, and its callbacks came in order) and
  `CarriersInv`. The last one is the hard one: `connEstablished` and
  `connDestroyed` of a connection are each to run at most once, on its own loop,
  the one only before UP and before any other functor of that connection, the
  other only after the connection has left `connections_`; and a connection that
  is up but no longer in the map has its `connDestroyed` still to run. The
  functors of a batch that have already been run still stand in it, so "to run"
  counts from a position, and the handlers are proved for any position
  (`Before`, `After`).
- `OutputStaysInOrder`, `WaitingIsWatched`, `CallbacksStayInOrder`,
  `OpenStaysOwned`, `TypeCorrect`.

`TcpClient_proofs` holds for any number of threads, attempts and calls.

- `InductiveInvariant`: `TypeOK`; `OneConnectInv`, which says of a client that
  calls `connect()` at most once that no assert has failed, that nothing has
  been touched until `startInLoop` runs (`ConnectInv`), that the pursuit of the
  connection is handed from one carrier to the next, of which there is one at a
  time: queued functor, caller, loop, retry timer, channel or connection
  (`PursuitInv`), and that the cancels in the queue cancel nothing while the
  client wants to connect (`RetryInv`); and `StopInv`, without a condition.
  TLC found no violation of it with one and with two calls of `connect()`,
  2 threads and 3 attempts (72 318 and 744 533 states).
- `PursuitIsOne`, `AssertsHold`, `SocketsAreClosed`, `RetriesComeAbout`, each
  for one `connect()` as their properties say; `StopIsFinal` (`StopHolds`) and
  `TypeCorrect` for any number.

`Codec_proofs` holds for any messages, sizes, partial writes and cuts of the
stream.

- Of each member function of `Buffer`, what it makes of a buffer that holds the
  bytes `s`: `WrittenHolds`, `AppendedHolds`, `RetrievedHolds`, the two cases of
  `makeSpace`, `prepend` and `readFd`. Where `makeSpace` compacts, its
  assert (`Buffer.cpp:40`) holds (`CompactsWhatWasRead`).
- `TypeCorrect`, and `OverrunExplained` (`OverrunOnlyIfOverfull`): the receiver's
  buffer is sound and keeps its original size (`Kept`), because every growth
  fails, and what fails did not fit. The sender's is sound and only ever
  appended to, so its read index stays where it began; it may grow while it has
  more free than it holds, and no growth leaves it more free space than before
  (`Grown`). Neither
  theorem assumes anything of the messages.
- `StreamImplemented` (`ImplementsMessageStream`) and `BytesAreKept`
  (`BufferHoldsStream`): what is in the receiver's buffer, in the kernel and in
  the sender's buffer is cut into the frames of exactly the undelivered messages
  (`StreamInv`). The sender writes nothing past what waits, so a frame joins the
  others at the end however `write(2)` cuts it, and `onMessage` takes out the
  next message whole, as soon as its bytes are in the receiver's buffer. These
  have a hypothesis, `LengthsFit`: every message is shorter than the header can
  count. It is needed: `send` casts the length to `int32_t` and refuses none
  (`Codec.h:55`), so a message of 4 GiB would be framed as a shorter one.
- `PartsFlatten`: `FlattenSeq` of the community modules, which is defined by
  recursion, returns the concatenation it promises.

### What stays with TLC

The seven liveness properties: `PromptExecution` and `QuitStopsLoop`,
`DueTimerRuns`, `PeerCloseIsReported`, `ClosedIsDestroyed`, `Delivery`,
`CallsReturn`. The prover handles neither `ENABLED` nor fairness. The four
runs that end in a counterexample need no proof.

Induction over data is out of reach through the library's induction theorems,
whose parameter is an operator. `NatSetInduction` of `Codec_proofs` states
induction over the naturals as a fact about sets instead, and follows from the
existence of least elements; that was enough for messages in a stream. No
module with a theorem uses a RECURSIVE operator.

## What is not modelled

- `Acceptor`'s own state: `listen()` registers a channel, and the branch for
  exhausted descriptors cannot be reached.
- `~TcpServer` with connections still open: it drops them without
  `connDestroyed`, on another thread than theirs, while their channels are
  registered with running loops.
- `~TcpClient`, `~Connector`, `~TimerQueue`. `~TcpClient` queues a force-close
  with a raw `this` and drops both owners of the connection; the code has no
  order in which destroying a connected client is sound.
- In `TcpConnection`: `handleWrite`, which nothing calls, the high-water-mark
  callback, which is stored and never used, and socket options. `Channel::tie`
  is called by nobody, `Buffer::shrink` neither.
- In `Codec`, the end of a connection: what a `shutdown` or a close by either end
  does to bytes under way is left to `TcpServer`, which counts them only.
- The connection under `TcpClient` is reduced to up, shut, closing and down;
  closing twice, which `TcpServerRemovedOnce` shows, is left to `TcpServer`.
- A user who quits an io loop himself, or calls into a pool that is being
  destroyed.
- `Socket`, `InetAddress`, `Timestamp` formatting, `Logger`: wrappers and
  formatting. The example programs, beyond the calls they make; their set of
  connections is changed and iterated by several io threads without a lock
  (`asio/ChatServer.cpp:40`).

## Plan

The model is complete as far as the list above says, and nothing that the runs
check as safety is left unproved. What could follow:

1. Properties for the hazards that have none yet, where the code gives them a
   meaning: a `cancel` that overtakes its own `addTimerInLoop`
   (`TimerQueue.cpp:131`), and a poll entry that is disabled and enabled again
   (`PollPoller.cpp:69`).
2. Theorems on the way to liveness that need no fairness: a functor that waits
   is in the batch or will be swapped in by the next iteration; a connection
   that the peer has closed stays watched until `handleClose` runs.
3. Lemmas that several proof modules state for themselves, about taking from and
   adding to a queue, moved to one place.
