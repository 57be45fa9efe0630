# mini_muduo in TLA+

A verification development for the `mini_muduo` network library: specifications
of its components translated from the C++ source, TLC models that check them on
small instances, and TLAPS proofs for every instance. Source paths below are
relative to the repository root.

## 1. The system

mini_muduo is a reactor: one `EventLoop` per thread, each with an epoll
instance, an eventfd for wakeups, a task queue and a timerfd. A `TcpServer`
accepts in its base loop and spreads connections over the loops of a thread
pool; a `UdpReceiver` reads datagrams in batches.

| Component | State | Operations | What is hard about it |
|---|---|---|---|
| `EventLoop` | `quit_`, `pending_functors_`, `calling_pending_functors_`, eventfd, `activeChannels_` | `Loop`, `Quit`, `RunInLoop`, `QueueInLoop`, `WakeUp`, `DoPendingFunctors` | pushes and `Quit` of other threads between any two steps of the loop; sleeping on work |
| `EpollPoller`, `Channel` | `events_`, `index_`, the kernel's interest set | `Poll`, `UpdateChannel`, `RemoveChannel`, `HandleEvent` | bookkeeping that must equal the kernel's; pointers in epoll outliving their channel |
| `TimerQueue`, `Timer`, `TimerId` | `timers_`, `active_timers_`, `cancelling_timers_`, timerfd, heap | `AddTimer`, `CancelTimer`, `HandleRead`, `Reset` | manual `delete`, callbacks that add and cancel, two clocks, ids that outlive their timer |
| `Buffer` | vector, `read_index_`, `write_index_` | `Append`, `ReadFd`, `retrieve`, `MakeSpace` | growth, compaction and the second iovec of `ReadFd` |
| `TcpConnection` | `state_`, `output_buffer_`, its channel and socket | handlers, `send`, `ShutDown`, `ConnectEstablished`, `ConnectDestroyed` | partial writes, half-close, reset, callbacks that re-enter, `ShutDown` from another thread |
| `TcpServer`, `Acceptor` | `connections_`, `next_conn_id_` | `NewConnectionCallback`, `RemoveConnection(InLoop)`, destructor | ownership that crosses threads twice |
| `EventLoopThread(Pool)`, `Thread` | `loop_`, semaphore, condition variable, `next_` | `Start`, `StartLoop`, `ThreadFunc`, `GetNextLoop`, destructors | start-up and shutdown handshakes |
| `TimingWheel` | `wheel_`, `current_bucket_`, a connection's context | `Feed`, `OnTimer`, `~Entry`, `EnableIdleTimeout` | life of an entry decided by reference counts |
| `UdpReceiver`, `PacketBufferPool`, `UdpSocket`, `UniqueFd` | `started_`, pool, batch, descriptor | constructor, destructor, `Start`, `Stop`, `HandleRead`, `Acquire`, deleter | callbacks that stop the receiver or keep its buffers; datagrams that outlive it; failing `recvmmsg` and failing construction |
| `Logger`, `LogStream`, `CurrentThread` | a buffer per statement, `g_log_level`, `t_cachedTid`, stdout | `operator<<`, `Impl`, `Finish`, destructor, `LOG_FATAL` | a fixed buffer guarded by assertions only; numerals at the ends of their types; what is on disk when the process dies |
| `Socket`, `InetAddress`, `Timestamp` | little or none | wrappers, formatting | not modelled, see section 8 |

How they interact: everything a loop does happens in its thread, in the order
*poll, handlers of the active channels, queued functors*. Other threads reach a
loop only through its task queue and eventfd. `TimerQueue` and `TcpServer` hand
themselves work through that queue; `TimingWheel` is driven by a repeating timer
and ends connections through `ShutDown`; `TcpServer` holds connections by
`shared_ptr`, and every queued functor holds one more.

What correctness means here, per component, is the list of properties in
section 4; the places in the code where it could fail are the `hazards` of
`PROJECT.json`.

## 2. Modules

| Module | Models |
|---|---|
| `EventLoop` | the loop, its queue, the poller's event list and the threads that call it |
| `TaskQueue` | what the queue promises: an abstract FIFO that runs each task at most once |
| `TimerQueue` | timers, timerfd and wall clock, with the loop's phases around them |
| `Buffer` | the byte buffer, as operators on a value and three actions |
| `TcpConnection` | one connection with channel, poller entry, socket, peer, users |
| `ByteStream` | what a connection promises of the bytes given to `send`: in order, once, the FIN last |
| `EventLoopThreadPool` | the owner's thread and the loop threads from start to join |
| `TcpServer` | base loop, IO loops, and the life of every connection |
| `TimingWheel` | wheel, entries, contexts |
| `UdpReceiver` | receiver, socket and buffer pool, from constructor to destructor |
| `LogStream` | what each `operator<<` appends and when it asserts; the numerals |
| `Logger` | log statements of several threads, stdout, and the end of the process |
| `EventLoopProofs` | theorems about `EventLoop` |
| `TimerQueueProofs` | theorems about `TimerQueue`, with the invariant on who owns a `Timer` |
| `BufferProofs` | theorems about `Buffer`, with lemmas on each of its operators |
| `TcpConnectionProofs` | theorems about `TcpConnection` |
| `ThreadProofs` | theorems about `EventLoopThreadPool`, which starts threads, and about `LogStream` and `Logger`, which all of them use |
| `TcpServerProofs` | theorems about `TcpServer` |
| `TimingWheelProofs` | theorems about `TimingWheel` |
| `UdpReceiverProofs` | theorems about `UdpReceiver` |
| `MC*` | one per module: constants and symmetry for TLC |

Conventions. Variables keep the names of the C++ members (`quit_`, `timers_`,
`state_`). Variables described as *history* exist for the properties only and
guard nothing. An action is a stretch of code that no other actor can observe
half-done: a critical section, or a handler of the loop thread up to the next
call of user code. User code is modelled by what it may call: while the loop
thread is inside a callback, any sequence of library calls can happen before
the callback returns. A definition named after another with a suffix and marked
*Mutated form* is that definition with a plausible mistake; it is not part of
the specification and shows that the properties can fail.

### How the models correspond to the code

**EventLoop.** `pc` is the position of the loop thread: `outside`, `while`,
`poll`, `events`, `callback`, `functors`, `functor`. `SwapFunctors` is the critical
section of `DoPendingFunctors`, `QueueInLoop(c, t)` that of a push by thread
`c`, and the `write` to the eventfd that follows it is the separate step
`WakeUp(c)`. The eventfd's counter is abstracted to *readable or not*, since
one `read` empties it. `RunInLoop` on the loop thread runs the task on the spot.
Tasks left over from before `Loop()` was entered are counted by `carried`:
they were queued by the loop thread without a wakeup. `events_` is the vector
that `EpollPoller::Poll` hands to `epoll_wait`, known by its size and its
capacity: when more descriptors are ready than its size, the kernel reports any
of them, and `Resized` is the doubling and the shrinking at the end of `Poll`.

**TimerQueue.** Addresses are reused after `delete`, so an id can outlive its
timer. `AddTimer` in another thread is three steps: `new Timer`, handing it to
the loop, and reading `timer->sequence()` for the id; the last may read freed
memory and then gives any old number. One unit of time is the 100 µs to
which `HowMuchTimeFromNow` rounds up. `Tick` advances both clocks, `ClockStep`
only the wall clock, because the timerfd uses `CLOCK_MONOTONIC` and
expirations use `gettimeofday`. `timerfd_settime` clears an expiration that was
not read.

**Buffer.** Bytes are numbered by their position in the stream, so that order
and loss can be seen. `ReadInto` follows `ReadFd` literally: what fits is
stored behind `write_index_`, the rest goes through `Append` without
`write_index_` having moved; the history variable `spilled` remembers that
this has happened.

**TcpConnection.** `HandleEventWithGuard` is the sequence `hup`, `out`, `in` of
steps, between which the network and other threads move. `interest` is what the
kernel's epoll set holds for the descriptor. `send` is split at its test of the
state, its write and its storing of the rest, because an off-loop `ShutDown`
can fall between them. `write_complete_callback_` is set or not from the start
(a variable that no step changes), and `caller` is the thread that may call
`ShutDown` from outside the loop; while it is `idle`, no such call has been made.
A reset leaves a pending socket error that the next system call on the socket
fetches. A write on a connection that cannot send any more (`WriteFails`) may raise
`SIGPIPE`: nothing in the library ignores or handles the signal, so it ends the process
(`killed`) unless the application has seen to it, and the model has both outcomes. Once
the process is gone only the peer and the network take steps. The branch *hang-up without input* is kept although a TCP socket
that is registered for input reports both together. `ByteStream` keeps of all this
four variables: what `send` was given, what is on the wire, whether the FIN was
sent, and whether the stream was spoiled (by a reset, an off-loop `ShutDown` or a
write-complete callback), after which the FIN may come early.

**EventLoopThreadPool.** `SemWait`/`PostSem` are `Thread::Start` and
`RunInThread`; `CondWait`/`Publish` are `StartLoop` and `ThreadFunc` under
`mutex_`. `EnterLoop` contains the assignment `quit_ = false`. A loop may be quit
by code of its own (`QuitItself`); the history variable `selfquit` remembers which.

**TcpServer.** A functor is a record of its function and its connection; a
connection is `Held` while the map or some functor refers to it, which is the
reference count being positive. The number of IO threads is `num_threads_`, any
number from 0 to the bound. `RemoveChannel` in a thread other than that of the
channel's loop ends in the state `aborted`, as the poller's assertion does.

**TimingWheel.** An `Entry` is alive while a bucket contains it; `DestroyEntries`
is `~Entry` for all that lost their last bucket. `idle` counts ticks since the
last `Feed`.

**UdpReceiver.** `life` and `fd_` follow the constructor (socket, pool, channel,
each of which may throw) and the destructor. `Acquire` takes one buffer at a
time, so that other threads' releases fall in between; `ReleaseBatch` is the end
of life of the vector of datagrams on each path out of the loop body. A datagram
that a callback keeps may be copied; its buffer goes back to the pool's shared
state with the last copy, also when the receiver is gone. The receiver may be destroyed
by the loop's thread also between poll and `HandleRead`, from the handler of another
channel; the model ends at the use of the freed channel that follows (section 6). Sizes below, at and
above the capacity occur.

**Logger, LogStream.** Text is a sequence of characters, in which every literal
of the program is one character and a number has its digits; `SIZE` and
`kMaxNumericSize` count these characters. `Put` appends an item as the code does,
`Asserts` says when an assertion fails on the way: without room a pointer is left
out, everything else asserts, and in a build without assertions (`ndebug`, chosen once)
a string is left out and a number is written all the same. A stream is the
text in the buffer together with what has become of it: the text it stands for, whether
an assertion did not hold, whether `snprintf` cut a double, and whether a write or
`cur_` has gone past the end. The last counts the NUL that `snprintf` and `convertHex`
write behind the digits (`Extent`), although `cur_` does not move over it. Literals are
kept apart because each `append` tests for room on its own: which of them is dropped
or asserts depends on where the buffer is full. Each of the
constructor, an `operator<<` of the statement, `Finish` and the `fwrite` is a step
of its own. Integers range over a type of any width, from `-MaxInt - 1`
to `MaxInt` or to `2 * MaxInt + 1`. `stdio` is
what the C library holds for stdout and `file` what it has passed on; a process
that aborts loses the first. `process` says how it ended: `asserted`, `overrun`
(something was written past the buffer) or `terminated` (by the exception of
`LOG_FATAL`).

## 3. Assumptions

- Threads are sequentially consistent. `quit_` and `state_` are atomics, the
  queue and the pool are under mutexes. The one racy read, `events_` in an
  off-loop `ShutDown`, is taken to give the current value.
- System calls behave as documented: level-triggered epoll, an eventfd whose
  write does not fail, a timerfd on the monotonic clock. `epoll_wait` and
  `epoll_ctl` succeed (the code aborts when they do not).
- A user calls `Loop()` of a loop from its thread only, and library functions
  only from the threads the code asserts or allows.
- `send` is called in the connection's thread: it touches `output_buffer_` and
  the channel without protection.

## 4. What the runs check

Bounds are the CONSTANTS of each cfg.

| Run | Bounds | Properties |
|---|---|---|
| `EventLoop` | 3 tasks, 2 threads, 1 descriptor besides the eventfd, event list of 1 place at first | `NoLostWakeup`: the loop is never in poll with new work or a `Quit` and no wakeup coming; `EventListBounded`; `KeepsQueueOrder`: refinement of `TaskQueue`; `QueuedTaskRuns`, `QuitEndsLoop`, never counting on the poll timeout; `CarriedTaskRuns`: tasks queued before `Loop()` run after at most one timeout |
| `TimerQueue` | 2 timers at 2 addresses, one-shot or repeating every 0 or 1 units, 1 other thread, wall clock steps of 1 both ways, 2 instants | `Mirrored`, `SingleOwner`, `NoOversleep`, `CancelledIsGone`, `CallbackCancelIsPrompt`, `TimerFires` |
| `Buffer` | stream of 9 bytes, initial size 3, spill 4, up to 5 bytes a call | `InOrder`, `LosslessWithoutSpill`, `GrowthBounded` |
| `TcpConnection` | 3 bytes, socket buffer of 1, with and without a write-complete callback, with and without `ShutDown` in another thread | `Registered`, `EndsOnce`, `SentInOrder`, `KeepsByteStream`: refinement of `ByteStream`; `OutputDrains`, `PeerGoneRemoves`, `ShutdownCompletes` |
| `Pool` | 3 threads that may quit by themselves | `UsesLiveLoops`, `StartReturns`, `SettledDestructorReturns` |
| `TcpServer` | 0 to 2 IO threads, 3 connections, destructor | `NoDanglingChannel`, `RemovalAsserts`, `UpThenDown`, `ClosedIsFreed` |
| `TimingWheel` | 2 connections, 5 buckets, 3 entries, wheel replaced at any time | `OneEntry`, `ExactTimeout` |
| `UdpReceiver` | 4 datagrams, batch 2, budget 3, 1 initial buffer, 1 failing call, construction that may fail, destructor | `KeptIsStable`, `PassedInOrder`, `StopIsPrompt`, `NothingLost`, `SocketIsEmptied` |
| `Logger` | 2 threads, 2 statements of up to 2 items, levels DEBUG and FATAL, level set to DEBUG or left, buffer of 25 characters of which 5 for a number, 8-bit integers (`MaxInt` 127) | `NumeralsAreExact`, `ShortLinesAreWhole`, `AssertedInTime`, `FatalSurvives` |

Every module with state has a type invariant `TypeOK`. That of `EventLoop` is a
theorem (`TypeCorrect`); in the others it is the first conjunct of the
structural invariant: `Mirrored`, `InOrder`, `Registered`, `UsesLiveLoops`,
`NoDanglingChannel`, `OneEntry`, `NothingLost`, `ShortLinesAreWhole`.

Three more runs end in a counterexample; they are in section 6.

Some properties except a situation, which their comments name. `SentInOrder`,
`OutputDrains` and `GracefulShutdown` speak of connections without an off-loop
`ShutDown`, and `EndsOnce` allows one more callback after such a call;
`KeepsByteStream` demands the order in every case, and that the FIN comes last
unless the stream was spoiled. `UsesLiveLoops` and `StartReturns` leave out threads that quit by
themselves, `SettledDestructorReturns` pools destroyed before their loops were
entered. `RemovalAsserts` excepts a destructor with IO threads. `NoOversleep`
excepts a timerfd armed before the wall clock was set forward. `LosslessWithoutSpill`
speaks of buffers before the first spill, `ShortLinesAreWhole` and
`AssertedInTime` of statements without an oversized double. `PeerGoneRemoves` and
`ShutdownCompletes` except a process that `SIGPIPE` has ended; the last part of
`SentInOrder` says that only a spoiled stream can come to that, so it is
never the connection's own shutdown. Each exception is a
case in which the code really fails to have the property (section 6).

The statement of each property in words stands above its definition.

Why these bounds are enough to be interesting. *EventLoop*: two other threads
and the loop thread cover a push and a quit racing each other; three tasks let
one run, one wait in the batch and one be pushed; an event list of one place is
full when the eventfd and the descriptor are both ready, grows and shrinks.
*TimerQueue*: two addresses, so that an address is reused while an id to its
former timer is still about; a timer that repeats at once, one that is put back
beyond the last instant, and one-shot timers; past, due and future timers. The
two timers are what fits together with the liveness property; the five safety
properties are proved for any number of timers (section 7). *Buffer*: nine
bytes with an initial size of three reach growth, compaction, spill, and growth
after compaction. *TcpConnection*: three bytes against a socket buffer of one
give complete, partial and refused writes. *Pool*: three threads so that one is
joined while one runs and one has ended. *TcpServer*: three connections over
two IO loops so that the round robin wraps and two share a loop. *TimingWheel*:
five buckets tell the current, the next, the previous and the middle ones apart.
*UdpReceiver*: a budget that is not a multiple of the batch, and one initial
buffer so that the pool is empty, grows, and is refilled by releases. *Logger*:
the buffer holds the fixed parts of a line and a few characters more, so that of two items
the second can be dropped, assert, overrun, or end exactly where the buffer ends with its
NUL behind; eight bits include the most negative value
and numerals of one, two and three digits. Symmetry is used for entries in
`TimingWheel`, which checks no liveness.

Deadlock is checked for `EventLoop` and `TimerQueue`. The other models may stop:
bounded bytes, connections, calls, datagrams or lines run out, and a destroyed
pool or server or an ended process does nothing more.

## 5. Fairness

- *EventLoop*: weak fairness of the loop thread's own steps and of a thread that
  has pushed or set `quit_` and still has to write the eventfd. Callbacks return. Nobody
  is obliged to call anything. `CarriedTaskRuns` alone has weak
  fairness of the 10 s timeout of `epoll_wait` as a hypothesis. The kernel is not
  assumed to report the eventfd among more ready descriptors than the list
  holds: the functors are run after every poll, whatever it reported.
- *TimerQueue*: time passes, the loop iterates (the poll timeout guarantees it),
  a caller inside `AddTimer` finishes. `TimerFires` supposes that the wall clock
  is not set back for ever.
- *TcpConnection*: the loop runs, user code returns, the server's loop runs, an
  open connection's send buffer drains, all of the program's steps as long as the process
  lives. Peers and users decide freely.
- *EventLoopThreadPool*, *TcpServer*: every thread is scheduled. *UdpReceiver*:
  the loop runs. *TimingWheel* and *Logger* have safety properties only and need
  none.

Weak fairness suffices throughout: a thread that can go on stays able to go on.

## 6. Where the code and its documents disagree

Each is a run that TLC ends with a counterexample.

- `Pool_quitlost`: a pool destroyed right after `Start` can hang. The thread has
  published its loop but not entered `Loop()`; `Quit()` sets `quit_`, `Loop()`
  (`src/EventLoop.cc:100`) clears it, and the destructor joins for ever.
- `Buffer_overflow`: `ReadFd` loses bytes whenever a read does not fit behind
  `write_index_` (`src/Buffer.cc:44`): `Append` starts at the old
  `write_index_` and covers what `readv` had stored there.
- `TcpConnection_writecomplete`: a write-complete callback that sends more than
  the socket takes and then calls `ShutDown` gets its FIN before the new data
  (`src/TcpConnection.cc:89`).

Met while modelling, without a run of their own:

- `~TcpServer` calls `ConnectDestroyed` in its own thread for connections of IO
  loops too (`src/TcpServer.cc:34`); the poller's assertion then aborts. The
  `TcpServer` model reaches `aborted` this way, and `RemovalAsserts` says that it
  is the only way.
- The comment at `src/TimerQueue.cc:212` describes a branch that is never taken,
  since `CancelTimer` always queues. A repeating timer that cancels itself is put
  back and removed later in the same iteration; `CallbackCancelIsPrompt` shows
  that it does not run again.
- The timing wheel half-closes an idle connection (`src/TimingWheel.cc:33`); with
  a silent peer the connection remains, where `README.md:13` says that timed-out
  connections are closed automatically.
- An off-loop `ShutDown` can turn `kDisconnected` back into `kDisconnecting`
  (`src/TcpConnection.cc:222`), and the connection is then reported down twice.
- The library leaves `SIGPIPE` at its default, which ends the process, while `send` looks
  for `EPIPE` (`src/TcpConnection.cc:187`) as if the write returned. A peer that resets its
  connection while output waits, or before one more `send`, can so end the whole server
  unless the application ignores the signal; the examples do not. The branch for `EPIPE` also
  tests `errno` after `LOG_ERROR` (`src/TcpConnection.cc:184`), which may have changed it; then
  the message is kept for a later write.
- `~UdpReceiver` called by the handler of another channel, between poll and `HandleRead`,
  leaves the freed channel in `activeChannels_`: `Stop` in the destructor takes it out of
  epoll but not out of that list (`src/UdpReceiver.cc:92`), and the loop then calls its
  `HandleEvent`.
- A loop quit from inside while `StartLoop` still waits for it clears `loop_`, and
  `Start` waits for ever; one quit while its `EventLoopThread` is destroyed can
  leave the destructor with a dangling pointer.
- `LOG_` statements are made when their level is at most `g_log_level`
  (`include/mini_muduo/base/Logger.h:89`), and the default lets all pass;
  `tests/Log_test.cc:8` expects TRACE to be hidden by default.
- `EpollPoller::Poll` compares the number of events with the capacity of its list
  and not with its size: once it has grown and a quiet poll has shrunk it, it
  stays at its initial size, where the comment at `src/EpollPoller.cc:46` says that
  a full list is doubled. No event is lost, since epoll is level-triggered here.
- `LogStream::operator<<(double)` moves on by the length `snprintf` would have
  needed, also when the number did not fit (`src/base/LogStream.cc:147`). Without
  assertions a double that ends exactly at the end of the buffer has its NUL written
  behind it (`src/base/LogStream.cc:145`).
- The time of a line is local time, the comment above it says UTC
  (`src/base/Logger.cc:90`).
- Timers in `AddTimeInLoop` functors that a loop no longer runs are not freed.

## 7. What is proved

Thirty-one theorems, each for every value of the constants; `tlapm` checks them to the
last leaf. All but `TypeCorrect` and `ShutdownIsGraceful` state a property that a run
checks, so that the run shows it on a small instance and the theorem on all: every
safety property of the passing runs, both refinements included, has its theorem. The inductive
invariants of `TimerQueue`, `TcpServer`, `TimingWheel`, `TcpConnection`,
`EventLoopThreadPool` and `UdpReceiver` were model-checked before they were proved,
on the bounds of their runs or close to them (up to three timers, two IO threads with
two connections, three buckets, three bytes to send with room for one in the socket,
four datagrams).

**EventLoop** (`EventLoopProofs`; any tasks, threads, finite set of descriptors,
initial size of the event list):

- `TypeCorrect`: `Spec => []TypeOK`. `TypeOK` is inductive as it stands.
- `NoWakeupIsLost`: `Spec => []NoLostWakeup`. `NoLostWakeup` is not
  inductive: when the loop arrives in poll, what matters is what happened since
  the swap. The inductive invariant `SleepInv` says that from the swap of the
  queue up to the end of poll, new work implies a wakeup that is there or on
  its way. It is preserved because between the handling of the eventfd and the
  next poll nobody reads the eventfd, and everything queued in that stretch is
  queued either by another thread, which writes, or by a functor, with
  `calling_pending_functors_` set, which writes too. The quit half holds because
  the loop tests `quit_` right before poll and another thread's `Quit` writes
  the eventfd; the loop thread itself cannot call `Quit` inside poll.
- `EventListIsBounded`: `Spec => []EventListBounded`. The list doubles only when as
  many events came as its capacity, and there are no more than descriptors.
- `ImplementsTaskQueue`: `Spec => KeepsQueueOrder`, the refinement of
  `TaskQueue` with `queue` mapped to `functors \o pending_functors_`. The swap
  is a stuttering step because the local vector is empty before it
  (`LocalVectorInv`); running a functor takes the head of the concatenation
  (`ConcatHeadTail`), and a push appends to it (`ConcatAppend`).

**TimerQueue** (any addresses, threads, timers, intervals and clock steps):

- `IndexesAgree` and `OwnedOnce`: `Spec => []Mirrored`, `Spec => []SingleOwner`.
  Neither is inductive. `OwnerInv` says where a `Timer` can be: filed in `timers_`
  or in the expired vector under the time it has itself, in exactly one
  `AddTimeInLoop` functor with the sequence number it got, or in one `AddTimer`
  that has made it and not queued it; never in two of these places, and never in
  none. The clause that no live timer is nowhere makes an address that
  `new` returns free of old entries; the clause on filing makes
  `CancelTimerInLoop` and `Reset` find what they erase.
- `NeverOversleeps`: `Spec => []NoOversleep`, which is inductive relative to
  `OwnerInv`: after each insertion or expiry the timerfd is set for the front of
  `timers_`, removals only make it too early, and time that passes counts both down.
- `CallbackCancelsPromptly`: `Spec => []CallbackCancelIsPrompt`. `PromptInv`: a
  cancellation made in a callback is either queued while `HandleRead` runs or on the
  way to the swap, or inside the batch that is being run.
- `CancellingIsFinal`: `Spec => []CancelledIsGone`. `FinalInv` adds that sequence
  numbers only grow, and that the queue is FIFO: the functor that adds a timer is
  never behind one that cancels it.

**TcpServer** (any number of IO threads and connections; `TcpServerProofs`):

- `ChannelsOutliveTheirUse`, `RemovalsAssert`, `CallbacksPair`:
  `Spec => []NoDanglingChannel`, `[]RemovalAsserts` and `[]UpThenDown`, all from
  `ServerInv`. It says that over all loops there is at most one
  task for each connection, and that this task waits in the right loop for a connection in the right state: `ConnectEstablished`
  in the connection's loop while it is `kConnecting`, `RemoveConnectionInLoop` in the
  base loop for one that is `kDisconnected` and in the map, `ConnectDestroyed` in the
  connection's loop for one that is `kDisconnected`. A channel is in its poller exactly while
  its connection is `kConnected`, and such a connection is in the map. The
  proof follows a task through the queues: taking the head (`TaskTaken`) leaves the
  connection without one, and only such a connection is given the next (`TaskAppended`).
  What `~TcpServer` may find without IO threads needs one more fact, that a
  base loop outside its event phase has no removal queued; when it aborts, what
  remains of the invariant is `AbortInv`.

**TimingWheel** (any connections, addresses of entries and number of buckets;
`TimingWheelProofs`):

- `ContextsLeadToEntries`: `Spec => []OneEntry`, `TimesOutExactly`:
  `Spec => ExactTimeout`, from `WheelInv`: the context of a connection leads to its
  entry and to all its entries, and the age of the youngest bucket that holds it
  (`Age`: how many ticks ago that bucket was the current one) is the number of
  ticks the connection has been idle. A tick makes every bucket older by one
  and empties the one whose age was the size of the wheel less one (`Ages`), which
  is why the timeout is exact.

**Buffer** (any initial size, `extra_buf` and stream of bytes; `BufferProofs`):

- `PeekIsInOrder`, `NothingLostWithoutSpill`, `VectorStaysSmall`:
  `Spec => []InOrder`, `[]LosslessWithoutSpill` and `[]GrowthBounded`, from
  `BufferInv`, their conjunction with the fact that the three indexes are in order
  and that no more is readable than `peak`. The last is what makes growth bounded inductive:
  `MakeSpace` grows only when the new bytes exceed what is free on both sides of the
  readable ones. Every operator (`Compact`, `MakeSpace`, `Append`, `ReadFd`, `retrieve`)
  has a lemma saying which bytes its result shows; the steps are combinations of these.

**TcpConnection** (any number of bytes, room in the socket and calls;
`TcpConnectionProofs`):

- `PollerAgreesWithKernel`, `EndIsReportedOnce`, `NothingReordered`,
  `ShutdownIsGraceful`: `Spec => []Registered`, `[]EndsOnce`, `[]SentInOrder` and
  `[]PlainGracefulShutdown`, all from `ConnInv`. It joins six parts, which
  need each other. `LifeInv` ties `state_` to what `connection_callback_` was told and to
  how far the removal has come; `ChannelInv` says that the channel is in the poller, reading,
  exactly while the connection is up, and writing exactly while output waits;
  `ThreadInv` says which events the loop can still have to handle in which state;
  `TaskInv` that `ConnectEstablished` is the first task and comes once and
  that `ConnectDestroyed` comes at most once, over the queue and the batch being run;
  `StreamInv` that what is on the wire, in `output_buffer_` and in the message being
  sent is together the stream given to `send`; `ShutdownInv` that a FIN
  sent by the loop leaves nothing behind it. The same two parts show that a write fails, and
  can raise `SIGPIPE`, only on a stream that is spoiled (`FailsSpoiled`, `SignalStep`): behind a FIN
  of the loop's own there is nothing to write. The stream is moved between its three
  places by lemmas on concatenation (`WriteSplits`, `WriteKeeps`, `StreamGrows`).
- `ImplementsByteStream`: `Spec => KeepsByteStream`, from the same invariant. `send` is
  the abstract `Accept`: `ShutdownInv` excludes a FIN before it, unless another thread
  shuts down. `HandleWrite` and the direct write of `send` are `Write`
  (`WriteContinues`): they take bytes only while writing works, and then `StreamInv` says
  that nothing is missing, so what is on the wire cannot run ahead of what was given.
  The three places that send the FIN are `End` (`FinEnds`), by `ShutdownIsGraceful`;
  a reset and the first step of an off-loop `ShutDown` spoil the stream; every other
  step is a stutter.

**EventLoopThreadPool** (any number of threads; `ThreadProofs`):

- `LoopsOutliveTheirUse`: `PoolSpec => []UsesLiveLoops`. `PoolInv` adds the cause: a
  loop that did not quit itself leaves `Loop()` only after the destructor told it
  to (`Told`); `loop_` is set only from the publication to the end of the loop; and
  `Start` goes on to the next thread only after the one before has published.

**LogStream, Logger** (any threads, statements, size of the buffer and width of the
integers; `ThreadProofs`):

- `NumeralsComeOutRight`: `Spec => []NumeralsAreExact`. `lsds` and `lsdsHex` are
  recursive functions, and the argument is an induction over the value that is
  taken apart, in the form of a least counterexample (`LeastNumber`, from the
  well-foundedness of `<` on the naturals): the recursive equations have a solution
  (`DigitsExist`), what a text denotes grows by one digit as the text does (`ReadsAppend`),
  and one turn of the loop keeps the digits written so far the usual numeral of what was taken off
  (`DecimalTurn`, `HexTurn`). Remainders of negative values are negative, and the mirrored
  table gives their digits, so the most negative value needs no case of its own.
- `WholeLines`, `AssertionsComeFirst`, `FatalLinesSurvive`: `Spec => []ShortLinesAreWhole`,
  `[]AssertedInTime` and `[]FatalSurvives`, from `LoggerInv`. Its core is `Sound`, a
  fact about one stream that every `operator<<` preserves (`OneMore`), and with it the
  constructor, each item and `Finish`: a stream that leaves room for a number and of which
  no double was cut holds the text it stands for and has failed no assertion, and one that
  has failed none and of which no double was cut has stayed inside the buffer, NULs included.
  To this `LoggerInv` adds that a thread's cached id is its own, that with assertions the
  first failure of any stream ends the process (`Noticed`), and, for `FATAL`, that the line is in `stdio` or `file` once it
  was written and in `file` once it was flushed (`FatalKept`).

**UdpReceiver** (any sizes of pool, batch and buffer, any number of datagrams and
failing reads; `UdpReceiverProofs`):

- `NoBufferIsLost`, `KeptDatagramsStay`, `DatagramsComeInOrder`, `AtMostOneAfterStop`:
  `Spec => []NothingLost`, `[]KeptIsStable`, `[]PassedInOrder` and `[]StopIsPrompt`,
  all from `UdpInv`. `NothingLost` counts buffers, and counting alone is not
  inductive: `OwnerInv` says that each buffer is in exactly one place of the pool's
  stack, of the batch, or with the user, and the lemma `OwnedCount` turns that into numbers. With it
  recvmmsg cannot write to a buffer the user still holds, which keeps `KeptIsStable`.
  `OrderInv` orders what was passed on before what waits in the batch, before
  what is in the socket, before what has yet to arrive. `ControlInv` says
  where the loop can be when one datagram has followed a Stop: in that callback or back in poll.
  `CountInv` bounds the buffers the user holds by the datagrams passed on, so that the
  memory of the model, which holds `InitialBuffers + MaxPerRead + MaxDatagrams`
  buffers, is never too small (`RoomForOne`): the bound of the runs cuts no behaviour off.

The proofs use the named assumptions of the modules on their constants, which TLC
evaluates on every run; beyond types they say that the eventfd is not among the other
descriptors, that `NoTimer` and `NoEntry` are not real timers and entries, that
a wheel has at least one bucket, that a socket has room for at least one byte, that
a receiver reads at least one datagram at a time into buffers that are not empty, that
a thread id is an `int` other than 0, that the program's literals and the digits are
characters, and that `kMaxNumericSize` is enough for every numeral of the integer types and
for a pointer with its prefix and NUL (it is 48, and 64 bits need 20 and 19).

Checked by TLC only, on the bounds above, is every liveness property
(`QueuedTaskRuns`, `CarriedTaskRuns`, `QuitEndsLoop`, `TimerFires`, `OutputDrains`,
`PeerGoneRemoves`, `ShutdownCompletes`, `StartReturns`, `SettledDestructorReturns`,
`ClosedIsFreed`, `SocketIsEmptied`), which is beyond the prover, as is `ENABLED`.

## 8. What is not modelled

- `InetAddress`, `Timestamp` formatting: conversions that no state of the library
  depends on.
- `Socket`, `Exception`'s stack trace: wrappers of single calls; the calls that
  matter appear in the actions that make them.
- `channels_` of the poller, which only `hasChannel` reads.
- A `TcpServer` destroyed while its base loop goes on, in a callback or a functor of that
  loop. In the model the base loop has left `Loop()` first. Otherwise a
  `RemoveConnectionInLoop` that is queued, or still to be queued by an IO loop, is bound to
  the server's raw `this` (`src/TcpServer.cc:65`), and the `Acceptor`'s channel may be among the
  active ones.
- A `UdpReceiver` destroyed by its own `message_callback_`, inside `HandleRead`.
- Signals other than `SIGPIPE`, and the end of the process for a reason outside the
  component a module models, such as the `SIGPIPE` of another connection.
- Destructors of `EventLoop`, `TimerQueue` and `Acceptor`; failing
  `epoll_wait` (also with `EINTR`) and `epoll_ctl`, on which the code aborts;
  exhaustion of memory.
- An `OnTimer` that is due while `EnableIdleTimeout` replaces its wheel
  (`src/TimingWheel.cc:22`): the old wheel is freed at once and its timer is only
  queued for cancellation. The model replaces wheels between ticks.
- `Logger`'s constructor without a level, which takes `g_log_level` for the level of
  the line, and `save_errno`, which every constructor passes as 0.
- The examples.

## 9. Plan

In order of importance:

1. `TimingWheel` composed with `TimerQueue`: replacing the wheel while its timer
   is due.
2. The receiving side of `TcpConnection` as a byte stream, through a `Buffer` before
   its first spill.
3. Destruction of the loop, its timer queue and the acceptor, with work still queued.
