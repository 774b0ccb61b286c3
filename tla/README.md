# A verification project for sthForNet

`sthForNet` is a small reactor library in C++ (`src/XNet`) with an asynchronous
logger (`src/base`). This directory holds TLA+ models of its core, the TLC
configurations that check them and TLAPS proofs about them. Lines are those of
the committed source; every definition that stands for code is mapped to its
lines in `PROJECT.json`.

Contents: [1 the system](#1-the-system), [2 the code as committed](#2-the-code-as-committed),
[3 the modules](#3-the-modules), [4 the runs](#4-the-runs), [5 fairness](#5-fairness),
[6 the proofs](#6-the-proofs), [7 what is not modelled](#7-what-is-not-modelled),
[8 the plan](#8-the-plan).

## 1 The system

### Components, their state and their operations

| component | state | operations | modelled by |
|---|---|---|---|
| `CAsyncLog` (`base/AsyncLog.*`) | list of lines, mutex and condition variable, `m_bExit`, `m_bRunning`, level, `FILE*`, size written, write thread | `init`, `uninit`, `setLevel`, `output`, `outputBinary`; thread `writeThreadProc`; `createNewFile`, `writeToFile`, `crash` | `AsyncLog`, abstract `LogService` |
| `TcpConnection` (`XNet/TcpConnection.*`) | `m_state`, output and input buffer, high water mark, a socket and a channel | `send`, `shutdown`, `forceClose`; in the loop: `sendInLoop`, `shutdownInLoop`, `forceCloseInLoop`, `connectEstablished`, `connectDestroyed`; handlers `handleRead/Write/Close/Error` | `TcpConnection`, abstract `ByteStream` |
| `Channel` (`XNet/Channel.*`) | `m_fd`, `m_events`, `m_revents`, `m_index` | `enable/disable Reading/Writing`, `disableAll`, `remove`, `handleEvent`, `set_revents` | `ChannelEvents` (the pure part), `EPollPoller` |
| `EPollPoller` (`XNet/EPollPoller.*`) | map descriptor -> channel, epoll descriptor | `poll`, `fillActiveChannels`, `updateChannel`, `removeChannel`, `update` | `EPollPoller` |
| `ByteBuffer` (`XNet/ByteBuffer.*`, `Endian.h`) | vector, reader and writer index | append, prepend, retrieve, unwrite, shrink, `makeSpace`, `readFd`, integer codec | `ByteBuffer`, abstract `ByteQueue`; `TcpConnection` uses it as the queue it is shown to be |
| `TimerQueue`, `Timer`, `TimerId` | set of (first expiration, address); per timer expiration, interval, repeat count, cancelled | `addTimer`, `removeTimer`, `cancel`, their `...InLoop` parts, `insert`, `doTimer`, `Timer::run` | `TimerQueue`, abstract `TimerService` |
| `Timestamp` (`base/Timestamp.*`) | a number of microseconds | comparison, addition, `now`, conversions to text | order, addition and clock in `TimerQueue` |
| `CountDownLatch` (`base/CountDownLatch.*`) | count, mutex, condition variable | `wait`, `countDown`, `getCount` | `CountDownLatch` |
| `EventLoop` (`XNet/EventLoop.h`) | queue of functors, active channels, poller | `loop`, `runInLoop`, `queueInLoop`, `updateChannel`, ... | its body is not in the repository; its turn is an external part of `Reactor`, its functors of `TcpConnection` and `TimerQueue` |
| `Acceptor`, `Socket`, `InetAddress`, `Poller`, `Singleton`, `RAIIWarpper`, `Platform`, `Callbacks` | none of interest | declarations, wrappers of system calls, helpers | not modelled |

### How they interact

```
 other threads                        loop thread
 -------------                        -----------------------------------------
 send/shutdown/forceClose ----------> queue of functors --> ...InLoop, callbacks
      (test m_state, later            (EventLoop, external)
       setState + queueInLoop)              |
                                            v
 epoll --> EPollPoller::poll --> Channel::handleEvent --> TcpConnection::handleX
   ^           | set_revents                                   |
   |           v                                               | enableWriting,
   +--- EPollPoller::updateChannel <--- Channel::update <------+ disableAll, ...

 timerfd --> TimerQueue::doTimer --> Timer::run --> user callback --+
                  ^                                                | add, remove, cancel
 other threads ---+---- (queue of functors) -----------------------+ (at once in the loop)

 any thread: LOGx(...) --> CAsyncLog::output --> list --> write thread --> console, file
```

`TcpConnection` and `EPollPoller` meet in `Channel`: the connection sets the
events of interest and gets back the handlers of what epoll reported. Both
models extend `ChannelEvents`, which holds that order of handlers. The connection is
modelled over the channel both *as it is written* and *as it is meant*, the poller as it
is written (see section 2). `Reactor` composes them as they are written: the life of several
connections (made, connected, shut, closed, destroyed), the turns of the loop that polls
and runs their functors, the threads that call `shutdown` and `forceClose`, and
`EPollPoller` with the descriptors that the connections reuse.

### What is hard, and what makes each part correct

* **Logger.** Many callers and one thread share a list, a condition variable, a
  flag read under the mutex but written outside it, and a `FILE*` that a FATAL call
  uses without the mutex. Correct: no line is lost, duplicated or overtaken; the
  thread never sleeps on a non-empty list; `uninit` loses nothing it was given; the
  file is the tail of what was printed, unless a write failed, and is never larger than
  the logger believes; files are rolled at their size.
* **Connection.** Partial writes, direct writes against buffered ones, half close
  that must wait for the buffer, several events that each report the end, functors
  that run after the state has changed, other threads that act on an old `m_state`.
  Correct: the bytes on the wire are what was given, in order; interest in writing
  exactly while there is something to write; the end is reported once; a half
  close cuts nothing off; a force close ends it.
* **Poller.** Two tables (the map and epoll's) and an index in each channel must
  agree while descriptors are closed and reused and `epoll_ctl` fails. Correct: epoll
  never holds a pointer the poller no longer has.
* **Timers.** `run` moves a timer's expiration but not its place in the set, callbacks
  change the set that is being gone through, ids outlive the entries, and the clock may
  be set back. Correct: a timer has an entry exactly while it is needed; it is never
  called before its place in its schedule, too often or while canceled; a due timer is passed over only where the
  order of the set is stale, which is a property of the design and not a defect of one
  line.
* **Reactor.** A functor may find its connection in any state, a connection may be
  refused by the poller or by epoll in the middle of being established, another thread may
  store its state after the loop has closed it, and its descriptor
  is used again when it is gone. Correct: who counts as connected can be reported; what
  is disconnected is given back; nothing of a destroyed connection stays in the poller.
  The last is not so in the code, and the model says in which cases.
* **Buffer.** `makeSpace` chooses between moving, growing and an early return by sums of
  indices that `prepend` moved, and callers copy without looking afterwards. Correct: it is
  a queue of bytes, space is there when it was asked for, and the vector is not
  much larger than it needs to be.
* **Latch.** It notifies only at exactly zero, and may start at zero, below it, or be counted
  below it. Correct: nobody sleeps at an open latch, nobody passes a shut one.

All hazards are listed in `PROJECT.json`, each with its line and the properties that
would catch it.

## 2 The code as committed

The tree does not compile, so some lines need a reading. These are the ones made:

* `TcpConnection.cpp` uses undeclared names (`wrote`, `data` in `sendInLoop`); they are
  read as `nwrote` and `message`. Line 262, `errno=ECONNRESET` inside a condition, is
  read as the comparison that the line around it wants.
* `shutdownInLoop` is defined twice (lines 93 and 289) with opposite conditions.
  Which of them is built is the constant `ShutsWhenWriting`; type correctness and the
  stream, interest and single-end theorems hold for both, the half close theorem for the
  body of line 93.
* `EventLoop.cpp`, `TcpServer` and `Acceptor.cpp` are missing. The functor queue (runs in
  order; `runInLoop` at once in the loop thread), what calls `doTimer`, and the owner (answers the close
  callback with `connectDestroyed`, or destroys by itself) are external, taken from
  their uses.
* `EPollPoller.cpp:63` reads `index==kNew||kDeleted`, which is always true, so that every
  `updateChannel` is an ADD, which ends in EEXIST for a channel that is registered; and
  `Channel::set_revents` stores the report of epoll into `m_events`, so that no handler is ever
  called and `isWriting` answers what epoll reported. `EPollPoller` and `Reactor` model both as
  they are written. Over such a channel a connection handles no event, and a model of
  nothing else would say little about the 300 lines of `TcpConnection.cpp`. So `TcpConnection` has a
  constant, `Readings`, and a variable, `reading`, that takes one of them for good: with `"written"` a
  poll overwrites the events of interest, calls nothing, and an update of a registered channel does not reach epoll;
  with `"meant"` a poll calls the handlers of what was reported and an update may reach epoll.
  In both an update may be refused, and only `connectEstablished` looks at that. The runs
  and the theorems are about both readings; where a report that overwrote the interest in
  writing makes a difference, the property says so (`clobbered`).
* `peekInt64`, `peekInt32` and `peekInt16` all call `networkToHost64`
  (`ByteBuffer.h:289-309`). It is modelled by what the conversions do to the bytes on a host that
  stores the least significant first: the narrow integers lose their value. `readFd` is read
  with the buffers it declares. `findEOL(start)` does not use `start`; the searches change nothing
  and are no actions.
* The headers of the timers lack the semicolon after their classes, and the loop of
  `~TimerQueue` has its condition in the place of the step. The destructor is not
  modelled. Nothing else deletes a `Timer`, not even the `erase` of one that has had its last
  run, so an address stands for one timer and `TimerId` needs no sequence number.

## 3 The modules

| module | what it is |
|---|---|
| `LogService` | abstract: accepted lines come out one by one, each once, in order |
| `AsyncLog` | the logger; `ImplementsService` is its refinement of `LogService` |
| `AsyncLogProofs` | theorems about the lines of `AsyncLog`, its threads and its service |
| `LogFileProofs` | theorems about the files of `AsyncLog`, on top of `AsyncLogProofs` |
| `ChannelEvents` | events, and the handlers `handleEvent` calls for them, in order |
| `ByteStream` | abstract: an ordered stream of bytes that may be cut, for good |
| `TcpConnection`, `MCTcpConnection` | one connection; `ImplementsStream` is its refinement of `ByteStream`; its messages for TLC |
| `TcpConnectionProofs` | theorems about `TcpConnection` |
| `EPollPoller`, `MCEPollPoller` | poller, channels and epoll; the descriptor of each channel for TLC |
| `EPollPollerProofs` | theorems about `EPollPoller` |
| `TimerService` | abstract: timers without an order or a scan, that run after their turn and as often as asked for |
| `TimerQueue`, `MCTimerQueue` | the timers of a loop; `ImplementsTimers` is its refinement of `TimerService`; the intervals and counts for TLC |
| `TimerQueueProofs` | theorems about `TimerQueue` |
| `ByteQueue` | abstract: a queue of bytes without capacity |
| `ByteBuffer`, `MCByteBuffer` | the buffer and the integer codec; `ImplementsQueue` says that it holds what a `ByteQueue` holds after the same calls; its data for TLC |
| `ByteBufferProofs` | theorems about `ByteBuffer` |
| `CountDownLatch`, `MCCountDownLatch` | the latch; its counts for TLC |
| `CountDownLatchProofs` | theorems about `CountDownLatch` |
| `Reactor`, `MCReactor` | connections, poller and loop composed (extends `EPollPoller`); descriptors for TLC |
| `ReactorProofs` | theorems about `Reactor`, on top of `EPollPollerProofs` |

**AsyncLog.** A step is what a thread does between two points where another thread
can see or change what it uses. Callers: `Output`/`OutputBinary` (level test, line put
together), `Push` (the `lock_guard` block with `push_back` and `notify_one`), and for a
FATAL line `FatalTest`, `FatalCloseOld`, `FatalOpen`, `FatalWrite`, `Crash`. Write thread
(`wpc`): `LoopTop` (does it need a file?), `WriterCloseOld`, `WriterOpen`, then under the
mutex `PopLine` or `FindEmpty`, `TestExit`, `Sleep`, then `PrintLine`, `WriteToFile`.
Admin thread: `InitLog`, `SetLevel`, `SetExit`, `NotifyExit`, `Join`, `UninitClose`,
`UninitClear`. The mutex is not a variable: the write thread holds it exactly at
`check` and `wait`. The data races on `m_bExit`, `m_nCurrentLevel` and `m_hLogFile` are
interleaved accesses; using a closed `FILE*` is undefined, so a write to it may seem to
succeed, fail or end the process. A line is the number of its call and a length. The loop
of partial `fwrite`s in `writeToFile` is one write of the line, with three ends: all of it is in the file
(`WriteLine`), a part or nothing is and the caller is told (`WriteFails`), or a part or
nothing is and the caller is not told, because `fflush` failed, whose result nobody reads (`WriteLine` again).
`torn` remembers that the second or third happened to the current file. The
`substr` truncation (its result is thrown away) is nothing. A file name is the second of its
creation and the format (`%s` or `%S`).

**TcpConnection.** `Poll` picks a set of the events that epoll watches and, depending on `reading`,
queues handlers or overwrites `events` (`m_events`). `CloseHandler`, `HandleRead`,
`HandleWrite` are the handlers; `UpdateChannel` is `Channel::update` down to `epoll_ctl`, and `watched` is
what epoll knows; functors run in order by
`ConnectEstablished` with `EnableReading`, its second half, `ConnectDestroyed`, `RunSend`, `RunShutdown`, `ForceCloseInLoop`,
`RunCallback`. Calls in the loop thread are one step; calls of another thread are the
test of `m_state`, `setState`, and the queueing, with anything in between, also between
`setState(kConnected)` and `enableReading`. A write takes
any number of bytes, or none (EWOULDBLOCK), or fails because the connection was reset
or is shut; a read may fail for any reason, and each of them closes the connection
(`TcpConnection.cpp:163-167` does not look at errno). Empty messages are left out (no caller has a
reason to send one; with them `write` returns 0 and the write-complete callback is called at once). Incoming
bytes go straight to the user and are not kept; `given`, `dropped`, `downs`, `closes`,
`resurrected` and `clobbered` are history.

**EPollPoller.** Everything runs in the loop thread, so an operation on a channel is
one step from `Channel` down to `epoll_ctl`. epoll is a registration per
descriptor; ADD fails on a registered one and may fail on any; closing a
descriptor ends its registration, and its number is used again by another
channel at once.

**TimerQueue.** `m_timers` is the set of timers that have an entry; an entry's key is
(`key`, address), where `key` is the expiration at insertion, and `m_expiration` is the one
`run` moves. A scan of `doTimer` is `DoTimer` (reads the clock, goes to the first
entry), then for each entry either `StopScan`, or `SkipCanceled`, or `CallBack` and
`CallbackReturns`, so that anything a callback may do fits between the last two: adding,
removing and cancelling timers, its own too. `Advance` is the `erase` or `++` that
follows. After a callback that removed its own timer, `iter` points to freed memory, and the
process dies or goes on from any entry (`strayed`); the freed node may by then be that of
another timer, whose count is read and which is erased if it is 0 (`EraseReused`). Other threads queue functors, which run between
scans. The clock may be set to any time at any moment. `runs`, `inserted`,
`removed` and `ahead` (the entries the scan found and has not come to) are history.
`AddTimer` takes any time and any of `Kind`; the public calls `runAfter`, `runEvery` and
the like are in the missing `EventLoop.cpp` and give it such values.

**ByteBuffer.** Each function of the class is an operator from a buffer (a record of vector and
indices) to a buffer, with the code's branches: `ensureWritableBytes`, `makeSpace`, `Resize`,
`MoveDown`, `append`, `prepend`, `retrieve`, `unwrite`, `hasWritten`, `shrink`, `readFd`. An
action is one call of a user. A copy past the end of the vector is lost, so that a
buffer that makes too little space shows as a queue that loses bytes. `readFd` gets what
`readv` read, in one piece that may end in the writable bytes, at their end, or in
`extrabuf`. An integer is the sequence of its bytes. `peak` is history: the most the
buffer had to hold. `queue` is what a queue of bytes holds after the same calls: each action
takes, with its call, the operation of `ByteQueue` that its user believes it to be. An append puts exactly its bytes
at the back, a `retrieve` takes exactly as many, and growing, moving, swapping and
`ensureWritableBytes` keep everything.

**CountDownLatch.** `wait` is one step each time the mutex is taken: test, then return or sleep;
`countDown` is one step, since the notification is sent under the mutex. Sleepers also
wake up unasked. A latch may start at any count and is counted on after zero.

**Reactor.** What reaches the poller is kept of a connection: `m_state`, and `life`, how far its
owner has got (owned, given up, released, destroyed). `Open`, `GiveUp` and `Destroy` are the owner's.
Any thread may call `shutdown` and `forceClose` in any stage of a connection: `Shutdown` and `ForceClose` read `m_state`,
`StoreState` stores `kDisConnecting` whatever the state has become, `QueueForceClose` queues the
functor, three steps without a lock. `ConnectEstablished`, `ForceCloseInLoop`
and `ConnectDestroyed` are the functors; two of them have a second half that is a step of its own (`GoesOn`):
`EnableAfterSetState`, since other threads see kConnected before `enableReading` is called, and `RemoveAfterCallback`, since
`connectDestroyed` calls the user back between `disableAll` and `remove`.
`PollReports`, `PollTimesOut`, `HandleActive`,
`TakeFunctors` and `EndTurn` are the turn of the loop. The operations on channels are those of
`EPollPoller`, with its `epoll_ctl` that may fail.
The owner destroys a connection once no functor and no call refers to it, which closes the descriptor.

Definitions under `\* Mutant:` comments are plausible bugs of the definition that
follows; `Next` never uses them. Each property of a passing run has one such form that TLC
finds breaking it.

## 4 The runs

| run | what it shows | bounds, and why they are enough |
|---|---|---|
| `async_log` | types, conservation of lines, `uninit` drains, the file is the tail, rolling, refinement of `LogService` | 2 callers, 3 calls, lengths 1 and 2 with roll size 2 (a line may reach or pass the size), 2 `init`s (use after `uninit`, with and without a file), 2 seconds; no FATAL lines |
| `async_log_live` | no missed wakeup; a pushed line comes out; a FATAL call ends the process, unless its file cannot be created | 2 callers and 2 calls, FATAL and INFO, level raised or not: a push fits at every point of the thread's way to sleep |
| `tcp` | the stream (refinement of `ByteStream`), interest in writing, one end, clean half closes, the callbacks, and that a force close closes, with the loop and two other threads | both readings of the channel; messages of 1 and 2 bytes (whole, partial and refused writes), high water mark 2, 2 calls: a send may follow a send that left bytes or cross it, a shutdown may find them, a force close may follow a shutdown, and two threads may be inside a call at a time. A third call is out of the time of a run; the theorems hold for any number |
| `timers` | an entry exactly while needed, timers passed over only behind a stale entry, refinement of `TimerService` | 2 timers of 4 kinds (once, for ever, twice, and a count of 0), times 0 to 2, 1 queued functor: one timer goes stale in front of one that is due, one is erased in front of another, each may remove the other or itself, and a functor of another thread finds any of these states |
| `buffer` | a queue of bytes, indices in order, space on request, bounded waste, the integer codec | reserve 2, initial size 2, `extrabuf` 2, at most 5 readable bytes: every branch of `makeSpace` is taken with fewer, as many and more bytes in front than the reserve; `readFd` ends before, at and behind the end of the vector. The theorems hold for all sizes |
| `latch` | nobody sleeps at an open latch, nobody passes a shut one, waiters return | 3 waiters that wait again and again, counts from -1 to 3, counted down to -2 |
| `reactor` | map, indexes and epoll agree; what of a connection's life holds over the poller as written | 2 connections that follow each other on one descriptor, 2 threads that may both be inside a call, also on one connection; a functor of `forceClose` is queued behind at most 2 others, the longest queue there is without one. Connections on different descriptors meet in no variable but the queue, and a batch of several reports is in `poller_revents`; the theorems hold for any number of both. `Unasked` is empty to keep the run short. Of the poller's operations the connections use three (enable reading, disable all, remove); that map, index and epoll agree under every client that uses any of them in any order is what `EPollPollerProofs` proves |
| `log_exit_hang` | **finding**: `uninit` may hang | one line at most, one `init`; the notification fits between the thread's test of `m_bExit` and its wait |
| `log_roll_same_second` | **finding**: a file that fills up in the second it was made is truncated | two lines that each reach the roll size |
| `tcp_close_twice` | **finding**: the close is reported twice | one other thread, one call |
| `poller_revents` | **finding**: a reported event reaches no handler | 3 channels on 2 descriptors, two of which share a number, and HUP, which comes unasked |
| `narrow_integers` | **finding**: a 32-bit or 16-bit integer does not read back | as `buffer`; the first state is enough |

Where the code, as a finding shows it, would break a property elsewhere, the property names the case it leaves
out and no more:

* `CurrentFileIsTail` and `RollBound` speak of the times when no FATAL call is under way, and the exact part of
  `CurrentFileIsTail` of a file that is not `torn`. That the size never understates the file holds
  of a torn one too, which is why `RollBound` needs no such case.
* `DownExactlyOnce`, `WriteInterest`, `HalfCloseLosesNothing` and `ConnectedIsRegistered` exclude
  `resurrected`, exactly the race that `tcp_close_twice` shows: kDisConnecting stored over kDisconnected.
* `WriteInterest` and `HalfCloseLosesNothing` exclude `clobbered`, exactly the effect of `Channel.h:42`
  that `poller_revents` shows: a report changed whether OUT is among the events of interest.
  After it, as written, `shutdownInLoop` may well shut the socket over bytes that are still in the
  buffer. `StreamIntact` and `ImplementsStream` exclude nothing: even then nothing comes out
  of order or twice, and nothing follows the cut.
* `MissedOnlyBehindStale` excludes a scan that went on from freed memory; `ImplementsTimers` and
  `QueuedWhileNeeded` do not.
* `ExitDrains` and `LinesComeOut` let the write thread end on a file error, after which the list stays as
  it is: the code tells nobody, and no property says that it does.

What the code does not promise, and no property claims: that bytes in the output buffer
ever go out, that a half close that waits for them happens, and that the channel of a
closed connection leaves the poller. As written they do not, since no handler runs and `disableAll` does not
reach epoll; `OnlyTheseStay` says when the last one fails.

Three more disagreements between the code and its comments are not runs of their own; the
models follow the code and the properties say what it does:

* A FATAL call ends the process (`AsyncLog.h:26`), but one whose file cannot be created returns
  (`AsyncLog.cpp:155, 243`): `FatalCrashes` leaves that end open.
* A repeat count of 0 is decremented to -1, which stands for "for ever" (`Timer.cpp:35`,
  `Timer.h:19`): `HasRunsLeft` counts such a timer as one that goes on, and `QueuedWhileNeeded` leaves out only
  a count-0 timer that has not run.
* A connection that epoll reports after it was disconnected has `m_events` overwritten (`Channel.h:42`),
  so `Channel::remove` leaves it in the poller's map (`EPollPoller.cpp:125`), and its descriptor
  can never be used again: `OnlyTheseStay`, `StaleIsForEver`.

`CHECK_DEADLOCK FALSE` is set where the system may stop: the process has crashed, the
bounds on calls are used up and everyone sleeps, the connection is destroyed, or a timer's callback removed its own timer and
the process died, or a buffer is as full as `MaxReadable` lets it be. The poller, the reactor and
the latch never stop and are checked for deadlock.

Bounds are the constants `MaxCalls`, `MaxInits`, `MaxClock`, `MaxTime`, `MaxPending`,
`MaxFunctors`, `MaxReadable` and `LeastCount`; the history variables grow only with them. No property mentions them except `LinesComeOut`, which quantifies
over the lines there can be.

## 5 Fairness

* `AsyncLog`: weak fairness of the write thread, of `uninit` once begun and of every call
  once begun. It is what the scheduler of the operating system gives a thread that can
  run. A caller need not call, the clock need not tick, and a spurious wakeup need not
  happen: `LinesComeOut` cannot lean on it.
* `TcpConnection`: weak fairness of what the loop thread still has to call and of calls that
  have begun in another thread; strong fairness of running a functor, which is disabled while
  an event is handled, and to which the loop comes back at every turn. `ForceCloseCloses` needs no
  more. Nothing is assumed of a poll: it need not report anything.
* `Reactor`: weak fairness of the loop as a whole, `LoopStep`: it keeps turning. Which functor
  comes next and whether the poll reports anything is left open; the queue is in order, so a
  functor that was queued is reached. Nothing is asked of the owner.
* `CountDownLatch`: weak fairness of a woken waiter, which gets the mutex and tests. Nobody
  need ever count down.
* `EPollPoller`, `TimerQueue` and `ByteBuffer`: none, and no liveness. They act when something outside
  calls them, and nothing in the repository says how often `doTimer` is called.

Nothing is assumed of the owner or the users of any class, of epoll and of the peer.

## 6 The proofs

`tlapm` checks all of them. They hold for all values of the constants that satisfy the named
assumptions `ConstantsAssumption` (logger), `ConnectionAssumption` (messages are
non-empty sequences of bytes), `PollerAssumption` (finitely many descriptors, each
channel has one, `NoChannel` is none of them), `ReactorAssumption` (a bound), `TimerAssumption` (addresses are
positive numbers, intervals are not negative), `BufferAssumption` (bytes, integers of 1, 2, 4 or 8 of
them, sizes) and `LatchAssumption` (counts are integers, the bound is below them).

* **AsyncLog** (`AsyncLogProofs`). Type correctness comes first: `TypeCorrect`. The
  inductive invariant `IInv` joins `LinesConserved`, `NoMissedWakeup`,
  `ThreadObjectTracks` (the thread object is joined only after the thread has returned)
  and `ReturnDrains` (a thread that returned without a file error left an empty
  list at that moment, so all that was pushed before the exit flag is out; before it returns,
  `atExit` is bounded by what was accepted). `ExitDrains` alone is not inductive: nothing
  in it says why the join found the list empty. `Implements` is the refinement: a
  push is `Accept`, a print is `Deliver` of exactly the oldest undelivered line,
  which follows from `LinesConserved`, and every other step stutters.
* **The files of the logger** (`LogFileProofs`). `FilesRollInTime` (`RollBound`) and
  `OpenFileIsTail` (`CurrentFileIsTail`) hold while no FATAL call is under way, and that
  premise is not inductive: what the write thread knows of its file is void when a FATAL
  call has a file to write to, or goes on to crash. But such a call never returns (one whose file cannot be opened does), so `FileInv` says
  what it says until a call is `Doomed`, which lasts. Its parts: `SizeTracks` (the counter is at least the size of the
  open file, and exactly that while no flush of it was lost; it is 0 while the file is replaced, and is below the roll size when a line is
  written), `FilesBounded`, `HoldsTail` (the open file ends what was printed, if every line got into it whole), `WritesPrinted` (what is written is what was printed
  last), `OpenIsNamed` (without a file name nothing is opened), and `NoFileOutside` (no `FILE*` survives
  `uninit`, which is why a counter that `init` does not reset does no harm). `Size` is a
  recursive function of the lines; `SizeAppend` says that it grows by the length of the
  line. The library's induction theorems need an operator for an argument; `SetInduction` derives
  from the well-foundedness of < (`WellFoundedInduction`) an induction for a *set* of numbers,
  and that is enough.
* **EPollPoller** (`EPollPollerProofs`). `RegistrationOwned` is strengthened with
  `MapOwned` (an entry of the map belongs to its descriptor and is added),
  `AddedIsKnown` (an added channel is in the map or was removed) and `RemovedIsAdded` (a removed
  channel keeps the index kAdded, which is why it is refused for ever). From them
  `RemovedStaysOut` and `OneChannelPerFd`.
* **TcpConnection** (`TcpConnectionProofs`). `StreamIntact` says nothing of a message
  that was dropped while another is buffered, so it is strengthened to `StreamInv`;
  with it `WriteInterest` and `DownExactlyOnce` are inductive
  together, for either reading of the channel. The stream does not need `WriteInterest`, which a report of epoll may
  break: `sendInLoop` asks for the buffer as well as for `isWriting` before it writes directly. One lemma for each shared function (`CloseInv`, `BufferInv`, `SendInv`,
  `FlushInv`) serves all the actions that call it.
  `HalfCloseIsClean`: with any number of other threads, and the body of line 93 built, a
  half close loses nothing that was in the buffer (`HalfCloseLosesNothing`); it is inductive
  together with `WriteInterest`, since `shutdownInLoop` asks for the interest in writing
  and not for the buffer: which is why both hold only until a report of epoll changes that interest
  (`clobbered`).
  `ShutdownNeverTruncates` proves `HalfCloseAfterDrain` when no other thread uses the
  connection and the body of line 93 is built, from a second invariant `SoloInv` (no
  send is queued, the socket is shut only after everything went out and the state left
  kConnected). It speaks of what was given and not only of what was buffered, and no run checks it; it too ends
  with the first report that is stored over the interest in writing. Both hypotheses are needed: with another thread a queued send may run
  behind the half close.
  `CompleteIsWritten` and `MarkOnCrossing` are the action properties of the callbacks. `Count`, how
  often a functor is in the queue, grows by one with an `Append` (`CountAppend`) and never with a
  `Tail` (`CountTail`). `StepKinds` divides all steps into those that send, that flush,
  and that add no report and leave the buffer; only the first two need to be looked into. That the write-complete
  callback means that the wire has all that was given is `StreamInv` after the step.
  `StreamImplemented` is the refinement of `ByteStream`, with `given` accepted, `wire`
  delivered, and the stream open while `CanWrite`. The wire grows only while the socket takes
  bytes and only by the next of what was given: `StreamInv` again, which says it of the states before and after; the
  invariant `StreamIntact` cannot say that bytes on the wire stay, or that nothing follows a cut.
* **TimerQueue** (`TimerQueueProofs`). `QueuedWhileNeeded` is not inductive: whether a
  timer has runs left is decided by `m_repeatCount`, so `CountsRuns` ties that counter to
  the calls made, and during a callback the call is begun and not yet counted, which
  every conjunct must say. `OnSchedule` ties the expiration to the number of calls,
  `AddedOnce` says that an address is inserted at most once (queued or done), `AtEntry`
  that `iter` has an entry unless a callback removed it, `AheadIsAhead` that what the scan
  has not reached lies after `iter`, and `NeverEarlier` that an expiration never lies before
  its key. From them `NoTimerLost`, and the action property `MissedOnlyIfStale`
  (`MissedOnlyBehindStale`), for any number of
  timers, kinds and times. That a freed node may be another timer's does no harm to the others, because `CountsRuns`
  says that a timer in the set whose count is 0 was added with it and has not run. A count of 0 is one of those kinds: `CountsRuns` gives it no
  bound once it has run.
  `TimersImplemented` is the refinement of `TimerService`: an entry is a timer that is active. A
  callback is `Run`, an `erase` in the scan is `Retire`, `Insert` is `Begin` (of `Add`, if the loop adds),
  and a scan that reads the clock only lets time pass. A call that has begun
  and is not yet counted is in `runs` already, so the proof needs `CountsRuns` on both
  sides of the callback; and that a retired, removed or unknown timer never runs again is
  `AddedOnce` with `AtEntry`. `TimerService` says what of the schedule a user may count
  on: no run before its turn, too many, or while canceled. It says nothing of the latest moment, because a stale
  entry may hold up any other (`MissedOnlyBehindStale`).
* **ByteBuffer** (`ByteBufferProofs`). One lemma for each function says what it does to the
  readable bytes and to the indices, and keeps `WellFormed` (reader, writer and size in order). With
  them `Readable(buf) = queue` is inductive, which is `ImplementsTheQueue`: the bytes of an append go
  behind, of a prepend in front or, if it is refused, nowhere, and everything else keeps what is
  there. `SpaceIsMade` shows, of every state, that the early return
  of `makeSpace` is never reached when space is missing, `WasteIsBounded` that the
  vector stays below twice the peak. `WideIntegersAreKept` and `NarrowIntegersAreLost` are about
  all bytes, not those TLC tries; the second says how far `NarrowIntegersReadBack` is from being true.
* **CountDownLatch** (`CountDownLatchProofs`). `NoLostNotification` and `NoEarlyReturn`, with the type invariant
  that ties the count to the calls of `countDown`.
* **Reactor** (`ReactorProofs`). `ReactorUsesThePoller` shows that each step is a step of `EPollPoller` or none
  of it, so its invariants hold here without a second proof. The inductive invariant adds to them
  `QInv` and `PInv`. `QInv`: a functor and a thread inside a call keep their connection alive,
  `connectEstablished` is queued until it has run and
  before any `connectDestroyed`, its second half is at the head of the queue, and a descriptor has one
  owner. `PInv` says what map, index and epoll have of a connection in each stage. Its
  last part is what the late store makes necessary: a connection whose descriptor was refused by the map
  (its index is still kNew, though `connectEstablished` is over) has a stale entry in its way, which stays. Without it a second
  `handleClose`, after kDisConnecting was stored over kDisconnected, could with its
  `disableAll` put the connection into the map after all.
  From them `ConnectedStaysRegistered`,
  `OnlyLateOnesStay` and the action property `StaleEntriesStay`, for any number of connections,
  descriptors and threads.

Model-checked only: liveness (`LinesComeOut`, `FatalCrashes`, `ForceCloseCloses`,
`WaitersReturn`, `ClosedIsReleased`: fairness and ENABLED are beyond the prover), and of course
the counterexamples. Every other property of a passing run is a theorem. The other way round, the type invariants of the
connection, the poller, the timers, the latch and the reactor are only proved: the runs
spend their time on what follows from them.

## 7 What is not modelled

* `Acceptor` (a header only), `EventLoop` (its body is missing; its turn is external in `Reactor`),
  `Poller` (an interface).
* `Socket`, `InetAddress`, `Platform`: wrappers of system calls and
  conversions without state of their own; what they can return is part of the
  actions that call them. Things met while reading them, with no caller in the tree to
  model them through: `isSelfConnect` compares the local address with itself,
  `setNonBlockAndCloseOnExec` passes `F_GETFD` where `F_SETFD` is meant, and `toIp` returns early
  for a buffer that is large enough.
* The conversions of `Timestamp` to text and its differences: wording, and a division of
  integers where `Timestamp.h:91-94` promises seconds with a fraction; nothing in the tree calls it.
* `Singleton`, `RAIIWarpper`, `Callbacks`: language helpers and type names.
* Of the modelled parts: the layout of a log line and of a binary dump, log calls
  inside the network code, addresses, the content of a connection's input buffer, the searches of `ByteBuffer`, the destructor of
  `TimerQueue`, the overflow of a 64-bit time.

## 8 The plan

Done: logger, connection, timers and buffer, each with what it promises in an abstract
specification that it is proved to implement; poller, codec and latch; the reactor that composes
connections, poller and other threads; and a theorem for every safety property that a run checks. Next, in this order:

1. **The abstract reactor**: `Reactor` implements `EPollPoller` but promises its user nothing in
   one place; a specification of a connection's life (new, up, down, gone, and the
   descriptor free again or not) that it implements, with the leftovers of `OnlyTheseStay` in it.
2. **The latch as a service**: `CountDownLatch` as the refinement of a gate that opens once.
3. **The safety half of the liveness properties**: what must hold in every state for a buffered byte
   or a queued functor still to have someone to take it further, as an invariant.
4. **The whole connection in the reactor**: `TcpConnection` has one connection over a channel as
   written, `Reactor` several without their bytes; `Reactor` as the environment that `TcpConnection` assumes,
   shown by a refinement of its `interest` and `removed`.
