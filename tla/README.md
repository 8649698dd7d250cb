# libtuv in TLA+

A model of libtuv, the libuv fork for small systems, checked with TLC and
proved with TLAPS. It covers the POSIX port (`src/src/*.c`, `src/src/unix/*.c`)
and the port to Windows (`src/src/win/*.c`). Where an assertion of the code says
something about the state that several calls build up, it is stated as a property,
either of the values or as a place `"aborted"` that is not reached; otherwise the
models do not stop at it. `make` builds with assertions unless told otherwise, and
one module, `Barrier`, tells the two builds apart, because there an assertion
contains a call: its constant `Ndebug` is `FALSE` in the run, the build with
assertions. `PROJECT.json` maps every definition to the lines it models and lists
components, hazards, runs, mutants, findings and theorems.

## 1. The system

A program has one or more *event loops*, each run by one thread with `uv_run`.
*Handles* (timers, idle, async, streams, UDP, signals, processes, ...) live on a
loop and call back into the program. *Requests* (work, write, send, connect, ...)
are single operations. Only `uv_async_send` may be called from other threads, and
the *thread pool* uses it to bring completed work back to a loop. On POSIX a loop
waits for descriptors to become ready (epoll, kqueue, event ports, pollset, or the
poll tables of NuttX and TizenRT) and does the operation then; on Windows it
starts the operation and waits for its completion on a port.

| Part | Hard behaviour | Modules |
|---|---|---|
| thread pool | workers, loops and cancellation interleave; wakeups that are not sent | `ThreadPool`, `WorkQueue`; proofs in `ThreadPoolProofs`, `ThreadPoolPlaces`, `ThreadPoolWakeup` |
| event loop, handles, requests, idle, async | callbacks change the lists that are walked; merged sends; one unbalanced pair hangs or ends the loop | `EventLoop`, `LoopInit`; proofs in `EventLoopProofs` |
| timers and their heap | overflow, restart in callbacks; links while nodes move | `EventLoop`, `TimerQueue`, `TimerHeap`; proofs in `TimerProofs` |
| I/O watchers, backends, poll handles | descriptors reused, watchers stopped within a batch of events | `Poller` |
| UDP | callbacks that send, pause or close | `Udp`; proofs in `UdpProofs` |
| streams, TCP, pipes | partial writes, callbacks that close, descriptor limit, descriptors in messages, a thread in `select()` | `Stream`, `StreamServer`, `StreamSelect` |
| signals | handlers in any thread, messages to handles that are closed | `Signal` |
| processes | several children for one SIGCHLD; descriptors across fork | `Process` |
| fs, name resolution, file polling | memory of a request that fails or is cancelled; late results | `FsRequest`, `FsPoll` |
| file change notification | handles stopped while their list is walked; a second run loop | `FsEvent` |
| barrier | lost wakeup, use for a second group after the first has left, destruction | `Barrier` |
| Windows: loop, timers, watchers, async, requests | requests in port and list, endgames | `WinLoop`, `WinHandle` |
| Windows: sockets | completions after stop and close, failing calls | `WinTcp`, `WinTcpServer`, `WinUdp`, `WinPoll` |
| Windows: pipes | threads in blocking calls, eof timer, frames | `WinPipe`, `WinPipeServer`, `WinPipeThread` |
| Windows: signals, directories, processes | dispatch from another thread; what `uv_spawn` computes | `WinSignal`, `WinFsEvent`, `WinProcess` |
| Windows: file system | what one or several system calls make of a file, links, memory | `WinFsRequest`, `WinFsOps` |
| Windows: threads | once, locks and conditions built from events and semaphores | `WinThread` |

## 2. Modules

**`ThreadPool`** is `threadpool.c` with the part of `unix/async.c` it uses. A
thread's `pc` names the code it is about to run, and a step is one critical
section, one lock acquisition or one atomic access. `wq`, `loop_wq` and
`local_wq` are the three queues; `linked` says whether a node points to itself,
which is what `uv__work_cancel` tests. `ran` and `status` are history.
The condition variable may wake a worker spuriously and a signal wakes any
waiter. **`WorkQueue`** is the promise made to the program, with one state per
request; `ThreadPool!ImplementsWorkQueue` is the refinement.

**`EventLoop`** is `uv_run` with timers, idle and async handles and closing. The
flag macros of `uv-common.h` are functions from record to record. The
loop thread is in the program (`pc = "user"`), in a callback (`cb`), or between
two callbacks in a phase of `uv_run`; the API is called in the first two. `queue`
is the list a phase took over. A sender is split between setting `pending` and
writing to the eventfd. `Tick` moves the clock; `loop->time` follows it only where
the code updates it. Timeouts are unsigned numbers modulo `UintMax + 1`. `reqs`
holds the requests that keep the loop alive: `active_reqs`, the completed ones of
`loop->wq` that `wq_async` announces, and the `pending_queue` of watchers that were
fed, which `uv__run_pending` takes over.
**`LoopInit`** is `uv_loop_init` with the failure of every call and what is undone.

**`TimerQueue`** is what the heap promises: timers in firing order, with ties in
starting order. `EventLoop` uses it directly. **`TimerHeap`** has the binary heap
with its links and (`List...`) the list of `TUV_ENABLE_MEMORY_CONSTRAINTS` builds,
which have no `start_id`. Both carry the promise as a history variable and are
checked against it. A step is one round of a loop.

**`Udp`** is one UDP handle with its watcher, queues and closing. `call` is the
place in the handle's code, `phase` the place in `uv_run`. The kernel is `full`,
which makes `sendmsg()` say `EAGAIN` and is the reason `POLLOUT` is not reported.

The other modules share four variables: `s` is the state of the C structures,
`os` what the operating system and the peer hold, `run` the place of the threads
in the code, and `hist` history and what the bounds count. A C function that
changes only a structure is an operator from record to record; a place in the
code where the program or another thread may act is a value of `run`.

- **`Stream`** is a client stream: connect, `uv__write` with partial writes and
  `EAGAIN`, the callbacks of finished writes, `uv__read`, shutdown, close and
  destroy; a connect ends with what `SO_ERROR` says, or, in builds without it
  (`HasSoError`), always well. **`StreamServer`** has `uv__server_io`,
  `uv_accept` and the trick with the spare descriptor and (`Ipc...`) both ends
  of a pipe that carries descriptors; **`StreamSelect`** the thread and the two
  semaphores of Darwin.
- **`Poller`** is `uv__io_start`, `uv__io_stop`, `uv__io_close` and
  `uv__io_poll`, with one variant for each backend, and poll handles on top. Files
  are numbered by the moment they were opened, so a descriptor that was used
  again can be told from the one before.
- **`Signal`** has the shared tree, the lock in a pipe, the handler in any
  thread and one loop thread per loop; its `Rb...` half is the red-black tree
  itself, compared with a set. **`Process`** keeps the rings of `queue.h` as
  links, because the code under test walks one while callbacks unlink from it.
  Its `Spawn...` half is `uv_spawn` with the tables of descriptors of parent and
  child and, as a specification of its own (`Cloexec...`), the race of forking
  with a thread that opens, or receives (`uv__recvmsg`), a descriptor.
- **`FsRequest`** gives every allocated block of a request a state; its
  `Transfer...` half moves numbered bytes in several calls. **`FsPoll`** has
  contexts that outlive a stop. **`FsEvent`** has the watcher lists of inotify
  (`Inotify...`) and the CoreFoundation thread of Darwin (`FsEvents...`), from its
  start by the first handle to the join at `uv_loop_close`, with the calls that may
  fail on the way (`Failing`).
  **`Barrier`** follows its file.
- **`WinHandle`** is what the handles of the Windows port share: counts of what
  keeps them active and of requests under way, the list of pending requests and
  the endgame; `WinTcp`, `WinTcpServer`, `WinUdp`, `WinPoll`, `WinPipe` and
  `WinPipeServer` extend it. The kernel completes a request by moving it from
  `os.flight` to `os.iocp`. **`WinPipeThread`** is the thread that reads a pipe
  which is not overlapped and (`Ipc...`) the frames on a pipe that passes sockets.
  **`WinLoop`** is `uv_run` over the port, with the requests of the thread pool, and
  (`Table...`) the table of all loops that a resuming system wakes.
- **`WinProcess`** has, besides the life of a process, the command line
  (`Line...`), the environment (`Env...`) and the search for the program
  (`Search...`); **`WinFsOps`** the file operations, those of one system call
  too, the text of links (`Link...`) and transfers (`Transfer...`). What is
  computed there is compared with a reference definition: the parser of the C
  run-time library, the merged set, the documented order of the search, the
  target the link was made with, the bytes that moved.
- **`WinThread`** has four specifications: `uv_once` and thread creation
  (`Once...`), read-write locks (`Rw...`), condition variables where the system has
  none (`Cond...`) and barriers (`Barrier...`).

`MC*.tla` and `MC*.cfg` are the instances for TLC. An instance with several parts
has a variable `kind` that chooses one at the start. Definitions whose comment
begins with "Mutant of" are small bugs: each property is violated when its mutant
replaces the original.

### What the program may do

The models let the program call the API in any order, with these limits, which
are what libtuv requires of its callers:

- `uv_cancel` is called only for requests whose callback is outstanding, and no
  request is submitted while `cleanup` runs;
- no API call is made for a handle that is closing or closed, and no thread
  starts `uv_async_send` for a handle that has left the loop;
- threads that send are joined before `uv_loop_close`;
- `tuv_timer_deinit` is called for timers that do not run, as in the tests.

Further limits are *not* documented by libtuv. The passing runs need them because
the code misbehaves without them; each is a constant, and setting it the other way
lets TLC show what happens (section 3, "Observations").

## 3. Runs

| Run | Instance | What it shows |
|---|---|---|
| `threadpool` | 2 workers, 1 loop, 2 requests; cancel, cleanup and initialisation again | a request is in one place, never called after cancellation, its status tells whether it ran; the idle count is exact and no wakeup is lost; refinement of `WorkQueue` |
| `threadpool_live` | the same, with a pool of 2 workers and one request that may be cancelled, under fairness | every request completes and `cleanup` returns |
| `eventloop_timers` | 2 timers and an idle handle, 6 calls, or 5 with a request; early `uv_loop_close` | `active_handles` is exact, lists agree with flags, every close waits once for its callback, no timer is early although timeouts overflow, without `uv_stop` `uv_run` returns only when no request, handle or close is left |
| `eventloop_async` | 2 async handles, `wq_async` and an idle handle with 2 other threads, 5 calls, or 4 with a request; a timer, an async handle and a thread, 4 calls, or 3 with a request, under fairness | no send is lost and none finds the eventfd closed, no callback for a closed handle; closes finish, sends arrive, due timers fire, requests are answered |
| `timers` | heap: 6 timers, 2 timeouts; list: 3 timeouts | complete tree with matching links whose root is the next timer; the list is the queue |
| `udp` | 3 sends, 7 calls | order and counters; the watcher waits while receiving and the assertions at close hold; nothing after close; watched sends and closes complete |
| `stream` | a client with 2 writes, a server at 4 descriptors, a pipe that carries 2 handles, the select thread | output in order; descriptors and memory owned once; reading and listening stay armed; results and EOF are true; writes, shutdowns, connections and closes are answered |
| `posix` | 13 parts of the POSIX port (signals, processes, backends, ...), each by itself | books, ownership, outcomes, callbacks only for what is wanted, and answers, for each part |
| `windows` | 24 parts of the Windows port, each by itself | counts of requests and handles, quiet after close, armed while reading, data in order, right results, thread primitives, callbacks only for what is wanted, answers |

Each property of `MCStream`, `MCPosix` and `MCWindows` is one question put to every
part it applies to; the comment above it says what it means for each. The
definitions it combines are in the modules of the parts.

**Bounds.** Two workers and two requests let a cancellation race with a worker
while another request waits. Two timers give an order, equal times and a callback
that acts on the other timer (`TimersAlike` is their symmetry; only safety is
checked there); timeout 7 with `UintMax = 7` overflows. Six timers
are the fewest for which a removal must move a node *up* the heap, and seven keys
give every case of `RB_REMOVE_COLOR`. `MaxFills` lets a kernel buffer fill up
again. `Stream` writes requests of two bytes and one, so that one is written in
part; `StreamServer` has three connections and room for one descriptor less than
they need. `Poller` has two descriptors for the files that are opened and closed,
one more for signals, batches of two events and two passes in place of 48.
`Signal` has two loops with a pipe of one message, so that it fills up; `Process`
three children, the fewest for a callback that closes another waiting process
while a third stays. `Process` takes four stdio slots of every kind. Barriers have
three threads, which meet twice on POSIX and three times on Windows, read-write
locks three threads with two turns each, the condition variable three consumers. `WinProcess` takes all arguments of three characters
and all paths of four, over the characters the code treats specially. `Max...Calls`
bounds the calls of the API, not the loop: it keeps running. Deadlock is checked for
the thread pool, and on Windows for threads, locks, barriers and file operations;
the other models stop when the program makes no more calls and nothing is active.

### Findings

Three runs are expected to end in a violation; each states what the repository
says and shows that the code does otherwise.

| Run | What the code does |
|---|---|
| `once_signals` | Each interruption of `uv__io_poll` subtracts the time since its *entry* again (`linux-core.c:422`), so `UV_RUN_ONCE` may return early and without the callback `core.c:331` promises. |
| `udp_eagain` | The first send of an idle handle that gets `EAGAIN` is never retried: `POLLOUT` is not armed. |
| `udp_close_in_recv` | When `recv_cb` closes the handle and the event has `POLLOUT`, sends fail on descriptor -1 and the closed handle is queued in `pending_queue`. |

### Observations

These constants exclude a case in which the code does not keep a property; TLC
shows it when the constant is set the other way. They have no run of their own.

| Constant | Property | What happens |
|---|---|---|
| `EventLoop!CloseEarly = TRUE` (async) | `NeverAborts` | `uv_loop_close` closes the eventfd before it returns `UV_EBUSY`; the next `uv_async_send` aborts |
| `Udp!BindWhileWatched = TRUE` | `WatcherSound` | a failing `uv_udp_bind` closes the descriptor under a registered watcher |
| `Stream!RetryConnect = TRUE` | `ToldTruth` | a connect made in the callback of one that failed is reported as made while in progress: the watcher is still in the pending queue (`stream.c:1349`) |
| `Stream!HasSoError = FALSE` | `ToldTruth` | a refused connect is reported as made: the build for NuttX and TizenRT does not ask (`stream.c:1366`) |
| `Poller!PollReuse = TRUE` | `CallbackWanted` | a poll handle's descriptor is reused within a batch (`linux-core.c:340`) |
| `FsPoll!FailStat = TRUE` | `OwnedOnce` | a failing first stat frees a context whose timer the loop has (`fs-poll.c:98`) |
| `FsRequest!CancelLargeReads`, `CleanupAtLast = TRUE` | `OwnedOnce` | copied buffers of a cancelled read, and the last entry of a scan, leak |
| `FsRequest!ShortCalls = TRUE` | `OutcomeExact` | a call that moves less than it was asked for is followed by the next buffer all the same |
| `FsEvent!ListFails = TRUE` | `OwnedOnce` | a watch without memory for its list is not removed (`linux-inotify.c:244`) |
| `FsEvent!Failing` with `"signal"`; with `"thread"`, `"mutex"` or `"stop"` | `BooksExact`; `OwnedOnce` | a start, a loop or a stop of `fsevents.c` that fails half-way leaves a handle in the list, or memory behind |
| `Process!MarkFails = TRUE` | `OwnedOnce` | a received descriptor whose `uv__cloexec` fails is inherited by the next child (`core.c:621`) |
| `Process!OneLock = FALSE` | `OwnedOnce` | two locks do not exclude fork from opening |
| `Process!Containers` with the flag `Busy` | `OwnedOnce` | descriptors of a failed container are closed twice (`process.c:530`) |
| `Process!OpenFds = {0, 1, 2}`, `MaxStdio = 5` | `OutcomeExact` | the child overwrites the pipe that reports a failed exec |
| `Barrier!Ndebug = TRUE` | `Answered` | a call inside `assert` is compiled away (`pthread-barrier.c:76`) |
| `Barrier!EarlyReuse = TRUE` | `Answered` | a thread that waits again while others of its group still leave makes these wait for ever |
| `WinTcp`, `WinUdp!RestartFailed = TRUE` | `CountsExact` | a read that fails at once is queued twice (`tcp.c:549`) |
| `WinTcpServer!ListenAgain`, `WinPipeServer!ListenTwice = TRUE` | `CountsExact` | a second listen counts the handle, or queues its requests, again |
| `WinTcpServer!AcceptAfterError = TRUE` | `CountsExact` | `uv_accept` after a failed call has ended the listening meets the assertion at `tcp.c:403` |
| `WinPipe!CloseConnecting`, `WinPipeServer!CloseUnbound = TRUE` | `ClosedQuiet` | a pipe closed while connecting keeps its handle; instances without their array |
| `WinPipe!SetupFails = TRUE` | `ClosedQuiet` | a pipe that was opened or duplicated and cannot be set up stays open (`pipe.c:608`) |
| `WinPipeThread!ShutdownReading = TRUE` | `ClosedQuiet` | shutdown destroys the mutex of the reading thread |
| `WinPipeThread!StartsLate`, `PeerSilent = TRUE` | `Answered` | a thread that starts late is not cancelled; one that nothing can interrupt waits for the other end |
| `WinPipeThread!Duplicates = BOOLEAN` | `CallbackWanted` | without a handle to cancel it with, a paused pipe keeps its thread in `ReadFile` (`pipe.c:963`) |
| `WinPipeThread!BareFrames`, `DataFails = TRUE` | `DataInOrder` | a header without its data |
| `WinSignal!CloseRaces = TRUE` | `CallbackWanted` | a signal between the test and the endgame meets the assertion at `signal.c:351` |
| `WinFsEvent!RestartPending`, `StopInCallback = TRUE` | `CountsExact` | the one request is queued twice |
| `WinFsEvent!OpenFails = TRUE` | `ClosedQuiet` | names are freed twice or used freed |
| `WinProcess!LoneQuotes = TRUE` | `ResultTold` | a path entry that is one quotation mark has a negative length |
| `WinProcess!MinArgs = 0` | `ResultTold` | the command line of a child without arguments has no end (`process.c:572`) |
| `WinFsRequest!AccessModes` without `W_OK` | `ClosedQuiet` | the mode of `uv_fs_access` overwrites the flag that the path is to be freed (`fs.c:2403`) |
| `WinFsOps!LateFailures = TRUE` | `ResultTold` | an operation that fails in its second call leaves what the first did: attributes, the file that an open made or truncated (a temporary one is deleted) |
| `WinFsOps!Moves`, `Short = TRUE` | `ResultTold`, `DataInOrder` | a path that grew between two calls; a short transfer followed by the next buffer |
| `WinThread!SignalsInRow`, `BroadcastRaces = TRUE` | `ThreadsSafe` | two signals set one event; a broadcast that meets waiters on their way out stays behind (against `thread.c:523`) |
| `WinThread!SerialDestroys = TRUE` | `ThreadsSafe` | the serial thread destroys the barrier others leave |

Some of what the code loses does not depend on a choice that could be excluded. The
properties say exactly that this is lost, and nothing else:

- the backend descriptor, with the watchers, of a `uv_loop_init` that fails later
  (`loop.c:127`), in `OwnedOnce` of `MCPosix`;
- the descriptor of the select thread, which is closed twice (`stream.c:1648`), in
  `OwnedOnce` of `MCStream`;
- the sockets of connections that a closed TCP server on Windows had and the
  program did not accept (`tcp.c:264`), and the `accept_reqs` of a pipe whose bind
  failed (`pipe.c:463`), in `ClosedQuiet`;
- an allocated header request whose own write failed (`pipe.c:1328`, `1336`), in
  `DataInOrder`.

More was seen while modelling and follows from the definitions:

- POSIX: the eventfd write of a send that another wakeup has served wakes
  `UV_RUN_ONCE` for nothing; `heap_remove` of the memory-constrained build leaves
  `nelts`, the "number of elements" (`heap-inl.h:34`), as it was; `uv_write2` that
  fails for memory leaves its request registered (`stream.c:1454`); a request
  written in parts sends its descriptor again with every part (`stream.c:807`);
  `uv_read_start` in the callback of EOF makes the loop spin (`stream.c:1030`);
  kqueue keeps
  thinking a deleted filter is registered (`kqueue.c:240`), so `InterestKept` is
  stated for epoll, event ports and pollset only; the poll table of NuttX is
  compacted under the pointer of the caller (`nuttx.c:162`), against the comment at
  `nuttx.c:224`; a full signal pipe drops SIGCHLD (`signal.c:136`).
- Windows: `UV_RUN_ONCE` returns after a completion without a callback, against
  the comment at `core.c:510`; a timeout beyond half of the range makes the loop
  spin (`timer.c:166`); a failed wait of an emulated accept counts its request
  twice (`tcp.c:462`); an error leaves a poll handle active (`poll.c:185`) or is
  stored in the other request (`poll.c:368`); a pipe instance that cannot be made
  is retried for ever (`pipe.c:812`); a read for which no thread could be had leaves
  an error that every later read of the pipe meets again (`pipe.c:1006`, `1096`).

### Fairness

- `ThreadPool`: strong fairness of each thread's steps. A contended mutex is
  granted in the end, which is what a program needs of pthreads to make any
  progress, and an eventfd that is readable is reported by the next poll because
  epoll is level-triggered. `EveryRequestCompletes` excludes a program that
  cancels the same cancelled request again and again.
- `EventLoop`: weak fairness of the loop thread inside `uv_run`, of calling
  `uv_run` again, of the clock, and of the write of a sender that has set
  `pending`. Nothing is assumed about new sends, signals or API calls.
- `Udp`, `MCStream`: weak fairness of the loop and of the kernel emptying its
  buffer; for the select thread, of its steps.
- `MCPosix`, `MCWindows`: weak fairness of the loop's thread, and of the other
  threads and the system taken together: as long as one of them can go on, one does.
  Nothing is assumed about calls of the API, data that arrives, or signals.

## 4. Proofs

The theorems hold for every value of the constants that satisfies the named
assumptions, and for every value of the bounds: what TLC shows for two workers or
two timers, they show for any number. Each names a definition that a run checks
too, and every inductive invariant was checked with TLC on those instances.

| Module | Theorem | States |
|---|---|---|
| `ThreadPoolProofs` | `TypeCorrectness`, `IdleCount` | `TypeOK`, `IdleCountExact` |
| `ThreadPoolPlaces` | `WorkersNeverAbort`, `StatusIsRight`, `RequestIsInOnePlace`, `PoolImplementsWorkQueue` | `NeverAborts`, `StatusTellsWhetherRan`, `RequestInOnePlace`, `ImplementsWorkQueue` |
| `ThreadPoolWakeup` | `NoWakeupIsLost` | `NoLostWakeup` |
| `EventLoopProofs` | `CountIsExact`, `CallbacksAreWanted`, `RunEndsWhenDead`, `ListsAreSound`, `TimersAreNotEarly`, `SendsAreKept` | `ActiveCountExact`, `CallbacksOnlyWhileOpen`, `RunsUntilDead`, `ListsSound`, `TimersNeverEarly`, `SendsKept` |
| `TimerProofs` | `HeapAlwaysExact`, `ListAlwaysInOrder` | `HeapExact`, `ListInOrder` |
| `UdpProofs` | `SendsKeepOrder`, `WatcherIsSound`, `ClosedIsQuiet` | `SendsInOrder`, `WatcherSound`, `QuietAfterClose` |

**Thread pool**, from `ThreadsAssumption` (finitely many workers; workers and
loops are different threads) and `ReqsAssumption` (each request has a loop; the
exit message is not a request).

- *Types and the idle count.* `TypeOK` is not inductive: a woken worker decrements
  `idle_threads`, which must be positive then. `TypeInv` adds that `idle_threads`
  is the number of workers inside `uv_cond_wait`, that a worker is created and in
  the wait set exactly at the matching labels (`WorkersOK`), and that a thread
  inside a call works on a request of its own loop (`CurOK`).
- *Never in two places.* `PlaceInv` says what each thread relies on about its
  request (`TaskOK`), that a request is in the hands of one thread at most
  (`OneHolder`), what the requests of each queue look like, that none is twice in
  a queue, and that the work of a request has not run while it is cancelled, or
  linked with its work function (`LinkedOK`): why `uv__work_cancel` may trust its
  test of the node.
- *Never in none.* `init_once` empties the queue, so no request may be in it when
  `cleanup` ends. `ExitInv` shows that only one thread cleans up, that no call runs
  beside it, and that the exit message is the last entry, so that a worker leaves
  only when it alone is left. `LocalInv` shows that `uv__work_done` finds its local
  queue empty when it takes over the next list. `NotLost` follows, and the number
  of places is 1 by a count of the positions.
- *Wakeups.* `uv__work_submit` signals only if `idle_threads > 0`. `WorkSeen`: if
  workers wait, at least as many others are on their way to the queue as it has
  entries. For the loop, `Token`: if `pending` is set, exactly one of the eventfd,
  `uv__async_io` and a thread about to write has the right to wake it; `Covered`:
  completed work has this token, a thread about to set `pending`, or
  `uv__work_done` on its way.
- *Refinement.* `Standing` is the abstract state of a request in terms of what
  threads do to it, and `Agree` shows that it is the mapping of the run. Every
  step either changes it for no request (`Unseen`), moves one request along one
  edge (`Moves`), or delivers one (`Delivers`).

**Event loop**, from `HandlesAssumption` (finitely many handles, a type each) and
`BoundsAssumption` (`INT_MAX` is below `UINT64_MAX`, and the clock does not pass
`INT_MAX` milliseconds).

- *Count, callbacks, end of `uv_run`.* `ActiveCountExact` is not inductive: a timer
  that fires is started again from the heap, and `uv__handle_init` forgets the flags
  of a handle. `LoopInv` adds that the lists, and the part a walk took over, hold
  active handles of their type, each once; that an active handle is in the loop and
  not closing; and that a handle is in a list of closing handles exactly while its
  callback is owed. The macros are treated once each: `Sets` says what they do to
  the flags and that the count follows. `ReqInv` adds the requests: one that is in a
  queue is active and is there once, so that its callback unregisters it once.
- *Lists.* `LinkedInv` is the converse: an active handle is linked, so that a walk
  visits it. With `LoopInv` it gives `ActiveMeansLinked`, by counting positions.
  `RestInv` types the remaining variables. After an abort the lists no longer
  matter, and `ListsSound` says so.
- *Timers.* `TimesInv`: a timer's timeout is not before the time it was wanted for,
  unless it was clamped to `UINT64_MAX`, which the clock never reaches.
- *Sends*, assuming `~CloseEarly`. `SendInv`: an open async handle is active, hence
  in the list that `uv__async_event` takes over, and the eventfd is closed only
  when no thread sends any more. The hard step is `AsyncIo`, which empties the
  eventfd: every send it announced is then ahead of the walk.

**Timer heaps**, from `HeapAssumption` (finitely many timers, times are numbers).
Both properties compare links with the history `queue` at every step of a call.

- *Binary heap.* `CompleteTree` walks from the root along the bits of a number,
  as `heap_insert` does to find its place, and such a walk cannot be followed
  through an exchange of a node with its parent. `HeapInv` therefore says that
  there is an array `a`, without repetitions, of the linked timers, such that
  the children of `a[i]` are `a[2i]` and `a[2i + 1]` and its parent is `a[i /
  2]` (`Shape`), and that every node is after its parent, except at the node
  that is on its way up or down (`Tree`). An exchange of two nodes is an
  exchange of two entries (`ExchangeIs`). That the walk along the bits of `n`
  ends at entry `n` (`NodeAtIs`), and that the root is before every other node
  (`RootFirst`), is shown by induction over numbers, which rests on the least
  number of a set (`LeastNumber`).
- *List.* `ListInv` says that the chain of pointers from `min` is the history
  `queue`, without the timer that is being inserted or removed, and how far the
  walk has come: all that it has passed is before the new timer (`Walked`).

**UDP**, from `UdpAssumption`.

- *Order.* The callback takes its request out of the history wherever it stands;
  this is the head only if no request is outstanding twice. `QueueInv` adds that.
- *Watcher*, assuming `~BindWhileWatched`. `uv__io_stop` does nothing without a
  descriptor. `WatchInv`: a registered watcher has one, waits for `POLLIN` exactly
  while the open handle receives, and then keeps it active.
- *Closing*, assuming `~CloseWithPollout`. `QuietInv`: after `uv_close` the handle's
  code does not come to sending or receiving again.

The three assumptions on constants exclude what section 3 shows to go wrong.

**Only model-checked.** All liveness properties, since fairness is out of the
prover's reach: `EveryRequestCompletes`, `CleanupReturns`, `LoopAnswers`,
`CallbacksCome`, and `Answered` of the composed runs. The red-black tree is
written with recursive operators, which the prover does not accept. The properties of
`MCStream`, `MCPosix` and `MCWindows` are each put to many parts; the invariants of
the parts are candidates for proofs, but not proved yet.

## 5. Not modelled

The definitions stand for 16,500 of the 47,600 lines of the library, headers
included. What is left out, and why:

- queries to the operating system (memory, CPUs, interfaces, host names, users,
  clocks), address conversion, version, logging, error texts and names: no state
  that a later call depends on;
- terminals and shared libraries: not built on POSIX; on Windows the translation
  of keys and escape sequences, whose state is the console's;
- tables of functions found at start, and the search for them on Windows; name
  resolution on Windows, whose requests go through the thread pool;
- splay trees, which nothing uses, and file change notification of kqueue, event
  ports and AIX;
- in modelled parts: `uv_walk`, the default loop, socket options and names, UDP
  status codes and sizes, POSIX file operations that are one system call, retries
  after `EINTR` around a single call; on Windows the completions that a pipe gets
  through an event and a registered wait, when its handle cannot be attached to the
  port (`UV_HANDLE_EMULATE_IOCP`, `pipe.c:1101-1133`, `1449-1459`).

## 6. Plan

1. Proofs about the queues of `Stream` (order of writes, nothing stranded) along
   the lines of `UdpProofs`, then about `StreamServer` and `Signal` (its counters).
2. A composition of `Stream` with `EventLoop`, for the pending queue and closing.
