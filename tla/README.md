# A TLA+ model of cgo

cgo is a C++20 library of coroutines that call each other: a `Context` owns worker
threads that execute coroutines; the coroutines synchronise through semaphores,
mutexes, channels and selects, sleep on timers and wait for sockets.  This
directory models all of it that has state, checks it with TLC on small instances and
proves the safety properties of every component with TLAPS for every instance.

Paths below are relative to the repository (`src/core/...`, `src/include/core/...`).

## 1. Inventory

| Component | State | Operations | Used by |
|---|---|---|---|
| `Spinlock` (schedule.h) | a flag | lock, unlock | everything |
| `SchedContext` (schedule.cpp) | per partition a pool of tasks and a run queue | create_scheduled, run_scheduled, _execute, final_schedule | Context, spawn |
| `Condition` (schedule.cpp) | list of blocked tasks, `_scheduled_ctx` | wait, notify, _remove | Semaphore, final_schedule |
| `Semaphore`, `Mutex`, `DeferGuard` | `_vacant`, a condition, a lock | aquire, release; a guard releases at the end of a scope or of a destroyed frame | programs, channels, timers, sockets |
| `Channel`, `BaseMsg` (channel.cpp) | buffer, linked senders, linked receivers | `<<`, `>>`, `nowait() <<` | programs, `timeout`, `collect` |
| `Select` (channel.cpp) | key, signal, listeners, messages | on, operator(), _drop | programs |
| `Coroutine`, `BaseFrame`, `FrameOperator` (coroutine.cpp) | per task a stack of promises, an error per promise | await, resume, return, throw, destroy | SchedContext |
| `BaseLinked` (coroutine.h) | two pointers per node | link_back, link_front, unlink_this, unlink_back, unlink_front | all lists |
| `Context` (context.cpp) | workers, a barrier, `_finished` | startup, shutdown, _run | programs |
| `TimedContext` (timed.cpp) | per partition a heap of timers | create_timeout, run_timeout, next_schedule_time | sleep, timeout, sockets |
| `EventContext` (event.cpp) | per partition an epoll set, callbacks by ticket, ticket by fd | add, mod, del, handle | sockets |
| `BaseLazySignal`, `EventLazySignal` | `_waited`, `_emitted`, an eventfd | emit, wait, close | run queues, timers |
| `Socket` (socket.cpp) | a file descriptor | accept, connect, recv, send, sendto, recvfrom, close | programs |

How they interact.  A worker takes a task from a run queue and resumes the
innermost frame of its call stack (`FrameOperator::resume`).  The frame yields,
waits for a condition, returns or throws.  Every wait of the library is
`Semaphore::aquire`; every wake-up is `Semaphore::release`, called by another
task, by the commit of a channel message, by a timer or by an epoll callback, on
any thread of any context.  `Context::shutdown` stops the workers; each then
removes its waiting tasks from the conditions they wait for and destroys their
frames, which runs their guards, which call `release` and `drop` again.

What is hard, and what would be correct:

* **Semaphore and condition.**  A notified task may be overtaken before it
  runs, or its context may stop before it runs: no permit and no wake-up is to be
  lost, no destroyed task to be touched, and `shutdown` is to return.
* **Channels and selects.**  A select is linked in several channels and may be
  decided by any of them; its stale messages stay linked for a while: exactly one
  case moves a value, nothing is lost or reordered, nobody is overlooked, no
  message outlives its frame.
* **Call stack.**  Returns, exceptions, catches and a destruction in the middle of
  a nested call: a caller goes on after its callee, an exception is not lost, each
  frame is destroyed once and before its caller.
* **Timers, events, sockets.**  A timeout races an event, an event may be stale
  when it is handled: one of them wins, and a waiting coroutine is resumed.
* **Run queues and context.**  Batches and stealing, the start and the end of the
  workers: a runnable task is executed, one that is not finished is destroyed.

`PROJECT.json` lists the hazards line by line, with the properties that cover them.

## 2. Plan

1. `Semaphore` with the shutdown of contexts, `CountingSemaphore` as its abstract
   specification, `SemaphoreProofs`. *Done.*
2. `Channel` with selects, `AtomicChannels` as its abstract specification (FIFO buffers
   and atomic rendezvous), `ChannelProofs`. *Done.*
3. `CallStack`, `CallStackProofs`. *Done.*
4. `EventHandler` and `Socket`: registrations, fetched batches, the timer and
   `_wait_sock_event`, every socket operation; `SocketProofs`. *Done.*
5. `Workers`: pools, run queues, batches and stealing, spawn, barriers,
   final_schedule, destruction order; `WorkersProofs`. *Done.*
6. `Timed`, `TimedProofs`. *Done.*
7. `Linked` with its abstract specification `Chains`, `LinkedProofs`. *Done.*
8. `Lists`: what the lists are to the other modules, and the facts about them that
   three of the proofs need (`ListProofs`). *Done.*

## 3. Modules and their correspondence to the code

### Semaphore

One semaphore shared by the tasks `Task` of the contexts `Context`.  `vacant`,
`blocked` and `scheduled_ctx` are the members of that name; `mtx` is the holder of
`Semaphore::_mtx`; `st` is the state of each task (the module's header lists them);
`holds` are the tasks between their `aquire` and their `release`; `ctx` is the phase of
each context's shutdown.

`aquire` is `Aquire` (lock), then `TakeVacant` or `Wait`; a waiting task that was
notified goes through `Execute`, `Relock` and tests again.  `release` is
`Release`/`Notify` for a task, `Post`/`PostNotify` for a callback or a commit, and
`Unwind`/`UnwindNotify` for a guard of a destroyed frame.  The semaphore's lock is held
between the two halves, because `Condition::_remove` (`RemoveWaiter`) takes only the
condition's lock and may come in between.  `Wait` is atomic: `wait` locks the condition
before it publishes the task, and `_suspend_to_this` unlocks it after the task is linked.
`Shutdown`, `Barrier`, `RemoveWaiter`/`RemoveParked` with the destruction of the frame,
`Join` and `DestroyPooled` follow `Context::shutdown`, `_run`, `final_schedule` and the
destructor.  `Yield`, `Park` and `Return` are what a coroutine may do
between calls.  A task owns at most one permit and asks for another only after it
released it (asking twice is a program that waits for itself).  Which worker executes
a task is left out.

`CountingSemaphore` is the promise: free permits, owners, waiting tasks; no order
among the waiters.  `ImplementsSemaphore` (safety) and `GrantsPermits` (with fairness of the
grants) state the refinement; the waiting tasks are those inside `aquire`.

### Channel

Processes perform operations (`Ops`) on channels: plain, nowait, select, select with
default.  A message is the pair of its process and the case.  `lock` is the channel's
`_mtx`, held from `BufferSendTo`/`BufferRecvFrom` until the operation leaves the
channel; a step within it is one attempt to transfer, which in the code is the critical
section of one `Select::_mtx` or of two.  `TransferStatus` is `BaseMsg::send_to` and
`recv_from` with all four combinations of message kinds; `Commit` is both `commit`s.
`Call`, `Check`, `Signalled`, `Choose`, `Drop`, `Return` are the coroutine around it;
`Kill` is the destruction of a waiting frame by the shutdown of its context.  The
semaphore of an operation is its number of permits, as `CountingSemaphore` describes it.
`result` is the Boolean of the process's last nowait send (`Answer`).
`sent`, `recvd` and `moved` are history variables.  A value is the identity of
the operation that sent it; `Dropout` moves nothing and is a receive like any other.

`AtomicChannels` is the promise: an operation is open from its call until it takes one of its
cases or, if it need not wait, none; taking a case moves one value into the buffer, out of it, or past it from one
open operation to another that takes its own case in the same step.  There are no locks, messages,
signals or keys in it, and no order among the waiting.  `ImplementsChannels` states the refinement: the buffer, the operations
and the history of what was moved map to themselves, and `Stage` tells from a process's program
counter and `moved` whether its operation is idle, open, closed or gone.  A process whose frame is being
destroyed is still open while its messages are linked, because a partner may take one until they are
dropped.

### CallStack

One task: its stack of promises, the locals `current` and `next` of
`_call_stack_execute`, and per frame its status, its error, the coroutine object it
awaits, whether that object still has its handle (`handler`), and how often it was destroyed.  What a body
does is a free choice; `caught` remembers whether one has caught an exception, after which `AwaitsFinish` says
nothing: see `call_catch`.

Destroying a frame destroys the coroutine object in it and, unless that has lost its handle, the frame behind it, and so on
(`Owned`).  A task comes to its end in one of four ways, and all end with `EraseTask`, where its own coroutine object dies: it
has returned; an exception left `_call_stack_execute` (and goes on through the worker, which ends the program unless
it is caught around it); `final_schedule` walked its stack (`Destroy`, `DestroyFrame`); or its `SchedContext`
is destroyed while it is still runnable, in the middle of any nesting of calls.

### EventHandler and Socket

`EventHandler` is one `EventContext::Handler`: `tid_calls`, `fd_tids` and `gid` are its
members, `epoll` the kernel's interest list (external), `batch` the events that
`epoll_wait` returned and `handle` has not come to yet.  `Add`, `Mod`, `Del` are
the methods, `Fetch` the `epoll_wait`, `Activates` and `Handled` an iteration of `handle`.
The lock is released between two events, so that a registration may change in between.

`Socket` extends it with the coroutines.  `sock` is the kernel's socket
(external: receive queue, room to send, pending error, state of the connection), `Arrive`
and `Network` what the peer may do.  The program (who uses which socket with which
operations and timeouts, and what its network may do) is one of `Programs`, chosen in the initial state.  `Create`, `Bind`, `Listen`, `Accept`,
`Connect`/`ConnectStatus`, `Recv`, `RecvFrom`, `Send`, `SendTo`, `CloseDel`/`CloseFd` are one
iteration each of the method of that name; `InvalidAddress` is the return of `connect` and `sendto` before any system call.  `Register`, `CreateTimeout` and
`Aquired` are `_wait_sock_event`; `FireTimer` and `HandleEvent` call its two callbacks, both of
which are `Decide`.  A wait and its `Signal` are named by the ticket of the registration, so
that a late timer or event keeps pointing to the wait it was made for.  A wait that ends by an
exception of `mod` ends the operation (`throw`).

### Workers

One context.  `main` is how far the owner has come (startup, shutdown, join,
destruction of the members in reverse order); `pc`, `cnt`, `slot` are the program counter and
locals of each worker, `run` its `_running_task`, `q` and `pool` the run queue and the pool
of each partition.  `Create` and `Push` are `create_scheduled`, which any thread may
interleave with; `RunOwn` and `Steal` the two loops of `run_scheduled`; `Done`, `Yield`,
`Suspend` the three ends of `_execute`; `FinalTask` an iteration of `final_schedule`.  A condition is abstracted to
the set `cond` of the tasks that wait for any, and `Notify` may come at any time: `Semaphore` is about
when it does.  `Poll` stands for timers and events, which `Timed` and `Socket` detail.

### Timed

The heaps `pq` as sets of timers with deadlines `ex`; `Sleep` and `Awake` are `cgo::sleep`
before and after its `aquire`, `RunOwn` and `Steal` the loops of `run_timeout`, `EndOfRound` the
rest of a worker's round, with `PollTime` as the end of its `epoll_wait`; `Compute` a coroutine that
occupies its worker.  Time: the steps of a worker take none; it passes (`Tick`) while every worker is in
`epoll_wait` or occupied.  At most `MaxBusy < N` workers are occupied at a time: with all of them occupied no
timer can be punctual.  `create_timeout` is atomic: reading the clock and pushing are one step.

### Linked and Chains

`prev` and `next` are the pointers of `BaseLinked`, its five methods the actions.  `Chains` says what they promise: the
nodes are divided into sequences, and an operation inserts one node or takes one out.  The other modules
use such sequences for all their lists; `Lists` has the two notions they share, a list without repetition
(`Distinct`) and `unlink_this` of a node in it (`Unlink`).

## 4. Runs

| Run | Instance | Distinct states | Shows |
|---|---|---|---|
| `mutex` | 3 guarded tasks in 2 contexts, 1 of them stoppable, 1 permit that a callback posts, fair | 8953 | `PermitsConserved`, `WakeupsCoverPermits`, `WaitListIsLive`, `ImplementsSemaphore`, `ShutdownReturns`, `GrantsPermits` |
| `chan_mixed` | a sender (select, nowait or select with default), a select that sends and receives, and a select or plain receiver that may be destroyed, matched in several ways over 2 channels of capacities 0 and 1; 1 call each, fair | 130636 | `FifoConserved`, `LinkedFramesLive`, `NoMissedMatch`, `WaiterIsLinked`, `KeySetOnce`, `ImplementsChannels`, `MatchesAreMade` |
| `chan_nowait` | nowait senders on capacities 0 and 1, plain sender and receivers, selects with default, 2 calls each, fair | 296595 | `ReturnsWhatMoved`, `TransferReturns` |
| `chan_plain_to_select` | 2 plain senders, 2 selecting receivers, fair | - | *violates* `AllReturn` |
| `call_frames` | 5 frames, exceptions, catching, all four ends of a task, fair | 11149 | `AwaitsFinish`, `StackIsAwaitChain`, `FreedOnce`, `NoUseAfterFree`, `ErrorSurfaces` |
| `call_catch` | 4 frames | - | *violates* `AlwaysAwaitsFinish` |
| `sock` | 6 programs, fair: a client whose descriptor is used again; a server with a listener and a connection; a UDP socket with empty datagrams, with timeouts, without, and with ICMP errors; 2 coroutines that share and close 1 socket | 223492 | `OneRelease`, `TimedOutByOwnTimer`, `NoSpuriousWake`, `ConnectMeansConnected`, `TimedReturns`, `ReadyEndsWait` |
| `sock_udp_error` | 1 connected UDP socket, ICMP error, no timeout, fair | - | *violates* `ActiveEventEndsWait` |
| `workers` | 2 workers, 3 tasks, batches of 2, 1 thread outside, fair | 122098 | `OnePlace`, `NoDangling`, `QuietWhenFinal`, `NoWaiterLeft`, `QueuedIsExecuted`, `ShutdownReturns` |
| `timed` | 2 workers, 1 of them possibly busy, 2 sleepers, 3 timers, 5 ticks, batches of 2 | 951722 | `CalledOnce`, `Punctual`, `NotEarly` |
| `linked` | 4 nodes in any lists | 365 | `Mutual`, `ImplementsChains` |

`TypeOK` of `Semaphore`, `CallStack` and `Workers` is checked in a run; of every module it is proved.  Deadlock is not checked (except
in `linked`, which never stops): a program whose coroutines have all returned, or wait for each other by its own
fault, may stop; the liveness properties say what must not stop.

**Bounds.**  Two contexts suffice for every relation between the task that stops
and the one that should get its wake-up (same context, other context); three tasks
are one owner, one notified and one waiting.  The theorems of section 5 say that these and the following
numbers are no restriction of the safety properties proved there.
`MaxBatch` is how many executions a stopping context's workers still perform, 0 or 1,
so that a task may or may not run once more.  `MaxPost` bounds the callbacks.  Two
channels and two operations on each side are what a select needs to be decided on one channel
while it is linked in the other; two calls per process (`chan_nowait`) let a message of an earlier
operation be mistaken for one of a later; in `chan_mixed` every process has one call and more to choose from, and its
safety properties are proved for any number of calls.  Five frames nest four calls or follow
a catch by two more calls.  Three socket operations let a descriptor be closed, be used again, and meet
the timers and events of its former life; `SendSize` above `TxRoom` makes a send wait in
the middle; `HandleBatch = 1` leaves a ready descriptor behind.  Three tasks are two in one run queue and
one in the other, and batches of two can be full with a task left over.  Three timers
put two into one heap; delays of 0 and 3 ticks are shorter and longer than an `epoll_wait` of `PollMax = 2`.
Four nodes have an inner node with two neighbours, or two lists.

**Fairness.**  In `Semaphore`: weak fairness for what a worker does next without
waiting (execute a queued task, finish a critical section, finalise), because
workers loop until they are stopped; strong fairness for taking the spinlock, which
assumes that a spinning worker gets it in the end; and that a running coroutine
leaves its worker in the end (`Leave`), an obligation of the programs that use the
library: a coroutine that never suspends blocks its worker, and `shutdown` with it.
Nothing forces a coroutine to ask for a permit, to return one, or to be resumed from another wait.
In `Socket`: coroutines that can go on, pending timers, `epoll_wait` and the handling of what it
returned, because every worker does all four in turn; nothing of the network or of
other coroutines' next calls.  In `Workers`: threads that run make progress, and, again the program's part, a
coroutine leaves its worker in the end; nobody needs to notify or to shut down.
In `Channel`: every process that can take a step takes one.  In `CallStack`: a
worker that began to resume or destroy a task carries on.

**Violations.**  Three runs show statements of the repository that the code does
not meet.

* `chan_plain_to_select`: `BaseMsg::recv_from` reports a decided receiver as an
  invalid *sender* (channel.cpp:24), so that the plain sender is unlinked, or is
  never linked, and nobody signals it.  The channel tests assert that all readers and
  writers finish; they use plain or select operations on both sides and never this mixture.
* `call_catch`: the exception of a callee is stored in the caller's promise before
  the caller runs (coroutine.cpp:64); a caller that catches it and awaits again has its new
  callee popped before it ran.
* `sock_udp_error`: epoll reports an error whether asked for or not, and a one-shot
  registration is disarmed by it; `handle` calls nothing because the callback did not ask for it
  (event.cpp:85).  A `recv` on a connected UDP socket that meets an ICMP error while it waits misses the data
  that comes later, though event.h:201 says of the wait "True if event activated, or False if timeout".
  With a timeout the wait ends (`TimedReturns`).

Beyond these, some limits, about which the repository promises nothing:

* `final_schedule` destroys only the tasks that wait (schedule.cpp:42).  A coroutine that yielded while it owns a mutex through a
  guard keeps it after `shutdown()`, until the `Context` object is destroyed, and coroutines of other contexts wait that
  long.  (test/unit_test/schedule_test.cpp:128 is about a coroutine suspended in `aquire()`; that one is destroyed and its guard runs.)
* The timeout of a socket operation is one of each wait (socket.cpp:176, 292).  On a UDP socket an empty datagram ends the wait and
  not the `recv` or `recvfrom`, which waits again with a fresh timeout, so an endless run of empty datagrams, none of them
  late, keeps it going.  `TimedReturns` is about finitely many messages (`maxArrive`).
* `Condition::_scheduled_ctx` remembers one context.
  With two permits released to tasks of two contexts, and the first of these stopped
  before its task runs, `_remove` finds the other context there and passes nothing on: a
  third task waits beside a free permit.  `NoLostWakeup` therefore assumes at most one permit.
  All semaphores inside the library, and `Mutex`, have at most one.
* The second wait on a descriptor replaces the callback of the first (event.cpp:57): a
  coroutine that receives without timeout while another sends on the same socket may miss
  its data.  With timeouts both waits end (`TimedReturns`); `ReadyEndsWait` and what else holds only
  without sharing is stated for a coroutine that is `Alone` on its socket.
* A `connect()` on a socket that another coroutine closed meanwhile asks the socket
  that has the descriptor by then whether it is connected.
* A `Context` destroys its event and timed contexts before its scheduler
  (context.h:33-35), whose pools own the frames of coroutines that were in a run queue at
  shutdown.  A guard there that closes a socket, as in README.md:91, has no event context to
  ask.  Coroutines that wait at shutdown are destroyed in time (`NoWaiterLeft`).

**Mutants.**  Beside some definitions stands a mutated form ("Mutant of ..."), the
way a slip in that code would read; no specification uses it.  Put in place of
the original, it makes TLC report the property it belongs to.

## 5. Proofs

`SemaphoreProofs` proves, for all `Task` (finite), `Context`, `Permits` and bounds,
from `SemaphoreAssumption` alone:

* `TypeCorrect`, `PermitsAreConserved`, `WaitListStaysLive`: the invariants of that name;
* `Refinement`: `Spec => ImplementsSemaphore`;
* `NoLostWakeup`: `Spec => []WakeupsCoverPermits` where `Permits + MaxPost <= 1`.

The first three follow from `IInv`, which is inductive: with the types and the conservation of permits it says
that the holder of `_mtx` is exactly the task in a critical section (`LockInv`), that the
blocked list has no repetition and holds exactly the blocked tasks (`ListInv`), which tasks may own a
permit in which state (`HoldInv`), and that a closed or final context has no task in a
state its finalisation has passed (`CtxInv`).  None of these is inductive without the others:
`release` by a guard needs to know that its task owns a permit, and `_remove` that a task is linked
once.  The lemmas of `ListProofs` say what `Append`, `Tail` and `Unlink` do to a list without repetition.

`NoLostWakeup` needs more: `WakeupsCoverPermits` counts tasks, but what `_remove` decides by is
`_scheduled_ctx`.  `WakeInv` says that, while a permit is free and tasks wait, either a `notify` is
still to come, or some woken or resumed task is in the context that `_scheduled_ctx` names, or, when it is null, some task
is on its way whatever its context.  With one permit every step preserves it (`WakeStep`).

`TimedProofs` proves from `TimedAssumption`, for any number of workers, sleepers, timers and any batch and delays:

* `EveryTimerCalledOnce`: `Spec => []CalledOnce`;
* `SleepIsNotEarly`: `Spec => NotEarly`;
* `TimedTypes`: `Spec => []TypeOK`, in which a round calls at most `BatchSize` timers and the time at which an
  `epoll_wait` ends is a time at most `PollMax` ahead, never the `TimePoint::max()` that a heap without timers reports; that a heap
  has a first timer is the library's theorem that `<` is well-founded on the naturals.

`CalledOnce` alone is not inductive: that a timer is in no heap but the one of its number, and that
heaps hold only numbers already given (`HeapInv`), keeps a stolen timer from being found a second time.
`NotEarly` follows from `SignalInv`: a semaphore that was released has its deadline behind it.

* `TimersArePunctual`: `Spec => []Punctual`.

Its invariant is `PInv`.  `BusyInv` counts the occupied workers, so that one is not.  `RoundInv` says what a worker
that is not occupied knows in each place of its round: while it has called nothing, that no
timer of the heaps it has looked at is overdue; in `epoll_wait`, that it ends no later than `PollMax` after any pending
deadline, also those of timers that came after it went to sleep.  As time does not pass while that worker runs, a step that
makes a timer late would have to be a `Tick` past the end of its `epoll_wait`.

`LinkedProofs` proves for any finite set of nodes, from `LinkedAssumption`:

* `PointersAgree`: `Spec => [](TypeOK /\ Mutual)`; with the types `Mutual` is inductive;
* `PointersAreLists`: `Spec => ImplementsChains`, the refinement that lets the other modules use sequences.

The mapping says which sequences are lists: those that begin at a node without a `_prev`, follow `_next` and end at a node
without one.  Pointers that agree do not exclude a ring, whose nodes are in no such sequence, so the refinement needs that every
node is in a list (`Covers`), which together with `IInv` is inductive.  The lemmas are about pointers
in general: a node has the same place in every list it is in (`SamePlace`, by the least place for
which that fails), so two lists with a common node are one (`SameList`), and a list is no longer than there are nodes
(`ListIsShort`).  `Rebuild` is the argument of every step: where some lists are replaced by lists of the same
nodes and no other pointer changes, all other lists are what they were.  What remains for each
operation is to show that the sequence with one node more (`InsertLinks`) or less (`RemoveLinks`) is a list
of the new pointers.

`CallStackProofs` proves from `CallStackAssumption`, for any set of frames:

* `NeverNull` (`TypeOK`), `StackFollowsAwaits` (`StackIsAwaitChain`), `CallerWaitsForCallee` (`AwaitsFinish`),
  `FramesFreedOnce` (`FreedOnce`), `NothingUsedAfterFree` (`NoUseAfterFree`).

`IInv` says that the stack follows the awaits from the entry (`ChainInv`); that the frames that exist are those of the stack and one
more at most, the coroutine object of a callee already popped, which its caller destroys when it goes on (`LiveInv`: without it, nothing forbids
that a frame is destroyed again); that the handles held by coroutine objects are those of the frames that exist (`HandlerInv`); what `current` and `next` are at each place of the loop (`PcInv`); and where
an error may be as long as nobody has caught one (`CatchInv`).  That last part fails as soon as a body catches, which is
`call_catch`.  What a destruction reaches is computed from the awaits: the frame at its turn in `_call_stack_destroy` owns
nothing any more but, at most, a callee already popped (`OwnedAlone`, `OwnedPair`), whereas the entry of a task that is dropped owns its
whole stack (`StackIsOwned`, `EntryOwnsAll`).

`WorkersProofs` proves from `WorkersAssumption`, for any number of workers, tasks, threads and any batch:

* `WorkersTypes`, `TasksHaveOnePlace` (`OnePlace`), `LinkedTasksExist` (`NoDangling`), `FinalIsQuiet`
  (`QuietWhenFinal`), `ShutdownLeavesNoWaiter` (`NoWaiterLeft`).

`PhaseInv` is the effect of the barriers: nobody is behind one while somebody is before it.  `ListInv` says that a task is linked in the
queue and kept in the pool of its home worker only, once; `HolderInv` that queue, workers and creating threads exclude each
other and, with the conditions, leave no living task out.  `FinalInv` is the loop invariant of
`final_schedule`: up to its position in the pool no living task waits, and since behind the second barrier no coroutine is
executed, none can begin to.  `WorkersTypes` includes `InRange`, that the stealing loop stays within the workers and `final_schedule`
within its pool; for the second a pool must not shrink below that position meanwhile (`PoolKept`).

`ChannelProofs` proves from `ChannelAssumption`, for any processes, channels, capacities and sets of operations:

* `ChannelTypes`, `ChannelIsFifo` (`FifoConserved`), `NoMatchIsMissed` (`NoMissedMatch`), `LinksLeadToLiveFrames`
  (`LinkedFramesLive`), `OperationsReturnWhatMoved` (`ReturnsWhatMoved`), `KeyIsSetOnce` (`KeySetOnce`).

`OperationsReturnWhatMoved` covers the Boolean of a nowait send by `AnswerInv`: when the send has
left the channel it says whether the value has moved.  `LockInv` ties a channel's `_mtx` to the process inside it, `ProcOK` an operation's messages to its cases, `ListInv` a linked message to an
operation that still has it.  `MoveInv` relates the key, the signal and what was moved.  `BufferInv` is the heart of `NoMatchIsMissed`, which
speaks only of channels nobody is in: `Knows` says what the process inside has established at each attempt (a receiver that
found a message in the buffer may refill it from the linked senders, and until it has, the buffer is
one short).  `FifoConserved` is inductive with the rest.

* `WaitersAreFound`: an operation that waits without a signal has all its messages linked, unless it is a plain sender on a
  channel from which some select may receive (`Overlooked`);
* `WaitersAreLinked`: `Spec => []WaiterIsLinked` where `PlainMeetsPlain`, that is, no plain send goes to a channel from which a
  select may receive.

`WaiterIsLinked` does not hold for every set of operations: `chan_plain_to_select` shows a plain sender that is left out by a decided
select.  The two theorems say that no other operation is ever left out, and in particular no select, whatever it is linked in.
Both rest on `LinkInv`, that an operation for which nothing was moved has its messages linked, except the one
it is inside a channel with.  It needs `PendInv`: an operation under way has a signal exactly if its value has moved, so that
one that waits without a signal has moved nothing.

* `ChannelsAreAtomic`: `Spec => ImplementsChannels`, for any mixture of operations, also the one above.

Every action is shown to be a transfer through the buffer (`TakesBuffered`, `PutsBuffered`), a hand-over (`HandsOver`), the
beginning or end of an operation, or `Silent`; each of these is a step of `AtomicChannels` or a stutter.  What makes
a hand-over one abstract step is that both keys are checked and set under both locks (`TransferStatus`, `Commit`), and `MoveInv`:
a message whose operation is undecided belongs to one that is still open.

`SocketProofs` proves from `SocketAssumption`, for any descriptors, coroutines, programs and buffer sizes:

* `SocketTypes`, `EachWaitReleasedOnce` (`OneRelease`), `TimeoutsAreOwn` (`TimedOutByOwnTimer`), `WakesAreReal`
  (`NoSpuriousWake`), `ConnectIsTrue` (the action property `ConnectMeansConnected`).

What could go wrong comes late, so the invariant is about what is still under way: `TicketInv` says that tickets name
waits uniquely, `AttendedInv` that a timer, a registration or a fetched event whose ticket is undecided has a coroutine still waiting
for it (a loser finds its wait decided and leaves it alone), `TimerInv` that a timer exists only after its
wait was registered, `EventInv` that what was registered or fetched for a wait is of its socket, and that what was
ready when it was fetched still is, if nobody else uses the socket.  `SockInv` follows the socket that `connect` waits for; with
`Shutting` (only `close` comes to `::close`) it gives `ConnectIsTrue`.  The steps of the coroutine that touch neither registrations nor waits are treated
together: each is an `OwnStep`, and with the steps of the network they are `Quiet`.

`ErrorSurfaces`, `TransferReturns`, `MatchesAreMade`, `TimedReturns`, `ReadyEndsWait`, `QueuedIsExecuted`, both `ShutdownReturns` and
`GrantsPermits` are only model-checked: they are liveness, outside the reach of the prover.  Every invariant, action
property and refinement without fairness that a run checks is also proved.

## 6. Not modelled

* `BaseLazySignal`/`EventLazySignal`: no worker calls `wait()`, so `_waited` is never set and `emit()`
  does nothing; a worker in `epoll_wait` is not woken by a new task or timer and stays there for up to 50 ms (`Punctual`
  counts that).  Were `wait` called, `_emitted` would never be reset after the first emission.
* `collect()`: a spawn and a plain send; its sender waits for ever if nobody receives.
* Data races on single words and pointers: `_finished` (not atomic), `Scheduler::_signal`, the pool that
  `final_schedule` iterates without its lock, and `_remove` unlinking a notified task from a run queue
  without the queue's lock.  The models take each of these accesses as one step.
* Spurious failures of `compare_exchange_weak` (none on x86), failing system calls other than those named, exceptions that leave
  a callback, memory that a program lets go out of scope while it is in use.
* Integer widths: `_vacant` is a `size_t`, bounded here by the number of permits; task and ticket counters wrap after
  2^64 and 2^31 operations.
* Address conversion, socket options, the texts of errors, `errno`, logging.
