# folly: a TLA+ verification development

This directory specifies part of folly's concurrent code in TLA+, checks it with TLC
on small instances, and proves the most important safety properties with TLAPS for every size
of those instances. Paths below are relative to `src/folly/`.

## 1. The system

folly is a library. Most of it is sequential (strings, formatting, containers, hashing,
JSON, I/O wrappers). What is hard to get right, and hard to test, is the layer of
lock-free protocols on which its asynchronous code runs, and above it the executors and
sockets whose callbacks call them back. The inventory below follows these from the bottom up. `PROJECT.json` lists every other part of the library with the reason it is left
out, and every hazard with its source line.

| Part | State | Operations | What makes it hard | What must hold |
|---|---|---|---|---|
| `synchronization/Baton.h` | one futex word | `post`, `try_wait`, `wait`, timed waits, `reset` | the wake comes after the store, so it may reach the next lifetime; a timeout races a post | one handoff per lifetime; nobody touches the Baton once the wait has returned |
| `detail/TurnSequencer.h` | one futex word: turn and maximum waiter delta | `waitForTurn`, `tryWaitForTurn`, `completeTurn` | wraparound, saturated delta, 32 futex channels, a waiter recording itself while the turn completes | one thread per turn, no sleeper forgotten |
| `MPMCQueue.h` | two ticket counters, a ring of slots with a sequencer each; if it grows, a seqlock and closed arrays | blocking, ready, promised and timed reads and writes, `size`, `tryExpand` | stale ticket checks, counters read one after the other, an array replaced under operations in progress | FIFO by ticket, exclusive slots, failures that were true at some moment |
| `futures/detail/Core.{h,cpp}`: core | state word, two reference counts, callback, result, executor, proxy | `setCallback_`, `setResult_`, `setProxy_`, `doCallback`, `proxyCallback`, `detachOne`, `derefCallback` | producer and consumer race on each state; an executor may run, keep, discard or reject the function | continuation runs once with the result, no use after free, no leak |
| same: interrupts | a tagged pointer per core, one shared handler with a count | `raise`, `setInterruptHandler`, `initCopyInterruptHandlerFrom`, destructor | raise and set meet in any order while continuations copy | delivered exactly once, handler and exception freed exactly once |
| same: `DeferredExecutor` | state word, `func_`, `executor_`, nested executors | `addFrom`, `setExecutor`, `detach` | plain members handed over by a CAS; add may throw | every function run or destroyed once |
| `futures/Future-inl.h`: `WaitExecutor` | queue under a lock, baton, keep-alive count | `add`, `drive`, `driveUntil`, `detach` | reset before take; a timeout while another thread is about to post | one post per lifetime, nothing dropped, deleted on time |
| `CancellationToken*` | word with cancelled flag, lock, two counts; callback list | callback constructor and destructor, `requestCancellation`, copies, `merge` | registering while cancelling; destroying a callback while it runs, from inside or outside | each callback runs once or never, never after its destructor; state deleted with the last reference |
| `executors/StrandExecutor.*` | queue, count of scheduled functions | `addImpl`, `executeNext`, `dispatchFrontQueueItem` | enqueue and count are two steps, the strand moves between executors | one owner, order of addition, every function runs |
| `executors/ThreadPoolExecutor.cpp`, `CPUThreadPoolExecutor.cpp` | task queue with a semaphore, counters of active, stopping and unjoined threads, a lock | `add`, `threadRun`, `setNumThreads`, `stop`, `join` | add looks at the counters without the lock; idle threads leave while tasks come; one queue of stopped threads and several that join them | counters agree with the threads, no task is left, every call returns |
| `io/async/AsyncSocket.*` | state, shutdown flags, registered events, three callbacks, queue of writes, timer | `connect`, `write`, `setReadCB`, `close`, `shutdownWrite`, timeouts, `handleRead`, `handleWrite`, `handleConnect`, `fail*` | one thread, but every callback may call any method in the middle of another | each callback told once, order of writes, nothing forgotten, close completes |

How they interact: `MPMCQueue` uses one `TurnSequencer` per slot. A `SemiFuture` has a core whose
executor is a `DeferredExecutor`; `via` or `wait` gives that one a real executor; `wait` gives it a
`WaitExecutor`, which blocks on a `Baton`. Interrupts travel along the chain of cores that
continuations build. A thread pool, a strand or a `WaitExecutor` is what a continuation is handed to; to those modules an
executor is what its `add` may do. An `AsyncSocket` runs inside one turn of an EventBase's loop.

## 2. Modules and how they correspond to the code

`PROJECT.json` maps each definition to its lines. In every module one action is one atomic access,
or one stretch of code that touches only what its thread owns. Local control is a program counter per
thread, named after the place in the code.

* **Handoff** — abstract specification of a one-shot handoff: deliver, begin to wait, receive, give up, renew.
* **Baton** — the word `state_` with its five values, threads in `post()`, one waiter that may
  be in `try_wait`, spinning, before its CAS, in the futex or idle-flushing, and `reset`. Wakes of earlier
  lifetimes stay pending. `HandoffRefined` says that Baton implements Handoff: `posted` is a ghost
  set by the delivering access, and `wait` is derived from where the waiter is.
* **FutureInterrupt** — `interrupt_` of a chain of cores, the reference count of the handler and the
  number of exception objects; raisers, a promise holder, one continuation at a time copying the handler.
* **DeferredExecutor** — a tree of deferred executors with one producer each and a consumer that visits
  the tree in the order of the code. **DeferredThrow** extends it with an executor whose `add` throws.
* **FutureCore** — a chain of up to `NCores` cores. A thread has an agenda of operations, because the
  code nests calls: `setResult_` may call `doCallback`, which takes references, adds to the executor, and
  gives references up in an order that the agenda keeps. Each operation is one access of the core.
* **WaitExecutor** — `SemiFuture::wait` with and without a deadline, on the nested functions and the
  `Final` one. It uses Handoff for the baton, so Baton, Handoff and WaitExecutor compose.
* **TurnSequencer** — the word as a record of turn and delta, both bounded as in the code
  (`Modulus` turns, `Channels` channels, deltas saturating at `DeltaMax`); owners that take consecutive
  turns as MPMCQueue does, and threads that wait with a deadline.
* **MPMCQueue**, **MPMCDynamic**, **MPMCStride** — tickets, slots and all operations of the fixed-capacity queue. A slot's sequencer is the
  turn it is at: that a thread is released when its turn comes, and is alone in it, is what TurnSequencer shows.
  MPMCStride is `computeStride`, by which tickets select slots. MPMCDynamic is the queue that grows: how a thread gets its ticket and
  finds the array for it (`trySeqlockReadSection`, `maybeUpdateFromClosed`), and `tryExpand`, which may find no memory; the
  transfer through the slot is MPMCQueue's. `view` is the array a thread works with, `loc` what it has read on the way.
* **Cancellation** — one `CancellationState` for each source and merged token, with the threads that own tokens and sources, callbacks
  being constructed and destroyed (also from inside a callback), and `requestCancellation`. The callbacks through which a merged state
  hears of its sources are its links; the body of a link is a request on the merged state, so a thread has a stack of requests (`calls`).
* **StrandExecutor** — the queue, the count, tasks pending on the parent executors, and workers in `executeNext`.
* **CPUThreadPool** — the default task queue as a FIFO and a semaphore, whose post hands over to a waiting thread; the three
  counters, `isJoin_` and `threadListLock_`; pool threads in `threadRun`; a thread for each `add()`; and a controlling thread
  that resizes the pool and ends it. What is done under the lock is one step, except where threads without it see it
  half done: the two stores of `tryTimeoutThread`, the items that `stopThreads` queues, the threads that `addThreads` awaits.
* **AsyncSocket** — the members of the socket as one record. A method is an operator from the socket to the set of its outcomes
  (kernel and event loop choose among them), each with the operations that remain, since a method that invokes a callback is
  in the middle of something; these are kept on a stack, and a callback that is running is its top. The assertions passed on the way
  are evaluated, and their conjunction is the variable `asserts`.
* **\*Proofs** — theorems about the module they extend. **MC\*** — instances for TLC.
  MCWaiting and MCFutures each hold components that share no state: a behaviour is one of either, chosen by
  `subject` at the start, and leaves the others in their initial states. That is why the specifications of Baton, WaitExecutor and
  FutureInterrupt have names of their own (`BatonInit`, `WaitExecutorNext`, `interruptVars`, ...).

Cancellation, CPUThreadPool and AsyncSocket have a constant `Unforeseen`: the cases in which the code does not do what its properties say.
Each is guarded where it begins, so that the rest can be checked to the end, and can be let in by naming it
(section 4 lists them).

Some modules contain operators whose comment begins with `Fault:`. They are variants of the definition
that follows them, each with a plausible mistake, and show that a property notices it. No specification uses them.

### Abstractions shared by all modules

* Memory is sequentially consistent: an access takes effect at once and everywhere. Memory orders
  (`acquire`, `relaxed`, ...) are therefore *not* verified. Plain members protected by an atomic are checked for
  overlapping use (`MembersExclusive`, `SlotExclusive`).
* A failing CAS loop is one step per attempt where the value it re-reads matters, otherwise the attempt that decides.
* Spinning and time are nondeterminism: a spin may end at any moment, a deadline may pass at any moment.
* An executor outside the model may run a function at once, keep it, discard it or (where the code provides for it) throw.

## 3. Runs

All passing runs explore their state space completely.

| Run | Instance | States | What it shows |
|---|---|---|---|
| `waiting` | TurnSequencer: 2 owners, 1 timed, 8 turns, 2 channels, delta ≤ 2. Baton: 3 posters, any number of lifetimes | 189 239 | exclusion, no lost wakeup, every turn comes; `DestroySafe`, refinement of Handoff, a post always releases its wait |
| `cancellation` | 1 source, 3 threads, 2 callbacks; a token merged from 1 source, 2 threads, 2 callbacks; from 2 sources, 2 threads, 1 callback | 154 724 | states and callbacks alive while used and no longer, none missed (a merged token is cancelled with any of its sources), quiet once destroyed, every call returns |
| `futures` | deferred executors: root with two nested, 2 functions each. `wait`: 3 nested functions and the last. Interrupts: 3 cores, 2 raisers | 65 444 | each function run or destroyed once, members never shared, all settle; nothing dropped, baton contract, deletion, `wait` returns; exactly one delivery per core, handler and exceptions live as needed |
| `future_core` | 3 cores, so two proxies in front of a result | 258 409 | freed on time, one invocation with the result and no unexpected state, inline only if permitted, the continuation settles |
| `mpmc_queue` | 2 writers, 1 reader, 2 slots, 4 tickets a side; with `size()` one writer at a time, 3 tickets; 1 slot that becomes 2, 3 tickets | 1 362 239 | FIFO in whichever array, exclusive slots, failures and `size()` linearize, promised tickets wait only for operations in progress |
| `strand_executor` | 4 functions, 2 executors, 2 workers, batches of 2 | 407 696 | one owner, order and executor, every function runs |
| `thread_pool` | 2 tasks, sizes 0 to 2, one resize and one to refill | 259 493 | counters agree, `join` runs all, every task runs, every call returns |
| `async_socket` | 5 calls, 2 callbacks of each kind | 391 702 | assertions, each callback told once, order of writes, nothing forgotten, `close` completes |
| `future_core_inline` | 2 cores | violation | see Findings |
| `deferred_throw_unexpected` | deferred executors, 1 function each, throwing add | violation | see Findings |
| `thread_pool_join` | 1 task, 1 thread | violation | see Findings |
| `async_socket_close` | as `async_socket` | violation | see Findings |

**Why the bounds are enough to see the hazards.** Two posters suffice for a race of posts, and a third may be one of an
earlier lifetime. A chain of three cores has a middle one that is both proxied and proxy. In
TurnSequencer a waiter may be one turn beyond the recorded delta and beyond the number of channels, and
the turns wrap around (`Modulus` is as small as the wrap-safe comparison allows). On a ring
of two slots four tickets use each slot twice, so full, empty and wrapped rings all occur. When an array of one slot is replaced by one of
two, three tickets give a ticket of the closed array, one that lags behind the expansion and one of the new array; in that instance a thread
begins an operation when fewer than two others are inside one and not waiting, so that three are under way at once.
Two callbacks allow the list to be non-empty while a callback runs; with three threads one
requests, one destroys, one registers. A token merged from two sources is cancelled from two threads at once. Four functions with batches of two fill a batch, leave a rest,
and change executor inside a batch. A pool of two threads with a minimum of one has a thread that may time out beside one that
may not; two tasks let one be added while the other's `add` is joining or starting threads; one resize may shrink or empty the
pool, and the second brings threads back; four threads are enough for those that have stopped and are not joined yet. Five calls on
a socket connect it, install a reader or another write, write, half close and close, each from any callback that the others lead to.
`CHECK_DEADLOCK FALSE` appears where the program comes to an end:
all functions run, all objects destroyed, all tickets used.

**Fairness** is weak fairness of the steps of a call in progress: a thread that has entered a function keeps running. It is
never assumed that a call is made, that a deadline passes, that a futex wakes spuriously, or
that a memory-idle flush happens. There are four exceptions. Three are statements about the caller: the real executor runs or discards what
it was given (FutureCore, DeferredExecutor, StrandExecutor), a thread that has a turn completes it (TurnSequencer),
and a promise is fulfilled or dropped (FutureCore; `Final` in WaitExecutor).
The fourth is about the kernel: a socket registered for write events is found writable again and again, a write that is
attempted again and again is at last taken or refused, and a reader is not given data without end in one event, which
`maxReadsPerEvent_` sees to (AsyncSocket).
The lock flag of Cancellation is a spin lock without queueing; its liveness needs that a thread
that keeps trying gets it, as the number of contenders in the instance is finite and each takes it finitely often.

## 4. Findings

* `deferred_throw_unexpected`. `SemiFuture::via` with an executor whose `add` throws leaves the deferred
  executor in `HAS_EXECUTOR` and still owned by the SemiFuture. Its destructor detaches it, and `detach()`
  calls `terminate_unexpected_state` (`futures/detail/Core.cpp:255`).
* `future_core_inline`. `thenInline` on a core that is already a proxy does not run inline, although
  `futures/Future.h:1258` promises it when the executors match: `proxyCallback` looks at the prior state of the
  core, which is `Proxy` (`futures/detail/Core.cpp:645`).

* `thread_pool_join`. A pool thread whose wait for work has timed out, and that has not taken `threadListLock_` yet, is counted by
  `tryDecrToStop` (`executors/CPUThreadPoolExecutor.cpp:298`) as one of the threads that `join()` stops, though tasks were queued in
  the meantime: `join()` returns and they have not run, against `executors/test/ThreadPoolExecutorTest.cpp:184-185`.
* `async_socket_close`. `close()` from the `writeErr()` of a write that `shutdownWriteNow()` fails, while more are to be failed, leaves the
  closing to the end of those writes; `failAllWrites` ends them without closing (`io/async/AsyncSocket.cpp:2198`), against
  `io/async/AsyncTransport.h:449-451`. The socket stays open until it is destroyed or closed again.

The cases excluded from the passing runs, by their names in `Unforeseen`. For AsyncSocket and CPUThreadPool the first is the one the
violation run lets in; the others were found the same way, by letting them in.

MPMCDynamic:

* `"read with a stale ticket"` — `tryObtainReadyPopTicket` of the queue that grows returns false if the slot of the ticket it has loaded is not ready
  (`MPMCQueue.h:524-525`), without loading the ticket again as the one of the fixed queue does (1251-1255). If another reader has taken that ticket
  meanwhile, `read()` fails although the next element is there (`FailureLinearizes`, with two readers), against
  964-965 "If an item can be dequeued with no blocking, does so and returns true, otherwise returns false".

AsyncSocket:

* `"close in writeErr"` — the finding above.
* `"failure after the last write"` — `handleWrite` has taken the last request off the queue when the change of the event registration
  fails (`AsyncSocket.cpp:3417-3429`): its callback is told nothing (`ToldOnce`), against `AsyncTransport.h:340` "exactly one of
  writeSuccess() or writeErr() will be invoked when the write completes".
* `"connect again by name"` — `connect(callback, ip, port)` overwrites `connectCallback_` before the state is looked at (1130): on a socket
  that is connecting the new callback is told twice and the old one never (`ToldOnce`), though 4270-4272 counts on the old one being there.
* `"half close after fast open"` — the first write of a fast-open socket schedules `handleInitialReadWrite`, which does nothing unless the socket is
  still `good()`; a half close before it runs leaves an installed reader unregistered (`NothingForgotten`), against the comment at 1308-1310.
* `"close before an immediate read"` — `close()` with writes pending leaves a scheduled `checkForImmediateRead` in the loop, which then calls
  `handleRead` with reads shut down (`AssertsHold`: 3322-3324). It takes data given with `setPreReceivedData`.
* `"data left over when half closed"` — a read that used up its turns is scheduled again only if the socket is `good()`, which it is not once
  its write side is shut down: data given with `setPreReceivedData` waits for the next read event (`NothingForgotten`).

CPUThreadPool:

* `"asking at join"` — the finding above; also for a thread that is about to ask because an earlier resize woke it.
* `"stopping at join"` (together with the one before, without which it cannot come about) — `setNumThreads` waits for as many threads as it told to
  stop, and takes from `stoppedThreads_` whichever are there, also an idle one that `threadsToJoin_` counts (`ThreadPoolExecutor.cpp:238, 272-276`).
  The thread still to stop is in `threadList_` when `join()` or `stop()` comes and is counted again (285-287): the call waits for one thread more than will ever
  stop (`CallsReturn`).
* `"emptied during add"` — an `add()` that found the pool full queues its task after `setNumThreads(0)` and a second `setNumThreads(n)`, which found nothing
  queued: there is no thread, and none is started until the next `add()` (`EveryTaskRuns`, `JoinRunsAll`).

Cancellation:

* `"merged token dropped inside"` — a callback of a merged token destroys itself and the callbacks still in the list, and with them goes the last
  reference to the merged state. `requestCancellation` remembers that there were more (`anyMore`, `CancellationToken.cpp:133`) and locks the deleted state
  (171). On a state with sources the caller's source is a reference; the link that calls a merged state (`CancellationToken-inl.h:398`) has none
  (`AliveWhileUsed`). Dropped by another thread the state is safe: destroying the links waits for the one that is running.

## 5. Proofs

Each proof module defines an inductive invariant `IInv`, proves that `Init` implies it and that every action preserves
it, and derives the theorems. All assumptions are named `ASSUME`s of the base modules.

| Module | Theorems | Assumptions | The strengthening |
|---|---|---|---|
| BatonProofs | `AssertionsHold`, `SafeToDestroy`, `ImplementsHandoff`, types | none | `OnePoster`: the only thread inside `post()` is the one of this lifetime, and it has not delivered; `StateMeaning`: what each value of the word says of where the waiter is and of whether the post was delivered |
| FutureInterruptProofs | `ExactlyOnce`, `HandlerSafe`, `NothingLeaks`, `Lifetimes`, `NeverTerminates`, types | finitely many raisers | the reference count is the number of live cores holding the handler, plus one while the promise holder has not stored it (`RefInv`); per core, the word says whether the handler ran, or that its one call is under way (`OnceInv`), and a raise that has not reached the word is still running (`PendingInv`) |
| DeferredExecutorProofs | `AtMostOnce`, `MembersProtected`, `DetachedIsQuiet`, `NeverTerminates`, types | a finite description of the tree, a bound on calls | each function is in one place: with its producer, in `func_`, in the queue, run or dropped; the state word says who may touch `func_` |
| TurnSequencerProofs | `Exclusion`, `Future`, `NoneLost`, types | `Channels` divides `Modulus`, `DeltaMax >= Channels`, fewer owners than half the turns | the waiting owners hold exactly the turns from the word's turn up to the next to hand out; what a thread about to block has seen |
| StrandExecutorProofs | `Ownership`, `Order`, `ChecksHold`, types | finitely many functions, a positive batch size | one owner exactly while the count is not zero (`OwnerInv`); the queue length is the count, plus what is enqueued and not yet counted, minus what the worker took and has not subtracted (`SizeInv`); what was run, what is running and what is queued is what arrived (`OrderInv`) |
| WaitExecutorProofs | `PostsOnce`, `NoneDropped`, `DeletedExactly`, types | finitely many functions, `Final` is one of them | the count is the sum of the waiting thread, open `add` calls and queued functions; the baton follows the queue at each point of `drive`; `Final` comes last |

*Only model-checked*: every liveness property
(the prover does not do fairness), all of FutureCore, MPMCQueue, MPMCDynamic, Cancellation, CPUThreadPool and AsyncSocket, and the findings.
`TypeOK` of Baton, FutureInterrupt, DeferredExecutor, TurnSequencer, StrandExecutor and WaitExecutor, and `NeverPast`,
`NoTerminate`, `NoLogicError`, `DChecksHold`, `DetachedNeverRuns` and the `AssertsHold` of Baton, are established by proof and are not repeated in the runs.

## 6. Plan

Done: the blocking primitives used by futures and queues (Baton, TurnSequencer), the queue with fixed capacity and the one that grows, the core of futures with
its executors, cancellation, strands, the CPU thread pool, AsyncSocket; composition of Baton and WaitExecutor through Handoff; first proofs.

Next, most important first:

1. Prove more: `TicketsMatch` and `SlotExclusive` of MPMCQueue for any capacity and number of threads, with the sequencer of a slot
   replaced by what TurnSequencer proves; then `DeletedOnTime` and `NoneMissed` of Cancellation.
2. MPMCQueue: capacities where the stride is not 1, and two expansions one after the other.
3. Cancellation: an abstract specification (a callback is either run once or destroyed), and tokens merged from merged tokens.
4. An abstract specification of a future (attach, complete, run) that FutureCore implements, with FutureInterrupt
   and DeferredExecutor as its neighbours.
5. Further protocols: SaturatingSemaphore, LifoSem, EventCount, coro::Baton and coro::Mutex, fibers::Semaphore,
   SerialExecutor, MeteredExecutor, AtomicNotificationQueue, channels' AtomicQueue, HeapTimekeeper.

## 7. Not modelled

Weak memory order (and so hazard pointers, RCU and the asymmetric fences, whose argument is about it); moving and destroying an MPMCQueue and the packing of `dstate_` into 64 bits;
cancellation tokens merged from merged tokens; of the thread pool priorities, expiration, observers and the bounded queues; of AsyncSocket zero copy, the error queue, ancillary data,
observers, `BufferCallback`, callbacks made before a write is attempted, writes without a callback, `closeOnFailedWrite_` off, moving between event bases,
`closeWithReset` and `destroy`; exceptions thrown by user callbacks beyond what a result of exception kind stands for; the contents of results and
elements; request contexts; the adaptive spin limits; fibers (`runInMainContext` is a plain call). `PROJECT.json` lists
the remaining components of the library with the reason for each.
