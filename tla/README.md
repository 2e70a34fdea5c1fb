# A TLA+ model of multiloop's concurrency core

multiloop runs many asyncio event loops on many threads.  Its own logic is the
set of primitives that let tasks of different loops meet: locks and the like
(`_sync.py`), reader-writer lock, wait group, once, channels and `select`
(`primitives.py`, `rwlock.py` on the native `channel.rs`, `rwlock.rs`,
`waitgroup.rs`), structured cancellation (`_cancel.py`, `_taskgroup.py`,
`context.py`), and the pool of event-loop threads (`pool.py` on `pool.rs`).
On top of it sits a server: pinned connections (`server.py`), the lifespan of
an application (`_lifespan.py`), HTTP/1.1 connections (`_http11.py` on
`http.rs`), WebSocket sessions (`_websocket.py`), the ASGI and WSGI workers
(`asgi.py`, `wsgi.py`) and the command line's supervisor (`cli.py`).
This directory models them, checks them with TLC on small instances, and proves every
safety property those checks pass for instances of any size (section 7).

## 1. Inventory

| Component | State | Operations | Meets the others through |
|---|---|---|---|
| RawAsyncChannel | buffer, closed flag, getters, putters, select watchers, under one mutex | try_send, try_recv, register/unregister of getters, putters and watchers, close, forward | wakes posted with `call_soon_threadsafe` |
| Channel | one future per suspended call | send, recv, sync variants, close, `_wake_fut` | RawAsyncChannel |
| select_channel | arbiter future, list of registrations | probe, register, claim, await, unregister, `_select_wake` | several RawAsyncChannels |
| Lock | owner, FIFO of waiters | acquire, release, hand-over | event of each waiter's loop |
| Condition | FIFO of waiters, its Lock | wait, notify, notify_all, forward | Lock |
| Semaphore, CapacityLimiter | count (and budget), FIFO of waiters | acquire, release, resize | events |
| Barrier | generation, flags, waiters with result boxes | wait, abort, reset | events |
| AsyncRWMutex | readers, writer, pending writers, two FIFOs, nesting depth | reader, writer | futures |
| AsyncWaitGroup | counter, waiters, tracked coroutines | add, done, wait, track; of a tracked coroutine send, throw, close, `__del__` | futures |
| AsyncOnce | done, executing, outcome, followers | do | futures |
| EventLoopThreadPool | running flag, outstanding futures, idle set, shared queue, per-worker queue and batch buffer, dispatcher and thread of each worker | start, submit, dispatch, close, abort, wait_closed | native queues, worker loops, callers' loops |
| CancelScope | flag, task and loop it is bound to, injected flag, shield and its snapshot, deadline and timer; the stack of scopes of a task | entry, exit, cancel, deadline and shield setters, checkpoint | Task.cancelling(), timers, posted callbacks |
| TaskGroup | children, consumed children, exited flag, a CancelScope | start_soon, start, cancel_all, entry, exit | tasks of one loop |
| AsyncContext | flag, child contexts, futures and scopes of submitted jobs | creation, submit, cancel | pool futures, CancelScope, other contexts |
| Event | flag, waiters | set, wait | events of the waiters' loops |
| LifespanManager | state, lock, runner task, three events, status | startup, shutdown, receive, send | the application's task |
| ConnectionPinningServer | running flag, sockets, accept futures, the connection tasks of every worker | start, close, accept loops, pinned connections | the pool's loops, the kernel |
| WebSocketConnection | state, two events, inbound channel, send lock, fragment buffer | receive, send, the reader task, run | Channel, Lock, Event, the peer |
| Http11Protocol | state, native parser and its buffer, body queue, drain and disconnect events, current cycle, pending requests | data_received, resume_writing, connection_lost, close; per request receive, send and the end of the cycle | transport, the application's task, WebSocketConnection |
| MultiloopASGIWorker | its manager and its server | start, close | LifespanManager, ConnectionPinningServer |
| MultiloopWSGIWorker | count of handlers under a threading.Lock, executor; per connection two channels, a feeder task, a thread | `_handle_connection`, `_feed_body`, `start_response`, `_run_wsgi_sync`, SyncStreamReader | Channel, executor threads, worker loops |
| Supervisor | child process, watcher thread, reload and stop events | the watcher's scans, spawn, wait, replace, end | processes, files, signals |
| Metrics, logging, options | counters, records | see section 9 | |

What is hard here is always the same: a resource (ownership, permit,
notification, item, grant) is given to a waiter under a lock by one thread, and
the waiter learns of it later, on its own loop.  In between it can be
cancelled, time out, or lose its loop.  `PROJECT.json` lists each such place
with its line, under "hazards".

## 2. Conventions of the models

* **Steps.**  A section under a `threading.Lock`, and a Rust method, is one
  step: it computes under its mutex and only then posts wakes.  Posting is
  folded into the step, because a posted wake is a message in flight and a
  late posting is a late delivery.
* **Tasks** live on event loops of their own, so they interleave between any
  two such sections.  Code between two awaits of one task that touches only
  local data is part of the adjoining step.
* **"Granted"** is not a state of its own: a task that is suspended and no
  longer in the queue has been popped.  The posted `event.set` or future result
  may arrive at any later time (`Resume`).  Channel and SelectChannel carry
  the wakes explicitly (`inflight`), since they hold items.
* **Cancellation** (also `wait_for`'s time-out) is two steps: `Cancel` marks a
  suspended task, `Unwind` runs its except or finally clause when its loop gets
  to it.  Anything may happen in between.
* **Closed loops.**  `Strand` closes the loop of a queued task: its entry stays
  in the queue and `call_soon_threadsafe` on it raises.  `Finish` ends the task
  of an owner.
* **asyncio.Task** (external) is `AsyncioTask`: a count of cancellation requests,
  and whether a CancelledError is due or thrown.  It is the Task of Python 3.14,
  which the project requires: the last `uncancel()` withdraws a throw that is due.
* Items, tasks and jobs are model values; a sender's item is named after it.
* Lock, Semaphore, CapacityLimiter and RWMutex let tasks call again and again;
  in Channel, SelectChannel, Barrier, Once, WaitGroup and Pool a task makes one
  call, several tasks standing for repetition.

Mutants: an operator introduced by "Mutant of X" is X with a plausible bug;
no specification uses it.  Each checked property is paired in `PROJECT.json`
with a mutant that violates it.

## 3. Modules

| Module | Models | Remarks |
|---|---|---|
| `Queues` | the waiter queues | arrival order, withdrawal anywhere |
| `Lock` | `_sync.py` Lock | `Handover` is `_release_locked`, `Unwind` the except clause of acquire |
| `Condition` | `_sync.py` Condition, extends Lock | `owed` counts notifications given and not consumed |
| `Semaphore`, `CapacityLimiter`, `Barrier` | `_sync.py` | the limiter's budget is `int(total_tokens)`, 0 below one token |
| `RWMutex` | `rwlock.py` on `rwlock.rs` | native path; writer preference, nested readers |
| `Event` | `_sync.py` Event | `unposted` are the waiters set() took and has still to notify |
| `WaitGroup`, `Once` | `primitives.py`, `waitgroup.rs` | `ThrowFirst` is a Task cancelled before it ran; `covers` remembers the jobs outstanding at a wait, `leaked` those that ended without done() |
| `RawChannel` | `channel.rs` | one operator per method: next state, wakes, result |
| `Channel` | `primitives.py` Channel on RawChannel | `accepted` and `taken` are histories |
| `FifoQueue` | what a channel promises | the abstract specification Channel implements |
| `SelectChannel` | `select_channel` on several RawChannels | an arbiter is a selector and a round |
| `Pool` | `pool.py` on `pool.rs` | dispatcher phases, native close in its three stores, shutdown |
| `AsyncioTask` | asyncio.Task, external | cancel, uncancel, suspension |
| `CancelScope` | `_cancel.py` | one host task, scopes of three kinds |
| `TaskGroup` | `_taskgroup.py` | one host, children that may do anything |
| `AsyncContext` | `context.py` | a tree, several threads; `calls` are the cancel() calls under way |
| `Lifespan` | `_lifespan.py` | several callers, an application that may do anything |
| `PinningServer` | `server.py` | one controller, a loop per worker and start(), clients |
| `WebSocket` | `_websocket.py` | application, reader and run(); a frame is its kind |
| `AsgiWorker` | `asgi.py`, called by `serve_app` | composes `Lifespan` and `PinningServer`, whose actions its calls take |
| `Http11` | `_http11.py` on `http.rs` | a request is a sequence of units; one record `h` is the connection |
| `WsgiAdmission` | `wsgi.py`, the count and the 503 | handlers on loops, a lock that blocks the loop |
| `WsgiExchange` | `wsgi.py`, one request | handler, feeder and thread over two bounded channels |
| `Supervisor` | `cli.py` | sources are a version number |
| `MCSync` | composition | all synchronisation primitives side by side |
| `MCChannel`, `MCPool`, `MCCancel`, `MCServe`, `MCWeb`, `MCRWMutex` | instances | scenes with different constants |
| `QueueLemmas` | operators of `Queues` and sequences, cardinalities | lemmas, section 7 |
| `SyncProofs` | proofs about `MCSync` and its parts | section 7 |
| `ChannelProofs`, `MCChannelProofs` | proofs about `Channel`, and `SelectChannel` and `MCChannel` | section 7 |
| `CancelProofs` | proofs about `MCCancel`: contexts, groups, scopes | section 7 |
| `PoolProofs` | proofs about `Pool` and `MCPool` | section 7 |
| `ServeProofs` | proofs about `MCServe`: lifespan, server, worker, WebSocket | section 7 |
| `WebProofs` | proofs about `MCWeb`: supervisor, WSGI worker, HTTP/1.1 | section 7 |

`MCSync`, `MCChannel`, `MCPool`, `MCCancel`, `MCServe` and `MCWeb` check several
instances in one run: a variable chosen initially (`which` or `scene`) says which one
runs, the others stand still, so that the state spaces add up.  Fairness is
stated per instance and guarded by that variable.  The sizes of the instances are
CONSTANTS of those modules, functions of the scene where scenes differ (`Setup`,
`GroupChildren`, `SelChans`, `Crews`, `Kinds`, `BodyPieces`...): a cfg gives the
small values TLC works with, the theorems of section 7 speak of all of them.  Only the
pool of future completion in `MCServe`, whose property is a liveness one, is fixed.

## 4. Runs

| Run | Checks | Instance |
|---|---|---|
| SyncSafety | types; Lock: exclusion, no lost ownership, FIFO; Condition: notifications conserved, wait returns with the lock; Semaphore and CapacityLimiter: permits and tokens conserved, deficit absorbed; Barrier: rounds; RWMutex: grants; WaitGroup: wait covers jobs, the counter is the outstanding jobs and those leaked by a throw() as their first step; Once: agreement, and Event: nobody waits for a set event | 3 tasks on Lock and Condition, all cancellable and mortal, 2 notify calls; 4 tasks elsewhere, 2 permits, budgets 0..3, 3 parties with 2 abort or reset calls, 2 readers (nesting 2) and 2 writers, 3 jobs that may all be cancelled before they begin, 2 waiters |
| SyncLiveness | queued tasks are served, notified waiters return, barrier rounds, waits, events and onces end, a wait of a wait group unless a job leaked its count | the same with nobody cancelled or dead at a lock, condition, semaphore, barrier or reader-writer lock (waiters of wait group, once and event are), 2 parties, 2 jobs of which one may be cancelled before it begins |
| Channel | capacity, no idle item or slot, no leak (`ChannelSound`); no duplicate, nothing lost while receivers live (`ItemsKept`); FIFO refinement; close releases receivers; select: items conserved and no ghost watcher (`SelectSound`), wake kept on a shared channel, a lone select returns | 3 senders, 2 receivers, capacity 1 (everything cancellable) and 2 (only senders); 2 channels, 2 selectors, 2 items, 2 to 3 rounds |
| PoolSafety | no doubled work; failed futures never ran and a graceful drain runs all (`OutcomesHonest`); pinned wake-ups; close completes all | 2 workers; one pinned and one shared job under close or abort; two shared jobs; two jobs on one worker of which one blocks its thread, closed once or twice |
| Cancel | scopes: bound just while on the stack, in any use; within `SafeUse`, no request counted that nobody made, and, while no scope was cancelled, cancellations from outside kept; groups: no child outlives the block, every failure raised once, the host's cancellation kept; contexts: the cascade misses nothing and retains nothing | a move_on, a fail and a shielded plain scope nested in any order with deadlines, clean-up code and checkpoints; two scopes, one shielded, whose deadlines are moved, with checkpoints and caught errors; one whose shield is switched; two used in the ways that `SafeUse` excludes ("wild"); 2 children and two entries, 3 children and one; a chain of 3 contexts, 2 threads, 2 jobs |
| Serve | lifespan: runs only with an application that completed its startup or ended without taking part, leaves no runner behind when it stops, nor when it fails but after `startup.failed`; server: close() knows of every connection but one straggler per loop, and a drained close() cancels nothing older; worker: the application serves only between startup and shutdown, and an uninterrupted close() leaves nothing; WebSocket: nothing before the handshake, messages in order and complete before a disconnect; calls return, a closed server stops; every future the pool accepted completes | 2 callers in the modes off, auto and on; 2 workers and 2 clients with one start(), 1 worker and 2 clients with two; one worker, one client and one start() of the whole; a peer that keeps to the protocol (channel of 1, 3 frames, 2 messages) and one that sends anything (channel of 2, 4 frames, 1 message); one blocking coroutine job under close |
| Web | `HttpSound`: one application at a time, each with its own body, answers in order, none begun inside another, reading never paused for nobody; `HttpAnswers`: every request that arrived is served; `WsgiSound`: exact count, honest body, one head, a response that looks complete is; `WsgiReturns`: connections, feeders and threads end; `SupervisorSound`: one child, none left behind; `SupervisorFollows`: the last version is loaded, a signal ends it | 2 pipelined requests of 5 kinds (plain, two-piece upload, malformed, last, upgrade) with an attentive application, of 2 kinds with a careless one, queue of 2, keep-alive limit 2; 4 connections on 4 loops with room for 2, and on 2 loops with room for 1; a body of 2 pieces, channels of 1; 3 modifications, 2 crashes |
| ChannelLostItem, SelectHang, PoolAbortRace, RWMutexLeak, WsgiOverload | the five disagreements of section 5 | smallest instances that show them |

**Bounds.**  `MaxNotify`, `MaxControl`, `MaxRounds`, `MaxDepth` bound repeated
calls; `MaxReaders` stops cancellations once leaked reader counts would make
the state space infinite; `LocalCapacity` is 256 in the code and 1 here, so
that a second pinned job overflows; `BatchMax` is 128 in the code and 2 here,
so that a batch leaves a job in the buffer.  Three tasks are the least with
which an owner, a cancelled grantee and the one behind it meet; four let two
permits, two readers and two writers, or a full round and a late-comer, meet.
Three senders on one slot give a barging sender, a woken one and a queued one.
`MaxTime` is the clock, `MaxEntries` the entries of a scope or group, `MaxSets`
the assignments to deadline and shield, `MaxExternal` the cancellations that do
not come from a scope.  Three scopes give one that is cancelled between an
outer shield and an inner time-out; a second cancellation of a group's host
finds it draining.  `MaxStarts` bounds calls of start(): with two, the loops of
closed sockets meet a server that runs again.  `Capacity` is 256 in the code;
with 1 or 2 the reader waits for room.  `MaxFrames` and `MaxTexts` bound what
the peer and the application send; four frames are a fragmented message, its
continuation, another message and an error.  `Attempts` bounds the worker's
start().  In Http11, `QueueMax`, `QueueResume` and `MaxKeepalive` are 32, 16 and
1000 in the code; with 2, 1 and 2 an upload fills the queue and the second
request reaches the keep-alive limit; `MaxParts` bounds what a response writes.
Two requests are the least that can be pipelined, interleaved or confused; a
third would only repeat the second.  In WsgiExchange the channels hold 16 and 128
in the code and 1 here, so that everybody waits for room; `MaxData` bounds what the
application yields.  `MaxEdits` and `MaxCrashes` bound the Supervisor: one
modification each before, during and after a replacement.
Deadlock is not checked: tasks make a bounded number of calls and then rest,
mortal tasks end, and an unlocked primitive with nobody left to call it stops.
That nobody waits for ever is stated by the liveness properties instead.
What SyncLiveness says of locks, semaphores, conditions and writers is about
tasks that are neither cancelled nor dead: cancellations repeated without end could
keep anybody from being served, and a dead owner is noticed only by a later acquire.
That one cancelled, dead or stranded waiter does not cost another its turn is left to
the safety properties (`NoLostOwnership`, `NoLostNotification`, `PermitsConserved`,
`GrantsSound`), which allow all of it.

**Fairness.**  Weak fairness on what an event loop runs by itself (a resumed or
unwinding task, a posted callback), on holders leaving their critical section,
on jobs ending and on a shutdown that has begun going on; never on callers
making new calls or on cancellation.  In Serve also: time-outs fire, an
application that was cancelled ends in the end, and a peer closes or resets its
connection in the end (TCP keeps no dead connection for ever).  In Web: the
transport delivers and drains or is lost, the application goes on, time-outs fire,
and the watcher, the child and the supervisor's loop run.  Strong fairness in two places: a reader
leaves its outermost block although it may nest others meanwhile (`ReadLeave`),
and a worker that polls the shared queue every 50 ms is not turned away by
`num_polling` each time (`PopGlobal`): it is refused only in an instant in
which others poll.

## 5. Disagreements between the code and what it says of itself

Each of these is a run whose property TLC violates.

* **ChannelLostItem** (`primitives.py:346-350`).  `_wake_fut` completes the
  receiver's future; before the task runs it is cancelled; `_recv_impl`
  unregisters a future that is no longer registered and the item is gone.  The
  re-send in `_wake_fut` covers only a cancellation that precedes the callback.
* **SelectHang** (`primitives.py:494-510`).  A channel refuses the arbiter
  because it holds an item, somebody else takes it, `try_recv` raises
  `WouldBlock`, and the select awaits an arbiter registered nowhere.  Neither
  later items nor close wake it.
* **RWMutexLeak** (`rwlock.rs:133-157`).  A waiter cancelled after it was
  granted the lock does not return the grant.
* **PoolAbortRace** (`pool.py:395`, `515`).  `abort()` copies the outstanding
  futures before the native queues refuse work; a `submit()` in between is
  accepted and its future never completed.  `close()` takes its copy after the
  threads are joined and does not have this problem (`CloseResolves`).
* **WsgiOverload** (`wsgi.py:267-281`).  A connection over the limit is refused
  inside `with self._sync_task_lock`: drain() and wait_closed() are awaited with
  the lock held.  If another handler of the same loop begins or ends meanwhile, it
  blocks the thread on the lock, and the one that holds it is never resumed; the
  handlers of all other loops then block too.  `docs/CONCURRENCY.md:206` says
  "**never `await` while holding a lock**".  With a loop per handler
  (scene "apart") all connections end.

Further ones are stated in the modules and can be reproduced by checking the
named property with the constants given:

| Property | Instance | What happens |
|---|---|---|
| Channel `SuspendedUntilCapacity` | 3 senders, 1 receiver, Maxsize 1 | `register_putter` sees room and registers nothing, the second `try_send` fails, the sender awaits an unknown future (`primitives.py:279`) although its docstring promises to wait "until capacity is available" (263) |
| SelectChannel `NoLostSelectWake` | 2 channels and 2 selectors, or a cancellable selector on one | a selector woken for one channel returns through another, or is cancelled after its arbiter was set, and drops the wake; `tests/test_channel.py:810` expects it to be forwarded |
| SelectChannel `CapacityRespected` | Maxsize 1, 1 channel, 2 selectors | `channel.rs:251` buffers for a watcher without looking at `maxsize` |
| Lock `DeadOwnerRecycled` | FairSpec, 2 tasks, Mortal | a dead owner is noticed only by the next `acquire` (`_sync.py:77`) |
| WaitGroup `CounterExact` | Hasty = Jobs, Awaited = {} | a Task that is cancelled before its first step starts with `throw(CancelledError)`; the wrapper's `throw` (`primitives.py:556-558`) sets `_stepped` and throws into the `_run()` that has not begun: its `try` is not entered, so its `finally` (549) does not call `done()`, and `close()` (561) and `__del__` (576) see a stepped wrapper and do nothing.  The counter stays raised and `wait()` hangs (`WaitEnds` without `leaked` fails too), although the class "guards against counter leaks" (524).  What is checked and proved is `CountKept`, which counts the leaked jobs |
| WaitGroup `WaitCoversJobs` | Awaited = Jobs | `__await__` does not set `_stepped`, `__del__` counts a second time (`primitives.py:572-586`) and a wait() returns with jobs outstanding |
| Pool `WaitClosedMeansTerminated` | Modes = {"close", "again"} | a second `close()` sets the closed event at once (`pool.py:320`) |
| Pool `PinnedStays` | two jobs pinned to one worker | the overflow goes to the shared queue (`pool.rs:158`) |
| CancelScope `ExternalNeverAbsorbed` | one move_on scope, MaxExternal = 1 | the scope and somebody else cancel the host before it runs; one CancelledError is thrown for both and the scope absorbs it, although `tests/test_cancel_scope.py:426` says "must absorb only its own deadline cancel" |
| CancelScope `Ledger` | a move_on scope in `Foreign` | a cancel() in another thread between the sections of `__aenter__` is injected on entry (323) and again by its delivery (206), and taken back once |
| CancelScope `Ledger` | "shield" in `Program`, two scopes | switching on an outer shield snapshots the injection of an inner scope, which then cannot take it back, and restores it later |
| CancelScope `Ledger` | a scope in `Foreign`, "shield" in `Program`, MaxEntries = 2 | the snapshot of a shield that another thread lifts is lost on exit when `_apply_shield` has not run: the next entry of the scope starts with it |
| CancelScope `ExternalKept` | a scope in `Foreign`, "shield" in `Program`, MaxExternal = 1 | the shield is switched off in another thread and the scope left before `_apply_shield` runs: the snapshot is neither restored (263) nor given back (144) |
| TaskGroup `ScopePopped` | 1 child, MaxExternal = 1 | a host cancelled while it waits leaves by `_taskgroup.py:178`, which never calls the scope's `__aexit__`: the scope stays on the stack of the task |
| CancelScope `InjectionConsumed` | a plain scope inside a move_on scope | the plain scope is cancelled and left with its CancelledError, which lines 373-379 do not count as a reason to uncancel; the scope around absorbs the error and the host goes on with `cancelling() = 1`, although `docs/API.md:688` says "On exit the scope always consumes its own injection" |
| Lifespan `RunnerManaged` | Mode auto | a `startup()` cancelled while it waits (102), and one whose application sent `startup.failed` (124), return without cancelling the runner, and no later call stops it; a `shutdown()` cancelled while it waits leaves the runner too.  `NoOrphan`, which is checked and proved, is what remains true: none is left in the stopped state, and in the failed state only after `startup.failed` |
| PinningServer `CloseDrains` | one worker, one client | a loop resumed with a client after `close()` cleared the flag starts its task when the drain has found nothing active, or after the sets were cleared: the connection outlives `close()`, which promises to "cleanly drain all in-flight connections" (286) |
| PinningServer `WorkersFree` | MaxStarts = 2 | a loop of closed sockets comes to `while self.is_running` after the next `start()`: `sock_accept` raises EBADF without suspending, line 219 tries again, and the worker's event loop does nothing else |
| WebSocket `CloseIsLast` | any kinds | `send()` does not look at the state: after the reader echoed the peer's close frame (470) the application still writes a message, or a close frame of its own |
| WebSocket `ReceiveReturns` | Kinds with "eof" or "bad" | at the end of the stream (266) and after a protocol error (275, 371, 418) the reader leaves its loop without putting a disconnect, and `receive()` waits |
| AsgiWorker `FailedMeansOver` | Mode auto | `start()` fails in the server's bind, or is cancelled in startup(), and nobody shuts the lifespan down (`asgi.py:87-88`) |
| AsgiWorker `ServedWhileUp` | Attempts = 2 | a second `start()` after a failed or stopped lifespan skips the startup and serves all the same |
| Http11 `NotInterleaved` | Habits with "raise" or "short"; or "early", and a malformed piece of body | after an exception in mid-response the connection stays open and the next response follows inside the unfinished one, and a 400 is written into a response under way, although `CHANGELOG.md:20` promises "strictly ordered, non-interleaved TCP responses" |
| Http11 `PauseOwned` | Habits with "early" | an answer before the body is read leaves reading paused for ever (`_http11.py:201`, 244) |
| Http11 `RequestsAnswered` | Habits with "early" | `reset_for_next_request` does nothing unless the request was received in full (`http.rs:111`), so the next one is never parsed as one |
| Http11 `DeadStayDead` | any | the finally block of a cycle that `connection_lost` cancelled pumps the parser and starts the next buffered request on a dead connection (`_http11.py:348`) |
| WsgiExchange `CompleteHonest` | Liberties with "pipe" | a BrokenPipeError of the application's own is taken for a client that left, and the response is ended as if complete (`wsgi.py:590`) |
| WsgiExchange `CompleteHonest` | Liberties with "restart" | `start_response` with exc_info consults an event that is set only when the head is written (`wsgi.py:553`): a DATA already queued goes out with the old head |
| WsgiExchange `HeadOnce` | Liberties with "text" | something that is not bytes fails after the head was written, and a second head, the 500, follows (`wsgi.py:710`) |
| Supervisor `Reloads` | ScanFirst = FALSE | a file saved after the child imported it and before the watcher's first scan (`cli.py:125`) is never noticed |
| Pool `ShutdownResolvesAll` | two pinned coroutine jobs, the first stubborn | `coroutine.close()` of a running coroutine raises out of the sweep (`pool.py:370`) |

## 6. How state and actions correspond to the code

Names follow the source; the map in `PROJECT.json` gives the lines of every
definition.  Points a reader may stumble over:

* *Channel.*  `WakeFut` and `WakeDeadFut` are the two branches of `_wake_fut`.
  `SendRetry` keeps the short-circuit of `register_putter(...) and
  try_send(...)`: a failed second attempt goes on to `await fut`.  The retries
  of `send_sync` and `recv_sync` change nothing, so one attempt that may give
  up stands for the loop.
* *select.*  Probing and registering start at a pseudo-random channel: any
  channel of those left may be next.  `all(...)` reads channel by channel and
  is one step here; a channel that is closed and empty stays so, which makes
  the difference invisible.  The unregistrations of the finally clause are
  merged: they commute with everything but an announcement to the arbiter that
  is leaving, which `SelectWake` handles on a settled arbiter either way.
* *Condition.*  `notify_all` reads the length and calls `notify` with it: some
  `Notify(n)`.
* *CapacityLimiter.*  The two scanning loops pop waiters with closed loops
  without giving them a token; `PopLive(n)` is what is left after n living
  waiters were served.
* *CancelScope.*  `__aenter__` and `__aexit__` never await, so on the loop they
  are atomic; each is cut at the sections of `_cancel_lock`, where another
  thread may come in.  The three kinds of scope are the two flags that
  `fail_after`, `move_on_after` and their siblings set.  `outer` is the exception
  under whose handling a scope is entered (clean-up code): a scope that ends
  normally lets it go on.  `passed` counts the injections of plain scopes that
  travel outward with their CancelledError; `Ledger` allows for them,
  `InjectionConsumed` does not.  `Await`, `Resume`, `Catch`, `Finish` and `External` are what
  the host's code and its owner may do.
* *TaskGroup.*  A turn of `_wait_children` runs from one `asyncio.wait` to the
  next.  Within it the order of the children does not matter: once one exception
  is collected, everything pending or new is cancelled.  The group's own scope
  is only cancelled by the turn itself, so of its ledger nothing outlives the
  turn (`SiblingsCancelled`).  Children end, take back a request, call started()
  or spawn others at any time.  A block that ends with several CancelledErrors
  raises a group, an "error".
* *AsyncContext.*  A step is one section of a context's lock or one call made
  outside it.  `Complete` is the pool's end of a job with a scope.
* *Lifespan.*  `asyncio.Lock` serialises the calls: a caller that waits for it has
  not begun.  A time-out may fire at the moment the event is set: `wait_for` then
  raises.  A caller cancelled while it awaits the runner cancels the runner and
  swallows the CancelledError (109, 167).  `sent` matters to `Verdict` only.
* *PinningServer.*  Sockets are what `open` and `gen` say: whether they are one per
  worker or shared makes no difference to the loops.  The cancellation posted by
  `fut.cancel()` may run before or after anything that is ready (`LoopCancelled`);
  cancelling a loop whose `sock_accept` has just completed drops the client.
  `linked` says whether the set a loop adds to is still in `_worker_conn_tasks`.
  `late`, `clean` and `hurt` are histories.  A handler that is cancelled ends.
* *WaitGroup.*  A Task drives a tracked coroutine by send() and throw() (`Start`,
  `End`, `ThrowFirst`); what `await wg.track(c)` drives bypasses both and is never
  stepped (`Awaited`).  A job in `Hasty` may be cancelled before its first step.
* *WebSocket.*  The application is one task and keeps to ASGI: it receives
  `connect` first, accepts or closes once, sends nothing after its close.  Unmasked,
  oversized and malformed frames are "bad"; "toobig" is a continuation that
  exceeds the message limit (a single frame cannot, its own limit is lower).
  `Script` is what the reader does about a frame, one entry per await.  A
  writer that was closed drops what it is given.
* *Event.*  Each wait() has an `asyncio.Event` of its own: a notification that comes
  after its waiter was cancelled is for nobody, so `Unwind` withdraws it.
* *AsgiWorker.*  Its calls take the actions of the two instances; the guards say
  when the call before has returned.  `ManagerStep` and `ServerStep` are what the
  parts do meanwhile.  `__aexit__` closes what `__aenter__` started, so close() follows
  a start() that returned.
* *Http11.*  A unit is a head, a piece of a body or something malformed, one event
  of the parser each; how bytes are cut into units is the parser's business, how
  units are cut into segments is `data_received`.  The parser's "serving" and
  "closed" are ServingApp and Closed, "body" the receiving states.  A transport
  that is closed drops what is written; asyncio's still appends to a buffer that is not
  empty, so more may reach the client than `wire` shows, in the same order.  `pending` is `_pending_pipeline_events`:
  `NeverPending` says that the parser, which stops behind a complete request,
  leaves it empty.  `Sends` is all that the client sends; `Pump` is one call of
  `pump_events` with the handling of each of its events.  `Answer` is one body message
  of send() up to its write, `Sent` what follows the wait for the drain.  `Habits` are
  what an application may do that ASGI allows but a tidy one does not.  The attentive one
  receives what its request has of a body, and does not call receive() when there is none.  A WebSocket
  handler is one step (see `WebSocket`), after which the connection is closed; of a handler
  that raises, which skips `close()` (`_http11.py:371-382`), nothing is said.
* *WsgiExchange.*  The channels are bounded queues, as Channel promises in the
  absence of cancelled receivers; the one receiver that is cancelled here has no
  successor.  `send_sync` on a closed channel raises BrokenPipeError in the
  application, which is taken to end by it.  `active` counts the STARTs the loop
  saw before it wrote the head.  The two parsers of the head, native and fallback,
  lead to the same `HeadRead` and `HeadFails`; a chunked body is read with the head.
* *Supervisor.*  Reading files takes no time: a scan or an import sees one version.
  `ScanFirst` says whether the watcher's first scan precedes the child's import; the
  code starts the thread first, and an interpreter takes longer to start.
* *Pool.*  `nclose` is how many of the three stores of `NativeWorkerPool.close`
  have happened.  `pop_work` is one step in which a non-draining worker may be
  told to skip the shared queue (`num_polling`).  A round-robin index is any
  worker.  The drain of `close()` may time out at any moment; `clean`
  remembers that it did not.  `Stubborn` jobs block their thread longer than
  `join(timeout=2.0)` waits.  `fut` is the first completion posted, since
  `_safe_complete` ignores later ones.  The notify events that `start()` makes
  and the worker replaces are one: before it replaces its event a worker has
  not looked at any queue.  The metrics of `close()`'s test are implied by the
  outstanding count, because a future is discarded last.

## 7. Proofs

TLAPS checks these theorems, for every value of the constants and executions of any
length.  Every safety invariant and every action property of a passing run, and the
refinement of Channel, are among them.

| Module | Theorems |
|---|---|
| `SyncProofs` | `TypeCorrect`; `MutexTheorem`: `MutualExclusion`; `OwnershipTheorem`: `NoLostOwnership`; `FifoTheorem`: `NoBarging`, an action property; `NotificationTheorem`: `NoLostNotification`; `WaitTheorem`: `WaitReturnsLocked`, an action property; `AgreementTheorem`: `Agreement`; `WaitGroupTheorem`: `WaitCoversJobs`; `PermitsTheorem`: `PermitsConserved`, invariants and action properties of Semaphore and CapacityLimiter; `GrantsTheorem`: `GrantsSound`; `RoundsTheorem`: `RoundsComplete`; `TypesTheorem`: `SyncTypesOK` |
| `ChannelProofs` | `SoundTheorem`: capacity, idle items and slots, leaked waiters, duplicates; `FifoTheorem`: Channel implements `FifoQueue`; `KeptTheorem`: `NoItemLost`; the last two when receivers are not cancelled (section 5 shows what happens when they are) |
| `MCChannelProofs` | the same for both channels of the run: `ChannelTheorem`: `ChannelSound`; `ItemsTheorem`: `ItemsKept`; `CalmFifoTheorem`: `CalmImplementsFifo`; and of select: `SelectTheorem`: `SelectSound`; `SharedWakeTheorem`: `SharedWakeKept` |
| `CancelProofs` | `GroupTheorem`: `ChildrenFinished`, `FailuresSurface` and `HostCancelKept` of one group; for the run: `FinishedTheorem`: `ChildrenFinished`; `FailuresTheorem`: `FailuresSurface`; `CascadeTheorem`: `CascadeComplete`; `ScopesTheorem`: `ScopesSound`; `CancellationTheorem`: `CancellationKept` |
| `PoolProofs` | `PoolInvariant`: the inductive invariant; `PoolIsSound`: `PoolSound`; `PoolOutcomesHonest`: `OutcomesHonest`; `PoolPinnedWake`: `PinnedWakeKept`; `PoolCloseResolves`: `CloseResolves` |
| `ServeProofs` | `LifespanTheorem`: `LifespanSound`; `ServerTheorem`: `ServerSound`; `SocketTheorem`: `SocketSound` |
| `WebProofs` | `SupervisorTheorem`: `SupervisorSound`; `WsgiTheorem`: `WsgiSound`; `HttpTheorem`: `HttpSound` |

**Assumptions.**  `LockAssumption` (the no-owner value is no task; the cancellable and
the mortal are tasks), `ConditionAssumption` and `ChannelAssumption` (finitely many
tasks, since they are counted; a bound and a capacity are natural numbers; senders
and receivers are different tasks), `PoolAssumption` (a finite set of workers, pins among
them, capacities above 0), and those of the MC modules (`InstanceAssumptions`,
`ServeAssumptions`, `WebAssumptions`), which say the same of the parts.  A capacity of 0
is an unbounded channel, as in the code.  `RWMutex` stops cancelling at `MaxReaders`,
which may be any number.  Some of these assumptions delimit what a property is about, and
section 5 shows what happens outside them:

* In `WebAssumptions`: the "attentive" application has no bad habit, the "strict" one
  takes no liberty, "apart" no two connections share a loop, and reading resumes at a
  queue length from 1 to the maximum less 1 (the code has 16 of 32).
* In `ServeAssumptions`: the ASGI worker is started once.
* In MCChannel: the selectors of "shared" use one channel and are not cancelled.
* `CloseResolves` speaks of pools in which no coroutine job blocks its thread.

`SafeUse` of CancelScope (another thread does not cancel a move_on scope, and a shield is
switched only on a scope that is alone and entered once) is not assumed: the code guards
against neither.  It is the hypothesis under which `ScopesSound` promises the ledger, and
`CancellationKept` the cancellations from outside; the latter has two more, that no scope
was cancelled yet and that no shield is switched.  That scopes are bound to the host
exactly while they are on its stack holds in any use.

**Inductive invariants.**  No safety property here is inductive alone; each
strengthening says where else the resource in question may be.

* *Lock*, `IInv`: exclusion needs to know that the owner is not queued, otherwise a
  hand-over could pick it again; that no ownership is lost needs that a queued task
  is suspended in `acquire`, so that popping it makes it granted; and popping one
  entry removes the task only if it is queued once (`QueueOK`).  `HandoverOrder`
  gives the FIFO theorem: nobody alive stood in front of the one chosen.
* *Condition*, `CInv`: `IInv` of its lock, and the notifications owed are exactly the
  tasks that carry one.  A task that is queued carries none, which is why cancelling it
  forwards nothing.
* *Semaphore*, `SemInv`, and *CapacityLimiter*, `LimInv`: a permit is in the counter or
  with a task that holds it or was popped; a task is queued once and only while its
  acquire has not ended.  For the limiter "no token idles" speaks of the live waiters
  only; what the scanning loops leave in the queue when they skip waiters with closed
  loops rests on `CountCut` and, for the least place with enough live waiters before
  it, `LeastNatural`.
* *RWMutex*, `RWInv`: the counter is at least the number of holders, not equal to it,
  because a cancelled grant stays counted (the leak of section 5); exclusion survives.
* *Barrier*, `BarInv`: those who wait are of the current generation, have no answer and
  are too few for a round; an answer belongs to an earlier generation which is full or
  failed.  Without the generation of every answer, a reset between the completion of a
  round and its parties' resumption could not be told from a mixed one.
* *Event*, `EventInv`; *Once*, `OnceInv` (one leader at a time, and it leads until the
  outcome is stored); *WaitGroup*, `GroupInv` (the
  counter is the outstanding jobs and the leaked ones, which have ended; a wrapper counts
  as stepped from its first send() or throw() on, so `__del__` takes off nothing for it).
* *Channel*, `Inv`: a future is registered once, by a task that awaits it or will clean it
  up, and no wake is on its way to it (`Registered`); a popped waiter gets one wake of
  the right kind (`WakesSound`); an item is in one place (`ItemsSound`); and the buffer
  plus the senders on their way to a slot fill the capacity whenever a sender is queued
  (`SlotsAnnounced`), which is what keeps a cancelled or barging sender from losing a
  slot.  The invariant is a relation between plain values, so that the lemmas treat the
  raw channel's methods one by one (`Hands`, `Keeps`, `Overflows`...) whichever call of
  Channel makes them.  `CalmInv` adds, for receivers that are not cancelled, that an
  accepted item is somewhere; with it every step is a step of `FifoQueue` or a stutter.
* *TaskGroup*, `GroupInv`: what was collected is done, and its failures are errors of the
  group or consumed by `start()` (`ErrorsKept`); the children that still run are among
  those waited for when a cancelled wait drains (`WaitSound`); and the shield's snapshot
  and the host's count add up to the cancellations from outside, a wait with a new one
  being interrupted (`ShieldSound`).
* *AsyncContext*, `ContextInv`: a live child is on the list of its live parent, so the call
  that marks the parent takes it over; calls are on cancelled contexts; and a parent still
  lists a cancelled child only while the call that cancelled it has not detached it.
  Every step of a call passes on what the call held (`KidsPassed`, `JobsPassed`,
  `DetachPassed`); a job that runs is tracked by its live owner.

* *SelectChannel*, `SelInv`: whoever watches a channel is the current arbiter of a selector
  that has not come to its finally clause and will not visit that channel again
  (`Watching`), so that unregistering once suffices; and a selector that is told of a
  channel is told of one of its own (`Named`).  *On one shared channel*, `SharedInv`: while
  somebody watches it, at least as many selectors are on their way to it as it holds
  items, which is what a rival that takes one leaves intact; and an arbiter that is queued
  or has a callback on its way is registered and unsettled while the channel is open.
* *CancelScope*, `ScopeInv`: the ledger of all scopes (`Books`) does not survive the
  restoring of a snapshot alone.  `BooksAround` says of every scope on the stack that what
  the scopes around it keep was requested before it was entered, so none of it is its own
  injection; `Posted`, that a delivery on its way is the only one of a cancelled
  scope that has not injected.  Outside `SafeUse` these fail in the code; `BoundInv`, which
  holds in any use, says only how far the scope on top is bound while the host enters or
  leaves it (`HostBound`), and that the deadlines posted to it are times.
* *Pool*, `PoolInv`: a job is in exactly one queue while it is accepted and no worker has it
  (`Lined`, `JobsOK`); how far the shutdown is tells which loops and threads can still be up
  (`PhaseOK`, `ThreadsOK`); and a pending future is still tracked or already in the copy that
  the sweep goes through, unless abort() ends the pool (`FuturesOK`).
* *Lifespan*, `LifeInv`: who holds the lock tells the state, and an answer no application
  gave was given by a runner that ended.  *PinningServer*, `ServerInv`: the loops of the
  sockets in use add to sets that close() will look through (`LoopsPlaced`), and what the
  drain leaves are stragglers, whose loops accept no more (`ConnsPlaced`).  *AsgiWorker*,
  `WorkerInv`: both of these, and the step of its call tells how far each part is.
* *WebSocket*, `SocketInv`: what the peer said is what the application heard, what is in
  the channel and what the reader has in hand (`Tallied`), so a disconnect cannot overtake.
* *Supervisor*, `SupInv`: a child that is waited for or ended has been started.
  *WsgiAdmission*, `AdmInv`: whoever holds the lock across an await is refusing.
* *WsgiExchange*, `FeedInv`: the body channel continues what the application was given, and
  who may find it closed or at its end (`Feeding`); `AnswerInv`: a response is counted, in
  messages to send, under way and written, which makes "one head" and "complete" sums of
  three queues.
* *Http11*, `HttpInv`: it is about the last unit the parser produced, u.  Only the
  application of u's request may live (`OneLives`), and a tidy one does while u is not the
  last of its request (`NeatGood`); the queue holds what lies between what it was given and u
  (`QueueGood`); what the parser has buffered and what will arrive continue u (`ParserGood`);
  nothing on the wire is of a later request (`WireGood`).  The "careless" scene
  has no `NeatGood`, and its counterexamples are in section 5.

`QueueLemmas` says what the queue and sequence operators do, and how a cardinality changes
with one element.  Where an MC module has two instances of one module, either the
lemmas are instantiated (`CP`) and carried over by showing that the operators of both
instances are the same, or the instance has a parameter (`G(z)`, `S(z)`, `Sel(s)`,
`Srv(s)`, `Sock(s)`, `Htp(s)`, `Xch(s)`) and so have the lemmas.  TLC checked each
inductive invariant on the run's instance before it was proved.

**Only model-checked.**  All liveness (`QueuedServed`, `EveryoneReturns`,
`CloseReleasesReceivers`, `LoneSelectReturns`, `ServingReturns`, `FutureCompletes`,
`HttpAnswers`, `WsgiReturns`, `SupervisorFollows`): it needs fairness and ENABLED, which
the prover does not treat.  The five disagreements of section 5, which are counterexamples.
The correspondence of the models with the source is argued in section 6 and not proved.

## 8. Plan

1. *Done:* all components of section 1 but the last; the proofs of section 7.
2. *Left to model:* a second `start()` in `Pool`; `start()` and `close()` of the
   server in two threads; an application of several tasks in `WebSocket`; liveness
   of `TaskGroup` (the block ends when its children do); several exchanges of the
   WSGI worker that compete for the executor.
3. *Next proofs:* every safety property the runs check is proved.  What would say more:
   that `SelectChannel` keeps `SharedWakeKept` on several channels once the wake is
   forwarded; the WSGI exchange on `Channel` itself in place of bounded queues; and
   refinements of abstract specifications other than `FifoQueue` (a lock, a pool).

## 9. Not modelled

* The pure Python fallbacks (`_BaseChannel` queues over FastMutexChannel, the
  second half of `rwlock.py`): used only without the native classes.
* Misuse that raises at once (release without acquire, re-entrant acquire,
  wait without the lock) and leaves the state alone.
* In Pool: a restart, `cancel_scope`, contextvars, metrics, a caller that
  cancels its own future.  In WaitGroup: `add` with a delta other than 1.
* A loop that closes after its task was given a lock, permit or token and before it ran:
  `Strand` closes the loops of queued tasks only.
* In CancelScope: entering one scope from two tasks (raises), and
  `current_effective_deadline`, a query.  In TaskGroup: calls from a foreign loop
  (raise), and the accessors of TaskHandle.
* In PinningServer: a bind that fails (`start()` raises and nothing changes), and
  concurrent controllers.  In WebSocket: `send()` from a foreign loop, which only
  forwards to the home loop, and requests without a key or version, which are
  answered before the machine starts.
* Parsing and formatting: HTTP heads, chunked bodies and WebSocket frames (`http.rs`,
  `websocket.rs`), the WSGI environ, arguments of the command line, `import_app` and
  `detect_interface`.  Their outcomes (a request, a piece, a refusal) are inputs of
  the models; what they compute is left to unit tests.
* The WSGI worker's executor beyond one thread that may begin late, and a
  `server.close()` that is itself cancelled half way.
* Metrics, logging, option records and re-exports, which influence no other part.
