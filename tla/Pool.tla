-------------------------------- MODULE Pool --------------------------------
(***************************************************************************)
(* EventLoopThreadPool (pool.py) on its NativeWorkerPool (pool.rs): one    *)
(* event loop and one dispatcher per worker thread, a shared queue, one    *)
(* dedicated queue and one batch buffer per worker, callers that submit    *)
(* from other threads, and the shutdown by close() or abort().             *)
(*                                                                         *)
(* A section under the pool's lock, and each native method, is one step.   *)
(* Steps of one worker's loop exclude each other; everything else          *)
(* interleaves.  fut[j] is the first completion posted to the caller's     *)
(* loop: _safe_complete ignores all later ones.                            *)
(***************************************************************************)
EXTENDS Naturals, Sequences, FiniteSets, Queues

CONSTANTS
    Workers, NoWorker,
    Jobs,            \* one submit() each
    Pin,             \* pin_to of each job, or NoWorker
    LocalCapacity,   \* _LOCAL_QUEUE_CAPACITY
    BatchMax,        \* most jobs of one pull from the shared queue
    Stubborn,        \* jobs that block their thread for longer than join() waits
    Coroutines,      \* jobs submitted as coroutine objects
    Modes            \* the calls that may happen: "close", "abort", and "again",
                     \* either of them on a pool that is not running

ASSUME PoolAssumption ==
    /\ IsFiniteSet(Workers) /\ Workers # {}
    /\ NoWorker \notin Workers
    /\ Pin \in [Jobs -> Workers \cup {NoWorker}]
    /\ LocalCapacity \in Nat \ {0} /\ BatchMax \in Nat \ {0}
    /\ Stubborn \subseteq Jobs /\ Coroutines \subseteq Jobs
    /\ Modes \subseteq {"close", "abort", "again"}

VARIABLES
    running,       \* _running
    nclose,        \* how far NativeWorkerPool.close() is: 1 global_sender
                   \* dropped, 2 local_senders cleared, 3 is_closed set
    global, local, buffer,
    outstanding,   \* _outstanding
    idle,          \* _idle_workers
    event,         \* the workers whose notify_event is set
    posted,        \* event.set callbacks on their way to a worker's loop
    disp,          \* where each dispatcher is
    processed,     \* its processed_any
    loop,          \* each worker's event loop and thread
    stops,         \* loop.stop callbacks on their way
    spc, fut,      \* each submit() and its future
    job, at,       \* the execution of each job, and the worker it is on
    cpc, mode,     \* the shutdown in progress
    joined,        \* threads it has joined, or given up on
    swept,         \* futures it still has to complete
    clean,         \* history: close() saw the pool drained
    closedEvent    \* _closed_event

queues == <<global, local, buffer>>
dispatch == <<idle, event, posted, disp, processed>>
execution == <<job, at>>
shutdown == <<cpc, mode, joined, swept, clean, closedEvent>>
vars == <<running, nclose, queues, outstanding, dispatch, loop, stops, spc, fut,
          execution, shutdown>>

TypeOK ==
    /\ running \in BOOLEAN /\ clean \in BOOLEAN /\ closedEvent \in BOOLEAN
    /\ nclose \in 0..3
    /\ global \in Seq(Jobs)
    /\ local \in [Workers -> Seq(Jobs)] /\ buffer \in [Workers -> Seq(Jobs)]
    /\ outstanding \subseteq Jobs /\ swept \subseteq Jobs
    /\ idle \subseteq Workers /\ event \subseteq Workers /\ posted \subseteq Workers
    /\ stops \subseteq Workers /\ joined \subseteq Workers
    /\ disp \in [Workers -> {"off", "drain", "check", "quiesce", "parking", "idle", "exited"}]
    /\ processed \in [Workers -> BOOLEAN]
    /\ loop \in [Workers -> {"none", "up", "stopping", "down"}]
    /\ spc \in [Jobs -> {"new", "resolved", "tracked", "overflow", "notify", "returned", "refused"}]
    /\ fut \in [Jobs -> {"none", "pending", "result", "cancelled", "closed"}]
    /\ job \in [Jobs -> {"queued", "created", "running", "reported", "over"}]
    /\ at \in [Jobs -> Workers \cup {NoWorker}]
    /\ cpc \in {"off", "native", "drain", "stop", "join", "sweep", "done", "raised"}
    /\ mode \in {"none", "close", "abort"}

Init ==
    /\ running = FALSE /\ clean = FALSE /\ closedEvent = FALSE
    /\ nclose = 0
    /\ global = <<>>
    /\ local = [w \in Workers |-> <<>>] /\ buffer = [w \in Workers |-> <<>>]
    /\ outstanding = {} /\ swept = {}
    /\ idle = {} /\ event = {} /\ posted = {} /\ stops = {} /\ joined = {}
    /\ disp = [w \in Workers |-> "off"] /\ processed = [w \in Workers |-> FALSE]
    /\ loop = [w \in Workers |-> "none"]
    /\ spc = [j \in Jobs |-> "new"] /\ fut = [j \in Jobs |-> "none"]
    /\ job = [j \in Jobs |-> "queued"] /\ at = [j \in Jobs |-> NoWorker]
    /\ cpc = "off" /\ mode = "none"

\* The thread of w is inside a job that does not yield to the loop.
Blocked(w) == \E j \in Stubborn : job[j] = "running" /\ at[j] = w
Turn(w) == loop[w] \in {"up", "stopping"} /\ ~Blocked(w)
Draining == nclose = 3

Complete(j, outcome) ==
    fut' = IF fut[j] = "pending" THEN [fut EXCEPT ![j] = outcome] ELSE fut

\* start(); a pool is started at most once here.
Start ==
    /\ ~running /\ nclose = 0
    /\ \A w \in Workers : loop[w] = "none"
    /\ running' = TRUE
    /\ loop' = [w \in Workers |-> "up"]
    /\ disp' = [w \in Workers |-> "drain"]
    /\ UNCHANGED <<nclose, queues, outstanding, idle, event, posted, processed,
                   stops, spc, fut, execution, shutdown>>

-----------------------------------------------------------------------------
(* submit *)

SGoto(j, where) == spc' = [spc EXCEPT ![j] = where]

SubmitResolve(j) ==
    /\ spc[j] = "new"
    /\ SGoto(j, IF running THEN "resolved" ELSE "refused")
    /\ UNCHANGED <<running, nclose, queues, outstanding, dispatch, loop, stops,
                   fut, execution, shutdown>>

SubmitTrack(j) ==
    /\ spc[j] = "resolved"
    /\ fut' = [fut EXCEPT ![j] = "pending"]
    /\ outstanding' = outstanding \cup {j}
    /\ SGoto(j, "tracked")
    /\ UNCHANGED <<running, nclose, queues, dispatch, loop, stops, execution, shutdown>>

\* The native push raised: the future is forgotten and the error passed on.
Refuse(j) ==
    /\ outstanding' = outstanding \ {j}
    /\ SGoto(j, "refused")
    /\ UNCHANGED queues

push_global(j) ==
    \/ /\ nclose = 0
       /\ global' = Append(global, j)
       /\ SGoto(j, "notify")
       /\ UNCHANGED <<local, buffer, outstanding>>
    \/ /\ nclose > 0
       /\ Refuse(j)

\* A full local queue sends the job to the shared queue, by a second lock.
push_local(j) ==
    \/ /\ nclose < 2
       /\ Len(local[Pin[j]]) < LocalCapacity
       /\ local' = [local EXCEPT ![Pin[j]] = Append(@, j)]
       /\ SGoto(j, "notify")
       /\ UNCHANGED <<global, buffer, outstanding>>
    \/ /\ nclose < 2
       /\ Len(local[Pin[j]]) >= LocalCapacity
       /\ SGoto(j, "overflow")
       /\ UNCHANGED <<queues, outstanding>>
    \/ /\ nclose >= 2
       /\ Refuse(j)

SubmitPush(j) ==
    /\ \/ spc[j] = "tracked" /\ Pin[j] # NoWorker /\ push_local(j)
       \/ spc[j] = "tracked" /\ Pin[j] = NoWorker /\ push_global(j)
       \/ spc[j] = "overflow" /\ push_global(j)
    /\ UNCHANGED <<running, nclose, dispatch, loop, stops, fut, execution, shutdown>>

\* Mutant of NotifyTargets: the pin is forgotten.
NotifyAnybody(j) == IF idle # {} THEN idle ELSE Workers

\* Whom submit notifies: the worker of a pinned job; otherwise an idle worker,
\* or the next one in turn (any, here) when none is idle.
NotifyTargets(j) ==
    IF Pin[j] # NoWorker THEN {Pin[j]} ELSE IF idle # {} THEN idle ELSE Workers

\* _notify_worker.
SubmitNotify(j) ==
    /\ spc[j] = "notify"
    /\ SGoto(j, "returned")
    /\ \/ /\ running
          /\ \E w \in NotifyTargets(j) :
               posted' = IF loop[w] = "down" THEN posted ELSE posted \cup {w}
       \/ ~running /\ UNCHANGED posted
    /\ UNCHANGED <<running, nclose, queues, outstanding, idle, event, disp, processed,
                   loop, stops, fut, execution, shutdown>>

-----------------------------------------------------------------------------
(* the dispatcher of worker w *)

DGoto(w, where) == disp' = [disp EXCEPT ![w] = where]

\* How many jobs one pull takes from the shared queue.
Batch ==
    LET share == IF Draining THEN Len(global)
                 ELSE Len(global) \div Cardinality(Workers) + 1
        capped == IF share < BatchMax THEN share ELSE BatchMax
    IN IF capped < Len(global) THEN capped ELSE Len(global)

\* pop_work returns job j: from the buffer, else from a batch pulled from the
\* shared queue, else from the local queue.  A worker that finds enough others
\* polling (num_polling) skips the shared queue, but never while draining.
MaySkip == ~Draining /\ Cardinality(Workers) > 1

PopBuffered(w, j) ==
    /\ buffer[w] # <<>> /\ j = Head(buffer[w])
    /\ buffer' = [buffer EXCEPT ![w] = Tail(@)]
    /\ UNCHANGED <<global, local>>

\* Mutant of PopGlobal: only the job returned is taken off the shared queue.
PopGlobalTwice(w, j) ==
    /\ buffer[w] = <<>>
    /\ global # <<>> /\ j = Head(global)
    /\ buffer' = [buffer EXCEPT ![w] = SubSeq(global, 2, Batch)]
    /\ global' = Tail(global)
    /\ UNCHANGED local

PopGlobal(w, j) ==
    /\ buffer[w] = <<>>
    /\ global # <<>> /\ j = Head(global)
    /\ buffer' = [buffer EXCEPT ![w] = SubSeq(global, 2, Batch)]
    /\ global' = SubSeq(global, Batch + 1, Len(global))
    /\ UNCHANGED local

PopLocal(w, j) ==
    /\ buffer[w] = <<>>
    /\ global = <<>> \/ MaySkip
    /\ local[w] # <<>> /\ j = Head(local[w])
    /\ local' = [local EXCEPT ![w] = Tail(@)]
    /\ UNCHANGED <<global, buffer>>

pop_work(w, j) == PopBuffered(w, j) \/ PopGlobal(w, j) \/ PopLocal(w, j)

\* pop_work has nothing for w.
PopNone(w) ==
    /\ buffer[w] = <<>> /\ local[w] = <<>>
    /\ global = <<>> \/ MaySkip
    /\ UNCHANGED queues

\* _process_one: a task for j on w's loop.
Spawn(w, j) ==
    /\ job' = [job EXCEPT ![j] = "created"]
    /\ at' = [at EXCEPT ![j] = w]

\* Phase 1.  The "closed and drained" error ends the dispatcher.
Drain(w) ==
    /\ Turn(w) /\ disp[w] = "drain"
    /\ \/ \E j \in Jobs :
            /\ pop_work(w, j) /\ Spawn(w, j)
            /\ processed' = [processed EXCEPT ![w] = TRUE]
            /\ UNCHANGED disp
       \/ /\ PopNone(w)
          /\ DGoto(w, IF Draining THEN "exited" ELSE "check")
          /\ UNCHANGED <<processed, execution>>
    /\ UNCHANGED <<running, nclose, outstanding, idle, event, posted, loop, stops,
                   spc, fut, shutdown>>

\* Phase 2, and the decision to go idle.
Check(w) ==
    /\ Turn(w) /\ disp[w] = "check"
    /\ DGoto(w, IF ~running \/ nclose > 0 \/ processed[w] THEN "drain" ELSE "quiesce")
    /\ processed' = [processed EXCEPT ![w] = FALSE]
    /\ UNCHANGED <<running, nclose, queues, outstanding, idle, event, posted, loop,
                   stops, spc, fut, execution, shutdown>>

\* Phase 3: clear the event, then look once more.  Any error is ignored here.
Quiesce(w) ==
    /\ Turn(w) /\ disp[w] = "quiesce"
    /\ event' = event \ {w}
    /\ \/ \E j \in Jobs : pop_work(w, j) /\ Spawn(w, j) /\ DGoto(w, "drain")
       \/ PopNone(w) /\ DGoto(w, "parking") /\ UNCHANGED execution
    /\ UNCHANGED <<running, nclose, outstanding, idle, posted, processed, loop, stops,
                   spc, fut, shutdown>>

Park(w) ==
    /\ Turn(w) /\ disp[w] = "parking"
    /\ idle' = idle \cup {w}
    /\ DGoto(w, "idle")
    /\ UNCHANGED <<running, nclose, queues, outstanding, event, posted, processed, loop,
                   stops, spc, fut, execution, shutdown>>

\* The event was set, or _WORKER_POLL_INTERVAL passed.
Unpark(w) ==
    /\ Turn(w) /\ disp[w] = "idle"
    /\ idle' = idle \ {w}
    /\ DGoto(w, "drain")
    /\ UNCHANGED <<running, nclose, queues, outstanding, event, posted, processed, loop,
                   stops, spc, fut, execution, shutdown>>

\* A posted event.set runs while the dispatcher is suspended.
SetEvent(w) ==
    /\ w \in posted
    /\ Turn(w) /\ disp[w] \in {"drain", "idle", "exited"}
    /\ posted' = posted \ {w}
    /\ event' = event \cup {w}
    /\ UNCHANGED <<running, nclose, queues, outstanding, idle, disp, processed, loop,
                   stops, spc, fut, execution, shutdown>>

-----------------------------------------------------------------------------
(* jobs, and the end of a worker's thread *)

JobStep(j) == UNCHANGED <<running, nclose, queues, dispatch, loop, stops, spc, at, shutdown>>
JGoto(j, where) == job' = [job EXCEPT ![j] = where]

JobStart(j) ==
    /\ job[j] = "created" /\ Turn(at[j])
    /\ JGoto(j, "running")
    /\ UNCHANGED <<outstanding, fut>>
    /\ JobStep(j)

\* The target returned or raised.
JobEnd(j) ==
    /\ job[j] = "running"
    /\ j \in Stubborn \/ Turn(at[j])
    /\ JGoto(j, "reported")
    /\ Complete(j, "result")
    /\ UNCHANGED outstanding
    /\ JobStep(j)

\* The thread's finally clause cancels what still runs, after one pass of the
\* loop in which every created task has started.
JobCancelled(j) ==
    /\ job[j] = "running" /\ Turn(at[j]) /\ loop[at[j]] = "stopping"
    /\ ~\E k \in Jobs : job[k] = "created" /\ at[k] = at[j]
    /\ JGoto(j, "reported")
    /\ Complete(j, "cancelled")
    /\ UNCHANGED outstanding
    /\ JobStep(j)

JobDiscard(j) ==
    /\ job[j] = "reported"
    /\ JGoto(j, "over")
    /\ outstanding' = outstanding \ {j}
    /\ UNCHANGED fut
    /\ JobStep(j)

\* loop.stop runs; the finally clause of _worker cancels the dispatcher.
LoopStop(w) ==
    /\ w \in stops /\ loop[w] = "up" /\ Turn(w)
    /\ disp[w] \in {"drain", "idle", "exited"}
    /\ loop' = [loop EXCEPT ![w] = "stopping"]
    /\ stops' = stops \ {w}
    /\ idle' = idle \ {w}
    /\ DGoto(w, "exited")
    /\ UNCHANGED <<running, nclose, queues, outstanding, event, posted, processed, spc,
                   fut, execution, shutdown>>

LoopClose(w) ==
    /\ loop[w] = "stopping"
    /\ \A j \in Jobs : at[j] = w => job[j] = "over"
    /\ loop' = [loop EXCEPT ![w] = "down"]
    /\ UNCHANGED <<running, nclose, queues, outstanding, dispatch, stops, spc, fut,
                   execution, shutdown>>

-----------------------------------------------------------------------------
(* close, abort *)

CGoto(where) == cpc' = where

\* The section under the lock that ends the pool; abort takes the outstanding
\* futures here.
ShutdownBegin(m) ==
    /\ m # "again"
    /\ running
    /\ running' = FALSE
    /\ mode' = m
    /\ swept' = IF m = "abort" THEN outstanding ELSE {}
    /\ outstanding' = IF m = "abort" THEN {} ELSE outstanding
    /\ CGoto("native")
    /\ UNCHANGED <<nclose, queues, dispatch, loop, stops, spc, fut, execution, joined,
                   clean, closedEvent>>

\* close() or abort() of a pool that is not running.
ShutdownAgain ==
    /\ "again" \in Modes
    /\ ~running /\ ~closedEvent
    /\ closedEvent' = TRUE
    /\ UNCHANGED <<running, nclose, queues, outstanding, dispatch, loop, stops, spc, fut,
                   execution, cpc, mode, joined, swept, clean>>

\* NativeWorkerPool.close(), store by store.
NativeClose ==
    /\ cpc = "native"
    /\ nclose' = nclose + 1
    /\ cpc' = IF nclose' < 3 THEN cpc ELSE IF mode = "close" THEN "drain" ELSE "stop"
    /\ UNCHANGED <<running, queues, outstanding, dispatch, loop, stops, spc, fut,
                   execution, mode, joined, swept, clean, closedEvent>>

is_drained ==
    global = <<>> /\ \A w \in Workers : local[w] = <<>> /\ buffer[w] = <<>>

\* Mutant of AllDone: only the queues are looked at.
AllDoneQueues == is_drained

\* What close() polls: no outstanding future, nothing queued, no task of a job.
AllDone ==
    /\ outstanding = {} /\ is_drained
    /\ \A j \in Jobs : job[j] \in {"queued", "over"}

\* close() stops polling when nothing is left, or when its time is up.
DrainEnd ==
    /\ cpc = "drain"
    /\ \/ AllDone /\ clean' = TRUE
       \/ UNCHANGED clean
    /\ CGoto("stop")
    /\ UNCHANGED <<running, nclose, queues, outstanding, dispatch, loop, stops, spc, fut,
                   execution, mode, joined, swept, closedEvent>>

PostStops ==
    /\ cpc = "stop"
    /\ stops' = Workers
    /\ CGoto("join")
    /\ UNCHANGED <<running, nclose, queues, outstanding, dispatch, loop, spc, fut,
                   execution, mode, joined, swept, clean, closedEvent>>

ThreadOver(w) == loop[w] = "down" \/ Blocked(w)

\* t.join(timeout=2.0): the thread ended, or is stuck in a job.
Join(w) ==
    /\ cpc = "join" /\ w \notin joined
    /\ ThreadOver(w)
    /\ joined' = joined \cup {w}
    /\ UNCHANGED <<running, nclose, queues, outstanding, dispatch, loop, stops, spc, fut,
                   execution, cpc, mode, swept, clean, closedEvent>>

\* Mutant of Leftover: close() forgets the futures nobody completed.
LeftoverForgotten == swept

Leftover == IF mode = "close" THEN outstanding ELSE swept

\* close() takes what is left of the outstanding futures only now.
SweepBegin ==
    /\ cpc = "join" /\ joined = Workers
    /\ swept' = Leftover
    /\ outstanding' = IF mode = "close" THEN {} ELSE outstanding
    /\ CGoto("sweep")
    /\ UNCHANGED <<running, nclose, queues, dispatch, loop, stops, spc, fut, execution,
                   mode, joined, clean, closedEvent>>

\* Closing a coroutine that is being executed raises out of the loop.
Sweep(j) ==
    /\ cpc = "sweep" /\ j \in swept
    /\ LET busy == j \in Coroutines \cap Stubborn /\ job[j] = "running" IN
       \/ busy /\ CGoto("raised") /\ UNCHANGED <<fut, swept>>
       \/ ~busy /\ Complete(j, "closed") /\ swept' = swept \ {j} /\ UNCHANGED cpc
    /\ UNCHANGED <<running, nclose, queues, outstanding, dispatch, loop, stops, spc,
                   execution, mode, joined, clean, closedEvent>>

SweepEnd ==
    /\ cpc = "sweep" /\ swept = {}
    /\ CGoto("done")
    /\ closedEvent' = TRUE
    /\ UNCHANGED <<running, nclose, queues, outstanding, dispatch, loop, stops, spc, fut,
                   execution, mode, joined, swept, clean>>

-----------------------------------------------------------------------------

Submit(j) == SubmitTrack(j) \/ SubmitPush(j) \/ SubmitNotify(j)
Dispatcher(w) == Drain(w) \/ Check(w) \/ Quiesce(w) \/ Park(w) \/ Unpark(w)
Execute(j) == JobStart(j) \/ JobEnd(j) \/ JobCancelled(j) \/ JobDiscard(j)
Thread(w) == SetEvent(w) \/ LoopStop(w) \/ LoopClose(w)
Closer ==
    \/ NativeClose \/ DrainEnd \/ PostStops \/ SweepBegin \/ SweepEnd
    \/ \E w \in Workers : Join(w)
    \/ \E j \in Jobs : Sweep(j)

Next ==
    \/ Start \/ ShutdownAgain \/ Closer
    \/ \E m \in Modes : ShutdownBegin(m)
    \/ \E j \in Jobs : SubmitResolve(j) \/ Submit(j) \/ Execute(j)
    \/ \E w \in Workers : Dispatcher(w) \/ Thread(w)

Spec == Init /\ [][Next]_vars

\* Threads and loops keep running, jobs end, and a shutdown that began goes on.
\* A worker that wakes up to a non-empty shared queue again and again polls it
\* in the end: it is turned away only in an instant when others poll.
Fairness ==
    /\ \A j \in Jobs : WF_vars(Submit(j)) /\ WF_vars(Execute(j))
    /\ \A w \in Workers : WF_vars(Dispatcher(w)) /\ WF_vars(Thread(w))
    /\ \A w \in Workers : SF_vars(Drain(w) /\ \E j \in Jobs : PopGlobal(w, j))
    /\ WF_vars(Closer)
FairSpec == Spec /\ Fairness

-----------------------------------------------------------------------------
(* Properties *)

Accepted(j) == spc[j] \in {"notify", "returned"}

\* When close() or abort() returns, every future that submit() gave out is
\* completed, also the ones of submissions that raced with the shutdown.
ShutdownResolvesAll ==
    cpc \in {"done", "raised"} => \A j \in Jobs : Accepted(j) => fut[j] # "pending"

\* close() itself keeps that promise: it takes what is outstanding only after
\* the native queues refuse new work and the threads have been joined.  (It may
\* raise half way, over a coroutine that is executed while it closes it.)
CloseResolvesAll ==
    mode = "close" /\ Coroutines \cap Stubborn = {} => ShutdownResolvesAll

\* A job whose future failed with ThreadPoolClosedError never runs, neither
\* before nor after, unless on a thread that a job blocked past the join.
ClosedMeansNeverRan ==
    \A j \in Jobs : fut[j] = "closed" =>
        \/ job[j] = "queued"
        \/ \E k \in Stubborn : job[k] # "queued" /\ at[k] = at[j]

\* When close() found the pool drained, no accepted job was dropped or
\* cancelled by it, and none will be: each has its own result.
GracefulDrain ==
    clean => \A j \in Jobs : Accepted(j) => fut[j] = "result" /\ job[j] = "over"

\* Where j is queued.
SharedPlaces(j) == {<<"global", k>> : k \in {i \in DOMAIN global : global[i] = j}}
LocalPlaces(j) ==
    UNION {{<<w, "local", k>> : k \in {i \in DOMAIN local[w] : local[w][i] = j}} : w \in Workers}
BufferPlaces(j) ==
    UNION {{<<w, "buffer", k>> : k \in {i \in DOMAIN buffer[w] : buffer[w][i] = j}} : w \in Workers}
Places(j) == SharedPlaces(j) \cup LocalPlaces(j) \cup BufferPlaces(j)

\* A job is queued in at most one place, and in none once a worker has it.
NoDuplicateWork ==
    \A j \in Jobs : Cardinality(Places(j)) <= (IF job[j] = "queued" THEN 1 ELSE 0)

\* No lost wake-up on the dedicated queue: a worker that sleeps beside a job
\* pinned to it has been, or is about to be, notified.
NoLostWakeup ==
    \A w \in Workers :
        running /\ disp[w] \in {"parking", "idle"} /\ local[w] # <<>> =>
            \/ w \in event \cup posted
            \/ \E j \in Elems(local[w]) : spc[j] = "notify"

\* A pinned job runs on the worker it was pinned to.
PinnedStays ==
    \A j \in Jobs : job[j] # "queued" /\ Pin[j] # NoWorker => at[j] = Pin[j]

\* wait_closed returns only when every worker thread has ended.
WaitClosedMeansTerminated ==
    closedEvent => \A w \in Workers : loop[w] \in {"none", "down"}

\* Every accepted job's future is completed, by the job, close or abort.
FutureCompletes ==
    \A j \in Jobs : Accepted(j) ~> fut[j] # "pending"
=============================================================================
