------------------------------- MODULE MCSync -------------------------------
(***************************************************************************)
(* The synchronisation primitives side by side: Lock and Condition (this   *)
(* module extends them), Semaphore, CapacityLimiter, Barrier, RWMutex,     *)
(* WaitGroup, Once and Event.  They share no state, so a behaviour         *)
(* exercises one of them, the one which names, and the others stay in      *)
(* their initial state: the state spaces add up instead of multiplying.    *)
(***************************************************************************)
EXTENDS Condition

CONSTANTS
    Peers,               \* the tasks of the primitives other than Lock and Condition
    Victims,             \* those cancelled, or whose loop is closed, while they wait
    Permits,             \* max_value of the semaphore
    Budgets, Budget,     \* what total_tokens may be set to, and what it is at first
    BarrierParties,
    BarrierControl,      \* bound: calls of Barrier.abort and Barrier.reset
    RWReaders, RWWriters,
    RWDepth, RWCount,    \* bounds: nested reader() blocks, the reader count
    TrackedJobs, HastyJobs, JobWaiters

VARIABLES
    which,
    sValue, sWaiters, sPc,
    lCapacity, lBorrowed, lWaiters, lPc,
    bGeneration, bAborted, bBroken, bWaiters, bPc, bBox, bGen, bControl,
    rReaders, rWriter, rPending, rReadWaiters, rWriteWaiters, rDepth, rPc,
    gCounter, gWaiting, gJob, gStepped, gWpc, gCovers, gLeaked,
    oDone, oExecuting, oStored, oWaiters, oPc, oAnswer,
    eFlag, eWaiters, eUnposted, ePc

Sem == INSTANCE Semaphore WITH
    Tasks <- Peers, MaxValue <- Permits, Cancellable <- Victims, Mortal <- Victims,
    value <- sValue, waiters <- sWaiters, pc <- sPc

Lim == INSTANCE CapacityLimiter WITH
    Tasks <- Peers, Capacities <- Budgets, InitCapacity <- Budget,
    Cancellable <- Victims, Mortal <- Victims,
    capacity <- lCapacity, borrowed <- lBorrowed, waiters <- lWaiters, pc <- lPc

Bar == INSTANCE Barrier WITH
    Tasks <- Peers, Parties <- BarrierParties, Cancellable <- Victims,
    MaxControl <- BarrierControl,
    generation <- bGeneration, aborted <- bAborted, broken <- bBroken,
    waiters <- bWaiters, pc <- bPc, box <- bBox, gen <- bGen, control <- bControl

RW == INSTANCE RWMutex WITH
    Readers <- RWReaders, Writers <- RWWriters,
    Cancellable <- Victims \cap (RWReaders \cup RWWriters),
    MaxDepth <- RWDepth, MaxReaders <- RWCount,
    readers <- rReaders, writer <- rWriter, pending_writers <- rPending,
    read_waiters <- rReadWaiters, write_waiters <- rWriteWaiters,
    depth <- rDepth, pc <- rPc

WG == INSTANCE WaitGroup WITH
    Jobs <- TrackedJobs, Awaited <- {}, Hasty <- HastyJobs, Waiters <- JobWaiters, Cancellable <- JobWaiters,
    counter <- gCounter, waiting <- gWaiting, job <- gJob, stepped <- gStepped,
    wpc <- gWpc, covers <- gCovers, leaked <- gLeaked

One == INSTANCE Once WITH
    Tasks <- Peers, Cancellable <- Peers,
    isdone <- oDone, executing <- oExecuting, stored <- oStored,
    waiters <- oWaiters, pc <- oPc, answer <- oAnswer

Ev == INSTANCE Event WITH
    Tasks <- Peers, Cancellable <- Peers, Mortal <- Peers,
    flag <- eFlag, waiters <- eWaiters, unposted <- eUnposted, pc <- ePc

\* The constants of the instances are within their modules' assumptions.
ASSUME InstanceAssumptions ==
    /\ Sem!SemaphoreParams /\ Lim!LimiterParams /\ Bar!BarrierParams
    /\ RW!RWParams /\ WG!WaitGroupParams /\ One!OnceParams /\ Ev!EventParams

-----------------------------------------------------------------------------

semaphore == <<sValue, sWaiters, sPc>>
limiter == <<lCapacity, lBorrowed, lWaiters, lPc>>
barrier == <<bGeneration, bAborted, bBroken, bWaiters, bPc, bBox, bGen, bControl>>
rwmutex == <<rReaders, rWriter, rPending, rReadWaiters, rWriteWaiters, rDepth, rPc>>
waitgroup == <<gCounter, gWaiting, gJob, gStepped, gWpc, gCovers, gLeaked>>
once == <<oDone, oExecuting, oStored, oWaiters, oPc, oAnswer>>
event == <<eFlag, eWaiters, eUnposted, ePc>>
svars == <<which, vars, semaphore, limiter, barrier, rwmutex, waitgroup, once, event>>

SInit ==
    /\ which \in {"lock", "condition", "semaphore", "limiter", "barrier", "rwmutex",
                  "waitgroup", "once", "event"}
    /\ CInit /\ Sem!Init /\ Lim!Init /\ Bar!Init /\ RW!Init /\ WG!Init /\ One!Init /\ Ev!Init

\* Only the variables of the primitive named by which may change.
OthersStill ==
    /\ UNCHANGED which
    /\ IF which \in {"lock", "condition"} THEN TRUE ELSE UNCHANGED vars
    /\ IF which = "semaphore" THEN TRUE ELSE UNCHANGED semaphore
    /\ IF which = "limiter" THEN TRUE ELSE UNCHANGED limiter
    /\ IF which = "barrier" THEN TRUE ELSE UNCHANGED barrier
    /\ IF which = "rwmutex" THEN TRUE ELSE UNCHANGED rwmutex
    /\ IF which = "waitgroup" THEN TRUE ELSE UNCHANGED waitgroup
    /\ IF which = "once" THEN TRUE ELSE UNCHANGED once
    /\ IF which = "event" THEN TRUE ELSE UNCHANGED event

LockRuns == which = "lock" /\ Next /\ UNCHANGED cvars /\ OthersStill
ConditionRuns == which = "condition" /\ CNext /\ OthersStill
SemaphoreRuns == which = "semaphore" /\ Sem!Next /\ OthersStill
LimiterRuns == which = "limiter" /\ Lim!Next /\ OthersStill
BarrierRuns == which = "barrier" /\ Bar!Next /\ OthersStill
RWMutexRuns == which = "rwmutex" /\ RW!Next /\ OthersStill
WaitGroupRuns == which = "waitgroup" /\ WG!Next /\ OthersStill
OnceRuns == which = "once" /\ One!Next /\ OthersStill
EventRuns == which = "event" /\ Ev!Next /\ OthersStill

SNext ==
    \/ LockRuns \/ ConditionRuns \/ SemaphoreRuns \/ LimiterRuns
    \/ BarrierRuns \/ RWMutexRuns \/ WaitGroupRuns \/ OnceRuns \/ EventRuns

SSpec == SInit /\ [][SNext]_svars

\* The fairness of each module's FairSpec, for the primitive that runs: event
\* loops run their ready tasks, critical sections end, started jobs end.
SFairness ==
    /\ \A t \in Tasks :
         /\ WF_lvars(which = "lock" /\ Resume(t))
         /\ WF_lvars(which = "lock" /\ Unwind(t))
         /\ WF_lvars(which = "lock" /\ Release(t))
         /\ WF_vars(which = "condition" /\ WaitLoopStep(t))
         /\ WF_vars(which = "condition" /\ ReacquireUnwind(t))
         /\ WF_vars(which = "condition" /\ ReacquireRun(t))
         /\ WF_vars(which = "condition" /\ PlainRun(t))
    /\ \A t \in Peers :
         /\ WF_semaphore(which = "semaphore" /\ Sem!Resume(t))
         /\ WF_semaphore(which = "semaphore" /\ Sem!CancelWaiter(t))
         /\ WF_semaphore(which = "semaphore" /\ Sem!Release(t))
         /\ WF_barrier(which = "barrier" /\ Bar!Step(t))
         /\ WF_once(which = "once" /\ One!Step(t))
         /\ WF_event(which = "event" /\ Ev!Step(t))
    /\ \A t \in RWReaders :
         /\ WF_rwmutex(which = "rwmutex" /\ RW!ReadRun(t))
         /\ SF_rwmutex(which = "rwmutex" /\ RW!ReadLeave(t))
    /\ \A t \in RWWriters : WF_rwmutex(which = "rwmutex" /\ RW!WriteRun(t))
    /\ \A j \in TrackedJobs : WF_waitgroup(which = "waitgroup" /\ WG!JobStep(j))
    /\ \A w \in JobWaiters : WF_waitgroup(which = "waitgroup" /\ WG!WaiterRun(w))

SFairSpec == SSpec /\ SFairness

-----------------------------------------------------------------------------
(* What the instances promise; MutualExclusion, NoLostOwnership, NoBarging, *)
(* NoLostNotification and WaitReturnsLocked are those of Lock and Condition. *)

\* Every variable of every primitive keeps its type.
SyncTypesOK ==
    /\ CTypeOK
    /\ Sem!TypeOK /\ Lim!TypeOK /\ Bar!TypeOK /\ RW!TypeOK /\ WG!TypeOK /\ One!TypeOK /\ Ev!TypeOK

\* Semaphore: permits are conserved through hand-overs, cancellations before
\* and after the hand-over and closed loops, and none idles beside a waiter.
\* CapacityLimiter: the borrowed count is exactly the holders, whatever is
\* resized or cancelled, and no token idles beside a live waiter; while a
\* shrunken budget is exceeded, returned tokens are absorbed, and no step lends
\* past the budget.
PermitsConserved ==
    /\ [](Sem!PermitsConserved /\ Sem!NoIdlePermit)
    /\ [](Lim!BorrowedExact /\ Lim!NoIdleToken)
    /\ Lim!DeficitAbsorbed /\ Lim!NeverOverlent

\* Barrier: whoever passes does so in a round that Parties tasks completed with
\* distinct indices and no cancellation broke, and a completed round is
\* completed for all its parties, even when the next one is aborted or reset
\* before they run.
RoundsComplete == Bar!FullRound /\ Bar!BrokenRoundPassesNobody /\ Bar!AllOrNothing

\* AsyncRWMutex: writers are alone, grants in transit included; nobody queues
\* for a lock that is free for them; and the count of pending writers that
\* holds readers back is the number of writers really queued.
GrantsSound == RW!Exclusion /\ RW!NoLostGrant

\* AsyncWaitGroup: wait() returns only when the jobs outstanding at its call
\* have ended; a coroutine run, closed or discarded is taken off the counter
\* exactly once, and one whose Task was cancelled before its first step never is.
WaitCoversJobs == WG!WaitCoversJobs /\ WG!CountKept

\* AsyncOnce: everybody who is answered gets the outcome of the one run.  Event:
\* nobody waits for an event that is set and about which it will not be told.
Agreement == One!Agreement /\ Ev!NobodyStranded

\* Lock, Semaphore: a queued waiter is served, or cancelled.  Condition: a
\* notified waiter returns.  AsyncRWMutex: no writer starves under read
\* traffic, without cancellation.
QueuedServed == WaiterServed /\ NotifiedReturns /\ Sem!WaiterServed /\ RW!WriterServed

\* Barrier: when the tasks make whole rounds and nobody is cancelled, all pass.
\* AsyncWaitGroup: every wait() ends once the jobs have, if none of them was
\* cancelled before its first step.  AsyncOnce: every
\* caller returns, whoever is cancelled.  Event: set() releases all who wait.
EveryoneReturns ==
    /\ WG!WaitEnds /\ Ev!SetReleases
    /\ which = "barrier" => Bar!AllPass
    /\ which = "once" => One!EveryoneReturns
=============================================================================
