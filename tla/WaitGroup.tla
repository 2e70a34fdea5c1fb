------------------------------ MODULE WaitGroup ------------------------------
(***************************************************************************)
(* AsyncWaitGroup and its tracked coroutines (primitives.py) on            *)
(* RawAsyncWaitGroup (waitgroup.rs).  track() adds one to the counter; the *)
(* wrapper's _run takes it off when the coroutine ends, and close() or     *)
(* __del__ take it off for a coroutine that never ran, which they know by  *)
(* _stepped.  Nobody takes it off for a coroutine whose first step is a    *)
(* throw(): its Task was cancelled before it ran.                          *)
(***************************************************************************)
EXTENDS Naturals, FiniteSets

CONSTANTS
    Jobs,          \* coroutines given to track, wrap or holding
    Awaited,       \* the jobs run by a plain "await wg.track(c)"; the others
                   \* are driven by a Task through send() and throw()
    Hasty,         \* the jobs whose Task may be cancelled before its first step
    Waiters,       \* tasks that call wait()
    Cancellable    \* waiters that may be cancelled

\* What the constants are.
WaitGroupParams ==
    /\ IsFiniteSet(Jobs)
    /\ Awaited \subseteq Jobs
    /\ Hasty \subseteq Jobs \ Awaited
    /\ Cancellable \subseteq Waiters

VARIABLES
    counter, waiting,   \* WaitGroupInner: the counter and the registered waiters
    job,                \* where each job is
    stepped,            \* _TrackedCoroutine._stepped
    wpc,                \* where each waiter is
    covers,             \* history: jobs outstanding when a waiter called wait
    leaked              \* history: jobs that ended without done()

vars == <<counter, waiting, job, stepped, wpc, covers, leaked>>

Outstanding == {j \in Jobs : job[j] \in {"tracked", "running"}}

TypeOK ==
    /\ counter \in 0..Cardinality(Jobs)
    /\ waiting \subseteq Waiters
    /\ job \in [Jobs -> {"new", "tracked", "running", "ended", "gone"}]
    /\ stepped \in [Jobs -> BOOLEAN]
    /\ wpc \in [Waiters -> {"start", "suspended", "unwind", "returned", "cancelled"}]
    /\ covers \in [Waiters -> SUBSET Jobs]
    /\ leaked \in SUBSET Hasty

Init ==
    /\ counter = 0
    /\ waiting = {}
    /\ job = [j \in Jobs |-> "new"]
    /\ stepped = [j \in Jobs |-> FALSE]
    /\ wpc = [w \in Waiters |-> "start"]
    /\ covers = [w \in Waiters |-> {}]
    /\ leaked = {}

\* add(1); a delta of another size is not used by track, wrap and holding.
add ==
    /\ counter' = counter + 1
    /\ UNCHANGED waiting

\* done(): at zero the call raises and changes nothing; on reaching zero it
\* takes the whole waiter list and wakes it.
done ==
    /\ counter' = IF counter = 0 THEN 0 ELSE counter - 1
    /\ waiting' = IF counter = 1 THEN {} ELSE waiting

-----------------------------------------------------------------------------
(* Jobs *)

Track(j) ==
    /\ job[j] = "new"
    /\ add
    /\ job' = [job EXCEPT ![j] = "tracked"]
    /\ UNCHANGED <<stepped, wpc, covers, leaked>>

\* The first step, a send() of the Task, which marks the wrapper as stepped, or
\* of the coroutine that awaits it, which does not.
Start(j) ==
    /\ job[j] = "tracked"
    /\ job' = [job EXCEPT ![j] = "running"]
    /\ stepped' = [stepped EXCEPT ![j] = j \notin Awaited]
    /\ UNCHANGED <<counter, waiting, wpc, covers, leaked>>

\* The first step is a throw(): the Task was cancelled before it ran, and a Task
\* starts by throwing CancelledError into its coroutine.  _run() has not begun,
\* so it ends without entering its try and done() is not called; the wrapper is
\* stepped, so that neither close() nor __del__ makes up for it.
ThrowFirst(j) ==
    /\ j \in Hasty
    /\ job[j] = "tracked"
    /\ job' = [job EXCEPT ![j] = "ended"]
    /\ stepped' = [stepped EXCEPT ![j] = TRUE]
    /\ leaked' = leaked \cup {j}
    /\ UNCHANGED <<counter, waiting, wpc, covers>>

\* A coroutine that has begun returns, raises or is cancelled: the finally of
\* _run.
End(j) ==
    /\ job[j] = "running"
    /\ done
    /\ job' = [job EXCEPT ![j] = "ended"]
    /\ UNCHANGED <<stepped, wpc, covers, leaked>>

\* close() on a coroutine that never ran.
Close(j) ==
    /\ job[j] = "tracked"
    /\ done
    /\ job' = [job EXCEPT ![j] = "ended"]
    /\ stepped' = [stepped EXCEPT ![j] = TRUE]
    /\ UNCHANGED <<wpc, covers, leaked>>

\* Mutant of Delete: the job is taken off the counter although it ran.
DeleteTwice(j) ==
    /\ job[j] \in {"tracked", "ended"}
    /\ done
    /\ job' = [job EXCEPT ![j] = "gone"]
    /\ UNCHANGED <<stepped, wpc, covers, leaked>>

\* __del__, when the last reference to the wrapper goes.
Delete(j) ==
    /\ job[j] \in {"tracked", "ended"}
    /\ IF stepped[j] THEN UNCHANGED <<counter, waiting>> ELSE done
    /\ job' = [job EXCEPT ![j] = "gone"]
    /\ stepped' = [stepped EXCEPT ![j] = TRUE]
    /\ UNCHANGED <<wpc, covers, leaked>>

-----------------------------------------------------------------------------
(* wait() *)

Wait(w) ==
    /\ wpc[w] = "start"
    /\ covers' = [covers EXCEPT ![w] = Outstanding]
    /\ IF counter = 0
       THEN wpc' = [wpc EXCEPT ![w] = "returned"] /\ UNCHANGED waiting
       ELSE wpc' = [wpc EXCEPT ![w] = "suspended"] /\ waiting' = waiting \cup {w}
    /\ UNCHANGED <<counter, job, stepped, leaked>>

Resume(w) ==
    /\ wpc[w] = "suspended"
    /\ w \notin waiting
    /\ wpc' = [wpc EXCEPT ![w] = "returned"]
    /\ UNCHANGED <<counter, waiting, job, stepped, covers, leaked>>

Cancel(w) ==
    /\ w \in Cancellable
    /\ wpc[w] = "suspended"
    /\ wpc' = [wpc EXCEPT ![w] = "unwind"]
    /\ UNCHANGED <<counter, waiting, job, stepped, covers, leaked>>

Unwind(w) ==
    /\ wpc[w] = "unwind"
    /\ waiting' = waiting \ {w}
    /\ wpc' = [wpc EXCEPT ![w] = "cancelled"]
    /\ UNCHANGED <<counter, job, stepped, covers, leaked>>

-----------------------------------------------------------------------------

WaiterRun(w) == Resume(w) \/ Unwind(w)
JobStep(j) == Start(j) \/ ThrowFirst(j) \/ End(j) \/ Close(j) \/ Delete(j)

Next ==
    \/ \E j \in Jobs : Track(j) \/ JobStep(j)
    \/ \E w \in Waiters : Wait(w) \/ Resume(w) \/ Cancel(w) \/ Unwind(w)

Spec == Init /\ [][Next]_vars

\* Started work ends, objects are collected, and loops run their ready tasks.
FairSpec ==
    /\ Spec
    /\ \A j \in Jobs : WF_vars(JobStep(j))
    /\ \A w \in Waiters : WF_vars(WaiterRun(w))

-----------------------------------------------------------------------------
(* Properties *)

\* The counter is the jobs that have not ended and the leaked ones: whoever is
\* run, closed or discarded is taken off exactly once, and only a job that was
\* thrown into before it began stays on the counter.
CountKept == counter = Cardinality(Outstanding \cup leaked)

\* What the docstrings of track and _TrackedCoroutine promise: the wrapper
\* guards against counter leaks, and takes its count off however it ends.
CounterExact == counter = Cardinality(Outstanding)

\* wait() returns only after every job that was outstanding when it was called
\* has ended.
WaitCoversJobs ==
    \A w \in Waiters : wpc[w] = "returned" => covers[w] \cap Outstanding = {}

\* Every wait() ends once the jobs do, unless a job leaks its count: then
\* nothing but a cancellation ends it.
WaitEnds ==
    \A w \in Waiters : wpc[w] = "suspended" ~> (wpc[w] # "suspended" \/ leaked # {})
=============================================================================
