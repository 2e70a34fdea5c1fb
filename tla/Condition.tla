------------------------------ MODULE Condition ------------------------------
(***************************************************************************)
(* The Condition of _sync.py on top of its Lock: wait releases the lock,   *)
(* suspends on an event of its own, and re-acquires the lock before it     *)
(* returns or raises; notify needs no lock.  A waiter popped by notify     *)
(* carries the notification; if it is cancelled it passes it on.           *)
(***************************************************************************)
EXTENDS Lock, FiniteSets

CONSTANT MaxNotify   \* bound: calls of notify

ASSUME ConditionAssumption == IsFiniteSet(Tasks) /\ MaxNotify \in Nat

VARIABLES
    cwaiters,      \* Condition._waiters
    wpc,           \* where each task is inside wait()
    interrupted,   \* _reacquire_lock swallowed a CancelledError
    owed,          \* history: notifications given and not yet consumed
    calls          \* notify calls made

cvars == <<cwaiters, wpc, interrupted, owed, calls>>
vars == <<lvars, cvars>>

WPCs == {"none",      \* not in wait()
         "enlisted",  \* registered, the lock not yet released
         "asleep",    \* suspended on the event
         "kicked",    \* cancelled while suspended on the event
         "notified",  \* in _reacquire_lock after a notification
         "raising"}   \* in _reacquire_lock after a cancellation

CTypeOK ==
    /\ TypeOK
    /\ cwaiters \in Seq(Tasks)
    /\ wpc \in [Tasks -> WPCs]
    /\ interrupted \in [Tasks -> BOOLEAN]
    /\ owed \in 0..Cardinality(Tasks)
    /\ calls \in 0..MaxNotify

CInit ==
    /\ Init
    /\ cwaiters = <<>>
    /\ wpc = [t \in Tasks |-> "none"]
    /\ interrupted = [t \in Tasks |-> FALSE]
    /\ owed = 0
    /\ calls = 0

WGoto(t, where) == wpc' = [wpc EXCEPT ![t] = where]

\* Mutant of Forward: nobody is woken.
ForwardNobody ==
    /\ owed' = IF cwaiters = <<>> THEN owed - 1 ELSE owed
    /\ UNCHANGED cwaiters

\* _forward_notify: wake the next waiter, or drop the notification when there
\* is none.
Forward ==
    /\ cwaiters' = IF cwaiters = <<>> THEN <<>> ELSE Tail(cwaiters)
    /\ owed' = IF cwaiters = <<>> THEN owed - 1 ELSE owed

-----------------------------------------------------------------------------
(* wait *)

\* Register under _waiters_lock; the lock must be held by the caller.
WaitEnlist(t) ==
    /\ pc[t] = "holding"
    /\ wpc[t] = "none"
    /\ cwaiters' = Append(cwaiters, t)
    /\ WGoto(t, "enlisted")
    /\ UNCHANGED <<lvars, interrupted, owed, calls>>

WaitRelease(t) ==
    /\ wpc[t] = "enlisted"
    /\ Release(t)
    /\ WGoto(t, "asleep")
    /\ UNCHANGED <<cwaiters, interrupted, owed, calls>>

WaitNotified(t) ==
    /\ wpc[t] = "asleep"
    /\ ~InQueue(t, cwaiters)
    /\ WGoto(t, "notified")
    /\ UNCHANGED <<lvars, cwaiters, interrupted, owed, calls>>

WaitCancel(t) ==
    /\ t \in Cancellable
    /\ wpc[t] = "asleep"
    /\ WGoto(t, "kicked")
    /\ UNCHANGED <<lvars, cwaiters, interrupted, owed, calls>>

\* The except clause: leave the queue, or forward the notification that had
\* already been given to this task.
WaitUnwind(t) ==
    /\ wpc[t] = "kicked"
    /\ WGoto(t, "raising")
    /\ \/ InQueue(t, cwaiters) /\ cwaiters' = Discard(cwaiters, t) /\ UNCHANGED owed
       \/ ~InQueue(t, cwaiters) /\ Forward
    /\ UNCHANGED <<lvars, interrupted, calls>>

\* _reacquire_lock: acquire again after every cancelled attempt.
Reacquire(t) ==
    /\ wpc[t] \in {"notified", "raising"}
    /\ Acquire(t) \/ Resume(t) \/ Cancel(t)
    /\ UNCHANGED cvars

ReacquireUnwind(t) ==
    /\ wpc[t] \in {"notified", "raising"}
    /\ Unwind(t)
    /\ interrupted' = [interrupted EXCEPT ![t] = TRUE]
    /\ UNCHANGED <<cwaiters, wpc, owed, calls>>

\* Mutant of WaitExit: return before the lock is held again.
WaitExitEarly(t) ==
    /\ wpc[t] = "notified"
    /\ WGoto(t, "none")
    /\ owed' = owed - 1
    /\ UNCHANGED <<lvars, cwaiters, interrupted, calls>>

\* The lock is held again: return, or raise; a notified task that must raise
\* forwards its notification.
WaitExit(t) ==
    /\ wpc[t] \in {"notified", "raising"}
    /\ pc[t] = "holding"
    /\ WGoto(t, "none")
    /\ interrupted' = [interrupted EXCEPT ![t] = FALSE]
    /\ \/ /\ wpc[t] = "notified" /\ ~interrupted[t]
          /\ owed' = owed - 1
          /\ UNCHANGED cwaiters
       \/ /\ wpc[t] = "notified" /\ interrupted[t]
          /\ Forward
       \/ /\ wpc[t] = "raising"
          /\ UNCHANGED <<cwaiters, owed>>
    /\ UNCHANGED <<lvars, calls>>

-----------------------------------------------------------------------------
(* notify, notify_all, and plain use of the lock *)

\* notify(n); notify_all is notify with the length it read a moment earlier.
Notify(n) ==
    /\ calls < MaxNotify
    /\ calls' = calls + 1
    /\ LET k == IF n < Len(cwaiters) THEN n ELSE Len(cwaiters) IN
       /\ cwaiters' = SubSeq(cwaiters, k + 1, Len(cwaiters))
       /\ owed' = owed + k
    /\ UNCHANGED <<lvars, wpc, interrupted>>

\* acquire and release outside wait.
LockStep(t) ==
    /\ wpc[t] = "none"
    /\ Acquire(t) \/ Resume(t) \/ Cancel(t) \/ Unwind(t) \/ Release(t)
    /\ UNCHANGED cvars

WaitStep(t) ==
    \/ WaitRelease(t) \/ WaitNotified(t) \/ WaitUnwind(t)
    \/ Reacquire(t) \/ ReacquireUnwind(t) \/ WaitExit(t)

CNext ==
    \/ \E t \in Tasks : WaitEnlist(t) \/ WaitCancel(t) \/ WaitStep(t) \/ LockStep(t)
    \/ \E n \in 1..Cardinality(Tasks) : Notify(n)

CSpec == CInit /\ [][CNext]_vars

\* What a task's loop runs without being asked: the steps of wait(), of the
\* re-acquisition, and of a plain use of the lock, which ends.
WaitLoopStep(t) == WaitRelease(t) \/ WaitNotified(t) \/ WaitUnwind(t) \/ WaitExit(t)
ReacquireRun(t) ==
    wpc[t] \in {"notified", "raising"} /\ (Acquire(t) \/ Resume(t)) /\ UNCHANGED cvars
PlainRun(t) ==
    wpc[t] = "none" /\ (Resume(t) \/ Unwind(t) \/ Release(t)) /\ UNCHANGED cvars

CFairSpec ==
    /\ CSpec
    /\ \A t \in Tasks :
         /\ WF_vars(WaitLoopStep(t))
         /\ WF_vars(ReacquireUnwind(t))
         /\ WF_vars(ReacquireRun(t))
         /\ WF_vars(PlainRun(t))

-----------------------------------------------------------------------------
(* Properties *)

\* Tasks that carry a notification which is not yet consumed.
Carriers ==
    {t \in Tasks : \/ wpc[t] \in {"enlisted", "asleep", "kicked"} /\ ~InQueue(t, cwaiters)
                   \/ wpc[t] = "notified"}

\* A notification is never lost or multiplied: each one given is carried by
\* exactly one task until wait() returns normally, or dropped because nobody
\* is left to notify, whatever is cancelled on the way.
NoLostNotification == Cardinality(Carriers) = owed

\* wait() comes back, normally or with CancelledError, only with the lock
\* held by the caller, who then is alone in the critical section.
WaitReturnsLocked ==
    [][\A t \in Tasks : wpc[t] # "none" /\ wpc'[t] = "none" =>
         owner' = t /\ \A u \in Tasks \ {t} : pc'[u] # "holding"]_vars

\* The lock keeps its promise under wait's release and re-acquisition.
LockStillExclusive == MutualExclusion /\ NoLostOwnership

\* A notified waiter gets the lock back and returns, when nobody is cancelled
\* and every holder releases.
NotifiedReturns ==
    \A t \in Tasks : (wpc[t] = "asleep" /\ ~InQueue(t, cwaiters)) ~> wpc[t] = "none"
=============================================================================
