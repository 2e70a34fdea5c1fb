-------------------------------- MODULE Lock --------------------------------
(***************************************************************************)
(* The fair FIFO mutex Lock of _sync.py.  release() and the cancelled      *)
(* waiter's cleanup pass ownership to the next waiter under the internal   *)
(* threading.Lock; the waiter learns of it when its own event loop runs    *)
(* the queued event.set.  A waiter that was popped owns the lock from that *)
(* moment on, so "granted" is: suspended in acquire and not in waiters.    *)
(***************************************************************************)
EXTENDS Naturals, Sequences, Queues

CONSTANTS
    Tasks,
    NoTask,        \* no owner
    Cancellable,   \* tasks that may be cancelled while they wait
    Mortal         \* tasks that may end, or lose their loop, inside the lock

ASSUME LockAssumption ==
    /\ NoTask \notin Tasks
    /\ Cancellable \subseteq Tasks
    /\ Mortal \subseteq Tasks

VARIABLES
    owner,     \* _owner
    waiters,   \* _waiters, in arrival order
    pc         \* where each task is with respect to this lock

lvars == <<owner, waiters, pc>>

\* "finished" is a task that ended while it owned the lock (Task.done()),
\* "stranded" one whose event loop was closed under it.
PCs == {"idle", "waiting", "unwind", "holding", "finished", "stranded"}

TypeOK ==
    /\ owner \in Tasks \cup {NoTask}
    /\ waiters \in Seq(Tasks)
    /\ pc \in [Tasks -> PCs]

Init ==
    /\ owner = NoTask
    /\ waiters = <<>>
    /\ pc = [t \in Tasks |-> "idle"]

Goto(t, where) == pc' = [pc EXCEPT ![t] = where]

\* Mutants of Handover: wake the first waiter without making it the owner; free
\* the lock and leave the queue asleep; pass over live waiters.
HandoverUnowned(q, o, rest) ==
    o = NoTask /\ rest = IF q = <<>> THEN q ELSE SubSeq(q, 2, Len(q))
HandoverNobody(q, o, rest) == o = NoTask /\ rest = q
HandoverAny(q, o, rest) ==
    \/ q = <<>> /\ o = NoTask /\ rest = q
    \/ \E k \in DOMAIN q : o = q[k] /\ rest = SubSeq(q, k + 1, Len(q))

\* _release_locked on the queue q: hand the lock to the first waiter whose
\* loop still accepts callbacks, dropping the ones in front of it, or free it.
\* o and rest are the owner and the queue it leaves.
Handover(q, o, rest) ==
    LET Live(k) == pc[q[k]] \notin {"finished", "stranded"} IN
    \/ /\ \A k \in DOMAIN q : ~Live(k)
       /\ o = NoTask
       /\ rest = <<>>
    \/ \E k \in DOMAIN q :
         /\ Live(k)
         /\ \A j \in 1..(k - 1) : ~Live(j)
         /\ o = q[k]
         /\ rest = SubSeq(q, k + 1, Len(q))

ReleaseLocked(q) ==
    /\ owner' \in Tasks \cup {NoTask}
    /\ waiters' \in {SubSeq(q, k, Len(q)) : k \in 1..(Len(q) + 1)}
    /\ Handover(q, owner', waiters')

-----------------------------------------------------------------------------

OwnerDead == owner # NoTask /\ pc[owner] = "finished"

\* acquire up to its first suspension.  A dead owner is recovered first, which
\* may hand the lock to a queued waiter; then the caller takes a free lock or
\* queues.
Acquire(t) ==
    /\ pc[t] = "idle"
    /\ owner # t
    /\ \/ /\ ~OwnerDead
          /\ owner = NoTask
          /\ owner' = t
          /\ UNCHANGED waiters
          /\ Goto(t, "holding")
       \/ /\ ~OwnerDead
          /\ owner # NoTask
          /\ waiters' = Append(waiters, t)
          /\ UNCHANGED owner
          /\ Goto(t, "waiting")
       \/ /\ OwnerDead
          /\ Handover(waiters, NoTask, <<>>)
          /\ owner' = t
          /\ waiters' = <<>>
          /\ Goto(t, "holding")
       \/ /\ OwnerDead
          /\ \E k \in DOMAIN waiters :
               LET rest == SubSeq(waiters, k + 1, Len(waiters)) IN
               /\ Handover(waiters, waiters[k], rest)
               /\ owner' = waiters[k]
               /\ waiters' = Append(rest, t)
          /\ Goto(t, "waiting")

\* event.wait() returned: release() made this task the owner.
Resume(t) ==
    /\ pc[t] = "waiting"
    /\ ~InQueue(t, waiters)
    /\ Goto(t, "holding")
    /\ UNCHANGED <<owner, waiters>>

Cancel(t) ==
    /\ t \in Cancellable
    /\ pc[t] = "waiting"
    /\ Goto(t, "unwind")
    /\ UNCHANGED <<owner, waiters>>

\* Mutant of Unwind: a grant that arrived before the cancellation is dropped.
UnwindDrop(t) ==
    /\ pc[t] = "unwind"
    /\ Goto(t, "idle")
    /\ waiters' = Discard(waiters, t)
    /\ UNCHANGED owner

\* The except clause of acquire: leave the queue, or pass on an ownership that
\* was granted before the cancellation arrived.
Unwind(t) ==
    /\ pc[t] = "unwind"
    /\ Goto(t, "idle")
    /\ \/ /\ InQueue(t, waiters)
          /\ waiters' = Discard(waiters, t)
          /\ UNCHANGED owner
       \/ /\ ~InQueue(t, waiters)
          /\ owner = t
          /\ ReleaseLocked(waiters)
       \/ /\ ~InQueue(t, waiters)
          /\ owner # t
          /\ UNCHANGED <<owner, waiters>>

Release(t) ==
    /\ pc[t] = "holding"
    /\ owner = t
    /\ ReleaseLocked(waiters)
    /\ Goto(t, "idle")

\* The owner's task ends without releasing.
Finish(t) ==
    /\ t \in Mortal
    /\ pc[t] = "holding"
    /\ Goto(t, "finished")
    /\ UNCHANGED <<owner, waiters>>

\* The loop of a queued waiter is closed under it; its entry stays queued.
Strand(t) ==
    /\ t \in Mortal
    /\ pc[t] = "waiting"
    /\ InQueue(t, waiters)
    /\ Goto(t, "stranded")
    /\ UNCHANGED <<owner, waiters>>

-----------------------------------------------------------------------------

Step(t) == Acquire(t) \/ Resume(t) \/ Unwind(t) \/ Release(t)

Next == \E t \in Tasks : Step(t) \/ Cancel(t) \/ Finish(t) \/ Strand(t)

Spec == Init /\ [][Next]_lvars

\* Loops run their ready tasks, and critical sections end: an owner that is
\* alive releases the lock.
Fairness == \A t \in Tasks : WF_lvars(Resume(t)) /\ WF_lvars(Unwind(t)) /\ WF_lvars(Release(t))
FairSpec == Spec /\ Fairness

-----------------------------------------------------------------------------
(* Properties *)

Granted(t) == pc[t] \in {"waiting", "unwind"} /\ ~InQueue(t, waiters)

\* Mutual exclusion: a task inside the critical section is the owner, and a
\* grant in transit excludes everybody else as well.
MutualExclusion ==
    \A t \in Tasks : pc[t] = "holding" \/ Granted(t) => owner = t

\* No ownership is lost: a free lock has nobody queued for it, and a live
\* owner is inside the critical section or about to learn that it is.
NoLostOwnership ==
    /\ owner = NoTask => waiters = <<>>
    /\ owner # NoTask => pc[owner] \in {"holding", "finished"} \/ Granted(owner)

\* FIFO without barging: whoever becomes the owner passes no live waiter, be it
\* by release, by a cancelled grant passed on, or by recovery of a dead owner.
NoBarging ==
    [][\A u \in Tasks : owner' = u /\ owner # u =>
         \A k \in DOMAIN waiters :
             waiters[k] # u /\ pc[waiters[k]] \in {"waiting", "unwind"} =>
                 \E j \in 1..(k - 1) : waiters[j] = u]_lvars

\* A queued waiter gets the lock or is cancelled, when owners live.
WaiterServed == \A t \in Tasks : pc[t] = "waiting" ~> pc[t] # "waiting"

\* A dead owner never keeps the lock from a task that waits for it.
DeadOwnerRecycled ==
    \A t \in Tasks : (OwnerDead /\ pc[t] = "waiting") ~> pc[t] # "waiting" \/ ~OwnerDead
=============================================================================
