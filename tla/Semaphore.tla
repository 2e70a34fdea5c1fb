------------------------------ MODULE Semaphore ------------------------------
(***************************************************************************)
(* The Semaphore of _sync.py.  A permit travels from a releaser to the     *)
(* waiter it pops: the waiter owns it from the moment it leaves the queue, *)
(* before its loop runs event.set, and passes it on when it was cancelled  *)
(* in between.                                                             *)
(***************************************************************************)
EXTENDS Naturals, Sequences, FiniteSets, Queues

CONSTANTS
    Tasks,
    MaxValue,
    Cancellable,   \* tasks that may be cancelled while they wait
    Mortal         \* tasks whose event loop may be closed while they wait

\* What the constants are.
SemaphoreParams ==
    /\ IsFiniteSet(Tasks)
    /\ MaxValue \in Nat
    /\ Cancellable \subseteq Tasks
    /\ Mortal \subseteq Tasks

VARIABLES value, waiters, pc
vars == <<value, waiters, pc>>

PCs == {"idle", "waiting", "unwind", "holding", "stranded"}

TypeOK ==
    /\ value \in 0..MaxValue
    /\ waiters \in Seq(Tasks)
    /\ pc \in [Tasks -> PCs]

Init ==
    /\ value = MaxValue
    /\ waiters = <<>>
    /\ pc = [t \in Tasks |-> "idle"]

Goto(t, where) == pc' = [pc EXCEPT ![t] = where]

\* Mutant of PassPermit: the permit is handed over and returned as well.
PassPermitTwice ==
    /\ waiters' = IF waiters = <<>> THEN <<>> ELSE Tail(waiters)
    /\ value' = value + 1

\* Hand one permit over: the first waiter whose loop is open gets it and the
\* ones in front of it are dropped; with no such waiter it returns to value.
PassPermit ==
    LET Live(k) == pc[waiters[k]] # "stranded" IN
    \/ \E k \in DOMAIN waiters :
         /\ Live(k)
         /\ \A j \in 1..(k - 1) : ~Live(j)
         /\ waiters' = SubSeq(waiters, k + 1, Len(waiters))
         /\ UNCHANGED value
    \/ /\ \A k \in DOMAIN waiters : ~Live(k)
       /\ waiters' = <<>>
       /\ value' = value + 1

-----------------------------------------------------------------------------

Acquire(t) ==
    /\ pc[t] = "idle"
    /\ \/ /\ value > 0
          /\ value' = value - 1
          /\ UNCHANGED waiters
          /\ Goto(t, "holding")
       \/ /\ value = 0
          /\ waiters' = Append(waiters, t)
          /\ UNCHANGED value
          /\ Goto(t, "waiting")

Resume(t) ==
    /\ pc[t] = "waiting"
    /\ ~InQueue(t, waiters)
    /\ Goto(t, "holding")
    /\ UNCHANGED <<value, waiters>>

Cancel(t) ==
    /\ t \in Cancellable
    /\ pc[t] = "waiting"
    /\ Goto(t, "unwind")
    /\ UNCHANGED <<value, waiters>>

\* _cancel_waiter: leave the queue, or pass on the permit already received.
CancelWaiter(t) ==
    /\ pc[t] = "unwind"
    /\ Goto(t, "idle")
    /\ \/ InQueue(t, waiters) /\ waiters' = Discard(waiters, t) /\ UNCHANGED value
       \/ ~InQueue(t, waiters) /\ PassPermit

\* release by a holder.  The ValueError of a release without a matching
\* acquire is the guard value < max_value when nobody waits.
Release(t) ==
    /\ pc[t] = "holding"
    /\ waiters # <<>> \/ value < MaxValue
    /\ PassPermit
    /\ Goto(t, "idle")

\* The loop of a queued waiter is closed; its entry stays in the queue.
Strand(t) ==
    /\ t \in Mortal
    /\ pc[t] = "waiting"
    /\ InQueue(t, waiters)
    /\ Goto(t, "stranded")
    /\ UNCHANGED <<value, waiters>>

Next ==
    \E t \in Tasks : \/ Acquire(t) \/ Resume(t) \/ Cancel(t)
                     \/ CancelWaiter(t) \/ Release(t) \/ Strand(t)

Spec == Init /\ [][Next]_vars

\* Loops run their ready tasks and every holder releases.
FairSpec ==
    /\ Spec
    /\ \A t \in Tasks : WF_vars(Resume(t)) /\ WF_vars(CancelWaiter(t)) /\ WF_vars(Release(t))

-----------------------------------------------------------------------------
(* Properties *)

\* The tasks a permit belongs to: inside, or popped from the queue.
Holders ==
    {t \in Tasks : \/ pc[t] = "holding"
                   \/ pc[t] \in {"waiting", "unwind"} /\ ~InQueue(t, waiters)}

\* Permits are conserved across releases, hand-overs, cancellations before and
\* after the hand-over, and closed loops.
PermitsConserved == value + Cardinality(Holders) = MaxValue

\* A permit is never idle while a task queues for one.
NoIdlePermit == value > 0 => waiters = <<>>

\* FIFO without barging: a task that obtains a permit passes no live waiter.
NoBarging ==
    [][\A u \in Tasks : u \notin Holders /\ u \in Holders' =>
         \A k \in DOMAIN waiters :
             waiters[k] # u /\ pc[waiters[k]] # "stranded" =>
                 \E j \in 1..(k - 1) : waiters[j] = u]_vars

\* Every waiter that is not cancelled is served.
WaiterServed == \A t \in Tasks : pc[t] = "waiting" ~> pc[t] # "waiting"
=============================================================================
