-------------------------------- MODULE Event --------------------------------
(***************************************************************************)
(* Event (_sync.py): a flag that is set once, by any thread, and wakes the *)
(* tasks that wait for it, each on its own loop.                           *)
(***************************************************************************)
EXTENDS Naturals, FiniteSets

CONSTANTS
    Tasks,         \* each calls wait() again and again
    Cancellable,   \* tasks that may be cancelled
    Mortal         \* tasks whose loop may be closed while they wait

EventParams == IsFiniteSet(Tasks) /\ Cancellable \subseteq Tasks /\ Mortal \subseteq Tasks

VARIABLES
    flag,       \* _flag
    waiters,    \* _waiters
    unposted,   \* what set() took from them and has still to notify
    pc          \* "idle", "wait" (for its own event), "woken", "unwind" or "gone"

vars == <<flag, waiters, unposted, pc>>

TypeOK ==
    /\ flag \in BOOLEAN /\ waiters \subseteq Tasks /\ unposted \subseteq Tasks
    /\ pc \in [Tasks -> {"idle", "wait", "woken", "unwind", "gone"}]

Init == flag = FALSE /\ waiters = {} /\ unposted = {} /\ pc = [t \in Tasks |-> "idle"]

Goto(t, where) == pc' = [pc EXCEPT ![t] = where]

\* The section of set() under the lock.
Set ==
    /\ flag' = TRUE /\ waiters' = {} /\ unposted' = unposted \cup waiters
    /\ UNCHANGED pc

\* call_soon_threadsafe(event.set), for one waiter after the other; a closed loop
\* is passed over.
Post(t) ==
    /\ t \in unposted /\ unposted' = unposted \ {t}
    /\ IF pc[t] = "wait" THEN Goto(t, "woken") ELSE UNCHANGED pc
    /\ UNCHANGED <<flag, waiters>>

\* wait() returns at once when the flag is set.
Wait(t) ==
    /\ pc[t] = "idle" /\ ~flag
    /\ Goto(t, "wait") /\ waiters' = waiters \cup {t}
    /\ UNCHANGED <<flag, unposted>>

Resume(t) == pc[t] = "woken" /\ Goto(t, "idle") /\ UNCHANGED <<flag, waiters, unposted>>

Cancel(t) ==
    /\ t \in Cancellable /\ pc[t] \in {"wait", "woken"} /\ Goto(t, "unwind")
    /\ UNCHANGED <<flag, waiters, unposted>>

\* Its event stays in the list of a set() that took it: the late notification is
\* for an object nobody waits on, not for a later call of wait().
Unwind(t) ==
    /\ pc[t] = "unwind" /\ Goto(t, "idle")
    /\ waiters' = waiters \ {t} /\ unposted' = unposted \ {t} /\ UNCHANGED flag

\* The loop of t is closed under it; its event stays registered.
Die(t) == t \in Mortal /\ pc[t] \in {"wait", "woken"} /\ Goto(t, "gone") /\ UNCHANGED <<flag, waiters, unposted>>

Step(t) == Post(t) \/ Resume(t) \/ Unwind(t)

Next == Set \/ \E t \in Tasks : Wait(t) \/ Step(t) \/ Cancel(t) \/ Die(t)

-----------------------------------------------------------------------------
(* Properties *)

\* Nobody waits for an event that was set, unless set() is about to wake it.
NobodyStranded == \A t \in Tasks : flag /\ pc[t] = "wait" => t \in unposted

\* Once the event is set, every waiter goes on, whoever else is cancelled or has
\* lost its loop.
SetReleases == flag ~> \A t \in Tasks : pc[t] \in {"idle", "gone"}
=============================================================================
