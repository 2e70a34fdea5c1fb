--------------------------- MODULE WsgiAdmission ---------------------------
(***************************************************************************)
(* How the WSGI worker (wsgi.py) admits connections: _handle_connection    *)
(* counts the handlers under _sync_task_lock, a threading.Lock, when they  *)
(* begin and when they end, and refuses one over the limit with a 503      *)
(* that it sends while it holds the lock.  Handlers are coroutines of the  *)
(* worker loops; one that waits for the lock blocks its whole loop.        *)
(***************************************************************************)
EXTENDS Naturals, FiniteSets

CONSTANTS
    Handlers,   \* the connections
    Home,       \* the loop of each
    Limit       \* _max_sync_workers * 3

Nobody == 0

AdmissionParams ==
    /\ IsFiniteSet(Handlers) /\ Nobody \notin Handlers
    /\ DOMAIN Home = Handlers /\ Limit \in Nat \ {0}

VARIABLES
    pc,      \* "new"; blocked on the lock on the way in ("entering") or out
             \* ("leaving"); "serving"; in the 503 ("refusing"); "over"
    lock,    \* who holds _sync_task_lock across an await
    count    \* _sync_task_count

vars == <<pc, lock, count>>

TypeOK ==
    /\ pc \in [Handlers -> {"new", "entering", "serving", "refusing", "leaving", "over"}]
    /\ lock \in Handlers \cup {Nobody} /\ count \in Nat

Init == pc = [c \in Handlers |-> "new"] /\ lock = Nobody /\ count = 0

\* A loop runs nothing else while one of its handlers waits for the lock.
Blocked(l) == \E c \in Handlers : Home[c] = l /\ pc[c] \in {"entering", "leaving"}
Runs(c) == pc[c] \in {"entering", "leaving"} \/ ~Blocked(Home[c])

Goto(c, where) == pc' = [pc EXCEPT ![c] = where]

\* The lock is taken when it is free; else the thread waits.
Enter(c) ==
    /\ pc[c] \in {"new", "entering"} /\ Runs(c)
    /\ \/ /\ lock = Nobody /\ count >= Limit
          /\ Goto(c, "refusing") /\ lock' = c /\ UNCHANGED count
       \/ /\ lock = Nobody /\ count < Limit
          /\ Goto(c, "serving") /\ count' = count + 1 /\ UNCHANGED lock
       \/ /\ lock # Nobody /\ pc[c] = "new"
          /\ Goto(c, "entering") /\ UNCHANGED <<lock, count>>

\* The drain and the end of the connection, then the lock is released.
Refused(c) ==
    /\ pc[c] = "refusing" /\ Runs(c)
    /\ Goto(c, "over") /\ lock' = Nobody /\ UNCHANGED count

\* The exchange is over, in whatever way.
Leave(c) ==
    /\ pc[c] \in {"serving", "leaving"} /\ Runs(c)
    /\ \/ /\ lock = Nobody
          /\ Goto(c, "over") /\ UNCHANGED lock
          /\ count' = IF count = 0 THEN 0 ELSE count - 1
       \/ /\ lock # Nobody /\ pc[c] = "serving"
          /\ Goto(c, "leaving") /\ UNCHANGED <<lock, count>>

Next == \E c \in Handlers : Enter(c) \/ Refused(c) \/ Leave(c)

Spec == Init /\ [][Next]_vars

-----------------------------------------------------------------------------
(* Properties *)

\* The count is that of the admitted handlers, which stay within the limit, at
\* every interleaving of the loops.
CountExact ==
    /\ count = Cardinality({c \in Handlers : pc[c] \in {"serving", "leaving"}})
    /\ count <= Limit

\* A coroutine that holds the lock across an await can go on: its loop is not
\* blocked by another handler that waits for that lock.
HolderRuns == lock # Nobody => Runs(lock)

\* Every connection comes to its end.
AllLeave == <>(\A c \in Handlers : pc[c] = "over")
=============================================================================
