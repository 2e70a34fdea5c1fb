--------------------------- MODULE CapacityLimiter ---------------------------
(***************************************************************************)
(* The CapacityLimiter of _sync.py: a semaphore whose capacity can change  *)
(* while tokens are out.  capacity is int(total_tokens), the only value    *)
(* the code compares with; it is 0 for a budget below one token.           *)
(***************************************************************************)
EXTENDS Naturals, Sequences, FiniteSets, Queues

CONSTANTS
    Tasks,
    Capacities,    \* the values the budget may be set to
    InitCapacity,
    Cancellable,
    Mortal         \* tasks whose event loop may be closed while they wait

\* What the constants are.
LimiterParams ==
    /\ IsFiniteSet(Tasks)
    /\ Capacities \subseteq Nat
    /\ InitCapacity \in Capacities
    /\ Cancellable \subseteq Tasks
    /\ Mortal \subseteq Tasks

VARIABLES capacity, borrowed, waiters, pc
vars == <<capacity, borrowed, waiters, pc>>

PCs == {"idle", "waiting", "unwind", "holding", "stranded"}

TypeOK ==
    /\ capacity \in Capacities
    /\ borrowed \in 0..Cardinality(Tasks)
    /\ waiters \in Seq(Tasks)
    /\ pc \in [Tasks -> PCs]

Init ==
    /\ capacity = InitCapacity
    /\ borrowed = 0
    /\ waiters = <<>>
    /\ pc = [t \in Tasks |-> "idle"]

Goto(t, where) == pc' = [pc EXCEPT ![t] = where]
Live(k) == pc[waiters[k]] # "stranded"
Lower(a, b) == IF a < b THEN a ELSE b

\* The queue after waking the first n live waiters (all of them if there are
\* fewer), with the closed loops met on the way dropped.
PopLive(n) ==
    LET live == {k \in DOMAIN waiters : Live(k)}
        cut == {k \in live : Cardinality({j \in live : j <= k}) = n}
    IN IF n = 0 THEN waiters
       ELSE IF cut = {} THEN <<>>
       ELSE SubSeq(waiters, (CHOOSE k \in cut : TRUE) + 1, Len(waiters))

LiveCount == Cardinality({k \in DOMAIN waiters : Live(k)})

-----------------------------------------------------------------------------

Acquire(t) ==
    /\ pc[t] = "idle"
    /\ \/ /\ borrowed < capacity
          /\ borrowed' = borrowed + 1
          /\ UNCHANGED waiters
          /\ Goto(t, "holding")
       \/ /\ borrowed >= capacity
          /\ waiters' = Append(waiters, t)
          /\ UNCHANGED borrowed
          /\ Goto(t, "waiting")
    /\ UNCHANGED capacity

Resume(t) ==
    /\ pc[t] = "waiting"
    /\ ~InQueue(t, waiters)
    /\ Goto(t, "holding")
    /\ UNCHANGED <<capacity, borrowed, waiters>>

Cancel(t) ==
    /\ t \in Cancellable
    /\ pc[t] = "waiting"
    /\ Goto(t, "unwind")
    /\ UNCHANGED <<capacity, borrowed, waiters>>

\* Mutant of CancelWaiter: the token is passed on although the budget has shrunk.
CancelWaiterPass(t) ==
    /\ pc[t] = "unwind"
    /\ Goto(t, "idle")
    /\ waiters' = IF InQueue(t, waiters) THEN Discard(waiters, t) ELSE PopLive(1)
    /\ borrowed' = IF InQueue(t, waiters) \/ LiveCount > 0 THEN borrowed ELSE borrowed - 1
    /\ UNCHANGED capacity

\* _cancel_waiter: leave the queue; or pass the token on if the budget still
\* covers it, and give it back otherwise.
CancelWaiter(t) ==
    /\ pc[t] = "unwind"
    /\ Goto(t, "idle")
    /\ \/ /\ InQueue(t, waiters)
          /\ waiters' = Discard(waiters, t)
          /\ UNCHANGED borrowed
       \/ /\ ~InQueue(t, waiters)
          /\ IF borrowed <= capacity
             THEN /\ waiters' = PopLive(1)
                  /\ borrowed' = IF LiveCount > 0 THEN borrowed ELSE borrowed - 1
             ELSE /\ borrowed' = borrowed - 1
                  /\ UNCHANGED waiters
    /\ UNCHANGED capacity

\* release: return the token, then hand it to a waiter if the budget allows.
Release(t) ==
    /\ pc[t] = "holding"
    /\ borrowed > 0
    /\ Goto(t, "idle")
    /\ IF borrowed - 1 < capacity
       THEN /\ waiters' = PopLive(1)
            /\ borrowed' = IF LiveCount > 0 THEN borrowed ELSE borrowed - 1
       ELSE /\ borrowed' = borrowed - 1
            /\ UNCHANGED waiters
    /\ UNCHANGED capacity

\* The total_tokens setter: a larger budget wakes waiters up to it, a smaller
\* one leaves a deficit that later releases absorb.
SetTotal(c) ==
    /\ capacity' = c
    /\ LET n == IF borrowed < c THEN Lower(LiveCount, c - borrowed) ELSE 0 IN
       /\ borrowed' = borrowed + n
       /\ waiters' = IF borrowed < c /\ n < c - borrowed THEN <<>> ELSE PopLive(n)
    /\ UNCHANGED pc

Strand(t) ==
    /\ t \in Mortal
    /\ pc[t] = "waiting"
    /\ InQueue(t, waiters)
    /\ Goto(t, "stranded")
    /\ UNCHANGED <<capacity, borrowed, waiters>>

Next ==
    \/ \E t \in Tasks : \/ Acquire(t) \/ Resume(t) \/ Cancel(t)
                        \/ CancelWaiter(t) \/ Release(t) \/ Strand(t)
    \/ \E c \in Capacities : SetTotal(c)

Spec == Init /\ [][Next]_vars

-----------------------------------------------------------------------------
(* Properties *)

Holders ==
    {t \in Tasks : \/ pc[t] = "holding"
                   \/ pc[t] \in {"waiting", "unwind"} /\ ~InQueue(t, waiters)}

\* The borrowed count is exact: no resize, cancellation or closed loop makes a
\* token vanish or appear, so available + borrowed stays the total.
BorrowedExact == borrowed = Cardinality(Holders)

\* No token is idle while a task queues: a live waiter means the budget is
\* used up.
NoIdleToken == LiveCount > 0 => borrowed >= capacity

\* A resize below the tokens in use creates a deficit, but no step lends a
\* token past the budget in force.
NeverOverlent == [][borrowed' > borrowed => borrowed' <= capacity']_vars

\* While the budget is exceeded, a finished or cancelled task's token is
\* absorbed, never passed on: nobody new gets a token.
DeficitAbsorbed ==
    [][borrowed > capacity /\ capacity' = capacity => Holders' \subseteq Holders]_vars
=============================================================================
