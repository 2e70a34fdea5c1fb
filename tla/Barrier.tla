------------------------------- MODULE Barrier -------------------------------
(***************************************************************************)
(* The Barrier of _sync.py.  A round ends when the last party arrives, or  *)
(* breaks when a waiting party is cancelled, or is thrown out by abort or  *)
(* reset; what a woken party returns is decided later, by the box the      *)
(* closing step filled and by the flags it then finds.                     *)
(***************************************************************************)
EXTENDS Naturals, Integers, Sequences, FiniteSets

CONSTANTS
    Tasks,         \* each calls wait() once
    Parties,
    Cancellable,
    MaxControl     \* bound: calls of abort and reset

\* What the constants are.
BarrierParams ==
    /\ Parties \in Nat \ {0}
    /\ Cancellable \subseteq Tasks
    /\ MaxControl \in Nat

VARIABLES
    generation, aborted, broken,
    waiters,    \* _waiters in arrival order
    pc,         \* where each task is; its outcome once it returned
    box,        \* box[0]: Unset, -1 (broken) or the arrival index
    gen,        \* the generation a task joined
    control     \* abort and reset calls so far

vars == <<generation, aborted, broken, waiters, pc, box, gen, control>>

Unset == -2
Failed == {"aborted", "broken", "reset"}
Returned == {"ok", "cancelled"} \cup Failed
PCs == {"start", "waiting", "unwind"} \cup Returned

TypeOK ==
    /\ generation \in Nat
    /\ aborted \in BOOLEAN /\ broken \in BOOLEAN
    /\ waiters \in Seq(Tasks)
    /\ pc \in [Tasks -> PCs]
    /\ box \in [Tasks -> -2..(Parties - 1)]
    /\ gen \in [Tasks -> Nat]
    /\ control \in 0..MaxControl

Init ==
    /\ generation = 0
    /\ aborted = FALSE /\ broken = FALSE
    /\ waiters = <<>>
    /\ pc = [t \in Tasks |-> "start"]
    /\ box = [t \in Tasks |-> Unset]
    /\ gen = [t \in Tasks |-> 0]
    /\ control = 0

InQueue(t) == \E k \in DOMAIN waiters : waiters[k] = t
Goto(t, where) == pc' = [pc EXCEPT ![t] = where]

\* Give the k-th waiting party the k-th value of v.
Fill(v) ==
    [t \in Tasks |-> IF InQueue(t) THEN v[CHOOSE k \in DOMAIN waiters : waiters[k] = t]
                     ELSE box[t]]

-----------------------------------------------------------------------------

\* Mutant of LastParty: the arriving task is not counted.
LastPartyLate == Len(waiters) = Parties

LastParty == Len(waiters) + 1 = Parties

\* wait up to its suspension: refuse, complete the round, or join it.
Arrive(t) ==
    /\ pc[t] = "start"
    /\ \/ /\ aborted \/ broken
          /\ Goto(t, IF aborted THEN "aborted" ELSE "broken")
          /\ UNCHANGED <<generation, waiters, box, gen>>
       \/ /\ ~aborted /\ ~broken
          /\ gen' = [gen EXCEPT ![t] = generation]
          /\ \/ /\ LastParty
                /\ box' = [Fill([k \in DOMAIN waiters |-> k]) EXCEPT ![t] = 0]
                /\ waiters' = <<>>
                /\ generation' = generation + 1
                /\ Goto(t, "ok")
             \/ /\ ~LastParty
                /\ waiters' = Append(waiters, t)
                /\ Goto(t, "waiting")
                /\ UNCHANGED <<generation, box>>
    /\ UNCHANGED <<aborted, broken, control>>

\* Mutant of Thrown: an abort of the next round counts for this one.
ThrownLate(t) == aborted

\* The barrier was aborted in the round t waits in.
Thrown(t) == aborted /\ gen[t] = generation

\* event.wait() returned: decide the outcome under the mutex.
Resume(t) ==
    /\ pc[t] = "waiting"
    /\ ~InQueue(t)
    /\ Goto(t, CASE Thrown(t) -> "aborted"
                 [] ~Thrown(t) /\ box[t] = -1 -> "broken"
                 [] ~Thrown(t) /\ box[t] = Unset -> "reset"
                 [] ~Thrown(t) /\ box[t] >= 0 -> "ok")
    /\ UNCHANGED <<generation, aborted, broken, waiters, box, gen, control>>

Cancel(t) ==
    /\ t \in Cancellable
    /\ pc[t] = "waiting"
    /\ Goto(t, "unwind")
    /\ UNCHANGED <<generation, aborted, broken, waiters, box, gen, control>>

\* The except clause: a party of the current round breaks the barrier.
Unwind(t) ==
    /\ pc[t] = "unwind"
    /\ Goto(t, "cancelled")
    /\ IF gen[t] = generation
       THEN /\ broken' = TRUE
            /\ box' = Fill([k \in DOMAIN waiters |-> -1])
            /\ waiters' = <<>>
            /\ generation' = generation + 1
       ELSE UNCHANGED <<broken, box, waiters, generation>>
    /\ UNCHANGED <<aborted, gen, control>>

Abort ==
    /\ control < MaxControl
    /\ control' = control + 1
    /\ aborted' = TRUE
    /\ broken' = TRUE
    /\ waiters' = <<>>
    /\ UNCHANGED <<generation, pc, box, gen>>

Reset ==
    /\ control < MaxControl
    /\ control' = control + 1
    /\ aborted' = FALSE
    /\ broken' = FALSE
    /\ waiters' = <<>>
    /\ generation' = generation + 1
    /\ UNCHANGED <<pc, box, gen>>

Step(t) == Arrive(t) \/ Resume(t) \/ Unwind(t)

Next ==
    \/ \E t \in Tasks : Step(t) \/ Cancel(t)
    \/ Abort
    \/ Reset

Spec == Init /\ [][Next]_vars

FairSpec == Spec /\ \A t \in Tasks : WF_vars(Step(t))

-----------------------------------------------------------------------------
(* Properties *)

\* The tasks that got an index in generation g.
Members(g) == {t \in Tasks : gen[t] = g /\ box[t] >= 0}

\* A party passes only with a full round: every success belongs to a
\* generation in which exactly Parties tasks got distinct indices 0..Parties-1,
\* whatever cancellation, abort or reset came in between.
FullRound ==
    \A t \in Tasks : pc[t] = "ok" =>
        /\ Cardinality(Members(gen[t])) = Parties
        /\ {box[u] : u \in Members(gen[t])} = 0..(Parties - 1)

\* A completed round is completed for all: no party that got an index is later
\* told that the barrier was aborted, broken or reset.
AllOrNothing ==
    \A t \in Tasks : box[t] >= 0 => pc[t] \notin Failed

\* A cancelled party never lets the others of its round pass: nobody passes in
\* a generation that one of its parties broke.
BrokenRoundPassesNobody ==
    \A t, u \in Tasks : box[u] = -1 /\ gen[u] = gen[t] => pc[t] # "ok"

\* Parties wait only for parties that are still to come: the queue never holds
\* a full round, nor anybody once the barrier is broken or aborted.
NoStuckRound ==
    /\ Len(waiters) < Parties
    /\ aborted \/ broken => waiters = <<>>

\* Rounds keep completing: when nobody is cancelled and the tasks make whole
\* rounds, every task passes, however arrivals and departures overlap.
AllPass == <>(\A t \in Tasks : pc[t] = "ok")
=============================================================================
