-------------------------------- MODULE Once --------------------------------
(***************************************************************************)
(* AsyncOnce (primitives.py): the first caller of do() runs the function,  *)
(* the others register under the lock and wait for the leader to publish.  *)
(***************************************************************************)
EXTENDS Naturals, FiniteSets

CONSTANTS Tasks, Cancellable

\* What the constants are.
OnceParams == Cancellable \subseteq Tasks

VARIABLES
    isdone, executing,   \* _done, _executing
    stored,              \* _result / _exc: "none", "value" or "error"
    waiters,             \* registered followers
    pc,                  \* where each task is
    answer               \* what a task's do() returned or raised

vars == <<isdone, executing, stored, waiters, pc, answer>>

PCs == {"start", "leading", "publishing", "following", "unwind", "returned"}
Answers == {"none", "value", "error", "cancelled"}

TypeOK ==
    /\ isdone \in BOOLEAN /\ executing \in BOOLEAN
    /\ stored \in {"none", "value", "error"}
    /\ waiters \subseteq Tasks
    /\ pc \in [Tasks -> PCs]
    /\ answer \in [Tasks -> Answers]

Init ==
    /\ isdone = FALSE /\ executing = FALSE
    /\ stored = "none"
    /\ waiters = {}
    /\ pc = [t \in Tasks |-> "start"]
    /\ answer = [t \in Tasks |-> "none"]

Return(t, a) ==
    /\ pc' = [pc EXCEPT ![t] = "returned"]
    /\ answer' = [answer EXCEPT ![t] = a]

\* Mutant of Enter: a run in progress is not noticed.
EnterAgain(t) ==
    /\ pc[t] = "start"
    /\ \/ isdone /\ Return(t, stored) /\ UNCHANGED executing
       \/ /\ ~isdone
          /\ executing' = TRUE
          /\ pc' = [pc EXCEPT ![t] = "leading"]
          /\ UNCHANGED answer
    /\ UNCHANGED <<isdone, stored, waiters>>

\* The locked head of do(): answer at once, lead, or register and follow.
Enter(t) ==
    /\ pc[t] = "start"
    /\ \/ isdone /\ Return(t, stored) /\ UNCHANGED <<executing, waiters>>
       \/ /\ ~isdone /\ ~executing
          /\ executing' = TRUE
          /\ pc' = [pc EXCEPT ![t] = "leading"]
          /\ UNCHANGED <<waiters, answer>>
       \/ /\ ~isdone /\ executing
          /\ waiters' = waiters \cup {t}
          /\ pc' = [pc EXCEPT ![t] = "following"]
          /\ UNCHANGED <<executing, answer>>
    /\ UNCHANGED <<isdone, stored>>

\* fn returns, raises or is cancelled; a cancellation is stored as an error
\* for the followers and raised as itself to the leader.
Settle(t) ==
    /\ pc[t] = "leading"
    /\ \E end \in {"value", "error"} \cup (IF t \in Cancellable THEN {"cancelled"} ELSE {}) :
         /\ stored' = IF end = "value" THEN "value" ELSE "error"
         /\ answer' = [answer EXCEPT ![t] = end]
    /\ pc' = [pc EXCEPT ![t] = "publishing"]
    /\ UNCHANGED <<isdone, executing, waiters>>

\* The finally clause: mark done and wake every follower, under the lock.
Publish(t) ==
    /\ pc[t] = "publishing"
    /\ isdone' = TRUE
    /\ waiters' = {}
    /\ pc' = [pc EXCEPT ![t] = "returned"]
    /\ UNCHANGED <<executing, stored, answer>>

\* A woken follower reads the stored outcome.
Resume(t) ==
    /\ pc[t] = "following"
    /\ t \notin waiters
    /\ Return(t, stored)
    /\ UNCHANGED <<isdone, executing, stored, waiters>>

Cancel(t) ==
    /\ t \in Cancellable
    /\ pc[t] = "following"
    /\ pc' = [pc EXCEPT ![t] = "unwind"]
    /\ UNCHANGED <<isdone, executing, stored, waiters, answer>>

Unwind(t) ==
    /\ pc[t] = "unwind"
    /\ waiters' = waiters \ {t}
    /\ Return(t, "cancelled")
    /\ UNCHANGED <<isdone, executing, stored>>

Step(t) == Enter(t) \/ Settle(t) \/ Publish(t) \/ Resume(t) \/ Unwind(t)

Next == \E t \in Tasks : Step(t) \/ Cancel(t)

Spec == Init /\ [][Next]_vars
FairSpec == Spec /\ \A t \in Tasks : WF_vars(Step(t))

-----------------------------------------------------------------------------
(* Properties *)

\* The function runs at most once, ever: the outcome, once stored, is final,
\* even when the leader is cancelled.
RunsOnce == [][stored # "none" => stored' = stored]_vars

\* Everybody who is answered gets the outcome of that one run.
Agreement ==
    \A t \in Tasks : pc[t] = "returned" /\ answer[t] # "cancelled" =>
        isdone /\ answer[t] = stored

\* Every caller returns.
EveryoneReturns == \A t \in Tasks : <>(pc[t] = "returned")
=============================================================================
