---------------------------- MODULE AsyncioTask ----------------------------
(***************************************************************************)
(* What the code relies on of asyncio.Task, external to this repository:   *)
(* cancel() counts every request and throws at most one CancelledError per *)
(* suspension; uncancel() takes a request back and, when it was the last   *)
(* one, withdraws a throw that has not been scheduled yet.                 *)
(***************************************************************************)
EXTENDS Naturals

\* cancels is Task.cancelling(); must is _must_cancel, a throw due at the next
\* suspension; thrown says that the awaited future is cancelled already.
TaskType ==
    [state: {"running", "suspended", "done"}, cancels: Nat, must: BOOLEAN, thrown: BOOLEAN]

FreshTask == [state |-> "running", cancels |-> 0, must |-> FALSE, thrown |-> FALSE]

\* n calls of cancel().
CancelTimes(k, n) ==
    IF n = 0 \/ k.state = "done" THEN k
    ELSE IF k.state = "suspended" /\ ~k.thrown
         THEN [k EXCEPT !.cancels = @ + n, !.thrown = TRUE, !.must = n > 1]
         ELSE [k EXCEPT !.cancels = @ + n, !.must = TRUE]

\* n calls of uncancel().
UncancelTimes(k, n) ==
    IF n < k.cancels THEN [k EXCEPT !.cancels = @ - n]
    ELSE [k EXCEPT !.cancels = 0, !.must = @ /\ k.cancels = 0]

\* The task awaits a future; a throw that is due cancels that future at once.
Suspended(k) == [k EXCEPT !.state = "suspended", !.thrown = k.must, !.must = FALSE]

\* The await raises CancelledError.
Interrupted(k) == k.thrown \/ k.must

Resumed(k) == [k EXCEPT !.state = "running", !.thrown = FALSE, !.must = FALSE]
=============================================================================
