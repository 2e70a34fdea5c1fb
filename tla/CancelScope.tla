---------------------------- MODULE CancelScope ----------------------------
(***************************************************************************)
(* The CancelScope of _cancel.py: the scopes one task enters and leaves,   *)
(* cancelled by the task, by others on its loop, by timers and from other  *)
(* threads, and the ledger that takes back what a scope has injected into  *)
(* Task.cancelling().  __aenter__ and __aexit__ never await, so callbacks  *)
(* of the loop run only while the host is suspended; other threads may act *)
(* between any two sections of the scope's mutex.                          *)
(***************************************************************************)
EXTENDS AsyncioTask, Sequences, FiniteSets

CONSTANTS
    Scopes,
    Kind,          \* "plain", "fail" (fail_after, fail_at) or "move_on"
    Shielded,      \* scopes made with shield=True
    Deadline,      \* the deadline each scope is made with
    Foreign,       \* scopes that other threads operate on
    Program,       \* what the host's code does besides entering and leaving:
                   \* "checkpoint", "catch", "cleanup", "deadline", "shield"
    MaxTime,       \* bound: the clock
    MaxEntries,    \* bound: entries of a scope
    MaxSets,       \* bound: assignments to deadline and shield
    MaxExternal    \* bound: cancellations of the host that no scope asked for

Infinite == MaxTime + 1

\* What the constants are.
ScopeParams ==
    /\ IsFiniteSet(Scopes)
    /\ Kind \in [Scopes -> {"plain", "fail", "move_on"}]
    /\ Shielded \subseteq Scopes /\ Foreign \subseteq Scopes
    /\ MaxTime \in Nat /\ Deadline \in [Scopes -> 0..Infinite]
    /\ MaxEntries \in Nat /\ MaxSets \in Nat /\ MaxExternal \in Nat

\* The use of scopes for which the ledger balances.  A cancel() of another
\* thread during the __aenter__ of a move_on scope injects twice; a shield set
\* around a scope that has injected keeps that injection from it; and one that
\* another thread lifts while the scope is left keeps its snapshot for the next
\* entry.
SafeUse ==
    /\ \A s \in Foreign : Kind[s] # "move_on"
    /\ "shield" \in Program => MaxEntries <= 1 /\ \A r, s \in Scopes : r = s

VARIABLES
    now,            \* loop.time()
    task,           \* the host
    exc,            \* the exception in flight in it
    stack,          \* _scope_stack_var
    at,             \* the host is in its "body", or in __aenter__ ("arm",
                    \* "check") or __aexit__ ("leave") of the top scope
    due, taken,     \* locals of __aenter__ (0: expired) and of __aexit__
    outer,          \* the exception during whose handling a scope was entered
    cancel_called, active, injected, saved, shield, deadline, handle,
    timers,         \* the timers of the loop: scope and time
    ready,          \* what call_soon_threadsafe posted
    entries, sets,  \* counters for the bounds
    ext, passed,    \* cancellations from outside; injections of plain scopes
                    \* that left with the CancelledError they caused
    caught          \* the host's code swallowed a CancelledError

flags == <<cancel_called, active, injected, saved, shield, deadline, handle, timers>>
host == <<task, exc, stack, at, due, taken, outer>>
count == <<entries, sets, ext, passed, caught>>
vars == <<now, host, flags, ready, count>>

Exceptions == {"none", "cancelled", "timeout"}

TypeOK ==
    /\ now \in 0..MaxTime
    /\ task \in TaskType /\ exc \in Exceptions
    /\ stack \in Seq(Scopes)
    /\ at \in {"body", "arm", "check", "leave"}
    /\ due \in 0..Infinite /\ taken \in BOOLEAN
    /\ outer \in [Scopes -> Exceptions]
    /\ cancel_called \in [Scopes -> BOOLEAN] /\ active \in [Scopes -> BOOLEAN]
    /\ injected \in [Scopes -> BOOLEAN] /\ shield \in [Scopes -> BOOLEAN]
    /\ saved \in [Scopes -> Nat]
    /\ deadline \in [Scopes -> 0..Infinite] /\ handle \in [Scopes -> 0..MaxTime]
    /\ timers \subseteq Scopes \X (1..MaxTime)
    /\ ready \in Seq([op: {"deliver", "shield", "schedule"}, scope: Scopes, value: Nat])
    /\ entries \in [Scopes -> 0..MaxEntries] /\ sets \in 0..MaxSets
    /\ ext \in 0..MaxExternal /\ passed \in Nat /\ caught \in BOOLEAN

Init ==
    /\ now = 0
    /\ task = FreshTask /\ exc = "none" /\ stack = <<>>
    /\ at = "body" /\ due = 0 /\ taken = FALSE
    /\ outer = [s \in Scopes |-> "none"]
    /\ cancel_called = [s \in Scopes |-> FALSE]
    /\ active = [s \in Scopes |-> FALSE]
    /\ injected = [s \in Scopes |-> FALSE]
    /\ saved = [s \in Scopes |-> 0]
    /\ shield = [s \in Scopes |-> s \in Shielded]
    /\ deadline = Deadline
    /\ handle = [s \in Scopes |-> 0]
    /\ timers = {} /\ ready = <<>>
    /\ entries = [s \in Scopes |-> 0] /\ sets = 0
    /\ ext = 0 /\ passed = 0 /\ caught = FALSE

Top == stack[Len(stack)]
Pop == SubSeq(stack, 1, Len(stack) - 1)
InBody == task.state = "running" /\ at = "body"
\* Code of this loop runs: the host's own, or another task's while it waits.
OnLoop == InBody \/ task.state = "suspended"

\* The top scope, or one around it with no shield in between, is cancelled.
EffectivelyCancelled ==
    \E i \in DOMAIN stack :
        /\ cancel_called[stack[i]]
        /\ \A j \in (i + 1)..Len(stack) : ~shield[stack[j]]

\* _restore_saved_cancel_count: the host's requests, given back.
Restored(s, k) == IF shield[s] THEN CancelTimes(k, saved[s]) ELSE k
Spent(s) == IF shield[s] THEN [saved EXCEPT ![s] = 0] ELSE saved

DropTimer(s) ==
    /\ timers' = timers \ {<<s, handle[s]>>}
    /\ handle' = [handle EXCEPT ![s] = 0]

-----------------------------------------------------------------------------
(* __aenter__ *)

\* Bind the scope to the host, take the snapshot of a shield, push the scope
\* and read its deadline.
EnterBegin(s) ==
    /\ InBody
    /\ exc # "none" => "cleanup" \in Program
    /\ ~active[s] /\ \A i \in DOMAIN stack : stack[i] # s
    /\ entries[s] < MaxEntries
    /\ entries' = [entries EXCEPT ![s] = @ + 1]
    /\ active' = [active EXCEPT ![s] = TRUE]
    /\ injected' = [injected EXCEPT ![s] = FALSE]
    /\ saved' = IF shield[s] THEN [saved EXCEPT ![s] = task.cancels] ELSE saved
    /\ task' = IF shield[s] THEN UncancelTimes(task, task.cancels) ELSE task
    /\ stack' = Append(stack, s)
    /\ outer' = [outer EXCEPT ![s] = exc] /\ exc' = "none"
    /\ due' = IF deadline[s] <= now THEN 0 ELSE deadline[s]
    /\ at' = "arm"
    /\ UNCHANGED <<now, taken, cancel_called, shield, deadline, handle, timers, ready,
                   sets, ext, passed, caught>>

\* The early exits of __aenter__: undo the entry and raise e.
RaiseFromEnter(s, e, k) ==
    /\ task' = Restored(s, k)
    /\ saved' = Spent(s)
    /\ stack' = Pop
    /\ DropTimer(s)
    /\ active' = [active EXCEPT ![s] = FALSE]
    /\ exc' = e /\ at' = "body"
    /\ UNCHANGED injected

\* A move_on scope that is cancelled on entry cancels its own body.
InjectOnEntry(s) ==
    /\ task' = CancelTimes(task, 1)
    /\ injected' = [injected EXCEPT ![s] = TRUE]
    /\ at' = "body"
    /\ UNCHANGED <<exc, stack, active, saved, handle, timers>>

\* The deadline that was read has expired, or its timer is started.
EnterArm ==
    /\ task.state = "running" /\ at = "arm"
    /\ LET s == Top IN
       \/ /\ due = 0
          /\ cancel_called' = [cancel_called EXCEPT ![s] = TRUE]
          /\ CASE Kind[s] = "fail" -> RaiseFromEnter(s, "timeout", task)
               [] Kind[s] = "move_on" -> InjectOnEntry(s)
               [] Kind[s] = "plain" -> RaiseFromEnter(s, "cancelled", task)
       \/ /\ due > 0
          /\ at' = "check"
          /\ IF due = Infinite THEN UNCHANGED <<timers, handle>>
             ELSE /\ timers' = timers \cup {<<s, due>>}
                  /\ handle' = [handle EXCEPT ![s] = due]
          /\ UNCHANGED <<task, exc, stack, cancel_called, active, injected, saved>>
    /\ UNCHANGED <<now, due, taken, outer, shield, deadline, ready, count>>

EnterCheck ==
    /\ task.state = "running" /\ at = "check"
    /\ LET s == Top
           own == cancel_called[s]
           cleared == IF shield[s] THEN task ELSE UncancelTimes(task, task.cancels)
       IN \/ /\ ~EffectivelyCancelled
             /\ at' = "body"
             /\ UNCHANGED <<task, exc, stack, active, injected, saved, handle, timers>>
          \/ /\ EffectivelyCancelled
             /\ CASE own /\ Kind[s] = "fail" -> RaiseFromEnter(s, "timeout", task)
                  [] own /\ Kind[s] = "move_on" -> InjectOnEntry(s)
                  [] ~own \/ Kind[s] = "plain" -> RaiseFromEnter(s, "cancelled", cleared)
    /\ UNCHANGED <<now, due, taken, outer, cancel_called, shield, deadline, ready, count>>

-----------------------------------------------------------------------------
(* __aexit__, with or without an exception *)

ExitBegin ==
    /\ InBody /\ stack # <<>>
    /\ taken' = injected[Top]
    /\ injected' = [injected EXCEPT ![Top] = FALSE]
    /\ active' = [active EXCEPT ![Top] = FALSE]
    /\ at' = "leave"
    /\ UNCHANGED <<now, task, exc, stack, due, outer, cancel_called, saved, shield,
                   deadline, handle, timers, ready, count>>

\* Consume the scope's own injection.
TakeBack(k) == IF taken THEN UncancelTimes(k, 1) ELSE k

\* Mutant of Absorbs: a move_on scope absorbs every CancelledError.
AbsorbsAll(s) == Kind[s] = "move_on"

\* The scope ends a CancelledError that reaches it.
Absorbs(s) == Kind[s] = "move_on" /\ cancel_called[s]

ExitEnd ==
    /\ task.state = "running" /\ at = "leave"
    /\ LET s == Top
           k == Restored(s, task)
           ce == exc = "cancelled"
           converts == Kind[s] = "fail" /\ cancel_called[s] /\ ce
           left == CASE converts -> "timeout"
                     [] ~converts /\ Absorbs(s) /\ ce -> "none"
                     [] ~converts /\ ~(Absorbs(s) /\ ce) -> exc
       IN /\ task' = IF converts \/ Absorbs(s) \/ (cancel_called[s] /\ ~ce)
                     THEN TakeBack(k) ELSE k
          /\ passed' = IF ce /\ taken /\ Kind[s] = "plain" THEN passed + 1 ELSE passed
          /\ exc' = IF left = "none" THEN outer[s] ELSE left
          /\ saved' = Spent(s)
          /\ DropTimer(s)
    /\ stack' = Pop
    /\ taken' = FALSE /\ at' = "body"
    /\ UNCHANGED <<now, due, outer, cancel_called, active, injected, shield, deadline,
                   ready, entries, sets, ext, caught>>

-----------------------------------------------------------------------------
(* The host's code between the scopes *)

Await ==
    /\ InBody /\ exc = "none"
    /\ task' = Suspended(task)
    /\ UNCHANGED <<now, exc, stack, at, due, taken, outer, flags, ready, count>>

Resume ==
    /\ task.state = "suspended"
    /\ task' = Resumed(task)
    /\ exc' = IF Interrupted(task) THEN "cancelled" ELSE "none"
    /\ UNCHANGED <<now, stack, at, due, taken, outer, flags, ready, count>>

\* checkpoint() under an effective cancellation; otherwise it does nothing.
Checkpoint ==
    /\ "checkpoint" \in Program
    /\ InBody /\ exc = "none" /\ stack # <<>>
    /\ EffectivelyCancelled
    /\ task' = UncancelTimes(task, task.cancels)
    /\ exc' = "cancelled"
    /\ UNCHANGED <<now, stack, at, due, taken, outer, flags, ready, count>>

\* The body of a scope handles the exception.
Catch ==
    /\ "catch" \in Program
    /\ InBody /\ exc # "none" /\ stack # <<>>
    /\ exc' = "none"
    /\ caught' = (caught \/ exc = "cancelled")
    /\ UNCHANGED <<now, task, stack, at, due, taken, outer, flags, ready,
                   entries, sets, ext, passed>>

Finish ==
    /\ InBody /\ stack = <<>>
    /\ task' = [task EXCEPT !.state = "done"]
    /\ UNCHANGED <<now, exc, stack, at, due, taken, outer, flags, ready, count>>

\* task.cancel() by somebody who holds the task, not a scope.
External ==
    /\ task.state # "done" /\ ext < MaxExternal
    /\ ext' = ext + 1
    /\ task' = CancelTimes(task, 1)
    /\ UNCHANGED <<now, exc, stack, at, due, taken, outer, flags, ready,
                   entries, sets, passed, caught>>

-----------------------------------------------------------------------------
(* cancel(), the timers and the setters *)

Post(op, s, v) == ready' = Append(ready, [op |-> op, scope |-> s, value |-> v])

\* cancel() on the host's loop.
CancelNow(s) ==
    IF cancel_called[s] THEN UNCHANGED <<cancel_called, task, injected>>
    ELSE /\ cancel_called' = [cancel_called EXCEPT ![s] = TRUE]
         /\ IF active[s]
            THEN /\ task' = CancelTimes(task, 1)
                 /\ injected' = [injected EXCEPT ![s] = TRUE]
            ELSE UNCHANGED <<task, injected>>

hostButTask == <<exc, stack, at, due, taken, outer>>

cancel(s) ==
    /\ ~cancel_called[s]
    /\ OnLoop /\ CancelNow(s)
    /\ UNCHANGED <<now, hostButTask, active, saved, shield, deadline, handle, timers,
                   ready, count>>

\* cancel() in another thread: set the flag, post the delivery.
ForeignCancel(s) ==
    /\ s \in Foreign /\ ~cancel_called[s]
    /\ cancel_called' = [cancel_called EXCEPT ![s] = TRUE]
    /\ IF active[s] THEN Post("deliver", s, 0) ELSE UNCHANGED ready
    /\ UNCHANGED <<now, host, active, injected, saved, shield, deadline, handle, timers,
                   count>>

Tick ==
    /\ now < MaxTime /\ now' = now + 1
    /\ UNCHANGED <<host, flags, ready, count>>

\* _deadline_callback.
Expire(s, v) ==
    /\ task.state = "suspended"
    /\ <<s, v>> \in timers /\ v <= now
    /\ timers' = timers \ {<<s, v>>}
    /\ handle' = [handle EXCEPT ![s] = 0]
    /\ CancelNow(s)
    /\ UNCHANGED <<now, hostButTask, active, saved, shield, deadline, ready, count>>

\* _schedule, for the deadline v; tm and h are the timers and the handle before.
Schedule(s, v, tm, h) ==
    LET live == active[s] /\ deadline'[s] = v /\ ~cancel_called[s]
        arms == live /\ v > now
    IN /\ timers' = IF arms THEN tm \cup {<<s, v>>} ELSE tm
       /\ handle' = [handle EXCEPT ![s] = IF arms THEN v ELSE h]
       /\ IF live /\ v <= now THEN CancelNow(s) ELSE UNCHANGED <<cancel_called, task, injected>>

\* The deadline setter: the old timer is stopped, a new one scheduled.
SetDeadline(s, v, foreign) ==
    /\ "deadline" \in Program /\ sets < MaxSets
    /\ sets' = sets + 1
    /\ deadline' = [deadline EXCEPT ![s] = v]
    /\ IF foreign \/ ~active[s] \/ v = Infinite
       THEN /\ DropTimer(s)
            /\ IF active[s] /\ v # Infinite THEN Post("schedule", s, v) ELSE UNCHANGED ready
            /\ UNCHANGED <<cancel_called, task, injected>>
       ELSE Schedule(s, v, timers \ {<<s, handle[s]>>}, 0) /\ UNCHANGED ready
    /\ UNCHANGED <<now, hostButTask, active, saved, shield, entries, ext, passed, caught>>

\* _apply_shield: take the snapshot, or give it back.
ApplyShield(s, on) ==
    IF ~active[s] THEN UNCHANGED <<task, saved>>
    ELSE IF on
    THEN /\ saved' = [saved EXCEPT ![s] = @ + task.cancels]
         /\ task' = UncancelTimes(task, task.cancels)
    ELSE /\ saved' = [saved EXCEPT ![s] = 0]
         /\ task' = CancelTimes(task, saved[s])

\* The shield setter.
SetShield(s, foreign) ==
    /\ "shield" \in Program /\ sets < MaxSets
    /\ sets' = sets + 1
    /\ shield' = [shield EXCEPT ![s] = ~@]
    /\ IF foreign
       THEN /\ IF active[s] THEN Post("shield", s, IF shield[s] THEN 0 ELSE 1)
                            ELSE UNCHANGED ready
            /\ UNCHANGED <<task, saved>>
       ELSE ApplyShield(s, ~shield[s]) /\ UNCHANGED ready
    /\ UNCHANGED <<now, hostButTask, cancel_called, active, injected, deadline, handle,
                   timers, entries, ext, passed, caught>>

Assign(s) ==
    \E foreign \in BOOLEAN :
        /\ IF foreign THEN s \in Foreign ELSE OnLoop
        /\ \/ \E v \in 0..Infinite \ {deadline[s]} : SetDeadline(s, v, foreign)
           \/ SetShield(s, foreign)

\* Mutant of Deliver: a scope that was left still cancels its host.
DeliverLate(s) ==
    /\ task' = CancelTimes(task, 1)
    /\ injected' = [injected EXCEPT ![s] = TRUE]

\* _deliver: cancel the host unless it has left the scope.
Deliver(s) ==
    IF active[s]
    THEN /\ task' = CancelTimes(task, 1)
         /\ injected' = [injected EXCEPT ![s] = TRUE]
    ELSE UNCHANGED <<task, injected>>

\* The loop runs the first posted callback.
Callback ==
    /\ task.state = "suspended" /\ ready # <<>>
    /\ ready' = Tail(ready)
    /\ LET c == Head(ready) IN
       \/ /\ c.op = "deliver" /\ Deliver(c.scope)
          /\ UNCHANGED <<cancel_called, saved, deadline, handle, timers>>
       \/ /\ c.op = "shield" /\ ApplyShield(c.scope, c.value = 1)
          /\ UNCHANGED <<cancel_called, injected, deadline, handle, timers>>
       \/ /\ c.op = "schedule" /\ UNCHANGED <<deadline, saved>>
          /\ Schedule(c.scope, c.value, timers, handle[c.scope])
    /\ UNCHANGED <<now, hostButTask, active, shield, count>>

Next ==
    \/ \E s \in Scopes : EnterBegin(s) \/ cancel(s) \/ ForeignCancel(s) \/ Assign(s)
    \/ \E s \in Scopes, v \in 1..MaxTime : Expire(s, v)
    \/ EnterArm \/ EnterCheck \/ ExitBegin \/ ExitEnd
    \/ Await \/ Resume \/ Checkpoint \/ Catch \/ Finish \/ External \/ Tick \/ Callback

Spec == Init /\ [][Next]_vars

-----------------------------------------------------------------------------
(* Properties *)

\* A scope is bound to the host exactly while it is on the stack, nothing is
\* on the stack twice, and only a bound scope has an injection to take back.
ScopesBound ==
    /\ \A i, j \in DOMAIN stack : stack[i] = stack[j] => i = j
    /\ \A s \in Scopes :
         /\ active[s] => \E i \in DOMAIN stack : stack[i] = s
         /\ injected[s] => active[s]
         /\ (\E i \in DOMAIN stack : stack[i] = s) /\ ~active[s] => at = "leave" /\ Top = s

OnStack == {stack[i] : i \in DOMAIN stack}

\* What the snapshots of the scopes in S add up to.
Kept(S) == Cardinality(UNION {{s} \X (1..saved[s]) : s \in S})

\* The ledger: the requests counted in the host, and in the snapshots of the
\* scopes on the stack, never exceed those made from outside, those of scopes
\* still to take theirs back, and those that travel outward with their
\* CancelledError.  So a scope that was left owes the host nothing.
Ledger ==
    task.cancels + Kept(OnStack)
        <= ext + passed + Cardinality({s \in Scopes : injected[s]})
           + (IF taken THEN 1 ELSE 0)

\* A CancelledError is on its way to the host, in flight in it, or kept by a
\* shield that will give it back.
Outstanding ==
    \/ Interrupted(task) \/ exc = "cancelled"
    \/ \E i \in DOMAIN stack : outer[stack[i]] = "cancelled" \/ saved[stack[i]] > 0

\* While no scope was cancelled, a cancellation from outside is never
\* swallowed, whatever scopes and shields the host passes through.
ExternalKept == ext > 0 /\ ~caught /\ (\A s \in Scopes : ~cancel_called[s]) => Outstanding

\* "move_on_after must absorb only its own deadline cancel": the same when
\* scopes are cancelled as well.  Fails, see the README.
ExternalNeverAbsorbed == ext > passed /\ ~caught => Outstanding

\* "On exit the scope always consumes its own injection": outside all scopes,
\* with nothing in flight, an undisturbed host has no request left.  Fails, see
\* the README.
InjectionConsumed ==
    InBody /\ stack = <<>> /\ exc = "none" /\ ext = 0 /\ ~caught => task.cancels = 0
=============================================================================
