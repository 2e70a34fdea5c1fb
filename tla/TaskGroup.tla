------------------------------ MODULE TaskGroup ------------------------------
(***************************************************************************)
(* The TaskGroup of _taskgroup.py: children that succeed, fail, cancel     *)
(* themselves, ignore cancellations or spawn further children, and a host  *)
(* that runs the block, waits for the children behind a shield and decides *)
(* what to raise.  Everything happens on one event loop: the code between  *)
(* two awaits is one step.  Of the group's own CancelScope the model keeps *)
(* what the group reads or leaves behind.                                  *)
(***************************************************************************)
EXTENDS AsyncioTask, FiniteSets

CONSTANTS
    Children,
    MaxEntries,     \* bound: entries of the block
    MaxExternal     \* bound: cancellations of the host from outside

\* What the constants are.
GroupParams == IsFiniteSet(Children) /\ MaxEntries \in Nat /\ MaxExternal \in Nat

None == "none"

VARIABLES
    child,         \* "unborn", "pending", "ok", "failed" or "cancelled"
    asked,         \* children cancel() was called on while they were pending
    called,        \* children that called task_status.started()
    children, consumed, exited,
    cancel_called, onstack,    \* of the group's CancelScope
    host,          \* the host task
    pc,            \* "out", in the "body", in start() ("start"), in
                   \* _wait_children ("wait") or in the "drain" of a cancelled wait
    exc,           \* what the body raised, or None
    starting,      \* the child start() waits for
    pending, processed, excused, errors, saved,   \* locals of _wait_children
    result,        \* what the last block raised: None, "cancelled" or "error", an
                   \* exception of a child or of the body, or a group of them
    reported,      \* children whose exceptions it raised
    entries, ext

locals == <<pending, processed, excused, errors, saved>>
group == <<children, consumed, exited, cancel_called, onstack>>
outcome == <<result, reported>>
kids == <<child, asked, called>>
vars == <<kids, group, host, pc, exc, starting, locals, outcome, entries, ext>>

Done(c) == child[c] \in {"ok", "failed", "cancelled"}

TypeOK ==
    /\ child \in [Children -> {"unborn", "pending", "ok", "failed", "cancelled"}]
    /\ \A S \in {asked, called, children, consumed, pending, processed, excused, errors,
                 reported} : S \subseteq Children
    /\ exited \in BOOLEAN /\ cancel_called \in BOOLEAN /\ onstack \in BOOLEAN
    /\ host \in TaskType
    /\ pc \in {"out", "body", "start", "wait", "drain"}
    /\ exc \in {None, "cancelled", "error"} /\ result \in {None, "cancelled", "error"}
    /\ starting \in Children \cup {None}
    /\ saved \in Nat /\ entries \in 0..MaxEntries /\ ext \in 0..MaxExternal

Init ==
    /\ child = [c \in Children |-> "unborn"]
    /\ asked = {} /\ called = {}
    /\ children = {} /\ consumed = {} /\ exited = FALSE
    /\ cancel_called = FALSE /\ onstack = FALSE
    /\ host = FreshTask /\ pc = "out" /\ exc = None /\ starting = None
    /\ pending = {} /\ processed = {} /\ excused = {} /\ errors = {} /\ saved = 0
    /\ result = None /\ reported = {}
    /\ entries = 0 /\ ext = 0

Alive(S) == {c \in S : ~Done(c)}

-----------------------------------------------------------------------------
(* Children *)

\* A child ends.  Cancelled or not it may end in any way: a cancelled one may
\* finish its work or fail, one nobody cancelled may raise CancelledError.
End(c) ==
    /\ child[c] = "pending"
    /\ \E how \in {"ok", "failed", "cancelled"} : child' = [child EXCEPT ![c] = how]
    /\ UNCHANGED <<asked, called, group, host, pc, exc, starting, locals, outcome,
                   entries, ext>>

\* task_status.started()
Started(c) ==
    /\ child[c] = "pending" /\ c \notin called
    /\ called' = called \cup {c}
    /\ UNCHANGED <<child, asked, group, host, pc, exc, starting, locals, outcome,
                   entries, ext>>

\* A child takes a cancellation request back, say when a timeout of its own
\* absorbed it.
Uncancel(c) ==
    /\ child[c] = "pending" /\ c \in asked
    /\ asked' = asked \ {c}
    /\ UNCHANGED <<child, called, group, host, pc, exc, starting, locals, outcome,
                   entries, ext>>

\* Create the task and register it; after the exit it is cancelled instead.
Spawn(c) ==
    /\ child[c] = "unborn"
    /\ child' = [child EXCEPT ![c] = "pending"]
    /\ IF exited THEN asked' = asked \cup {c} /\ UNCHANGED children
                 ELSE children' = children \cup {c} /\ UNCHANGED asked

\* start_soon() by the host, by a child or by any other task of the loop,
\* before, in and after the block.
start_soon(c) ==
    /\ Spawn(c)
    /\ UNCHANGED <<called, consumed, exited, cancel_called, onstack, host, pc, exc,
                   starting, locals, outcome, entries, ext>>

\* cancel_all(): the posted cancellations, run by the loop one by one.
cancel_all(c) ==
    /\ c \in children /\ ~Done(c)
    /\ asked' = asked \cup {c}
    /\ UNCHANGED <<child, called, group, host, pc, exc, starting, locals, outcome,
                   entries, ext>>

-----------------------------------------------------------------------------
(* The block *)

Enter ==
    /\ pc = "out"
    /\ entries < MaxEntries /\ entries' = entries + 1
    /\ ~cancel_called
    /\ exited' = FALSE
    /\ children' = IF exited THEN {} ELSE children
    /\ consumed' = IF exited THEN {} ELSE consumed
    /\ onstack' = TRUE
    /\ pc' = "body" /\ exc' = None
    /\ UNCHANGED <<kids, cancel_called, host, starting, locals, outcome, ext>>

\* The body awaits something of its own.
BodyAwait ==
    /\ pc = "body" /\ host.state = "running" /\ exc = None
    /\ host' = Suspended(host)
    /\ UNCHANGED <<kids, group, pc, exc, starting, locals, outcome, entries, ext>>

BodyResume ==
    /\ pc = "body" /\ host.state = "suspended"
    /\ host' = Resumed(host)
    /\ exc' = IF Interrupted(host) THEN "cancelled" ELSE None
    /\ UNCHANGED <<kids, group, pc, starting, locals, outcome, entries, ext>>

\* The body raises an exception of its own.
BodyFail ==
    /\ pc = "body" /\ host.state = "running" /\ exc = None
    /\ exc' = "error"
    /\ UNCHANGED <<kids, group, host, pc, starting, locals, outcome, entries, ext>>

\* start() up to its await.
StartCall(c) ==
    /\ pc = "body" /\ host.state = "running" /\ exc = None
    /\ Spawn(c)
    /\ host' = Suspended(host)
    /\ pc' = "start" /\ starting' = c
    /\ UNCHANGED <<called, consumed, exited, cancel_called, onstack, exc, locals, outcome,
                   entries, ext>>

\* start() goes on: the child called started(), ended, or the host is cancelled.
\* A child that ended badly is consumed here, its siblings are cancelled.
StartReturn ==
    /\ pc = "start"
    /\ starting \in called \/ Done(starting) \/ Interrupted(host)
    /\ LET c == starting
           bad == \/ child[c] = "cancelled" /\ c \notin called
                  \/ child[c] = "failed"
           early == child[c] = "ok" /\ c \notin called
       IN /\ consumed' = IF bad THEN consumed \cup {c} ELSE consumed
          /\ asked' = IF bad THEN asked \cup Alive(children) ELSE asked
          /\ exc' = CASE child[c] = "failed" \/ early -> "error"
                      [] bad /\ child[c] = "cancelled" -> "cancelled"
                      [] ~bad /\ ~early -> IF Interrupted(host) THEN "cancelled" ELSE None
    /\ host' = Resumed(host)
    /\ pc' = "body" /\ starting' = None
    /\ UNCHANGED <<child, called, children, exited, cancel_called, onstack, locals,
                   outcome, entries, ext>>

\* The body handles what start() or its own code raised.
BodyCatch ==
    /\ pc = "body" /\ host.state = "running" /\ exc = "error"
    /\ exc' = None
    /\ UNCHANGED <<kids, group, host, pc, starting, locals, outcome, entries, ext>>

-----------------------------------------------------------------------------
(* __aexit__ *)

\* Mutant of Reportable: a consumed child is reported again.
ReportableTwice(c) == child[c] = "failed" \/ (child[c] = "cancelled" /\ c \notin excused)

\* collect_one appends the child's exception.
Reportable(c) ==
    /\ c \notin consumed
    /\ \/ child[c] = "failed"
       \/ child[c] = "cancelled" /\ c \notin excused /\ c \notin asked

\* absorb: the children not seen yet.
Absorb == children \ (processed \cup pending)

\* Leave the block with the exceptions es; k is the host, sv the snapshot of
\* the shield.
Leave(es, k, sv) ==
    /\ exited' = TRUE /\ onstack' = FALSE
    /\ pc' = "out"
    /\ host' = CancelTimes(k, sv)
    /\ result' = CASE exc = "cancelled" \/ es = {} -> exc
                   [] exc # "cancelled" /\ es # {} ->
                        IF exc = None /\ \E c \in es : es = {c} /\ child[c] = "cancelled"
                        THEN "cancelled" ELSE "error"
    /\ reported' = IF exc = "cancelled" THEN {} ELSE es
    /\ pending' = {} /\ processed' = {} /\ excused' = {} /\ errors' = {} /\ saved' = 0

\* What cancel_siblings does to the host: the scope injects a cancellation and
\* it is taken back.
SiblingsCancelled(k) == UncancelTimes(CancelTimes(k, 1), 1)

\* One turn of the loop of _wait_children: collect from the children that are
\* done, those waited for and the new ones; at the first exception cancel the
\* others, later on the new ones; wait again unless none is left.  cut are
\* children just cancelled.
Turn(k, sv, cut) ==
    LET seen == pending \cup Absorb
        es == errors \cup {c \in seen : Done(c) /\ Reportable(c)}
        rest == Alive(seen)
        hit == cut \cup (CASE es = {} -> {}
                           [] es # {} /\ errors = {} -> rest
                           [] es # {} /\ errors # {} -> rest \ pending)
        k2 == IF es # {} /\ ~cancel_called THEN SiblingsCancelled(k) ELSE k
    IN /\ asked' = asked \cup hit
       /\ cancel_called' = (cancel_called \/ es # {})
       /\ \/ rest = {} /\ Leave(es, k2, sv)
          \/ /\ rest # {}
             /\ pending' = rest
             /\ processed' = processed \cup (seen \ rest)
             /\ excused' = excused \cup hit
             /\ errors' = es /\ saved' = sv
             /\ host' = Suspended(k2) /\ pc' = "wait"
             /\ UNCHANGED <<exited, onstack, outcome>>
       /\ UNCHANGED <<child, called, children, consumed, exc, starting, entries, ext>>

\* __aexit__: a body that raised cancels the children first; then the shield
\* takes its snapshot and the first turn runs.
Exit ==
    /\ pc = "body" /\ host.state = "running"
    /\ Turn(UncancelTimes(host, host.cancels), host.cancels,
            IF exc = None THEN {} ELSE Alive(children))

\* asyncio.wait returned: somebody is done.
Wake ==
    /\ pc = "wait" /\ ~Interrupted(host)
    /\ \E c \in pending : Done(c)
    /\ Turn(Resumed(host), saved, {})

\* The host is cancelled while it waits: the shield gives its snapshot back, the
\* children are cancelled, and waited for before the CancelledError goes on.
\* The group's scope is not left on this path.
Interrupt ==
    /\ pc = "wait" /\ Interrupted(host)
    /\ LET k == CancelTimes(Resumed(host), saved)
           remaining == Alive(children)
       IN /\ exited' = TRUE
          /\ asked' = asked \cup remaining
          /\ pending' = remaining /\ processed' = {} /\ excused' = {} /\ errors' = {}
          /\ saved' = 0
          /\ \/ /\ remaining # {}
                /\ host' = Suspended(k) /\ pc' = "drain"
                /\ UNCHANGED outcome
             \/ /\ remaining = {}
                /\ host' = k /\ pc' = "out"
                /\ result' = "cancelled" /\ reported' = {}
    /\ UNCHANGED <<child, called, children, consumed, cancel_called, onstack, exc,
                   starting, entries, ext>>

\* Mutant of Drain: a second cancellation ends the drain.
DrainOnce ==
    /\ pc = "drain"
    /\ Interrupted(host) \/ Alive(pending) = {}
    /\ host' = Resumed(host) /\ pc' = "out"
    /\ result' = "cancelled" /\ reported' = {} /\ pending' = {}
    /\ UNCHANGED <<kids, group, exc, starting, processed, excused, errors, saved,
                   entries, ext>>

\* _drain_cancelled_children: cancellations are ignored until all are done.
Drain ==
    /\ pc = "drain"
    /\ \/ /\ Interrupted(host)
          /\ host' = Suspended(Resumed(host))
          /\ UNCHANGED <<pc, pending, outcome>>
       \/ /\ ~Interrupted(host) /\ Alive(pending) = {}
          /\ host' = Resumed(host) /\ pc' = "out"
          /\ result' = "cancelled" /\ reported' = {} /\ pending' = {}
    /\ UNCHANGED <<kids, group, exc, starting, processed, excused, errors, saved,
                   entries, ext>>

External ==
    /\ ext < MaxExternal /\ ext' = ext + 1
    /\ host' = CancelTimes(host, 1)
    /\ UNCHANGED <<kids, group, pc, exc, starting, locals, outcome, entries>>

Next ==
    \/ \E c \in Children :
         \/ End(c) \/ Started(c) \/ Uncancel(c) \/ start_soon(c) \/ cancel_all(c)
         \/ StartCall(c)
    \/ Enter \/ BodyAwait \/ BodyResume \/ BodyFail \/ BodyCatch \/ StartReturn
    \/ Exit \/ Wake \/ Interrupt \/ Drain \/ External

Spec == Init /\ [][Next]_vars

-----------------------------------------------------------------------------
(* Properties *)

Left == pc = "out" /\ entries > 0

\* "All child tasks are guaranteed finished here": also when the host is
\* cancelled, again and again, while it waits, and when children spawn others.
ChildrenFinished == Left => Alive(children) = {}

\* Unless the block ends with a CancelledError, the failure of every child is
\* raised: by the block, or by the start() call that waited for it, never by
\* both; and a block that ends normally had no failure.
FailuresSurface ==
    Left =>
        /\ result # "cancelled" =>
             \A c \in children : child[c] = "failed" => c \in reported \cup consumed
        /\ reported \cap consumed = {}
        /\ result = None => reported = {}

\* Cancelling siblings through the scope leaves the cancellations of the host
\* that came from outside in place: they are counted, and raised by the block
\* or due at the next await.
HostCancelKept ==
    Left => /\ host.cancels = ext
            /\ ext > 0 => host.must \/ result = "cancelled"

\* "must not leave a stale scope on the task-local stack": fails, see the README.
ScopePopped == Left => ~onstack
=============================================================================
