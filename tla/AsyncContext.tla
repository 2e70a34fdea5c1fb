---------------------------- MODULE AsyncContext ----------------------------
(***************************************************************************)
(* The AsyncContext of context.py: a tree of contexts, created, used for   *)
(* submissions and cancelled by several threads at once.  A step is one    *)
(* section of a context's mutex, or one call made outside it.              *)
(***************************************************************************)
EXTENDS Naturals, Sequences, FiniteSets

CONSTANTS
    Contexts,
    Parent,      \* the parent of each context, or NoContext
    NoContext,
    Threads,     \* threads that create and cancel contexts
    Jobs         \* each is submitted once

\* What the constants are.
ContextParams ==
    /\ NoContext \notin Contexts
    /\ Parent \in [Contexts -> Contexts \cup {NoContext}]
    /\ IsFiniteSet(Jobs)

VARIABLES
    existing,     \* contexts whose __init__ has run
    cancelled,
    kids,         \* _children
    tracked,      \* the jobs in _futures and _scopes
    calls,        \* calls[t]: the stack of cancel() calls t is in
    pc,           \* how far submit() of a job is
    owner,        \* the context it was submitted to
    scope,        \* jobs whose CancelScope is cancelled
    fut,          \* the future of a job
    posted        \* jobs with a posted fut.cancel

vars == <<existing, cancelled, kids, tracked, calls, pc, owner, scope, fut, posted>>
jobvars == <<pc, owner, scope, fut, posted>>

\* A call of cancel(): what its snapshot still has to reach.
Call == [ctx: Contexts, detached: BOOLEAN, kids: SUBSET Contexts,
         scopes: SUBSET Jobs, futs: SUBSET Jobs]

TypeOK ==
    /\ existing \subseteq Contexts /\ cancelled \subseteq existing
    /\ kids \in [Contexts -> SUBSET Contexts]
    /\ tracked \in [Contexts -> SUBSET Jobs]
    /\ calls \in [Threads -> Seq(Call)]
    /\ pc \in [Jobs -> {"idle", "checked", "submitted", "returned"}]
    /\ owner \in [Jobs -> Contexts \cup {NoContext}]
    /\ scope \subseteq Jobs /\ posted \subseteq Jobs
    /\ fut \in [Jobs -> {"none", "pending", "done", "cancelled"}]

Init ==
    /\ existing = {} /\ cancelled = {}
    /\ kids = [x \in Contexts |-> {}]
    /\ tracked = [x \in Contexts |-> {}]
    /\ calls = [t \in Threads |-> <<>>]
    /\ pc = [j \in Jobs |-> "idle"]
    /\ owner = [j \in Jobs |-> NoContext]
    /\ scope = {} /\ posted = {}
    /\ fut = [j \in Jobs |-> "none"]

-----------------------------------------------------------------------------
(* cancel *)

\* The section of cancel() on x, as the innermost call above the calls rest: a
\* first caller marks the context and takes the snapshot.
Begin(t, x, rest) ==
    IF x \in cancelled
    THEN /\ calls' = [calls EXCEPT ![t] = rest]
         /\ UNCHANGED <<cancelled, kids, tracked>>
    ELSE /\ cancelled' = cancelled \cup {x}
         /\ calls' = [calls EXCEPT ![t] = Append(rest,
                [ctx |-> x, detached |-> FALSE, kids |-> kids[x],
                 scopes |-> tracked[x], futs |-> tracked[x]])]
         /\ kids' = [kids EXCEPT ![x] = {}]
         /\ tracked' = [tracked EXCEPT ![x] = {}]

cancel(t, x) ==
    /\ calls[t] = <<>> /\ x \in existing \ cancelled
    /\ Begin(t, x, <<>>)
    /\ UNCHANGED <<existing, jobvars>>

Depth(t) == Len(calls[t])
Inner(t) == calls[t][Depth(t)]
With(t, c) == [calls[t] EXCEPT ![Depth(t)] = c]

\* _remove_child of the parent.
Detach(t) ==
    /\ calls[t] # <<>> /\ ~Inner(t).detached
    /\ LET p == Parent[Inner(t).ctx] IN
       kids' = IF p = NoContext THEN kids ELSE [kids EXCEPT ![p] = @ \ {Inner(t).ctx}]
    /\ calls' = [calls EXCEPT ![t] = With(t, [Inner(t) EXCEPT !.detached = TRUE])]
    /\ UNCHANGED <<existing, cancelled, tracked, jobvars>>

\* child.cancel() for the next child of the snapshot.
CancelChild(t) ==
    /\ calls[t] # <<>> /\ Inner(t).detached
    /\ \E y \in Inner(t).kids : Begin(t, y, With(t, [Inner(t) EXCEPT !.kids = @ \ {y}]))
    /\ UNCHANGED <<existing, jobvars>>

\* scope.cancel() for the next job of the snapshot.
CancelJobScope(t) ==
    /\ calls[t] # <<>> /\ Inner(t).detached /\ Inner(t).kids = {}
    /\ \E j \in Inner(t).scopes :
         /\ scope' = scope \cup {j}
         /\ calls' = [calls EXCEPT ![t] = With(t, [Inner(t) EXCEPT !.scopes = @ \ {j}])]
    /\ UNCHANGED <<existing, cancelled, kids, tracked, pc, owner, fut, posted>>

\* Post fut.cancel for the next job of the snapshot, unless it is done.
CancelJobFuture(t) ==
    /\ calls[t] # <<>> /\ Inner(t).detached
    /\ Inner(t).kids = {} /\ Inner(t).scopes = {}
    /\ \E j \in Inner(t).futs :
         /\ posted' = IF fut[j] = "pending" THEN posted \cup {j} ELSE posted
         /\ calls' = [calls EXCEPT ![t] = With(t, [Inner(t) EXCEPT !.futs = @ \ {j}])]
    /\ UNCHANGED <<existing, cancelled, kids, tracked, pc, owner, scope, fut>>

Return(t) ==
    /\ calls[t] # <<>> /\ Inner(t).detached
    /\ Inner(t).kids = {} /\ Inner(t).scopes = {} /\ Inner(t).futs = {}
    /\ calls' = [calls EXCEPT ![t] = SubSeq(@, 1, Len(@) - 1)]
    /\ UNCHANGED <<existing, cancelled, kids, tracked, jobvars>>

-----------------------------------------------------------------------------
(* __init__ and submit *)

\* _add_child: a child of a cancelled context is cancelled, by its creator.
AddChild(t, p, x) ==
    IF p \in cancelled
    THEN Begin(t, x, <<>>)
    ELSE /\ kids' = [kids EXCEPT ![p] = @ \cup {x}]
         /\ UNCHANGED <<cancelled, tracked, calls>>

Create(t, x) ==
    /\ calls[t] = <<>> /\ x \notin existing
    /\ existing' = existing \cup {x}
    /\ \/ Parent[x] = NoContext /\ UNCHANGED <<cancelled, kids, tracked, calls>>
       \/ Parent[x] \in existing /\ AddChild(t, Parent[x], x)
    /\ UNCHANGED jobvars

\* submit up to its first unlock.
SubmitCheck(j, x) ==
    /\ pc[j] = "idle" /\ x \in existing
    /\ owner' = [owner EXCEPT ![j] = x]
    /\ \/ /\ x \in cancelled
          /\ fut' = [fut EXCEPT ![j] = "cancelled"]
          /\ pc' = [pc EXCEPT ![j] = "returned"]
       \/ /\ x \notin cancelled
          /\ pc' = [pc EXCEPT ![j] = "checked"]
          /\ UNCHANGED fut
    /\ UNCHANGED <<existing, cancelled, kids, tracked, calls, scope, posted>>

PoolSubmit(j) ==
    /\ pc[j] = "checked"
    /\ pc' = [pc EXCEPT ![j] = "submitted"]
    /\ fut' = [fut EXCEPT ![j] = "pending"]
    /\ UNCHANGED <<existing, cancelled, kids, tracked, calls, owner, scope, posted>>

\* Mutant of SubmitTrack: no second look at the flag.
SubmitTrackBlindly(j) ==
    /\ pc[j] = "submitted"
    /\ pc' = [pc EXCEPT ![j] = "returned"]
    /\ tracked' = [tracked EXCEPT ![owner[j]] = @ \cup {j}]
    /\ UNCHANGED <<existing, cancelled, kids, calls, owner, scope, fut, posted>>

\* The double check after the submission.
SubmitTrack(j) ==
    /\ pc[j] = "submitted"
    /\ pc' = [pc EXCEPT ![j] = "returned"]
    /\ \/ /\ owner[j] \in cancelled
          /\ scope' = scope \cup {j}
          /\ posted' = IF fut[j] = "pending" THEN posted \cup {j} ELSE posted
          /\ UNCHANGED tracked
       \/ /\ owner[j] \notin cancelled
          /\ tracked' = [tracked EXCEPT ![owner[j]] = @ \cup {j}]
          /\ UNCHANGED <<scope, posted>>
    /\ UNCHANGED <<existing, cancelled, kids, calls, owner, fut>>

\* The pool completes the future: with a CancelledError if the scope is cancelled.
Complete(j) ==
    /\ fut[j] = "pending"
    /\ fut' = [fut EXCEPT ![j] = IF j \in scope THEN "cancelled" ELSE "done"]
    /\ UNCHANGED <<existing, cancelled, kids, tracked, calls, pc, owner, scope, posted>>

\* The caller's loop runs a posted fut.cancel.
CancelFuture(j) ==
    /\ j \in posted
    /\ posted' = posted \ {j}
    /\ fut' = IF fut[j] = "pending" THEN [fut EXCEPT ![j] = "cancelled"] ELSE fut
    /\ UNCHANGED <<existing, cancelled, kids, tracked, calls, pc, owner, scope>>

\* _discard_future, the done callback.
Discard(j) ==
    /\ fut[j] \in {"done", "cancelled"} /\ owner[j] # NoContext
    /\ j \in tracked[owner[j]]
    /\ tracked' = [tracked EXCEPT ![owner[j]] = @ \ {j}]
    /\ UNCHANGED <<existing, cancelled, kids, calls, jobvars>>

Next ==
    \/ \E t \in Threads :
         \/ \E x \in Contexts : Create(t, x) \/ cancel(t, x)
         \/ Detach(t) \/ CancelChild(t) \/ CancelJobScope(t) \/ CancelJobFuture(t) \/ Return(t)
    \/ \E j \in Jobs :
         \/ \E x \in Contexts : SubmitCheck(j, x)
         \/ PoolSubmit(j) \/ SubmitTrack(j) \/ Complete(j) \/ CancelFuture(j) \/ Discard(j)

Spec == Init /\ [][Next]_vars

-----------------------------------------------------------------------------
(* Properties *)

\* The calls of cancel() under way.
Running(t) == {calls[t][k] : k \in DOMAIN calls[t]}
AllCalls == UNION {Running(t) : t \in Threads}

\* Cancelling a context reaches its whole subtree, and every job submitted to
\* it, before, during or after: a descendant or a job that is not cancelled yet
\* is in the hands of a cancel() under way, or of a submit() that will see the
\* flag.  Nothing stays behind for good.
Cascade ==
    /\ \A y \in existing :
         Parent[y] \in cancelled /\ y \notin cancelled => \E c \in AllCalls : y \in c.kids
    /\ \A j \in Jobs :
         owner[j] \in cancelled /\ pc[j] = "returned" /\ fut[j] = "pending" =>
             /\ j \in scope \/ \E c \in AllCalls : j \in c.scopes
             /\ j \in posted \/ \E c \in AllCalls : j \in c.futs

\* A context that is cancelled, and detached, is not kept by its parent, and
\* keeps neither children nor jobs itself.
NothingRetained ==
    \A x \in cancelled :
        /\ kids[x] = {} /\ tracked[x] = {}
        /\ (\A c \in AllCalls : c.ctx = x => c.detached) /\ Parent[x] # NoContext
             => x \notin kids[Parent[x]]
=============================================================================
