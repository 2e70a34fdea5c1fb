------------------------------ MODULE MCCancel ------------------------------
(***************************************************************************)
(* Cancellation, in seven scenes: three nested scopes with time-outs,      *)
(* clean-up and checkpoints ("scopes"); deadlines of two scopes reassigned *)
(* ("deadlines"), and the deadline and the shield of one ("toggle"), also  *)
(* by another thread; two scopes used in the ways that upset the ledger    *)
(* ("wild"); a group of two children entered twice by a host that is       *)
(* cancelled twice ("group") and one of three children ("nest"); a tree of *)
(* contexts ("context").                                                   *)
(***************************************************************************)
EXTENDS Naturals, Sequences, FiniteSets, TLC

CONSTANTS a, b, d, t1, t2, NoContext,
          Setup,                                        \* of the scenes with scopes
          GroupChildren, GroupEntries, GroupExternal,   \* in each scene with a group
          Contexts, Parent, Threads, Jobs   \* the tree of contexts and its users

Pair == {a, b}
Chain == {a, b, d}
ChainParent == (a :> NoContext) @@ (b :> a) @@ (d :> b)
Two == {t1, t2}

ScopeScenes == {"scopes", "deadlines", "toggle", "wild"}
GroupScenes == {"group", "nest"}
Scenes == ScopeScenes \cup GroupScenes \cup {"context"}

ChildrenOf == [group |-> Pair, nest |-> Chain]
EntriesOf == [group |-> 2, nest |-> 1]
CancelledFromOutside == [group |-> 2, nest |-> 0]

\* A move_on_at around or inside a fail_at, and a plain shield; a shielded plain
\* scope inside or around a move_on, whose deadline another thread moves; a fail_at
\* whose shield another thread and the host switch; a shielded move_on and a
\* plain scope, entered twice, which another thread cancels and shields.
Setups == [
    scopes |-> [
        scopes |-> {a, b, d}, kind |-> (a :> "move_on") @@ (b :> "fail") @@ (d :> "plain"),
        shielded |-> {d}, deadline |-> (a :> 1) @@ (b :> 1) @@ (d :> 2), foreign |-> {b},
        program |-> {"checkpoint", "cleanup"},
        time |-> 1, entries |-> 1, sets |-> 0, external |-> 1],
    deadlines |-> [
        scopes |-> {a, d}, kind |-> (a :> "move_on") @@ (d :> "plain"),
        shielded |-> {d}, deadline |-> (a :> 2) @@ (d :> 1), foreign |-> {d},
        program |-> {"deadline", "checkpoint", "catch"},
        time |-> 1, entries |-> 1, sets |-> 1, external |-> 1],
    toggle |-> [
        scopes |-> {b}, kind |-> (b :> "fail"),
        shielded |-> {}, deadline |-> (b :> 1), foreign |-> {b},
        program |-> {"deadline", "shield", "catch"},
        time |-> 1, entries |-> 1, sets |-> 3, external |-> 2],
    wild |-> [
        scopes |-> {a, d}, kind |-> (a :> "move_on") @@ (d :> "plain"),
        shielded |-> {a}, deadline |-> (a :> 1) @@ (d :> 1), foreign |-> {a, d},
        program |-> {"shield", "checkpoint"},
        time |-> 0, entries |-> 2, sets |-> 1, external |-> 0]]

VARIABLES
    scene,
    now, task, exc, stack, at, due, taken, outer, cancel_called, active, injected,
    saved, shield, deadline, handle, timers, ready, entries, sets, ext, passed, caught,
    gChild, gAsked, gCalled, gChildren, gConsumed, gExited, gCancelCalled, gOnstack,
    gHost, gPc, gExc, gStarting, gPending, gProcessed, gExcused, gErrors, gSaved,
    gResult, gReported, gEntries, gExt,
    xExisting, xCancelled, xKids, xTracked, xCalls, xPc, xOwner, xScope, xFut, xPosted

\* The scopes of a scene.
S(z) == INSTANCE CancelScope WITH
    Scopes <- Setup[z].scopes, Kind <- Setup[z].kind, Shielded <- Setup[z].shielded,
    Deadline <- Setup[z].deadline, Foreign <- Setup[z].foreign,
    Program <- Setup[z].program, MaxTime <- Setup[z].time,
    MaxEntries <- Setup[z].entries, MaxSets <- Setup[z].sets,
    MaxExternal <- Setup[z].external

\* The group of a scene.
G(z) == INSTANCE TaskGroup WITH
    Children <- GroupChildren[z], MaxEntries <- GroupEntries[z],
    MaxExternal <- GroupExternal[z],
    child <- gChild, asked <- gAsked, called <- gCalled, children <- gChildren,
    consumed <- gConsumed, exited <- gExited, cancel_called <- gCancelCalled,
    onstack <- gOnstack, host <- gHost, pc <- gPc, exc <- gExc, starting <- gStarting,
    pending <- gPending, processed <- gProcessed, excused <- gExcused,
    errors <- gErrors, saved <- gSaved, result <- gResult, reported <- gReported,
    entries <- gEntries, ext <- gExt

X == INSTANCE AsyncContext WITH
    existing <- xExisting, cancelled <- xCancelled, kids <- xKids, tracked <- xTracked,
    calls <- xCalls, pc <- xPc, owner <- xOwner, scope <- xScope, fut <- xFut,
    posted <- xPosted

\* The constants of the instances are within their modules' assumptions.
ASSUME InstanceAssumptions ==
    /\ \A z \in ScopeScenes : S(z)!ScopeParams
    /\ \A z \in GroupScenes : G(z)!GroupParams
    /\ X!ContextParams

scopevars == <<now, task, exc, stack, at, due, taken, outer, cancel_called, active,
               injected, saved, shield, deadline, handle, timers, ready, entries, sets,
               ext, passed, caught>>
groupvars == <<gChild, gAsked, gCalled, gChildren, gConsumed, gExited, gCancelCalled,
               gOnstack, gHost, gPc, gExc, gStarting, gPending, gProcessed, gExcused,
               gErrors, gSaved, gResult, gReported, gEntries, gExt>>
contextvars == <<xExisting, xCancelled, xKids, xTracked, xCalls, xPc, xOwner, xScope,
                 xFut, xPosted>>
mvars == <<scene, scopevars, groupvars, contextvars>>

\* The parts that are not on stage rest in an initial state.
MInit ==
    /\ scene \in Scenes
    /\ \E z \in ScopeScenes :
         /\ z = IF scene \in ScopeScenes THEN scene ELSE "scopes"
         /\ S(z)!Init
    /\ \E z \in GroupScenes :
         /\ z = IF scene \in GroupScenes THEN scene ELSE "group"
         /\ G(z)!Init
    /\ X!Init

ScopesRun ==
    /\ \E z \in ScopeScenes : scene = z /\ S(z)!Next
    /\ UNCHANGED <<scene, groupvars, contextvars>>
GroupsRun ==
    /\ \E z \in GroupScenes : scene = z /\ G(z)!Next
    /\ UNCHANGED <<scene, scopevars, contextvars>>
ContextRuns == scene = "context" /\ X!Next /\ UNCHANGED <<scene, scopevars, groupvars>>
MNext == ScopesRun \/ GroupsRun \/ ContextRuns

MSpec == MInit /\ [][MNext]_mvars

-----------------------------------------------------------------------------

\* CancelScope: a scope is bound to its host just while it is on the stack,
\* however it is used; and within SafeUse, what the scopes injected into
\* Task.cancelling() is taken back by them: no request is counted that nobody
\* made.
ScopesSound ==
    \A z \in ScopeScenes : scene = z =>
        S(z)!TypeOK /\ S(z)!ScopesBound /\ (S(z)!SafeUse => S(z)!Ledger)

\* CancelScope: while no scope was cancelled, a cancellation of the host from
\* outside reaches it through the scopes, their time-outs that did not fire and
\* their shields, if these are not switched and use is safe.  TaskGroup: it
\* reaches the host through the cancellation of the children.
CancellationKept ==
    /\ \A z \in ScopeScenes :
         scene = z /\ S(z)!SafeUse /\ "shield" \notin Setup[z].program => S(z)!ExternalKept
    /\ \A z \in GroupScenes : scene = z => G(z)!HostCancelKept

\* TaskGroup: no child outlives the block.
ChildrenFinished ==
    \A z \in GroupScenes : scene = z => G(z)!TypeOK /\ G(z)!ChildrenFinished

\* TaskGroup: every failure of a child is raised, once.
FailuresSurface == \A z \in GroupScenes : scene = z => G(z)!FailuresSurface

\* AsyncContext: cancelling a context reaches its descendants and its jobs,
\* those created and submitted meanwhile too, and nothing cancelled is kept.
CascadeComplete == scene = "context" => X!TypeOK /\ X!Cascade /\ X!NothingRetained
=============================================================================
