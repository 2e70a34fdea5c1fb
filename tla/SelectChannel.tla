---------------------------- MODULE SelectChannel ----------------------------
(***************************************************************************)
(* select_channel (primitives.py) over several RawAsyncChannels: the probe *)
(* phase, the registration of one arbiter future on every channel, the     *)
(* _select_wake callbacks, and the unregistration that ends each round.    *)
(*                                                                         *)
(* The other clients of the channels appear as the calls they make:        *)
(* try_send, try_recv and close.  A selector that loops registers a fresh  *)
(* arbiter, so an arbiter is a selector and a round.                       *)
(***************************************************************************)
EXTENDS Naturals, Sequences, FiniteSets

CONSTANTS
    Maxsize, Chans, Selectors, Items, NoItem, NoChan,
    MaxRounds,     \* bound: rounds a selector may loop
    Rivals,        \* channels that other receivers read too
    Cancellable    \* selectors that may be cancelled or time out

Arbiters == Selectors \X (1..MaxRounds)

Raw == INSTANCE RawChannel WITH Waiters <- Arbiters

\* What the constants are.
SelectParams ==
    /\ Maxsize \in Nat
    /\ MaxRounds \in Nat \ {0}
    /\ NoItem \notin Items
    /\ NoChan \notin Chans
    /\ Cancellable \subseteq Selectors
    /\ Rivals \subseteq Chans
    /\ Raw!RawParams

VARIABLES
    ch,         \* channel -> ChannelState
    pc,         \* where each selector is
    todo,       \* channels the current loop over channels has still to visit
    round,      \* the selector's current round
    ready,      \* the channel the arbiter's result names
    settled,    \* arbiters that are done (set or cancelled)
    inflight,   \* queued _select_wake callbacks: <<arbiter, channel>>
    unsent,     \* items no client has sent yet
    got         \* items a client has received

vars == <<ch, pc, todo, round, ready, settled, inflight, unsent, got>>

Returned == {"done", "default", "closed", "timeout", "cancelled"}
PCs == {"probe", "register", "claim", "await", "woken", "unwind"} \cup Returned

TypeOK ==
    /\ ch \in [Chans -> Raw!ChannelState]
    /\ pc \in [Selectors -> PCs]
    /\ todo \in [Selectors -> SUBSET Chans]
    /\ round \in [Selectors -> 1..MaxRounds]
    /\ ready \in [Selectors -> Chans \cup {NoChan}]
    /\ settled \subseteq Arbiters
    /\ inflight \subseteq Arbiters \X Chans
    /\ unsent \subseteq Items
    /\ got \subseteq Items

Init ==
    /\ ch = [c \in Chans |-> Raw!NewChannel]
    /\ pc = [w \in Selectors |-> "probe"]
    /\ todo = [w \in Selectors |-> Chans]
    /\ round = [w \in Selectors |-> 1]
    /\ ready = [w \in Selectors |-> NoChan]
    /\ settled = {}
    /\ inflight = {}
    /\ unsent = Items
    /\ got = {}

Arbiter(w) == <<w, round[w]>>
Goto(w, where) == pc' = [pc EXCEPT ![w] = where]
Signals(c, r) == {<<m.to, c>> : m \in {x \in r.wakes : x.kind = "ready"}}
AllDrained == \A c \in Chans : ch[c].is_closed /\ ch[c].buffer = <<>>

\* One method call on channel c.
Apply(c, r) ==
    /\ ch' = [ch EXCEPT ![c] = r.st]
    /\ inflight' = inflight \cup Signals(c, r)

\* The finally clause: the arbiter leaves every channel it is registered on.
\* chans is the channel table the preceding call of the same step left.
Unregistered(chans, w) ==
    [c \in Chans |-> Raw!unregister_select_watcher(chans[c], Arbiter(w)).st]

-----------------------------------------------------------------------------
(* The other clients *)

TrySend(c, i) ==
    /\ i \in unsent
    /\ LET r == Raw!try_send(ch[c], i) IN
       /\ Apply(c, r)
       /\ unsent' = IF r.ret = "ok" THEN unsent \ {i} ELSE unsent
    /\ UNCHANGED <<pc, todo, round, ready, settled, got>>

TryRecv(c) ==
    /\ c \in Rivals
    /\ LET r == Raw!try_recv(ch[c]) IN
       /\ r.ret = "item"
       /\ Apply(c, r)
       /\ got' = got \cup {r.item}
    /\ UNCHANGED <<pc, todo, round, ready, settled, unsent>>

Close(c) ==
    /\ ~ch[c].is_closed
    /\ Apply(c, Raw!close(ch[c]))
    /\ UNCHANGED <<pc, todo, round, ready, settled, unsent, got>>

-----------------------------------------------------------------------------
(* select_channel *)

\* Phase 1, one channel: return its item, or go on to the next channel.  The
\* pseudo-random start makes any channel the first one.
Probe(w) ==
    /\ pc[w] = "probe"
    /\ \E c \in todo[w] :
         LET r == Raw!try_recv(ch[c]) IN
         /\ Apply(c, r)
         /\ todo' = [todo EXCEPT ![w] = @ \ {c}]
         /\ IF r.ret = "item"
            THEN Goto(w, "done") /\ got' = got \cup {r.item}
            ELSE UNCHANGED <<pc, got>>
    /\ UNCHANGED <<round, ready, settled, unsent>>

\* The end of phase 1: the default, all channels closed and drained, a spent
\* timeout, or phase 2 with a fresh arbiter.
ProbeEnd(w) ==
    /\ pc[w] = "probe"
    /\ todo[w] = {}
    /\ \/ Goto(w, "default") /\ UNCHANGED todo
       \/ AllDrained /\ Goto(w, "closed") /\ UNCHANGED todo
       \/ ~AllDrained /\ w \in Cancellable /\ Goto(w, "timeout") /\ UNCHANGED todo
       \/ ~AllDrained /\ Goto(w, "register") /\ todo' = [todo EXCEPT ![w] = Chans]
    /\ UNCHANGED <<ch, round, ready, settled, inflight, unsent, got>>

\* Phase 2, one channel: register the arbiter, or find the channel ready.
Register(w) ==
    /\ pc[w] = "register"
    /\ \E c \in todo[w] :
         LET r == Raw!register_select_watcher(ch[c], Arbiter(w)) IN
         /\ Apply(c, r)
         /\ todo' = [todo EXCEPT ![w] = @ \ {c}]
         /\ IF r.ret = "registered"
            THEN UNCHANGED <<pc, ready>>
            ELSE Goto(w, "claim") /\ ready' = [ready EXCEPT ![w] = c]
    /\ UNCHANGED <<round, settled, unsent, got>>

\* try_recv on a channel that would not register the arbiter: return its item
\* through the finally clause, or go on to the next channel.
Claim(w) ==
    /\ pc[w] = "claim"
    /\ LET c == ready[w]
           r == Raw!try_recv(ch[c])
           next == [ch EXCEPT ![c] = r.st]
       IN /\ inflight' = inflight \cup Signals(c, r)
          /\ IF r.ret = "item"
             THEN Goto(w, "done") /\ got' = got \cup {r.item} /\ ch' = Unregistered(next, w)
             ELSE Goto(w, "register") /\ ch' = next /\ UNCHANGED got
    /\ UNCHANGED <<todo, round, ready, settled, unsent>>

\* The end of phase 2: every channel closed and drained, or await the arbiter.
Suspend(w) ==
    /\ pc[w] = "register"
    /\ todo[w] = {}
    /\ IF AllDrained
       THEN Goto(w, "closed") /\ ch' = Unregistered(ch, w)
       ELSE Goto(w, "await") /\ UNCHANGED ch
    /\ UNCHANGED <<todo, round, ready, settled, inflight, unsent, got>>

\* The arbiter is set: try_recv on the channel it names, return the item or
\* start another round; the finally clause runs either way.
Resume(w) ==
    /\ pc[w] = "woken"
    /\ LET c == ready[w]
           r == Raw!try_recv(ch[c])
       IN /\ ch' = Unregistered([ch EXCEPT ![c] = r.st], w)
          /\ inflight' = inflight \cup Signals(c, r)
          /\ \/ /\ r.ret = "item"
                /\ Goto(w, "done")
                /\ got' = got \cup {r.item}
                /\ UNCHANGED <<todo, round>>
             \/ /\ r.ret # "item"
                /\ round[w] < MaxRounds
                /\ round' = [round EXCEPT ![w] = @ + 1]
                /\ todo' = [todo EXCEPT ![w] = Chans]
                /\ Goto(w, "probe")
                /\ UNCHANGED got
    /\ UNCHANGED <<ready, settled, unsent>>

\* Cancellation or wait_for's timeout while suspended: the pending arbiter is
\* cancelled now, the finally clause runs when the task is next scheduled.
Cancel(w) ==
    /\ w \in Cancellable
    /\ pc[w] \in {"await", "woken"}
    /\ Goto(w, "unwind")
    /\ settled' = settled \cup {Arbiter(w)}
    /\ UNCHANGED <<ch, todo, round, ready, inflight, unsent, got>>

Unwind(w) ==
    /\ pc[w] = "unwind"
    /\ Goto(w, "cancelled")
    /\ ch' = Unregistered(ch, w)
    /\ UNCHANGED <<todo, round, ready, settled, inflight, unsent, got>>

\* _select_wake runs on the selector's loop, so only while that selector is
\* not executing: set a pending arbiter, or forward the wake-up.
SelectWake(a, c) ==
    /\ <<a, c>> \in inflight
    /\ pc[a[1]] \in {"await", "woken", "unwind"} \cup Returned
    /\ IF a \in settled
       THEN LET r == Raw!forward_select_wakeup(ch[c]) IN
            /\ ch' = [ch EXCEPT ![c] = r.st]
            /\ inflight' = (inflight \ {<<a, c>>}) \cup Signals(c, r)
            /\ UNCHANGED <<pc, ready, settled>>
       ELSE /\ settled' = settled \cup {a}
            /\ inflight' = inflight \ {<<a, c>>}
            /\ IF a = Arbiter(a[1]) /\ pc[a[1]] = "await"
               THEN Goto(a[1], "woken") /\ ready' = [ready EXCEPT ![a[1]] = c]
               ELSE UNCHANGED <<pc, ready>>
            /\ UNCHANGED ch
    /\ UNCHANGED <<todo, round, unsent, got>>

-----------------------------------------------------------------------------

SelectorStep(w) ==
    Probe(w) \/ ProbeEnd(w) \/ Register(w) \/ Claim(w) \/ Suspend(w) \/ Resume(w) \/ Unwind(w)

Callback == \E a \in Arbiters, c \in Chans : SelectWake(a, c)

Next ==
    \/ \E c \in Chans, i \in Items : TrySend(c, i)
    \/ \E c \in Chans : TryRecv(c) \/ Close(c)
    \/ \E w \in Selectors : SelectorStep(w) \/ Cancel(w)
    \/ Callback

Spec == Init /\ [][Next]_vars

FairSpec ==
    /\ Spec
    /\ \A w \in Selectors : WF_vars(SelectorStep(w))
    /\ WF_vars(Callback)

-----------------------------------------------------------------------------
(* Properties *)

Buffered(c) == Raw!Elems(ch[c].buffer)

\* A select never loses or duplicates an item, cancelled or timed out at any
\* point: every item is unsent, in exactly one slot of one buffer, or received,
\* and only one of these.
ItemsConserved ==
    /\ Items = unsent \cup got \cup UNION {Buffered(c) : c \in Chans}
    /\ unsent \cap got = {}
    /\ \A c \in Chans :
         /\ Buffered(c) \cap (unsent \cup got) = {}
         /\ \A d \in Chans : c # d => Buffered(c) \cap Buffered(d) = {}
         /\ \A j, k \in DOMAIN ch[c].buffer : j # k => ch[c].buffer[j] # ch[c].buffer[k]

\* A select that returned, raised or began a new round has left no watcher
\* behind on any channel.
NoGhostWatcher ==
    \A c \in Chans : \A a \in Raw!Elems(ch[c].watchers) :
        /\ a = Arbiter(a[1])
        /\ pc[a[1]] \notin Returned \cup {"probe"}

\* A selector that has been told of a ready channel, or is about to look.
Alert(c) ==
    \/ \E a \in Arbiters : <<a, c>> \in inflight
    \/ \E w \in Selectors : \/ pc[w] = "woken" /\ ready[w] = c
                            \/ pc[w] = "unwind" /\ ready[w] = c

\* The wake-up of a ready channel is never lost: while an item is buffered and
\* a selector watches the channel, some selector is on its way to it.
NoLostSelectWake ==
    \A c \in Chans : ch[c].buffer # <<>> /\ ch[c].watchers # <<>> => Alert(c)

\* maxsize is the maximum buffer capacity.
CapacityRespected ==
    Maxsize > 0 => \A c \in Chans : Len(ch[c].buffer) <= Maxsize

\* A select never hangs on channels that are all closed and empty: it raises
\* ChannelClosedError.
ClosedSelectReturns ==
    AllDrained ~> \A w \in Selectors : pc[w] \in Returned

\* A buffered item ends the select that nobody competes with.
ReadySelectReturns ==
    \A c \in Chans : ch[c].buffer # <<>> ~> \A w \in Selectors : pc[w] \in Returned
=============================================================================
