----------------------------- MODULE RawChannel -----------------------------
(***************************************************************************)
(* The mutex-protected state machine of RawAsyncChannel (channel.rs).      *)
(*                                                                         *)
(* Every Rust method locks the state, changes it, unlocks and then hands   *)
(* each popped waiter to call_soon_threadsafe.  A method is therefore one  *)
(* operator: from a channel state it computes the next state, the wakes it *)
(* dispatches and its result.  Dispatch is folded into the critical        *)
(* section: a dispatched wake is only a message in flight, so delaying it  *)
(* and delivering it late are the same thing.                              *)
(***************************************************************************)
EXTENDS Naturals, Sequences, Queues

CONSTANTS
    Maxsize,   \* buffer capacity, 0 = unbounded
    Waiters,   \* identities of the futures that may be registered
    Items,     \* payloads
    NoItem     \* "no payload"

\* What the parameters must satisfy; assumed by the modules that instantiate it.
RawParams == Maxsize \in Nat /\ NoItem \notin Items

\* ChannelState; getters, putters and select_watchers hold futures.
ChannelState ==
    [buffer : Seq(Items), is_closed : BOOLEAN, getters : Seq(Waiters),
     putters : Seq(Waiters), watchers : Seq(Waiters)]

NewChannel ==
    [buffer |-> <<>>, is_closed |-> FALSE, getters |-> <<>>,
     putters |-> <<>>, watchers |-> <<>>]

\* WakeTarget: a getter gets an "item", a putter a "go", everybody "closed"
\* when the channel closes, and a select watcher is told the channel is "ready".
WakeKinds == {"item", "go", "closed", "ready"}
Wakes == [to : Waiters, kind : WakeKinds, item : Items \cup {NoItem}]
Wake(w, kind) == [to |-> w, kind |-> kind, item |-> NoItem]
Handoff(w, i) == [to |-> w, kind |-> "item", item |-> i]

\* What a method returns: the state it leaves, the wakes it dispatches, its
\* result and the item it hands to the caller.
Reply(st, wakes, ret) == [st |-> st, wakes |-> wakes, ret |-> ret, item |-> NoItem]
Taken(st, wakes, i)   == [st |-> st, wakes |-> wakes, ret |-> "item", item |-> i]

\* Mutant of HasSpace: one slot too many.
HasSpaceOver(c) == Maxsize = 0 \/ Len(c.buffer) <= Maxsize

HasSpace(c) == Maxsize = 0 \/ Len(c.buffer) < Maxsize
PopWatcher(c) == [c EXCEPT !.watchers = Tail(@)]
\* Mutant of PopBuffer: the item is read and left in place.
PeekBuffer(c) == c

PopBuffer(c) == [c EXCEPT !.buffer = Tail(@)]

-----------------------------------------------------------------------------

\* Mutants of close: queued getters, or select watchers, are not woken.
closeSkipsGetters(c) ==
    Reply([c EXCEPT !.is_closed = TRUE, !.putters = <<>>],
          {Wake(w, "closed") : w \in Elems(c.putters)}, "ok")
closeSkipsWatchers(c) == Reply([c EXCEPT !.is_closed = TRUE, !.watchers = <<>>], {}, "ok")

close(c) ==
    IF c.is_closed THEN Reply(c, {}, "ok")
    ELSE Reply([c EXCEPT !.is_closed = TRUE, !.getters = <<>>,
                         !.putters = <<>>, !.watchers = <<>>],
               {Wake(w, "closed") : w \in Elems(c.getters) \cup Elems(c.putters)}
               \cup {Wake(w, "ready") : w \in Elems(c.watchers)},
               "ok")

\* A waiting getter takes the item directly, and then every putter is woken
\* while the buffer has room; a select watcher is only notified, and the item
\* is buffered with no look at the capacity; otherwise the capacity decides.
try_send(c, i) ==
    LET woken == IF Maxsize > 0 /\ Len(c.buffer) < Maxsize
                 THEN c.putters ELSE <<>>
    IN CASE c.is_closed -> Reply(c, {}, "closed")
         [] ~c.is_closed /\ c.getters # <<>> ->
              Reply([c EXCEPT !.getters = Tail(@),
                              !.putters = IF woken = <<>> THEN @ ELSE <<>>],
                    {Handoff(Head(c.getters), i)} \cup {Wake(w, "go") : w \in Elems(woken)},
                    "ok")
         [] ~c.is_closed /\ c.getters = <<>> /\ c.watchers # <<>> ->
              Reply([PopWatcher(c) EXCEPT !.buffer = Append(@, i)],
                    {Wake(Head(c.watchers), "ready")}, "ok")
         [] ~c.is_closed /\ c.getters = <<>> /\ c.watchers = <<>> ->
              IF HasSpace(c)
              THEN Reply([c EXCEPT !.buffer = Append(@, i)], {}, "ok")
              ELSE Reply(c, {}, "full")

\* Mutant of TakeItem: the newest item goes first.
TakeNewest(c) ==
    Taken([c EXCEPT !.buffer = SubSeq(@, 1, Len(@) - 1),
                    !.putters = IF @ = <<>> THEN @ ELSE Tail(@)],
          IF c.putters = <<>> THEN {} ELSE {Wake(Head(c.putters), "go")},
          c.buffer[Len(c.buffer)])

\* Pop an item and wake one putter for the slot it leaves.
TakeItem(c) ==
    IF Maxsize > 0 /\ c.putters # <<>>
    THEN Taken([PopBuffer(c) EXCEPT !.putters = Tail(@)],
               {Wake(Head(c.putters), "go")}, Head(c.buffer))
    ELSE Taken(PopBuffer(c), {}, Head(c.buffer))

try_recv(c) ==
    CASE c.buffer # <<>> -> TakeItem(c)
      [] c.buffer = <<>> /\ c.is_closed -> Reply(c, {}, "closed")
      [] c.buffer = <<>> /\ ~c.is_closed -> Reply(c, {}, "empty")

register_getter(c, w) ==
    CASE c.getters = <<>> /\ c.buffer # <<>> -> TakeItem(c)
      [] (c.getters # <<>> \/ c.buffer = <<>>) /\ c.is_closed -> Reply(c, {}, "closed")
      [] (c.getters # <<>> \/ c.buffer = <<>>) /\ ~c.is_closed ->
           Reply([c EXCEPT !.getters = Append(@, w)], {}, "registered")

\* A getter that is no longer queued was popped: the item it was popped for is
\* re-sent by its callback, and a buffered item goes to the next in line.
unregister_getter(c, w) ==
    LET removed == w \in Elems(c.getters)
        d == [c EXCEPT !.getters = Discard(@, w)]
    IN CASE removed \/ d.buffer = <<>> -> Reply(d, {}, "ok")
         [] ~removed /\ d.buffer # <<>> /\ d.getters # <<>> ->
              Reply([PopBuffer(d) EXCEPT !.getters = Tail(@)],
                    {Handoff(Head(d.getters), Head(d.buffer))}, "ok")
         [] ~removed /\ d.buffer # <<>> /\ d.getters = <<>> /\ d.watchers # <<>> ->
              Reply(PopWatcher(d), {Wake(Head(d.watchers), "ready")}, "ok")
         [] ~removed /\ d.buffer # <<>> /\ d.getters = <<>> /\ d.watchers = <<>> ->
              Reply(d, {}, "ok")

\* "space" is the True result: there is room and nothing was registered.
register_putter(c, w) ==
    CASE c.is_closed -> Reply(c, {}, "closed")
      [] ~c.is_closed /\ c.putters = <<>> /\ HasSpace(c) -> Reply(c, {}, "space")
      [] ~c.is_closed /\ ~(c.putters = <<>> /\ HasSpace(c)) ->
           Reply([c EXCEPT !.putters = Append(@, w)], {}, "registered")

\* A putter that is no longer queued was popped: the slot goes to the next.
unregister_putter(c, w) ==
    LET removed == w \in Elems(c.putters)
        d == [c EXCEPT !.putters = Discard(@, w)]
    IN IF ~removed /\ HasSpace(d) /\ d.putters # <<>>
       THEN Reply([d EXCEPT !.putters = Tail(@)], {Wake(Head(d.putters), "go")}, "ok")
       ELSE Reply(d, {}, "ok")

\* Mutant of register_select_watcher: the channel is not looked at again.
register_blindly(c, w) == Reply([c EXCEPT !.watchers = Append(@, w)], {}, "registered")

register_select_watcher(c, w) ==
    IF c.is_closed \/ c.buffer # <<>>
    THEN Reply(c, {}, "ready")
    ELSE Reply([c EXCEPT !.watchers = Append(@, w)], {}, "registered")

\* Mutant of unregister_select_watcher: the arbiter stays registered.
unregister_nothing(c, w) == Reply(c, {}, "ok")

unregister_select_watcher(c, w) ==
    Reply([c EXCEPT !.watchers = Discard(@, w)], {}, "ok")

forward_select_wakeup(c) ==
    IF c.buffer # <<>> /\ c.getters = <<>> /\ c.watchers # <<>>
    THEN Reply(PopWatcher(c), {Wake(Head(c.watchers), "ready")}, "ok")
    ELSE Reply(c, {}, "ok")
=============================================================================
