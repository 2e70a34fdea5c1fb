------------------------------- MODULE Channel -------------------------------
(***************************************************************************)
(* The asynchronous Channel (primitives.py) on top of RawAsyncChannel:     *)
(* send, recv, their synchronous variants, close, cancellation, and the    *)
(* callbacks that complete a waiter's future on its own event loop.        *)
(*                                                                         *)
(* Each task makes one call, and runs on an event loop of its own, so two  *)
(* tasks interleave between any two critical sections.  A task has at most *)
(* one registered future, named after the task; the item a sender sends is *)
(* named after the sender.                                                 *)
(***************************************************************************)
EXTENDS Naturals, Sequences, FiniteSets

CONSTANTS Maxsize, Senders, Receivers, NoItem,
          Cancellable   \* the tasks that may be cancelled or time out

Tasks == Senders \cup Receivers

ASSUME ChannelAssumption ==
    /\ Maxsize \in Nat
    /\ IsFiniteSet(Tasks) /\ Senders \cap Receivers = {}
    /\ NoItem \notin Tasks
    /\ Cancellable \subseteq Tasks

Raw == INSTANCE RawChannel WITH Waiters <- Tasks, Items <- Senders
ASSUME RawAssumption == Raw!RawParams

VARIABLES
    ch,         \* the ChannelState behind the mutex
    pc,         \* where each task is
    val,        \* the item a receiver's future or call holds
    inflight,   \* callbacks queued by call_soon_threadsafe and not yet run
    accepted,   \* history: items for which try_send returned True
    taken       \* history: items handed to a receiver

vars == <<ch, pc, val, inflight, accepted, taken>>

Running == {"start", "register", "retry"}
Suspended == {"await", "woken", "failed", "unwind"}
Returned == {"done", "closed", "cancelled", "full", "empty"}

TypeOK ==
    /\ ch \in Raw!ChannelState
    /\ pc \in [Tasks -> Running \cup Suspended \cup Returned]
    /\ val \in [Tasks -> Senders \cup {NoItem}]
    /\ inflight \subseteq Raw!Wakes
    /\ accepted \in Seq(Senders)
    /\ taken \in Seq(Senders)

Init ==
    /\ ch = Raw!NewChannel
    /\ pc = [t \in Tasks |-> "start"]
    /\ val = [t \in Tasks |-> NoItem]
    /\ inflight = {}
    /\ accepted = <<>>
    /\ taken = <<>>

\* The effect of one Rust method on everything but the caller.
Apply(r) ==
    /\ ch' = r.st
    /\ inflight' = inflight \cup r.wakes

\* The histories after try_send of i answered r: a hand-off is also taken.
Record(r, i) ==
    /\ accepted' = IF r.ret = "ok" THEN Append(accepted, i) ELSE accepted
    /\ taken' = IF \E m \in r.wakes : m.kind = "item" THEN Append(taken, i) ELSE taken

Goto(t, where) == pc' = [pc EXCEPT ![t] = where]

-----------------------------------------------------------------------------
(* send, send_sync, try_send *)

\* One try_send by s, which goes on to onFull when there is no room.
AttemptSend(s, onFull) ==
    /\ LET r == Raw!try_send(ch, s) IN
       /\ Apply(r)
       /\ Record(r, s)
       /\ Goto(s, CASE r.ret = "ok" -> "done"
                    [] r.ret = "closed" -> "closed"
                    [] r.ret = "full" -> onFull)
    /\ UNCHANGED val

\* With no room, the asynchronous send goes on to register; try_send, and
\* send_sync when its time is up, give up ("full").  The polling of send_sync
\* in between changes nothing.
SendTry(s) ==
    /\ pc[s] = "start"
    /\ \E onFull \in {"register", "full"} : AttemptSend(s, onFull)

SendRegister(s) ==
    /\ pc[s] = "register"
    /\ LET r == Raw!register_putter(ch, s) IN
       /\ Apply(r)
       /\ Goto(s, CASE r.ret = "space" -> "retry"
                    [] r.ret = "closed" -> "closed"
                    [] r.ret = "registered" -> "await")
    /\ UNCHANGED <<val, accepted, taken>>

\* The second try_send, after register_putter saw room.  A False result falls
\* through to "await fut" although that future was never registered.
SendRetry(s) ==
    /\ pc[s] = "retry"
    /\ AttemptSend(s, "await")

\* The awaited future completed: loop to try_send, or clean up and raise.
SendResume(s) ==
    \/ /\ pc[s] = "woken"
       /\ AttemptSend(s, "register")
    \/ /\ pc[s] = "failed"
       /\ Apply(Raw!unregister_putter(ch, s))
       /\ Goto(s, "closed")
       /\ UNCHANGED <<val, accepted, taken>>

SendUnwind(s) ==
    /\ pc[s] = "unwind"
    /\ Apply(Raw!unregister_putter(ch, s))
    /\ Goto(s, "cancelled")
    /\ UNCHANGED <<val, accepted, taken>>

-----------------------------------------------------------------------------
(* recv, recv_sync, try_recv *)

\* A receiver takes the item a Rust method returned to it.
Receive(r, t) ==
    /\ val' = [val EXCEPT ![t] = r.item]
    /\ taken' = IF r.ret = "item" THEN Append(taken, r.item) ELSE taken

RecvTry(t) ==
    /\ pc[t] = "start"
    /\ \E onEmpty \in {"register", "empty"} :
         LET r == Raw!try_recv(ch) IN
         /\ Apply(r)
         /\ Receive(r, t)
         /\ Goto(t, CASE r.ret = "item" -> "done"
                      [] r.ret = "closed" -> "closed"
                      [] r.ret = "empty" -> onEmpty)
    /\ UNCHANGED accepted

RecvRegister(t) ==
    /\ pc[t] = "register"
    /\ LET r == Raw!register_getter(ch, t) IN
       /\ Apply(r)
       /\ Receive(r, t)
       /\ Goto(t, CASE r.ret = "item" -> "done"
                    [] r.ret = "closed" -> "closed"
                    [] r.ret = "registered" -> "await")
    /\ UNCHANGED accepted

RecvResume(t) ==
    /\ \/ /\ pc[t] = "woken"
          /\ Goto(t, "done")
          /\ UNCHANGED <<ch, inflight>>
       \/ /\ pc[t] = "failed"
          /\ Apply(Raw!unregister_getter(ch, t))
          /\ Goto(t, "closed")
    /\ UNCHANGED <<val, accepted, taken>>

\* A value the future already holds is dropped with it.
RecvUnwind(t) ==
    /\ pc[t] = "unwind"
    /\ Apply(Raw!unregister_getter(ch, t))
    /\ Goto(t, "cancelled")
    /\ UNCHANGED <<val, accepted, taken>>

-----------------------------------------------------------------------------
(* cancellation, close and the wake callbacks *)

\* Task.cancel(), or wait_for's timeout, reaches a task suspended on its
\* future; the cleanup runs when its loop next schedules it.
Cancel(t) ==
    /\ t \in Cancellable
    /\ pc[t] \in {"await", "woken", "failed"}
    /\ Goto(t, "unwind")
    /\ UNCHANGED <<ch, val, inflight, accepted, taken>>

Close ==
    /\ ~ch.is_closed
    /\ Apply(Raw!close(ch))
    /\ UNCHANGED <<pc, val, accepted, taken>>

\* _wake_fut on a future that still waits.
WakeFut(m) ==
    /\ m \in inflight
    /\ pc[m.to] = "await"
    /\ Goto(m.to, IF m.kind = "closed" THEN "failed" ELSE "woken")
    /\ val' = [val EXCEPT ![m.to] = m.item]
    /\ inflight' = inflight \ {m}
    /\ UNCHANGED <<ch, accepted, taken>>

\* _wake_fut on a cancelled future: an item is sent again unless the channel
\* is closed, and is dropped if that fails; any other wake is dropped.
WakeDeadFut(m) ==
    /\ m \in inflight
    /\ pc[m.to] \notin Running \cup {"await"}
    /\ LET resend == m.kind = "item" /\ ~ch.is_closed
           r == Raw!try_send(ch, m.item)
       IN /\ ch' = IF resend THEN r.st ELSE ch
          /\ inflight' = (inflight \ {m}) \cup (IF resend THEN r.wakes ELSE {})
    /\ UNCHANGED <<pc, val, accepted, taken>>

-----------------------------------------------------------------------------

SenderStep(s) ==
    SendTry(s) \/ SendRegister(s) \/ SendRetry(s) \/ SendResume(s) \/ SendUnwind(s)

ReceiverStep(t) ==
    RecvTry(t) \/ RecvRegister(t) \/ RecvResume(t) \/ RecvUnwind(t)

Callback == \E m \in inflight : WakeFut(m) \/ WakeDeadFut(m)

Next ==
    \/ \E s \in Senders : SenderStep(s)
    \/ \E t \in Receivers : ReceiverStep(t)
    \/ \E t \in Tasks : Cancel(t)
    \/ Close
    \/ Callback

Spec == Init /\ [][Next]_vars

\* An event loop keeps running its ready callbacks and tasks.
Fairness ==
    /\ \A s \in Senders : WF_vars(SenderStep(s))
    /\ \A t \in Receivers : WF_vars(ReceiverStep(t))
    /\ WF_vars(Callback)
FairSpec == Spec /\ Fairness

-----------------------------------------------------------------------------
(* Properties *)

Queued(q) == Raw!Elems(q)

\* Senders that were popped from putters and have not yet acted on it.
WokenSenders ==
    {s \in Senders :
        \/ pc[s] = "woken"
        \/ pc[s] \in {"await", "unwind"} /\ \E m \in inflight : m.to = s
        \/ pc[s] = "unwind" /\ s \notin Queued(ch.putters)}

\* No receiver sleeps in getters while an item is buffered: try_send never
\* buffers past a getter, register_getter never queues behind an item.
NoIdleItem == ch.getters # <<>> => ch.buffer = <<>>

\* The buffer never exceeds maxsize when no select watches the channel.
CapacityRespected == Maxsize > 0 => Len(ch.buffer) <= Maxsize

\* A free slot is never left unannounced: while senders are queued in putters,
\* every free slot has a woken sender on its way to it, through barging
\* senders, cancelled ones and direct hand-offs.
NoIdleSlot ==
    ch.putters # <<>> => Len(ch.buffer) + Cardinality(WokenSenders) >= Maxsize

\* An item is in at most one place: twice in the buffer, in the buffer and in
\* a hand-off, or held by two receivers would be a duplicate delivery.
NoDuplicate ==
    LET Places(i) == {k \in DOMAIN ch.buffer : ch.buffer[k] = i}
                     \cup {m \in inflight : m.item = i}
                     \cup {t \in Receivers : val[t] = i}
    IN \A i \in Senders : Cardinality(Places(i)) <= 1

\* A call that returned, raised or was cancelled leaves no future registered.
NoLeakedWaiter ==
    \A t \in Tasks : pc[t] \in Returned =>
        t \notin Queued(ch.getters) \cup Queued(ch.putters)

\* With receivers that are never cancelled, the channel is a bounded FIFO queue.
Fifo == INSTANCE FifoQueue WITH Capacity <- Maxsize, Values <- Senders,
                                queue <- ch.buffer, in <- accepted, out <- taken
ImplementsFifo == Fifo!Spec

\* An accepted item is never lost: it is buffered, on its way to a receiver,
\* or held by a receiver whose call has not been cancelled for good.
NoItemLost ==
    \A i \in Queued(accepted) :
        \/ i \in Queued(ch.buffer)
        \/ \E m \in inflight : m.item = i
        \/ \E t \in Receivers : val[t] = i /\ pc[t] # "cancelled"

\* A receiver cancelled after its wake-up was dispatched does not lose the item
\* while the channel is open.
CancelKeepsItem == ~ch.is_closed => NoItemLost

\* send suspends only until capacity is available: while a sender is suspended
\* on an open channel, every free slot has a woken sender on its way to it.
SuspendedUntilCapacity ==
    (\E s \in Senders : pc[s] = "await" /\ ~\E m \in inflight : m.to = s) /\ ~ch.is_closed
        => Len(ch.buffer) + Cardinality(WokenSenders) >= Maxsize

\* close wakes every receiver: none stays suspended on a closed channel.
CloseReleasesReceivers ==
    ch.is_closed ~> \A t \in Receivers : pc[t] \notin Suspended
=============================================================================
