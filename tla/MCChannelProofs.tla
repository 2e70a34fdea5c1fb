--------------------------- MODULE MCChannelProofs ---------------------------
(***************************************************************************)
(* The scenes of MCChannel.  The channel of the restless scene is the one  *)
(* ChannelProofs speaks of; that of the calm scene has another capacity    *)
(* and only its senders are cancelled, so the lemmas are instantiated (CP) *)
(* and carried over: an operator of one instance of Channel is the same    *)
(* operator in another instance with the same parameters.                  *)
(*                                                                         *)
(* The second half is about select_channel: an invariant of any number of  *)
(* selectors on any number of channels (SelInv), and one of selectors on a *)
(* single channel that rivals read too (SharedInv).                        *)
(***************************************************************************)
EXTENDS MCChannel, ChannelProofs

CP == INSTANCE ChannelProofs WITH Maxsize <- CalmMaxsize, Cancellable <- Senders

\* The parameters of the calm channel are as Channel assumes.
LEMMA CPAssumption == CP!ChannelAssumption!: /\ CP!RawAssumption!:
<1>1. CP!Tasks = Tasks
  BY DEF CP!Tasks, Tasks
<1>2. CP!IsFiniteSet(Tasks)
  BY ChannelAssumption DEF CP!IsFiniteSet, IsFiniteSet
<1>3. NoItem \notin Tasks /\ Senders \subseteq Tasks /\ CalmMaxsize \in Nat
  BY ChannelAssumption, InstanceAssumptions DEF Tasks
<1> QED BY <1>1, <1>2, <1>3, ChannelAssumption DEF CP!Raw!RawParams, Tasks

-----------------------------------------------------------------------------
(* The calm channel in both instances *)

\* The methods of RawChannel.
LEMMA SameMethods ==
    /\ \A c, i : CP!Raw!try_send(c, i) = Calm!Raw!try_send(c, i)
    /\ \A c, w : CP!Raw!register_putter(c, w) = Calm!Raw!register_putter(c, w)
    /\ \A c, w : CP!Raw!unregister_putter(c, w) = Calm!Raw!unregister_putter(c, w)
    /\ \A c : CP!Raw!try_recv(c) = Calm!Raw!try_recv(c)
    /\ \A c, w : CP!Raw!register_getter(c, w) = Calm!Raw!register_getter(c, w)
    /\ \A c, w : CP!Raw!unregister_getter(c, w) = Calm!Raw!unregister_getter(c, w)
    /\ \A c : CP!Raw!close(c) = Calm!Raw!close(c)
BY DEF CP!Raw!try_send, Calm!Raw!try_send, CP!Raw!register_putter, Calm!Raw!register_putter,
       CP!Raw!unregister_putter, Calm!Raw!unregister_putter, CP!Raw!try_recv,
       Calm!Raw!try_recv, CP!Raw!register_getter, Calm!Raw!register_getter,
       CP!Raw!unregister_getter, Calm!Raw!unregister_getter, CP!Raw!close, Calm!Raw!close,
       CP!Raw!Reply, Calm!Raw!Reply, CP!Raw!Taken, Calm!Raw!Taken, CP!Raw!Wake,
       Calm!Raw!Wake, CP!Raw!Handoff, Calm!Raw!Handoff, CP!Raw!HasSpace, Calm!Raw!HasSpace,
       CP!Raw!PopWatcher, Calm!Raw!PopWatcher, CP!Raw!PopBuffer, Calm!Raw!PopBuffer,
       CP!Raw!TakeItem, Calm!Raw!TakeItem, CP!Raw!Elems, Calm!Raw!Elems, CP!Raw!Discard,
       Calm!Raw!Discard, CP!Raw!InQueue, Calm!Raw!InQueue

\* The steps of Channel.
LEMMA SameNext == Calm!Next => CP!Next
<1> USE SameMethods
<1>1. \A s : Calm!SenderStep(s) => CP!SenderStep(s)
  BY DEF CP!SenderStep, Calm!SenderStep, CP!SendTry, Calm!SendTry, CP!SendRegister,
         Calm!SendRegister, CP!SendRetry, Calm!SendRetry, CP!SendResume, Calm!SendResume,
         CP!SendUnwind, Calm!SendUnwind, CP!Apply, Calm!Apply, CP!Record, Calm!Record,
         CP!Goto, Calm!Goto, CP!AttemptSend, Calm!AttemptSend
<1>2. \A t : Calm!ReceiverStep(t) => CP!ReceiverStep(t)
  BY DEF CP!ReceiverStep, Calm!ReceiverStep, CP!RecvTry, Calm!RecvTry, CP!RecvRegister,
         Calm!RecvRegister, CP!RecvResume, Calm!RecvResume, CP!RecvUnwind, Calm!RecvUnwind,
         CP!Apply, Calm!Apply, CP!Goto, Calm!Goto, CP!Receive, Calm!Receive
<1>3. \A t : Calm!Cancel(t) => CP!Cancel(t)
  BY DEF CP!Cancel, Calm!Cancel, CP!Goto, Calm!Goto
<1>4. Calm!Close => CP!Close
  BY DEF CP!Close, Calm!Close, CP!Apply, Calm!Apply
<1>5. Calm!Callback => CP!Callback
  BY DEF CP!Callback, Calm!Callback, CP!WakeFut, Calm!WakeFut, CP!WakeDeadFut,
         Calm!WakeDeadFut, CP!Goto, Calm!Goto, CP!Running, Calm!Running
<1> QED BY <1>1, <1>2, <1>3, <1>4, <1>5 DEF CP!Next, Calm!Next, CP!Tasks, Calm!Tasks

\* The initial state.
LEMMA SameInit == Init => CP!Init
BY DEF Init, CP!Init, Raw!NewChannel, CP!Raw!NewChannel, Tasks, CP!Tasks

\* Cardinality.
LEMMA SameCardinality ==
    \A S : CP!Cardinality(S) = Calm!Cardinality(S) /\ CP!Cardinality(S) = Cardinality(S)
BY DEF CP!Cardinality, Calm!Cardinality, Cardinality

\* The properties.
LEMMA SameProperties ==
    /\ CP!TypeOK => TypeOK
    /\ CP!NoIdleItem => NoIdleItem
    /\ CP!NoLeakedWaiter => NoLeakedWaiter
    /\ CP!CapacityRespected => Calm!CapacityRespected
    /\ CP!NoIdleSlot => Calm!NoIdleSlot
    /\ CP!NoDuplicate => NoDuplicate
    /\ CP!NoItemLost => NoItemLost
<1>1. \A q : CP!Queued(q) = Queued(q) /\ CP!Queued(q) = Calm!Queued(q)
  BY DEF CP!Queued, Calm!Queued, Queued, CP!Raw!Elems, Calm!Raw!Elems, Raw!Elems
<1>2. CP!TypeOK => TypeOK
  BY DEF CP!TypeOK, TypeOK, CP!Raw!ChannelState, Raw!ChannelState, CP!Raw!Wakes, Raw!Wakes,
         CP!Raw!WakeKinds, Raw!WakeKinds, CP!Tasks, Tasks, CP!Running, Running,
         CP!Suspended, Suspended, CP!Returned, Returned
<1>3. (CP!NoIdleItem => NoIdleItem) /\ (CP!CapacityRespected => Calm!CapacityRespected)
  BY DEF CP!NoIdleItem, NoIdleItem, CP!CapacityRespected, Calm!CapacityRespected
<1>4. CP!NoLeakedWaiter => NoLeakedWaiter
  BY <1>1 DEF CP!NoLeakedWaiter, NoLeakedWaiter, CP!Tasks, Tasks, CP!Returned, Returned
<1>5. CP!WokenSenders = Calm!WokenSenders
  BY <1>1 DEF CP!WokenSenders, Calm!WokenSenders
<1>6. CP!NoIdleSlot => Calm!NoIdleSlot
  BY <1>5, SameCardinality DEF CP!NoIdleSlot, Calm!NoIdleSlot
<1>7. CP!NoDuplicate => NoDuplicate
  BY SameCardinality DEF CP!NoDuplicate, NoDuplicate
<1>8. CP!NoItemLost => NoItemLost
  BY <1>1 DEF CP!NoItemLost, NoItemLost
<1> QED BY <1>2, <1>3, <1>4, <1>6, <1>7, <1>8

-----------------------------------------------------------------------------
(* The invariant of the scenes *)

\* The invariant of the channel on stage.
MInv == IF scene = "calm" THEN CP!Inv /\ CP!CalmInv ELSE Inv

\* It holds in every reachable state.
LEMMA MInvLemma == MSpec => []MInv
<1>1. MInit => MInv
  <2>1. CASE scene = "calm"
    <3>1. MInit => CP!Init
      BY SameInit DEF MInit
    <3>2. CP!Init => CP!Inv
      BY CP!InitInv, CPAssumption
    <3>3. CP!Init => CP!CalmInv
      BY CP!CalmInit, CPAssumption
    <3> QED BY <2>1, <3>1, <3>2, <3>3 DEF MInv
  <2>2. CASE scene # "calm"
    BY <2>2, InitInv DEF MInit, MInv
  <2> QED BY <2>1, <2>2
<1>2. MInv /\ [MNext]_mvars => MInv'
  <2> SUFFICES ASSUME MInv, [MNext]_mvars PROVE MInv'
    OBVIOUS
  <2>1. scene' = scene
    BY DEF MNext, Restless, Peaceful, PairRuns, SharedRuns, AloneRuns, Selects, mvars
  <2>2. CASE scene = "calm"
    <3>1. [CP!Next]_(CP!vars)
      BY <2>2, SameNext
         DEF MNext, Restless, Peaceful, PairRuns, SharedRuns, AloneRuns, Selects, mvars, vars, CP!vars
    <3>2. CP!Inv /\ CP!CalmInv
      BY <2>2 DEF MInv
    <3>3. CP!Inv'
      BY <3>1, <3>2, CP!NextInv, CPAssumption
    <3>4. Senders \cap Receivers = {}
      BY ChannelAssumption
    <3>5. CP!CalmInv'
      BY <3>1, <3>2, <3>4, CP!CalmNext, CPAssumption
    <3> QED BY <2>1, <2>2, <3>3, <3>5 DEF MInv
  <2>3. CASE scene # "calm"
    <3>1. [Next]_vars
      BY <2>3 DEF MNext, Restless, Peaceful, PairRuns, SharedRuns, AloneRuns, Selects, mvars
    <3>2. Inv'
      BY <2>3, <3>1, NextInv DEF MInv
    <3> QED BY <2>1, <2>3, <3>2 DEF MInv
  <2> QED BY <2>2, <2>3
<1> QED BY <1>1, <1>2, PTL DEF MSpec

-----------------------------------------------------------------------------
(* The theorems *)

\* A channel of any capacity, with any number of senders and receivers
\* cancelled at any point, keeps its buffer within its capacity, lets no getter
\* queue while an item is buffered, announces every free slot to the queued
\* senders, and forgets the future of every call that ended.
THEOREM ChannelTheorem == MSpec => []ChannelSound
<1>1. MInv => ChannelSound
  <2> SUFFICES ASSUME MInv PROVE ChannelSound
    OBVIOUS
  <2>1. CASE scene = "calm"
    <3>1. CP!Inv
      BY <2>1 DEF MInv
    <3>2. CP!TypeOK /\ CP!NoIdleItem /\ CP!NoLeakedWaiter /\ CP!CapacityRespected /\ CP!NoIdleSlot
      BY <3>1, CP!Consequences, CPAssumption
    <3> QED BY <2>1, <3>2, SameProperties DEF ChannelSound
  <2>2. CASE scene # "calm"
    BY <2>2, Consequences DEF MInv, ChannelSound
  <2> QED BY <2>1, <2>2
<1> QED BY <1>1, MInvLemma, PTL

\* No item is delivered twice, though the late wake-up of a cancelled receiver
\* sends its item again; and without cancelled receivers none is lost.
THEOREM ItemsTheorem == MSpec => []ItemsKept
<1>1. MInv => ItemsKept
  <2> SUFFICES ASSUME MInv PROVE ItemsKept
    OBVIOUS
  <2>1. CASE scene = "calm"
    <3>1. CP!Inv /\ CP!CalmInv
      BY <2>1 DEF MInv
    <3>2. CP!NoDuplicate
      BY <3>1, CP!OnePlace, CPAssumption
    <3>3. CP!NoItemLost
      BY <3>1, CP!CalmKeeps, CPAssumption
    <3> QED BY <2>1, <3>2, <3>3, SameProperties DEF ItemsKept
  <2>2. CASE scene # "calm"
    BY <2>2, OnePlace DEF MInv, ItemsKept
  <2> QED BY <2>1, <2>2
<1> QED BY <1>1, MInvLemma, PTL

\* Without cancelled receivers a channel implements the bounded FIFO queue:
\* every try_send that is answered True is a put, or passes its item straight
\* to a waiting receiver, every item taken is the oldest, and no other step,
\* close and cancelled senders included, changes the queue.
THEOREM CalmFifoTheorem == MSpec => CalmImplementsFifo
<1>1. MInit => SeenFifo!Init
  BY DEF MInit, Init, Raw!NewChannel, SeenFifo!Init, Seen
<1>2. MInv /\ [MNext]_mvars => [SeenFifo!Next]_(SeenFifo!qvars)
  <2> SUFFICES ASSUME MInv, [MNext]_mvars PROVE [SeenFifo!Next]_(SeenFifo!qvars)
    OBVIOUS
  <2>1. scene' = scene
    BY DEF MNext, Restless, Peaceful, PairRuns, SharedRuns, AloneRuns, Selects, mvars
  <2>2. CASE scene = "calm"
    <3>1. [CP!Next]_(CP!vars)
      BY <2>2, SameNext
         DEF MNext, Restless, Peaceful, PairRuns, SharedRuns, AloneRuns, Selects, mvars, vars, CP!vars
    <3>2. CP!Inv /\ CP!CalmInv /\ Senders \cap Receivers = {}
      BY <2>2, ChannelAssumption DEF MInv
    <3>3. [CP!Fifo!Next]_(CP!Fifo!qvars)
      BY <3>1, <3>2, CP!CalmNext, CPAssumption
    <3>4. \A q : Seen(q) = q
      BY <2>2 DEF Seen
    <3>5. Seen(ch.buffer)' = ch'.buffer /\ Seen(accepted)' = accepted' /\ Seen(taken)' = taken'
      BY <2>1, <2>2 DEF Seen
    <3> QED BY <3>3, <3>4, <3>5
            DEF CP!Fifo!Next, CP!Fifo!Put, CP!Fifo!Get, CP!Fifo!PassThrough, CP!Fifo!qvars,
                SeenFifo!Next, SeenFifo!Put, SeenFifo!Get, SeenFifo!PassThrough, SeenFifo!qvars
  <2>3. CASE scene # "calm"
    BY <2>1, <2>3 DEF SeenFifo!qvars, Seen
  <2> QED BY <2>2, <2>3
<1> QED BY <1>1, <1>2, MInvLemma, PTL DEF MSpec, CalmImplementsFifo, SeenFifo!Spec

-----------------------------------------------------------------------------
(* select_channel: what selectors do to their channels *)

\* The queue operators of the selectors' channels are those of Queues.
LEMMA SelQueues ==
    ASSUME NEW s
    PROVE  /\ \A q, t : Sel(s)!Raw!Discard(q, t) = Discard(q, t)
           /\ \A q, t : Sel(s)!Raw!InQueue(t, q) = InQueue(t, q)
           /\ \A q : Sel(s)!Raw!Elems(q) = Elems(q)
           /\ \A q, t : t \in Elems(q) <=> InQueue(t, q)
<1>1. \A q, t : Sel(s)!Raw!InQueue(t, q) = InQueue(t, q)
  BY DEF Sel!Raw!InQueue, InQueue
<1>2. \A q, t : Sel(s)!Raw!Discard(q, t) = Discard(q, t)
  BY DEF Sel!Raw!Discard, Discard, Sel!Raw!InQueue, InQueue
<1>3. \A q : Sel(s)!Raw!Elems(q) = Elems(q)
  BY DEF Sel!Raw!Elems, Elems
<1>4. \A q, t : t \in Elems(q) <=> InQueue(t, q)
  BY DEF Elems, InQueue
<1> QED BY <1>1, <1>2, <1>3, <1>4

\* A channel on which nobody but selectors waits, each of them once.
Fit(s, x) ==
    /\ x \in Sel(s)!Raw!ChannelState
    /\ x.getters = <<>> /\ x.putters = <<>> /\ NoRepeat(x.watchers)

\* Its fields.
LEMMA FitFields ==
    ASSUME NEW s, NEW x, Fit(s, x)
    PROVE  /\ x.buffer \in Seq(SelItems[s]) /\ x.watchers \in Seq(Sel(s)!Arbiters)
           /\ x.is_closed \in BOOLEAN
BY DEF Fit, Sel!Raw!ChannelState

\* The selectors a method notifies.
LEMMA SelSignals ==
    ASSUME NEW s, NEW c, NEW r
    PROVE  /\ r.wakes = {} => Sel(s)!Signals(c, r) = {}
           /\ \A a : r.wakes = {Sel(s)!Raw!Wake(a, "ready")} => Sel(s)!Signals(c, r) = {<<a, c>>}
           /\ \A A : r.wakes = {Sel(s)!Raw!Wake(a, "ready") : a \in A}
                       => Sel(s)!Signals(c, r) = {<<a, c>> : a \in A}
<1>0. \A a : /\ Sel(s)!Raw!Wake(a, "ready").to = a
             /\ Sel(s)!Raw!Wake(a, "ready").kind = "ready"
  BY DEF Sel!Raw!Wake
<1>1. \A z : z \in Sel(s)!Signals(c, r) <=> \E m \in r.wakes : m.kind = "ready" /\ z = <<m.to, c>>
  BY DEF Sel!Signals
<1>2. r.wakes = {} => Sel(s)!Signals(c, r) = {}
  BY <1>1
<1>3. ASSUME NEW a, r.wakes = {Sel(s)!Raw!Wake(a, "ready")} PROVE Sel(s)!Signals(c, r) = {<<a, c>>}
  BY <1>0, <1>1, <1>3
<1>4. ASSUME NEW A, r.wakes = {Sel(s)!Raw!Wake(a, "ready") : a \in A}
      PROVE  Sel(s)!Signals(c, r) = {<<a, c>> : a \in A}
  <2>1. ASSUME NEW z PROVE z \in Sel(s)!Signals(c, r) <=> \E a \in A : z = <<a, c>>
    BY <1>0, <1>1, <1>4
  <2> QED BY <2>1
<1> QED BY <1>2, <1>3, <1>4

\* try_recv pops the first item, and notifies nobody.
LEMMA SelRecv ==
    ASSUME NEW s, NEW x, Fit(s, x)
    PROVE  LET r == Sel(s)!Raw!try_recv(x)
           IN  /\ r.wakes = {} /\ Fit(s, r.st)
               /\ r.st.watchers = x.watchers /\ r.st.is_closed = x.is_closed
               /\ x.buffer = <<>> => r.st = x /\ r.ret # "item"
               /\ x.buffer # <<>> => /\ r.ret = "item" /\ r.item = Head(x.buffer)
                                     /\ r.st.buffer = Tail(x.buffer)
<1>0. x.is_closed \in BOOLEAN /\ x.buffer \in Seq(SelItems[s]) /\ x \in Sel(s)!Raw!ChannelState
  BY FitFields DEF Fit
<1> USE DEF Sel!Raw!try_recv, Sel!Raw!TakeItem, Sel!Raw!Reply, Sel!Raw!Taken, Sel!Raw!PopBuffer
<1>1. CASE x.buffer # <<>>
  <2>1. Tail(x.buffer) \in Seq(SelItems[s])
    BY <1>0, <1>1, HeadTailProperties
  <2>2. [x EXCEPT !.buffer = Tail(x.buffer)] \in Sel(s)!Raw!ChannelState
    BY <1>0, <2>1 DEF Sel!Raw!ChannelState
  <2>3. Fit(s, [x EXCEPT !.buffer = Tail(x.buffer)])
    BY <2>2 DEF Fit, Sel!Raw!ChannelState
  <2> QED BY <1>1, <2>3 DEF Fit, Sel!Raw!ChannelState
<1>2. CASE x.buffer = <<>> /\ x.is_closed
  BY <1>2
<1>3. CASE x.buffer = <<>> /\ ~x.is_closed
  BY <1>3
<1> QED BY <1>0, <1>1, <1>2, <1>3

\* try_send is refused, or buffers the item and notifies the first watcher, if any.
LEMMA SelSend ==
    ASSUME NEW s, NEW x, Fit(s, x), NEW i \in SelItems[s], NEW c
    PROVE  LET r == Sel(s)!Raw!try_send(x, i)
           IN  /\ Fit(s, r.st) /\ r.st.is_closed = x.is_closed
               /\ r.ret # "ok" => r.st = x /\ Sel(s)!Signals(c, r) = {}
               /\ r.ret = "ok" => ~x.is_closed /\ r.st.buffer = Append(x.buffer, i)
               /\ r.ret = "ok" /\ x.watchers = <<>> => r.st.watchers = <<>> /\ Sel(s)!Signals(c, r) = {}
               /\ r.ret = "ok" /\ x.watchers # <<>> =>
                    r.st.watchers = Tail(x.watchers) /\ Sel(s)!Signals(c, r) = {<<Head(x.watchers), c>>}
<1> DEFINE r == Sel(s)!Raw!try_send(x, i)
<1>0. /\ x.is_closed \in BOOLEAN /\ x.buffer \in Seq(SelItems[s]) /\ x \in Sel(s)!Raw!ChannelState
      /\ x.getters = <<>> /\ x.watchers \in Seq(Sel(s)!Arbiters) /\ NoRepeat(x.watchers)
  BY FitFields DEF Fit
<1>1. Append(x.buffer, i) \in Seq(SelItems[s])
  BY <1>0, AppendProperties
<1> USE DEF Sel!Raw!try_send, Sel!Raw!Reply
<1>2. CASE x.is_closed
  <2>1. r.st = x /\ r.ret = "closed" /\ r.wakes = {}
    BY <1>2
  <2> QED BY <2>1, SelSignals
<1>3. CASE ~x.is_closed /\ x.watchers # <<>>
  <2> DEFINE y == [[x EXCEPT !.watchers = Tail(x.watchers)] EXCEPT !.buffer = Append(x.buffer, i)]
  <2>1. r.st = y /\ r.ret = "ok" /\ r.wakes = {Sel(s)!Raw!Wake(Head(x.watchers), "ready")}
    BY <1>0, <1>3 DEF Sel!Raw!PopWatcher, Sel!Raw!ChannelState
  <2>2. Tail(x.watchers) \in Seq(Sel(s)!Arbiters) /\ NoRepeat(Tail(x.watchers))
    BY <1>0, <1>3, TailQueue
  <2>3. y \in Sel(s)!Raw!ChannelState
    BY <1>0, <1>1, <2>2 DEF Sel!Raw!ChannelState
  <2>4. y.watchers = Tail(x.watchers) /\ y.buffer = Append(x.buffer, i) /\ y.is_closed = x.is_closed
        /\ y.getters = x.getters /\ y.putters = x.putters
    BY <1>0 DEF Sel!Raw!ChannelState
  <2>5. Fit(s, y)
    BY <2>2, <2>3, <2>4 DEF Fit
  <2>6. Sel(s)!Signals(c, r) = {<<Head(x.watchers), c>>}
    BY <2>1, SelSignals
  <2> HIDE DEF r, y
  <2> QED BY <1>3, <2>1, <2>4, <2>5, <2>6 DEF r
<1>4. CASE ~x.is_closed /\ x.watchers = <<>>
  <2> DEFINE y == [x EXCEPT !.buffer = Append(x.buffer, i)]
  <2>1. r.wakes = {} /\ ((r.st = y /\ r.ret = "ok") \/ (r.st = x /\ r.ret = "full"))
    BY <1>0, <1>4
  <2>2. y \in Sel(s)!Raw!ChannelState
    BY <1>0, <1>1 DEF Sel!Raw!ChannelState
  <2>3. y.watchers = <<>> /\ y.buffer = Append(x.buffer, i) /\ y.is_closed = x.is_closed
        /\ y.getters = x.getters /\ y.putters = x.putters
    BY <1>0, <1>4 DEF Sel!Raw!ChannelState
  <2>4. Fit(s, y)
    BY <1>0, <1>4, <2>2, <2>3 DEF Fit
  <2>5. Sel(s)!Signals(c, r) = {}
    BY <2>1, SelSignals
  <2> HIDE DEF r, y
  <2> QED BY <1>4, <2>1, <2>3, <2>4, <2>5 DEF r
<1> QED BY <1>0, <1>2, <1>3, <1>4

\* close forgets the watchers and notifies each of them.
LEMMA SelClose ==
    ASSUME NEW s, NEW x, Fit(s, x), ~x.is_closed, NEW c
    PROVE  LET r == Sel(s)!Raw!close(x)
           IN  /\ Fit(s, r.st) /\ r.st.is_closed /\ r.st.buffer = x.buffer /\ r.st.watchers = <<>>
               /\ Sel(s)!Signals(c, r) = {<<a, c>> : a \in Elems(x.watchers)}
<1> DEFINE r == Sel(s)!Raw!close(x)
           y == [x EXCEPT !.is_closed = TRUE, !.getters = <<>>, !.putters = <<>>, !.watchers = <<>>]
<1>1. Elems(x.getters) = {} /\ Elems(x.putters) = {}
  BY DEF Elems, Fit
<1>2. r.st = y /\ r.wakes = {Sel(s)!Raw!Wake(a, "ready") : a \in Elems(x.watchers)}
  BY <1>1, SelQueues DEF Sel!Raw!close, Sel!Raw!Reply
<1>3. <<>> \in Seq(Sel(s)!Arbiters) /\ NoRepeat(<<>>)
  BY DEF NoRepeat
<1>4. x \in Sel(s)!Raw!ChannelState
  BY DEF Fit
<1>5. y \in Sel(s)!Raw!ChannelState
  BY <1>3, <1>4 DEF Sel!Raw!ChannelState
<1>6. y.is_closed = TRUE /\ y.buffer = x.buffer /\ y.watchers = <<>> /\ y.getters = <<>> /\ y.putters = <<>>
  BY <1>4 DEF Sel!Raw!ChannelState
<1>7. Fit(s, y)
  BY <1>3, <1>5, <1>6 DEF Fit
<1>8. Sel(s)!Signals(c, r) = {<<a, c>> : a \in Elems(x.watchers)}
  BY <1>2, SelSignals
<1> HIDE DEF r, y
<1> QED BY <1>2, <1>6, <1>7, <1>8 DEF r

\* register_select_watcher registers on an open, empty channel only.
LEMMA SelRegister ==
    ASSUME NEW s, NEW x, Fit(s, x), NEW a \in Sel(s)!Arbiters, ~InQueue(a, x.watchers)
    PROVE  LET r == Sel(s)!Raw!register_select_watcher(x, a)
           IN  /\ r.wakes = {} /\ Fit(s, r.st) /\ r.st.buffer = x.buffer /\ r.st.is_closed = x.is_closed
               /\ r.ret # "registered" => r.st = x
               /\ r.ret = "registered" =>
                    /\ x.buffer = <<>> /\ ~x.is_closed /\ r.st.watchers # <<>>
                    /\ \A b : InQueue(b, r.st.watchers) <=> InQueue(b, x.watchers) \/ b = a
<1> DEFINE r == Sel(s)!Raw!register_select_watcher(x, a)
           y == [x EXCEPT !.watchers = Append(x.watchers, a)]
<1>0. /\ x.is_closed \in BOOLEAN /\ x \in Sel(s)!Raw!ChannelState /\ x.getters = <<>> /\ x.putters = <<>>
      /\ x.watchers \in Seq(Sel(s)!Arbiters) /\ NoRepeat(x.watchers)
  BY FitFields DEF Fit
<1> USE DEF Sel!Raw!register_select_watcher, Sel!Raw!Reply
<1>1. CASE x.is_closed \/ x.buffer # <<>>
  BY <1>1
<1>2. CASE ~(x.is_closed \/ x.buffer # <<>>)
  <2>1. r.st = y /\ r.wakes = {} /\ r.ret = "registered"
    BY <1>2
  <2>2. /\ Append(x.watchers, a) \in Seq(Sel(s)!Arbiters) /\ NoRepeat(Append(x.watchers, a))
        /\ \A b : InQueue(b, Append(x.watchers, a)) <=> InQueue(b, x.watchers) \/ b = a
    BY <1>0, AppendQueue
  <2>3. y \in Sel(s)!Raw!ChannelState
    BY <1>0, <2>2 DEF Sel!Raw!ChannelState
  <2>4. y.watchers = Append(x.watchers, a) /\ y.buffer = x.buffer /\ y.is_closed = x.is_closed
        /\ y.getters = <<>> /\ y.putters = <<>>
    BY <1>0 DEF Sel!Raw!ChannelState
  <2>5. Fit(s, y)
    BY <2>2, <2>3, <2>4 DEF Fit
  <2>6. Append(x.watchers, a) # <<>>
    BY <2>2 DEF InQueue
  <2> HIDE DEF r, y
  <2> QED BY <1>2, <2>1, <2>2, <2>4, <2>5, <2>6 DEF r
<1> QED BY <1>1, <1>2

\* unregister_select_watcher forgets the arbiter.
LEMMA SelUnregister ==
    ASSUME NEW s, NEW x, Fit(s, x), NEW a \in Sel(s)!Arbiters
    PROVE  LET y == Sel(s)!Raw!unregister_select_watcher(x, a).st
           IN  /\ Fit(s, y) /\ y.buffer = x.buffer /\ y.is_closed = x.is_closed
               /\ \A b : InQueue(b, y.watchers) <=> InQueue(b, x.watchers) /\ b # a
<1> DEFINE y == [x EXCEPT !.watchers = Discard(x.watchers, a)]
<1>0. /\ x \in Sel(s)!Raw!ChannelState /\ x.getters = <<>> /\ x.putters = <<>>
      /\ x.watchers \in Seq(Sel(s)!Arbiters) /\ NoRepeat(x.watchers)
  BY FitFields DEF Fit
<1>1. Sel(s)!Raw!unregister_select_watcher(x, a).st = y
  BY SelQueues DEF Sel!Raw!unregister_select_watcher, Sel!Raw!Reply
<1>2. /\ Discard(x.watchers, a) \in Seq(Sel(s)!Arbiters) /\ NoRepeat(Discard(x.watchers, a))
      /\ \A b : InQueue(b, Discard(x.watchers, a)) <=> InQueue(b, x.watchers) /\ b # a
  <2>1. CASE InQueue(a, x.watchers)
    BY <1>0, <2>1, DiscardQueue
  <2>2. CASE ~InQueue(a, x.watchers)
    <3>1. Discard(x.watchers, a) = x.watchers
      BY <2>2 DEF Discard
    <3> QED BY <1>0, <2>2, <3>1
  <2> QED BY <2>1, <2>2
<1>3. y \in Sel(s)!Raw!ChannelState
  BY <1>0, <1>2 DEF Sel!Raw!ChannelState
<1>4. y.watchers = Discard(x.watchers, a) /\ y.buffer = x.buffer /\ y.is_closed = x.is_closed
      /\ y.getters = <<>> /\ y.putters = <<>>
  BY <1>0 DEF Sel!Raw!ChannelState
<1>5. Fit(s, y)
  BY <1>2, <1>3, <1>4 DEF Fit
<1> HIDE DEF y
<1> QED BY <1>1, <1>2, <1>4, <1>5

\* forward_select_wakeup notifies the next watcher of a buffered item.
LEMMA SelForward ==
    ASSUME NEW s, NEW x, Fit(s, x), NEW c
    PROVE  LET r == Sel(s)!Raw!forward_select_wakeup(x)
           IN  /\ Fit(s, r.st) /\ r.st.buffer = x.buffer /\ r.st.is_closed = x.is_closed
               /\ x.watchers = <<>> => r.st.watchers = <<>> /\ Sel(s)!Signals(c, r) = {}
               /\ x.watchers # <<>> =>
                    \/ r.st = x /\ x.buffer = <<>> /\ Sel(s)!Signals(c, r) = {}
                    \/ r.st.watchers = Tail(x.watchers) /\ Sel(s)!Signals(c, r) = {<<Head(x.watchers), c>>}
<1> DEFINE r == Sel(s)!Raw!forward_select_wakeup(x)
           y == [x EXCEPT !.watchers = Tail(x.watchers)]
<1>0. /\ x \in Sel(s)!Raw!ChannelState /\ x.getters = <<>> /\ x.putters = <<>>
      /\ x.watchers \in Seq(Sel(s)!Arbiters) /\ NoRepeat(x.watchers)
  BY FitFields DEF Fit
<1> USE DEF Sel!Raw!forward_select_wakeup, Sel!Raw!Reply
<1>1. CASE x.buffer = <<>> \/ x.watchers = <<>>
  <2>1. r.st = x /\ r.wakes = {}
    BY <1>1
  <2> QED BY <1>1, <2>1, SelSignals
<1>2. CASE x.buffer # <<>> /\ x.watchers # <<>>
  <2>1. r.st = y /\ r.wakes = {Sel(s)!Raw!Wake(Head(x.watchers), "ready")}
    BY <1>0, <1>2 DEF Sel!Raw!PopWatcher
  <2>2. Tail(x.watchers) \in Seq(Sel(s)!Arbiters) /\ NoRepeat(Tail(x.watchers))
    BY <1>0, <1>2, TailQueue
  <2>3. y \in Sel(s)!Raw!ChannelState
    BY <1>0, <2>2 DEF Sel!Raw!ChannelState
  <2>4. y.watchers = Tail(x.watchers) /\ y.buffer = x.buffer /\ y.is_closed = x.is_closed
        /\ y.getters = <<>> /\ y.putters = <<>>
    BY <1>0 DEF Sel!Raw!ChannelState
  <2>5. Fit(s, y)
    BY <2>2, <2>3, <2>4 DEF Fit
  <2>6. Sel(s)!Signals(c, r) = {<<Head(x.watchers), c>>}
    BY <2>1, SelSignals
  <2> HIDE DEF r, y
  <2> QED BY <1>2, <2>1, <2>4, <2>5, <2>6 DEF r
<1> QED BY <1>1, <1>2

-----------------------------------------------------------------------------
(* The invariant of the selectors *)

\* Beside ItemsConserved: a watcher is the arbiter of a selector that has not yet
\* come to its finally clause and will not visit the channel again; and who is told
\* of a channel is told of one of its own.
Watching(s) ==
    \A c \in SelChans[s] :
        /\ Fit(s, wCh[c])
        /\ \A a \in Sel(s)!Arbiters : InQueue(a, wCh[c].watchers) =>
             /\ a = <<a[1], round[a[1]]>>
             /\ wPc[a[1]] \in {"register", "claim", "await", "woken", "unwind"}
             /\ wPc[a[1]] \in {"register", "claim"} => c \notin todo[a[1]]
Named(s) == \A w \in SelTasks[s] : wPc[w] \in {"claim", "woken"} => ready[w] \in SelChans[s]

SelInv(s) == Sel(s)!TypeOK /\ Sel(s)!ItemsConserved /\ Watching(s) /\ Named(s)

\* The types, one variable at a time.
LEMMA SelTypes ==
    ASSUME NEW s
    PROVE  Sel(s)!TypeOK <=>
           /\ wCh \in [SelChans[s] -> Sel(s)!Raw!ChannelState]
           /\ wPc \in [SelTasks[s] -> Sel(s)!PCs]
           /\ todo \in [SelTasks[s] -> SUBSET SelChans[s]]
           /\ round \in [SelTasks[s] -> 1..SelRounds[s]]
           /\ ready \in [SelTasks[s] -> SelChans[s] \cup {NoChan}]
           /\ settled \subseteq Sel(s)!Arbiters
           /\ wInflight \subseteq Sel(s)!Arbiters \X SelChans[s]
           /\ unsent \subseteq SelItems[s] /\ got \subseteq SelItems[s]
BY Zenon DEF Sel!TypeOK

\* An arbiter is a selector and a round.
LEMMA ArbiterShape ==
    ASSUME NEW s, NEW a \in Sel(s)!Arbiters
    PROVE  a[1] \in SelTasks[s] /\ a[2] \in 1..SelRounds[s] /\ a = <<a[1], a[2]>>
BY DEF Sel!Arbiters

\* A selector's current arbiter.
LEMMA ArbiterIs ==
    ASSUME NEW s, Sel(s)!TypeOK, NEW w \in SelTasks[s]
    PROVE  Sel(s)!Arbiter(w) = <<w, round[w]>> /\ <<w, round[w]>> \in Sel(s)!Arbiters
BY SelTypes DEF Sel!Arbiter, Sel!Arbiters

\* What is in the buffers.
LEMMA BufferedIs ==
    ASSUME NEW s, NEW c
    PROVE  /\ \A i : i \in Sel(s)!Buffered(c) <=> InQueue(i, wCh[c].buffer)
           /\ \A i : i \in Sel(s)!Buffered(c)' <=> InQueue(i, wCh'[c].buffer)
BY SelQueues DEF Sel!Buffered

\* Every item in one place, in terms of membership.
Apart(s, chans, out, in) ==
    /\ \A i : i \in SelItems[s] <=> \/ i \in out \/ i \in in
                                    \/ \E c \in SelChans[s] : InQueue(i, chans[c].buffer)
    /\ \A i : ~(i \in out /\ i \in in)
    /\ \A c \in SelChans[s] :
         /\ \A i : InQueue(i, chans[c].buffer) => i \notin out /\ i \notin in
         /\ \A i : \A d \in SelChans[s] : InQueue(i, chans[c].buffer) /\ InQueue(i, chans[d].buffer) => c = d
         /\ NoRepeat(chans[c].buffer)

LEMMA ApartIs ==
    ASSUME NEW s
    PROVE  /\ Sel(s)!ItemsConserved => Apart(s, wCh, unsent, got)
           /\ Apart(s, wCh', unsent', got') => Sel(s)!ItemsConserved'
<1>1. \A c, i : i \in Sel(s)!Buffered(c) <=> InQueue(i, wCh[c].buffer)
  BY BufferedIs
<1>2. \A c, i : i \in Sel(s)!Buffered(c)' <=> InQueue(i, wCh'[c].buffer)
  BY BufferedIs
<1>3. ASSUME Sel(s)!ItemsConserved PROVE Apart(s, wCh, unsent, got)
  <2>1. \A i : i \in SelItems[s] <=> \/ i \in unsent \/ i \in got
                                     \/ \E c \in SelChans[s] : InQueue(i, wCh[c].buffer)
    <3>1. SelItems[s] = unsent \cup got \cup UNION {Sel(s)!Buffered(c) : c \in SelChans[s]}
      BY <1>3 DEF Sel!ItemsConserved
    <3> QED BY <1>1, <3>1
  <2>2. \A i : ~(i \in unsent /\ i \in got)
    BY <1>3 DEF Sel!ItemsConserved
  <2>3. ASSUME NEW c \in SelChans[s]
        PROVE  /\ \A i : InQueue(i, wCh[c].buffer) => i \notin unsent /\ i \notin got
               /\ \A i : \A d \in SelChans[s] : InQueue(i, wCh[c].buffer) /\ InQueue(i, wCh[d].buffer) => c = d
               /\ NoRepeat(wCh[c].buffer)
    <3>1. \A i : InQueue(i, wCh[c].buffer) => i \notin unsent /\ i \notin got
      BY <1>1, <1>3 DEF Sel!ItemsConserved
    <3>2. \A i : \A d \in SelChans[s] : InQueue(i, wCh[c].buffer) /\ InQueue(i, wCh[d].buffer) => c = d
      BY <1>1, <1>3 DEF Sel!ItemsConserved
    <3>3. NoRepeat(wCh[c].buffer)
      BY Zenon, <1>3 DEF Sel!ItemsConserved, NoRepeat
    <3> QED BY <3>1, <3>2, <3>3
  <2> QED BY <2>1, <2>2, <2>3 DEF Apart
<1>4. ASSUME Apart(s, wCh', unsent', got') PROVE Sel(s)!ItemsConserved'
  <2>1. (SelItems[s] = unsent \cup got \cup UNION {Sel(s)!Buffered(c) : c \in SelChans[s]})'
    BY <1>2, <1>4 DEF Apart
  <2>2. (unsent \cap got = {})'
    BY <1>4 DEF Apart
  <2>3. ASSUME NEW c \in SelChans[s]
        PROVE  (/\ Sel(s)!Buffered(c) \cap (unsent \cup got) = {}
                /\ \A d \in SelChans[s] : c # d => Sel(s)!Buffered(c) \cap Sel(s)!Buffered(d) = {}
                /\ \A j, k \in DOMAIN wCh[c].buffer : j # k => wCh[c].buffer[j] # wCh[c].buffer[k])'
    <3>1. (Sel(s)!Buffered(c) \cap (unsent \cup got) = {})'
      BY <1>2, <1>4 DEF Apart
    <3>2. (\A d \in SelChans[s] : c # d => Sel(s)!Buffered(c) \cap Sel(s)!Buffered(d) = {})'
      BY <1>2, <1>4 DEF Apart
    <3>3. (\A j, k \in DOMAIN wCh[c].buffer : j # k => wCh[c].buffer[j] # wCh[c].buffer[k])'
      BY Zenon, <1>4 DEF Apart, NoRepeat
    <3> QED BY <3>1, <3>2, <3>3
  <2> QED BY <2>1, <2>2, <2>3 DEF Sel!ItemsConserved
<1> QED BY <1>3, <1>4

\* Steps that leave the buffers alone.
LEMMA BuffersKept ==
    ASSUME NEW s, Sel(s)!ItemsConserved, UNCHANGED <<unsent, got>>,
           \A c \in SelChans[s] : wCh'[c].buffer = wCh[c].buffer
    PROVE  Sel(s)!ItemsConserved'
<1>1. Apart(s, wCh, unsent, got)
  BY ApartIs
<1>2. Apart(s, wCh', unsent', got')
  BY <1>1 DEF Apart
<1> QED BY <1>2, ApartIs

\* An item is received.
LEMMA ItemTaken ==
    ASSUME NEW s, Sel(s)!ItemsConserved, NEW c \in SelChans[s], wCh[c].buffer \in Seq(SelItems[s]),
           wCh[c].buffer # <<>>, wCh'[c].buffer = Tail(wCh[c].buffer),
           \A d \in SelChans[s] : d # c => wCh'[d].buffer = wCh[d].buffer,
           got' = got \cup {Head(wCh[c].buffer)}, unsent' = unsent, got \subseteq SelItems[s]
    PROVE  Sel(s)!ItemsConserved' /\ got' \subseteq SelItems[s]
<1> DEFINE h == Head(wCh[c].buffer)
<1>1. Apart(s, wCh, unsent, got)
  BY ApartIs
<1>2. NoRepeat(wCh[c].buffer) /\ h = wCh[c].buffer[1]
  BY <1>1, HeadTailProperties DEF Apart
<1>3. /\ NoRepeat(wCh'[c].buffer) /\ h \in SelItems[s] /\ InQueue(h, wCh[c].buffer)
      /\ \A x : InQueue(x, wCh'[c].buffer) <=> InQueue(x, wCh[c].buffer) /\ x # h
  BY <1>2, TailQueue
<1> HIDE DEF h
<1>4. got' = got \cup {h} /\ h \notin unsent /\ h \notin got
  BY <1>1, <1>3 DEF h, Apart
<1>5. Apart(s, wCh', unsent', got')
  <2>1. \A i : i \in SelItems[s] <=> \/ i \in unsent' \/ i \in got'
                                     \/ \E d \in SelChans[s] : InQueue(i, wCh'[d].buffer)
    BY <1>1, <1>3, <1>4 DEF Apart
  <2>2. \A i : ~(i \in unsent' /\ i \in got')
    BY <1>1, <1>4 DEF Apart
  <2>3. ASSUME NEW d \in SelChans[s]
        PROVE  /\ \A i : InQueue(i, wCh'[d].buffer) => i \notin unsent' /\ i \notin got'
               /\ \A i : \A e \in SelChans[s] : InQueue(i, wCh'[d].buffer) /\ InQueue(i, wCh'[e].buffer) => d = e
               /\ NoRepeat(wCh'[d].buffer)
    <3>1. \A e \in SelChans[s] : \A i : InQueue(i, wCh'[e].buffer) => InQueue(i, wCh[e].buffer) /\ i # h
      <4> SUFFICES ASSUME NEW e \in SelChans[s], NEW i, InQueue(i, wCh'[e].buffer)
                   PROVE  InQueue(i, wCh[e].buffer) /\ i # h
        OBVIOUS
      <4>1. CASE e = c
        BY <1>3, <4>1
      <4>2. CASE e # c
        BY <1>1, <1>3, <4>2 DEF Apart
      <4> QED BY <4>1, <4>2
    <3>2. \A i : InQueue(i, wCh'[d].buffer) => i \notin unsent' /\ i \notin got'
      BY <1>1, <1>4, <3>1 DEF Apart
    <3>3. \A i : \A e \in SelChans[s] : InQueue(i, wCh'[d].buffer) /\ InQueue(i, wCh'[e].buffer) => d = e
      BY <1>1, <3>1 DEF Apart
    <3>4. NoRepeat(wCh'[d].buffer)
      BY <1>1, <1>3 DEF Apart
    <3> QED BY <3>2, <3>3, <3>4
  <2> QED BY <2>1, <2>2, <2>3 DEF Apart
<1> QED BY <1>3, <1>4, <1>5, ApartIs

\* An item is sent.
LEMMA ItemSent ==
    ASSUME NEW s, Sel(s)!ItemsConserved, NEW c \in SelChans[s], wCh[c].buffer \in Seq(SelItems[s]),
           NEW x \in unsent, unsent \subseteq SelItems[s], wCh'[c].buffer = Append(wCh[c].buffer, x),
           \A d \in SelChans[s] : d # c => wCh'[d].buffer = wCh[d].buffer,
           got' = got, unsent' = unsent \ {x}
    PROVE  Sel(s)!ItemsConserved'
<1>1. Apart(s, wCh, unsent, got)
  BY ApartIs
<1>2. NoRepeat(wCh[c].buffer) /\ ~InQueue(x, wCh[c].buffer) /\ x \notin got
  BY <1>1 DEF Apart
<1>3. /\ NoRepeat(wCh'[c].buffer)
      /\ \A i : InQueue(i, wCh'[c].buffer) <=> InQueue(i, wCh[c].buffer) \/ i = x
  BY <1>2, AppendQueue
<1>5. Apart(s, wCh', unsent', got')
  <2>1. \A i : i \in SelItems[s] <=> \/ i \in unsent' \/ i \in got'
                                     \/ \E d \in SelChans[s] : InQueue(i, wCh'[d].buffer)
    BY <1>1, <1>2, <1>3 DEF Apart
  <2>2. \A i : ~(i \in unsent' /\ i \in got')
    BY <1>1 DEF Apart
  <2>3. ASSUME NEW d \in SelChans[s]
        PROVE  /\ \A i : InQueue(i, wCh'[d].buffer) => i \notin unsent' /\ i \notin got'
               /\ \A i : \A e \in SelChans[s] : InQueue(i, wCh'[d].buffer) /\ InQueue(i, wCh'[e].buffer) => d = e
               /\ NoRepeat(wCh'[d].buffer)
    BY <1>1, <1>2, <1>3 DEF Apart
  <2> QED BY <2>1, <2>2, <2>3 DEF Apart
<1> QED BY <1>5, ApartIs

\* The watchers: no queue grows, and who leaves the phases in which its arbiter may be
\* registered has left the queues.
LEMMA WatchersKept ==
    ASSUME NEW s, Watching(s),
           \A c \in SelChans[s] :
              /\ Fit(s, wCh'[c])
              /\ \A a \in Sel(s)!Arbiters : InQueue(a, wCh'[c].watchers) => InQueue(a, wCh[c].watchers),
           \A w \in SelTasks[s] :
              \/ wPc'[w] = wPc[w] /\ round'[w] = round[w] /\ todo'[w] \subseteq todo[w]
              \/ \A c \in SelChans[s] : ~InQueue(<<w, round[w]>>, wCh'[c].watchers)
              \/ /\ round'[w] = round[w]
                 /\ wPc'[w] \in {"register", "claim", "await", "woken", "unwind"}
                 /\ wPc'[w] \in {"register", "claim"} =>
                      wPc[w] \in {"register", "claim"} /\ todo'[w] \subseteq todo[w]
    PROVE  Watching(s)'
<1> SUFFICES ASSUME NEW c \in SelChans[s], NEW a \in Sel(s)!Arbiters, InQueue(a, wCh'[c].watchers)
             PROVE  /\ a = <<a[1], round'[a[1]]>>
                    /\ wPc'[a[1]] \in {"register", "claim", "await", "woken", "unwind"}
                    /\ wPc'[a[1]] \in {"register", "claim"} => c \notin todo'[a[1]]
  BY DEF Watching, Fit, Sel!Arbiters, Sel!Raw!ChannelState
<1>1. a[1] \in SelTasks[s]
  BY ArbiterShape
<1>2. /\ a = <<a[1], round[a[1]]>>
      /\ wPc[a[1]] \in {"register", "claim", "await", "woken", "unwind"}
      /\ wPc[a[1]] \in {"register", "claim"} => c \notin todo[a[1]]
  BY DEF Watching
<1> QED BY <1>1, <1>2

-----------------------------------------------------------------------------
(* The steps of the selectors and of the others *)

\* A take from channel c: the item goes to got, or nothing happens.
LEMMA TakeIs ==
    ASSUME NEW s, SelInv(s), NEW c \in SelChans[s]
    PROVE  LET r == Sel(s)!Raw!try_recv(wCh[c])
           IN  /\ Sel(s)!Signals(c, r) = {} /\ Fit(s, wCh[c]) /\ Fit(s, r.st)
               /\ r.st.watchers = wCh[c].watchers /\ r.st.is_closed = wCh[c].is_closed
               /\ r.ret # "item" => r.st = wCh[c] /\ wCh[c].buffer = <<>>
               /\ r.ret = "item" => /\ wCh[c].buffer # <<>> /\ r.item = Head(wCh[c].buffer)
                                    /\ r.st.buffer = Tail(wCh[c].buffer)
<1>1. Fit(s, wCh[c])
  BY DEF SelInv, Watching
<1>2. LET r == Sel(s)!Raw!try_recv(wCh[c])
      IN  /\ r.wakes = {} /\ Fit(s, r.st)
          /\ r.st.watchers = wCh[c].watchers /\ r.st.is_closed = wCh[c].is_closed
          /\ wCh[c].buffer = <<>> => r.st = wCh[c] /\ r.ret # "item"
          /\ wCh[c].buffer # <<>> => /\ r.ret = "item" /\ r.item = Head(wCh[c].buffer)
                                     /\ r.st.buffer = Tail(wCh[c].buffer)
  BY <1>1, SelRecv
<1>3. Sel(s)!Signals(c, Sel(s)!Raw!try_recv(wCh[c])) = {}
  BY <1>2, SelSignals
<1> QED BY <1>1, <1>2, <1>3

\* A take keeps the items conserved, whatever happens to the watchers.
LEMMA TakeConserves ==
    ASSUME NEW s, SelInv(s), NEW c \in SelChans[s],
           LET r == Sel(s)!Raw!try_recv(wCh[c])
           IN  /\ wCh'[c].buffer = r.st.buffer
               /\ r.ret = "item" => got' = got \cup {r.item}
               /\ r.ret # "item" => got' = got,
           \A d \in SelChans[s] : d # c => wCh'[d].buffer = wCh[d].buffer,
           unsent' = unsent
    PROVE  Sel(s)!ItemsConserved' /\ got' \subseteq SelItems[s]
<1> DEFINE r == Sel(s)!Raw!try_recv(wCh[c])
<1>1. Sel(s)!ItemsConserved /\ got \subseteq SelItems[s] /\ wCh[c].buffer \in Seq(SelItems[s])
  BY SelTypes, FitFields DEF SelInv, Watching
<1>2. LET t1 == Sel(s)!Raw!try_recv(wCh[c])
      IN  /\ t1.ret # "item" => t1.st = wCh[c]
          /\ t1.ret = "item" => /\ wCh[c].buffer # <<>> /\ t1.item = Head(wCh[c].buffer)
                                /\ t1.st.buffer = Tail(wCh[c].buffer)
  BY TakeIs
<1>3. /\ r.ret # "item" => r.st = wCh[c]
      /\ r.ret = "item" => /\ wCh[c].buffer # <<>> /\ r.item = Head(wCh[c].buffer)
                           /\ r.st.buffer = Tail(wCh[c].buffer)
  BY <1>2
<1>4. /\ wCh'[c].buffer = r.st.buffer
      /\ r.ret = "item" => got' = got \cup {r.item}
      /\ r.ret # "item" => got' = got
  OBVIOUS
<1> HIDE DEF r
<1>5. CASE r.ret = "item"
  BY <1>1, <1>3, <1>4, <1>5, ItemTaken
<1>6. CASE r.ret # "item"
  <2>1. \A d \in SelChans[s] : wCh'[d].buffer = wCh[d].buffer
    BY <1>3, <1>4, <1>6
  <2> QED BY <1>1, <1>4, <1>6, <2>1, BuffersKept
<1> QED BY <1>5, <1>6

\* The channels after a call on c alone.
LEMMA OneChannelChanged ==
    ASSUME NEW s, SelInv(s), NEW c \in SelChans[s], NEW y, Fit(s, y), wCh' = [wCh EXCEPT ![c] = y]
    PROVE  /\ wCh'[c] = y /\ \A d \in SelChans[s] : d # c => wCh'[d] = wCh[d]
           /\ \A d \in SelChans[s] : Fit(s, wCh'[d])
           /\ wCh' \in [SelChans[s] -> Sel(s)!Raw!ChannelState]
<1>1. wCh \in [SelChans[s] -> Sel(s)!Raw!ChannelState] /\ y \in Sel(s)!Raw!ChannelState
  BY SelTypes DEF SelInv, Fit
<1>2. wCh'[c] = y /\ \A d \in SelChans[s] : d # c => wCh'[d] = wCh[d]
  BY <1>1
<1>3. wCh' \in [SelChans[s] -> Sel(s)!Raw!ChannelState]
  BY <1>1
<1>4. \A d \in SelChans[s] : Fit(s, wCh[d])
  BY DEF SelInv, Watching
<1>5. ASSUME NEW d \in SelChans[s] PROVE Fit(s, wCh'[d])
  <2>1. CASE d = c
    BY <1>2, <2>1
  <2>2. CASE d # c
    BY <1>2, <1>4, <2>2
  <2> QED BY <2>1, <2>2
<1> QED BY <1>2, <1>3, <1>5

\* Where a selector goes.
LEMMA GoesTo ==
    ASSUME NEW s, Sel(s)!TypeOK, NEW w \in SelTasks[s], NEW x \in Sel(s)!PCs, Sel(s)!Goto(w, x)
    PROVE  /\ wPc' \in [SelTasks[s] -> Sel(s)!PCs] /\ wPc'[w] = x
           /\ \A v \in SelTasks[s] : v # w => wPc'[v] = wPc[v]
BY SelTypes DEF Sel!Goto

\* The calls of the other clients keep the invariant.
LEMMA ClientsKept ==
    ASSUME NEW s \in SelectScenes, SelInv(s), NEW c \in SelChans[s],
           Sel(s)!TryRecv(c) \/ Sel(s)!Close(c) \/ \E i \in SelItems[s] : Sel(s)!TrySend(c, i)
    PROVE  SelInv(s)'
<1>0. /\ Sel(s)!TypeOK /\ Watching(s) /\ Sel(s)!ItemsConserved
      /\ wCh \in [SelChans[s] -> Sel(s)!Raw!ChannelState] /\ Fit(s, wCh[c])
      /\ wInflight \subseteq Sel(s)!Arbiters \X SelChans[s]
      /\ unsent \subseteq SelItems[s] /\ got \subseteq SelItems[s]
      /\ wCh[c].buffer \in Seq(SelItems[s]) /\ wCh[c].watchers \in Seq(Sel(s)!Arbiters)
  BY SelTypes, FitFields DEF SelInv, Watching
<1>1. UNCHANGED <<wPc, todo, round, ready, settled>>
  BY DEF Sel!TryRecv, Sel!Close, Sel!TrySend
<1>2. ASSUME NEW y, Fit(s, y), wCh' = [wCh EXCEPT ![c] = y],
             \A a \in Sel(s)!Arbiters : InQueue(a, y.watchers) => InQueue(a, wCh[c].watchers),
             wInflight' \subseteq Sel(s)!Arbiters \X SelChans[s],
             Sel(s)!ItemsConserved', got' \subseteq SelItems[s], unsent' \subseteq SelItems[s]
      PROVE  SelInv(s)'
  <2>1. /\ wCh'[c] = y /\ \A d \in SelChans[s] : d # c => wCh'[d] = wCh[d]
        /\ \A d \in SelChans[s] : Fit(s, wCh'[d])
        /\ wCh' \in [SelChans[s] -> Sel(s)!Raw!ChannelState]
    BY <1>2, OneChannelChanged
  <2>2. \A d \in SelChans[s] : \A a \in Sel(s)!Arbiters :
           InQueue(a, wCh'[d].watchers) => InQueue(a, wCh[d].watchers)
    BY <1>2, <2>1
  <2>3. Watching(s)'
    BY <1>0, <1>1, <2>1, <2>2, WatchersKept
  <2>4. Sel(s)!TypeOK'
    BY <1>0, <1>1, <1>2, <2>1 DEF Sel!TypeOK
  <2>5. Named(s)'
    BY <1>1 DEF SelInv, Named
  <2> QED BY <1>2, <2>3, <2>4, <2>5 DEF SelInv
<1>3. CASE Sel(s)!TryRecv(c)
  <2> DEFINE r == Sel(s)!Raw!try_recv(wCh[c])
  <2>1. /\ Sel(s)!Signals(c, r) = {} /\ Fit(s, r.st) /\ r.st.watchers = wCh[c].watchers
    BY TakeIs
  <2>2. /\ r.ret = "item" /\ wCh' = [wCh EXCEPT ![c] = r.st] /\ wInflight' = wInflight
        /\ got' = got \cup {r.item} /\ unsent' = unsent
    BY <1>3, <2>1 DEF Sel!TryRecv, Sel!Apply
  <2>3. /\ wCh'[c] = r.st /\ \A d \in SelChans[s] : d # c => wCh'[d] = wCh[d]
    BY <2>1, <2>2, OneChannelChanged
  <2>4. Sel(s)!ItemsConserved' /\ got' \subseteq SelItems[s]
    BY <2>2, <2>3, TakeConserves
  <2> HIDE DEF r
  <2> QED BY <1>0, <1>2, <2>1, <2>2, <2>4
<1>4. CASE Sel(s)!Close(c)
  <2> DEFINE r == Sel(s)!Raw!close(wCh[c])
  <2>1. /\ Fit(s, r.st) /\ r.st.buffer = wCh[c].buffer /\ r.st.watchers = <<>>
        /\ Sel(s)!Signals(c, r) = {<<a, c>> : a \in Elems(wCh[c].watchers)}
    BY <1>0, <1>4, SelClose DEF Sel!Close
  <2>2. /\ wCh' = [wCh EXCEPT ![c] = r.st] /\ wInflight' = wInflight \cup Sel(s)!Signals(c, r)
        /\ UNCHANGED <<unsent, got>>
    BY <1>4 DEF Sel!Close, Sel!Apply
  <2> HIDE DEF r
  <2>3. Elems(wCh[c].watchers) \subseteq Sel(s)!Arbiters
    BY <1>0, ElementOfSeq, LenProperties DEF Elems
  <2>4. wInflight' \subseteq Sel(s)!Arbiters \X SelChans[s]
    BY <1>0, <2>1, <2>2, <2>3
  <2>5. \A d \in SelChans[s] : wCh'[d].buffer = wCh[d].buffer
    <3>1. wCh'[c] = r.st /\ \A d \in SelChans[s] : d # c => wCh'[d] = wCh[d]
      BY <2>1, <2>2, OneChannelChanged
    <3> QED BY <2>1, <3>1
  <2>6. Sel(s)!ItemsConserved'
    BY <1>0, <2>2, <2>5, BuffersKept
  <2>7. \A a : ~InQueue(a, r.st.watchers)
    BY <2>1 DEF InQueue
  <2> QED BY <1>0, <1>2, <2>1, <2>2, <2>4, <2>6, <2>7
<1>5. ASSUME NEW i \in SelItems[s], Sel(s)!TrySend(c, i) PROVE SelInv(s)'
  <2> DEFINE r == Sel(s)!Raw!try_send(wCh[c], i)
  <2>1. /\ Fit(s, r.st)
        /\ r.ret # "ok" => r.st = wCh[c] /\ Sel(s)!Signals(c, r) = {}
        /\ r.ret = "ok" => r.st.buffer = Append(wCh[c].buffer, i)
        /\ r.ret = "ok" /\ wCh[c].watchers = <<>> => r.st.watchers = <<>> /\ Sel(s)!Signals(c, r) = {}
        /\ r.ret = "ok" /\ wCh[c].watchers # <<>> =>
             r.st.watchers = Tail(wCh[c].watchers) /\ Sel(s)!Signals(c, r) = {<<Head(wCh[c].watchers), c>>}
    <3>1. LET z == Sel(s)!Raw!try_send(wCh[c], i)
          IN  /\ Fit(s, z.st) /\ z.st.is_closed = wCh[c].is_closed
              /\ z.ret # "ok" => z.st = wCh[c] /\ Sel(s)!Signals(c, z) = {}
              /\ z.ret = "ok" => ~wCh[c].is_closed /\ z.st.buffer = Append(wCh[c].buffer, i)
              /\ z.ret = "ok" /\ wCh[c].watchers = <<>> => z.st.watchers = <<>> /\ Sel(s)!Signals(c, z) = {}
              /\ z.ret = "ok" /\ wCh[c].watchers # <<>> =>
                   z.st.watchers = Tail(wCh[c].watchers) /\ Sel(s)!Signals(c, z) = {<<Head(wCh[c].watchers), c>>}
      BY <1>0, SelSend
    <3> QED BY <3>1
  <2>2. /\ wCh' = [wCh EXCEPT ![c] = r.st] /\ wInflight' = wInflight \cup Sel(s)!Signals(c, r)
        /\ unsent' = (IF r.ret = "ok" THEN unsent \ {i} ELSE unsent) /\ got' = got /\ i \in unsent
    BY <1>5 DEF Sel!TrySend, Sel!Apply
  <2> HIDE DEF r
  <2>3. wCh'[c] = r.st /\ \A d \in SelChans[s] : d # c => wCh'[d] = wCh[d]
    BY <2>1, <2>2, OneChannelChanged
  <2>4. wCh[c].watchers # <<>> =>
          /\ Head(wCh[c].watchers) \in Sel(s)!Arbiters
          /\ \A a : InQueue(a, Tail(wCh[c].watchers)) => InQueue(a, wCh[c].watchers)
    <3> SUFFICES ASSUME wCh[c].watchers # <<>>
                 PROVE  /\ Head(wCh[c].watchers) \in Sel(s)!Arbiters
                        /\ \A a : InQueue(a, Tail(wCh[c].watchers)) => InQueue(a, wCh[c].watchers)
      OBVIOUS
    <3>1. NoRepeat(wCh[c].watchers)
      BY <1>0 DEF Fit
    <3> QED BY <1>0, <3>1, TailQueue, HeadTailProperties
  <2>5. wInflight' \subseteq Sel(s)!Arbiters \X SelChans[s]
    BY <1>0, <2>1, <2>2, <2>4
  <2>6. Sel(s)!ItemsConserved'
    <3>1. CASE r.ret = "ok"
      <4>1. unsent' = unsent \ {i} /\ wCh'[c].buffer = Append(wCh[c].buffer, i)
        BY <2>1, <2>2, <2>3, <3>1
      <4> QED BY <1>0, <2>2, <2>3, <4>1, ItemSent
    <3>2. CASE r.ret # "ok"
      <4>1. \A d \in SelChans[s] : wCh'[d].buffer = wCh[d].buffer
        BY <2>1, <2>3, <3>2
      <4> QED BY <1>0, <2>2, <3>2, <4>1, BuffersKept
    <3> QED BY <3>1, <3>2
  <2>7. \A a \in Sel(s)!Arbiters : InQueue(a, r.st.watchers) => InQueue(a, wCh[c].watchers)
    <3>1. \A a : ~InQueue(a, <<>>)
      BY DEF InQueue
    <3> QED BY <2>1, <2>4, <3>1
  <2> QED BY <1>0, <1>2, <2>1, <2>2, <2>5, <2>6, <2>7
<1> QED BY <1>3, <1>4, <1>5

\* The steps of select_channel that change no channel keep the invariant.
LEMMA ProbeEndKept ==
    ASSUME NEW s \in SelectScenes, SelInv(s), NEW w \in SelTasks[s],
           Sel(s)!ProbeEnd(w) \/ Sel(s)!Cancel(w)
    PROVE  SelInv(s)'
<1> USE DEF Sel!PCs, Sel!Returned
<1>0. /\ Sel(s)!TypeOK /\ Watching(s) /\ Sel(s)!ItemsConserved /\ Named(s)
      /\ todo \in [SelTasks[s] -> SUBSET SelChans[s]]
      /\ settled \subseteq Sel(s)!Arbiters
  BY SelTypes DEF SelInv
<1>1. UNCHANGED <<wCh, round, ready, wInflight, unsent, got>>
  BY DEF Sel!ProbeEnd, Sel!Cancel
<1>2. PICK x \in {"default", "closed", "timeout", "register", "unwind"} : Sel(s)!Goto(w, x)
  BY DEF Sel!ProbeEnd, Sel!Cancel
<1>3. /\ wPc' \in [SelTasks[s] -> Sel(s)!PCs] /\ wPc'[w] = x
      /\ \A v \in SelTasks[s] : v # w => wPc'[v] = wPc[v]
  <2>1. x \in Sel(s)!PCs
    OBVIOUS
  <2> QED BY <1>0, <1>2, <2>1, GoesTo
<1>4. /\ todo' \in [SelTasks[s] -> SUBSET SelChans[s]]
      /\ \A v \in SelTasks[s] : v # w => todo'[v] = todo[v]
      /\ settled' \subseteq Sel(s)!Arbiters
  <2>1. CASE Sel(s)!ProbeEnd(w)
    BY <1>0, <2>1 DEF Sel!ProbeEnd
  <2>2. CASE Sel(s)!Cancel(w)
    BY <1>0, <2>2, ArbiterIs DEF Sel!Cancel
  <2> QED BY <2>1, <2>2
<1>5. Sel(s)!ItemsConserved'
  BY <1>0, <1>1, BuffersKept
<1>6. \A c \in SelChans[s] :
        /\ Fit(s, wCh'[c])
        /\ \A a \in Sel(s)!Arbiters : InQueue(a, wCh'[c].watchers) => InQueue(a, wCh[c].watchers)
  BY <1>0, <1>1 DEF Watching
<1>7. \/ \A c \in SelChans[s] : ~InQueue(<<w, round[w]>>, wCh'[c].watchers)
      \/ wPc'[w] = "unwind"
  <2>1. CASE Sel(s)!ProbeEnd(w)
    <3>1. wPc[w] = "probe" /\ <<w, round[w]>> \in Sel(s)!Arbiters /\ <<w, round[w]>>[1] = w
      BY <1>0, <2>1, ArbiterIs DEF Sel!ProbeEnd
    <3> QED BY <1>0, <1>1, <3>1 DEF Watching
  <2>2. CASE Sel(s)!Cancel(w)
    BY <1>0, <2>2, SelTypes DEF Sel!Cancel, Sel!Goto
  <2> QED BY <2>1, <2>2
<1>8. \A v \in SelTasks[s] :
        \/ wPc'[v] = wPc[v] /\ round'[v] = round[v] /\ todo'[v] \subseteq todo[v]
        \/ \A c \in SelChans[s] : ~InQueue(<<v, round[v]>>, wCh'[c].watchers)
        \/ /\ round'[v] = round[v]
           /\ wPc'[v] \in {"register", "claim", "await", "woken", "unwind"}
           /\ wPc'[v] \in {"register", "claim"} =>
                wPc[v] \in {"register", "claim"} /\ todo'[v] \subseteq todo[v]
  BY <1>1, <1>3, <1>4, <1>7
<1>9. Watching(s)'
  BY <1>0, <1>6, <1>8, WatchersKept
<1>10. Sel(s)!TypeOK'
  BY <1>0, <1>1, <1>3, <1>4 DEF Sel!TypeOK
<1>11. Named(s)'
  BY <1>0, <1>1, <1>3 DEF Named
<1> QED BY <1>5, <1>9, <1>10, <1>11 DEF SelInv

\* The probe and the registration of one channel keep the invariant.
LEMMA VisitKept ==
    ASSUME NEW s \in SelectScenes, SelInv(s), NEW w \in SelTasks[s],
           Sel(s)!Probe(w) \/ Sel(s)!Register(w)
    PROVE  SelInv(s)'
<1> USE DEF Sel!PCs, Sel!Returned
<1>0. /\ Sel(s)!TypeOK /\ Watching(s) /\ Sel(s)!ItemsConserved /\ Named(s)
      /\ todo \in [SelTasks[s] -> SUBSET SelChans[s]]
      /\ ready \in [SelTasks[s] -> SelChans[s] \cup {NoChan}]
      /\ wPc \in [SelTasks[s] -> Sel(s)!PCs]
      /\ wInflight \subseteq Sel(s)!Arbiters \X SelChans[s]
      /\ unsent \subseteq SelItems[s] /\ got \subseteq SelItems[s]
      /\ <<w, round[w]>> \in Sel(s)!Arbiters /\ Sel(s)!Arbiter(w) = <<w, round[w]>>
      /\ <<w, round[w]>>[1] = w
  BY SelTypes, ArbiterIs DEF SelInv
<1>1. CASE Sel(s)!Probe(w)
  <2>1. PICK c \in todo[w] :
           LET r == Sel(s)!Raw!try_recv(wCh[c])
           IN  /\ Sel(s)!Apply(c, r)
               /\ todo' = [todo EXCEPT ![w] = @ \ {c}]
               /\ IF r.ret = "item"
                  THEN Sel(s)!Goto(w, "done") /\ got' = got \cup {r.item}
                  ELSE UNCHANGED <<wPc, got>>
    BY <1>1 DEF Sel!Probe
  <2>2. c \in SelChans[s]
    BY <1>0
  <2> DEFINE r == Sel(s)!Raw!try_recv(wCh[c])
  <2>3. /\ Sel(s)!Signals(c, r) = {} /\ Fit(s, r.st) /\ r.st.watchers = wCh[c].watchers
    BY <2>2, TakeIs
  <2>4. /\ wPc[w] = "probe" /\ UNCHANGED <<round, ready, settled, unsent>>
        /\ wCh' = [wCh EXCEPT ![c] = r.st] /\ wInflight' = wInflight
        /\ todo' = [todo EXCEPT ![w] = @ \ {c}]
        /\ r.ret = "item" => Sel(s)!Goto(w, "done") /\ got' = got \cup {r.item}
        /\ r.ret # "item" => wPc' = wPc /\ got' = got
    BY <1>1, <2>1, <2>3 DEF Sel!Probe, Sel!Apply
  <2>5. /\ wCh'[c] = r.st /\ \A d \in SelChans[s] : d # c => wCh'[d] = wCh[d]
        /\ \A d \in SelChans[s] : Fit(s, wCh'[d])
        /\ wCh' \in [SelChans[s] -> Sel(s)!Raw!ChannelState]
    BY <2>2, <2>3, <2>4, OneChannelChanged
  <2>6. Sel(s)!ItemsConserved' /\ got' \subseteq SelItems[s]
    BY <2>2, <2>4, <2>5, TakeConserves
  <2> HIDE DEF r
  <2>7. \A d \in SelChans[s] : wCh'[d].watchers = wCh[d].watchers
    BY <2>3, <2>5
  <2>8. \A d \in SelChans[s] : ~InQueue(<<w, round[w]>>, wCh'[d].watchers)
    <3>1. \A d \in SelChans[s] : ~InQueue(<<w, round[w]>>, wCh[d].watchers)
      BY <1>0, <2>4 DEF Watching
    <3> QED BY <2>7, <3>1
  <2>9. /\ wPc' \in [SelTasks[s] -> Sel(s)!PCs] /\ wPc'[w] \in {"probe", "done"}
        /\ \A v \in SelTasks[s] : v # w => wPc'[v] = wPc[v]
    <3>1. CASE r.ret = "item"
      <4>1. "done" \in Sel(s)!PCs
        OBVIOUS
      <4> QED BY <1>0, <2>4, <3>1, <4>1, GoesTo
    <3>2. CASE r.ret # "item"
      BY <1>0, <2>4, <3>2
    <3> QED BY <3>1, <3>2
  <2>10. todo' \in [SelTasks[s] -> SUBSET SelChans[s]] /\ \A v \in SelTasks[s] : v # w => todo'[v] = todo[v]
    BY <1>0, <2>4
  <2>11. Watching(s)'
    <3>1. \A d \in SelChans[s] : \A a \in Sel(s)!Arbiters :
             InQueue(a, wCh'[d].watchers) => InQueue(a, wCh[d].watchers)
      BY <2>7
    <3>2. \A v \in SelTasks[s] :
            \/ wPc'[v] = wPc[v] /\ round'[v] = round[v] /\ todo'[v] \subseteq todo[v]
            \/ \A d \in SelChans[s] : ~InQueue(<<v, round[v]>>, wCh'[d].watchers)
      BY <2>4, <2>8, <2>9, <2>10
    <3> QED BY <1>0, <2>5, <3>1, <3>2, WatchersKept
  <2>12. Sel(s)!TypeOK'
    BY <1>0, <2>4, <2>5, <2>6, <2>9, <2>10 DEF Sel!TypeOK
  <2>13. Named(s)'
    BY <1>0, <2>4, <2>9 DEF Named
  <2> QED BY <2>6, <2>11, <2>12, <2>13 DEF SelInv
<1>2. CASE Sel(s)!Register(w)
  <2>1. PICK c \in todo[w] :
           LET r == Sel(s)!Raw!register_select_watcher(wCh[c], Sel(s)!Arbiter(w))
           IN  /\ Sel(s)!Apply(c, r)
               /\ todo' = [todo EXCEPT ![w] = @ \ {c}]
               /\ IF r.ret = "registered"
                  THEN UNCHANGED <<wPc, ready>>
                  ELSE Sel(s)!Goto(w, "claim") /\ ready' = [ready EXCEPT ![w] = c]
    BY <1>2 DEF Sel!Register
  <2>2. c \in SelChans[s] /\ wPc[w] = "register" /\ UNCHANGED <<round, settled, unsent, got>>
    BY <1>0, <1>2 DEF Sel!Register
  <2>3. ~InQueue(<<w, round[w]>>, wCh[c].watchers) /\ Fit(s, wCh[c])
    BY <1>0, <2>1, <2>2 DEF Watching
  <2> DEFINE r == Sel(s)!Raw!register_select_watcher(wCh[c], <<w, round[w]>>)
  <2>4. /\ r.wakes = {} /\ Fit(s, r.st) /\ r.st.buffer = wCh[c].buffer
        /\ r.ret # "registered" => r.st = wCh[c]
        /\ r.ret = "registered" =>
              \A b : InQueue(b, r.st.watchers) <=> InQueue(b, wCh[c].watchers) \/ b = <<w, round[w]>>
    BY <1>0, <2>3, SelRegister
  <2>5. /\ wCh' = [wCh EXCEPT ![c] = r.st] /\ wInflight' = wInflight
        /\ todo' = [todo EXCEPT ![w] = @ \ {c}]
        /\ r.ret = "registered" => wPc' = wPc /\ ready' = ready
        /\ r.ret # "registered" => Sel(s)!Goto(w, "claim") /\ ready' = [ready EXCEPT ![w] = c]
    <3>1. Sel(s)!Signals(c, r) = {}
      BY <2>4, SelSignals
    <3> QED BY <1>0, <2>1, <3>1 DEF Sel!Apply
  <2> HIDE DEF r
  <2>6. /\ wCh'[c] = r.st /\ \A d \in SelChans[s] : d # c => wCh'[d] = wCh[d]
        /\ \A d \in SelChans[s] : Fit(s, wCh'[d])
        /\ wCh' \in [SelChans[s] -> Sel(s)!Raw!ChannelState]
    BY <2>2, <2>4, <2>5, OneChannelChanged
  <2>7. Sel(s)!ItemsConserved'
    <3>1. \A d \in SelChans[s] : wCh'[d].buffer = wCh[d].buffer
      BY <2>4, <2>6
    <3> QED BY <1>0, <2>2, <3>1, BuffersKept
  <2>8. todo' \in [SelTasks[s] -> SUBSET SelChans[s]] /\ todo'[w] = todo[w] \ {c}
        /\ \A v \in SelTasks[s] : v # w => todo'[v] = todo[v]
    BY <1>0, <2>5
  <2>9. /\ wPc' \in [SelTasks[s] -> Sel(s)!PCs] /\ wPc'[w] \in {"register", "claim"}
        /\ \A v \in SelTasks[s] : v # w => wPc'[v] = wPc[v]
        /\ ready' \in [SelTasks[s] -> SelChans[s] \cup {NoChan}]
        /\ wPc'[w] = "claim" => ready'[w] = c
        /\ \A v \in SelTasks[s] : v # w => ready'[v] = ready[v]
    <3>1. CASE r.ret = "registered"
      BY <1>0, <2>2, <2>5, <3>1
    <3>2. CASE r.ret # "registered"
      <4>1. "claim" \in Sel(s)!PCs
        OBVIOUS
      <4>2. /\ wPc' \in [SelTasks[s] -> Sel(s)!PCs] /\ wPc'[w] = "claim"
            /\ \A v \in SelTasks[s] : v # w => wPc'[v] = wPc[v]
        BY <1>0, <2>5, <3>2, <4>1, GoesTo
      <4> QED BY <1>0, <2>2, <2>5, <3>2, <4>2
    <3> QED BY <3>1, <3>2
  <2>10. Watching(s)'
    <3> SUFFICES ASSUME NEW d \in SelChans[s], NEW a \in Sel(s)!Arbiters, InQueue(a, wCh'[d].watchers)
                 PROVE  /\ a = <<a[1], round'[a[1]]>>
                        /\ wPc'[a[1]] \in {"register", "claim", "await", "woken", "unwind"}
                        /\ wPc'[a[1]] \in {"register", "claim"} => d \notin todo'[a[1]]
      BY <2>6 DEF Watching, Fit, Sel!Arbiters, Sel!Raw!ChannelState
    <3>1. a[1] \in SelTasks[s] /\ round' = round
      BY <2>2, ArbiterShape
    <3>2. CASE InQueue(a, wCh[d].watchers)
      <4>1. /\ a = <<a[1], round[a[1]]>>
            /\ wPc[a[1]] \in {"register", "claim", "await", "woken", "unwind"}
            /\ wPc[a[1]] \in {"register", "claim"} => d \notin todo[a[1]]
        BY <1>0, <3>2 DEF Watching
      <4>2. CASE a[1] = w
        BY <2>2, <2>8, <2>9, <3>1, <4>1, <4>2
      <4>3. CASE a[1] # w
        BY <2>8, <2>9, <3>1, <4>1, <4>3
      <4> QED BY <4>2, <4>3
    <3>3. CASE ~InQueue(a, wCh[d].watchers)
      <4>1. d = c /\ a = <<w, round[w]>>
        BY <2>4, <2>6, <3>3
      <4> QED BY <1>0, <2>8, <2>9, <3>1, <4>1
    <3> QED BY <3>2, <3>3
  <2>11. Sel(s)!TypeOK'
    BY <1>0, <2>2, <2>5, <2>6, <2>8, <2>9 DEF Sel!TypeOK
  <2>12. Named(s)'
    BY <1>0, <2>2, <2>9 DEF Named
  <2> QED BY <2>7, <2>10, <2>11, <2>12 DEF SelInv
<1> QED BY <1>1, <1>2

\* Selector w goes where no channel is named; the others stay.
Departs(s, w) ==
    /\ wPc' \in [SelTasks[s] -> Sel(s)!PCs]
    /\ todo' \in [SelTasks[s] -> SUBSET SelChans[s]]
    /\ \A v \in SelTasks[s] : v # w => wPc'[v] = wPc[v] /\ round'[v] = round[v] /\ todo'[v] = todo[v]
    /\ wPc'[w] \notin {"claim", "woken"}
    /\ UNCHANGED ready

\* After its finally clause no arbiter of selector w watches.
LEMMA LeftKept ==
    ASSUME NEW s \in SelectScenes, SelInv(s), NEW w \in SelTasks[s], NEW chans,
           \A c \in SelChans[s] : Fit(s, chans[c]) /\ chans[c].watchers = wCh[c].watchers,
           wCh' = Sel(s)!Unregistered(chans, w), Departs(s, w)
    PROVE  /\ wCh' \in [SelChans[s] -> Sel(s)!Raw!ChannelState] /\ Watching(s)' /\ Named(s)'
           /\ \A c \in SelChans[s] :
                /\ wCh'[c].buffer = chans[c].buffer /\ wCh'[c].is_closed = chans[c].is_closed
                /\ \A a : InQueue(a, wCh'[c].watchers) <=> InQueue(a, wCh[c].watchers) /\ a # <<w, round[w]>>
<1>1. /\ wCh' \in [SelChans[s] -> Sel(s)!Raw!ChannelState]
      /\ \A c \in SelChans[s] :
           /\ Fit(s, wCh'[c]) /\ wCh'[c].buffer = chans[c].buffer /\ wCh'[c].is_closed = chans[c].is_closed
           /\ \A a : InQueue(a, wCh'[c].watchers) <=> InQueue(a, chans[c].watchers) /\ a # <<w, round[w]>>
  <2>1. Sel(s)!Arbiter(w) = <<w, round[w]>> /\ <<w, round[w]>> \in Sel(s)!Arbiters
    BY ArbiterIs DEF SelInv
  <2>2. ASSUME NEW c \in SelChans[s]
        PROVE  /\ Fit(s, wCh'[c]) /\ wCh'[c].buffer = chans[c].buffer /\ wCh'[c].is_closed = chans[c].is_closed
               /\ \A a : InQueue(a, wCh'[c].watchers) <=> InQueue(a, chans[c].watchers) /\ a # <<w, round[w]>>
    <3>1. wCh'[c] = Sel(s)!Raw!unregister_select_watcher(chans[c], <<w, round[w]>>).st
      BY <2>1 DEF Sel!Unregistered
    <3>2. LET y == Sel(s)!Raw!unregister_select_watcher(chans[c], <<w, round[w]>>).st
          IN  /\ Fit(s, y) /\ y.buffer = chans[c].buffer /\ y.is_closed = chans[c].is_closed
              /\ \A b : InQueue(b, y.watchers) <=> InQueue(b, chans[c].watchers) /\ b # <<w, round[w]>>
      <4>1. Fit(s, chans[c])
        OBVIOUS
      <4> QED BY <2>1, <4>1, SelUnregister
    <3> QED BY <3>1, <3>2
  <2>3. wCh' = [c \in SelChans[s] |-> Sel(s)!Raw!unregister_select_watcher(chans[c], Sel(s)!Arbiter(w)).st]
    BY DEF Sel!Unregistered
  <2>4. wCh' = [c \in SelChans[s] |-> wCh'[c]]
    BY <2>3
  <2>5. \A c \in SelChans[s] : wCh'[c] \in Sel(s)!Raw!ChannelState
    BY <2>2 DEF Fit
  <2> HIDE DEF Fit
  <2> QED BY <2>2, <2>4, <2>5
<1>2. \A c \in SelChans[s] : \A a :
         InQueue(a, wCh'[c].watchers) <=> InQueue(a, wCh[c].watchers) /\ a # <<w, round[w]>>
  BY <1>1
<1>3. Watching(s)'
  <2>1. \A v \in SelTasks[s] :
          \/ wPc'[v] = wPc[v] /\ round'[v] = round[v] /\ todo'[v] \subseteq todo[v]
          \/ \A c \in SelChans[s] : ~InQueue(<<v, round[v]>>, wCh'[c].watchers)
    BY <1>2 DEF Departs
  <2> QED BY <1>1, <1>2, <2>1, WatchersKept DEF SelInv
<1>4. Named(s)'
  BY DEF SelInv, Named, Departs
<1> QED BY <1>1, <1>2, <1>3, <1>4

\* The steps that end a round keep the invariant.
LEMMA RoundEndKept ==
    ASSUME NEW s \in SelectScenes, SelInv(s), NEW w \in SelTasks[s],
           Sel(s)!Claim(w) \/ Sel(s)!Suspend(w) \/ Sel(s)!Resume(w) \/ Sel(s)!Unwind(w)
    PROVE  SelInv(s)'
<1> USE DEF Sel!PCs, Sel!Returned
<1>0. /\ Sel(s)!TypeOK /\ Watching(s) /\ Sel(s)!ItemsConserved /\ Named(s)
      /\ wCh \in [SelChans[s] -> Sel(s)!Raw!ChannelState]
      /\ todo \in [SelTasks[s] -> SUBSET SelChans[s]]
      /\ round \in [SelTasks[s] -> 1..SelRounds[s]] /\ SelRounds[s] \in Nat
      /\ ready \in [SelTasks[s] -> SelChans[s] \cup {NoChan}]
      /\ wPc \in [SelTasks[s] -> Sel(s)!PCs]
      /\ wInflight \subseteq Sel(s)!Arbiters \X SelChans[s]
      /\ unsent \subseteq SelItems[s] /\ got \subseteq SelItems[s]
      /\ \A c \in SelChans[s] : Fit(s, wCh[c])
  BY SelTypes, InstanceAssumptions DEF SelInv, Watching, Sel!SelectParams
<1>1. CASE Sel(s)!Unwind(w)
  <2>1. /\ Sel(s)!Goto(w, "cancelled") /\ wCh' = Sel(s)!Unregistered(wCh, w)
        /\ UNCHANGED <<todo, round, ready, settled, wInflight, unsent, got>>
    BY <1>1 DEF Sel!Unwind
  <2>2. /\ wPc' \in [SelTasks[s] -> Sel(s)!PCs] /\ wPc'[w] = "cancelled"
        /\ \A v \in SelTasks[s] : v # w => wPc'[v] = wPc[v]
    <3>1. "cancelled" \in Sel(s)!PCs
      OBVIOUS
    <3> QED BY <1>0, <2>1, <3>1, GoesTo
  <2>3. /\ wCh' \in [SelChans[s] -> Sel(s)!Raw!ChannelState] /\ Watching(s)' /\ Named(s)'
        /\ \A c \in SelChans[s] : wCh'[c].buffer = wCh[c].buffer
    BY <1>0, <2>1, <2>2, LeftKept DEF Departs
  <2>4. Sel(s)!ItemsConserved'
    BY <1>0, <2>1, <2>3, BuffersKept
  <2>5. Sel(s)!TypeOK'
    BY <1>0, <2>1, <2>2, <2>3 DEF Sel!TypeOK
  <2> QED BY <2>3, <2>4, <2>5 DEF SelInv
<1>2. CASE Sel(s)!Suspend(w)
  <2>1. /\ UNCHANGED <<todo, round, ready, settled, wInflight, unsent, got>> /\ wPc[w] = "register"
        /\ \/ Sel(s)!Goto(w, "closed") /\ wCh' = Sel(s)!Unregistered(wCh, w)
           \/ Sel(s)!Goto(w, "await") /\ wCh' = wCh
    BY <1>2 DEF Sel!Suspend
  <2>2. CASE Sel(s)!Goto(w, "closed") /\ wCh' = Sel(s)!Unregistered(wCh, w)
    <3>2. /\ wPc' \in [SelTasks[s] -> Sel(s)!PCs] /\ wPc'[w] = "closed"
          /\ \A v \in SelTasks[s] : v # w => wPc'[v] = wPc[v]
      <4>1. "closed" \in Sel(s)!PCs
        OBVIOUS
      <4> QED BY <1>0, <2>2, <4>1, GoesTo
    <3>3. /\ wCh' \in [SelChans[s] -> Sel(s)!Raw!ChannelState] /\ Watching(s)' /\ Named(s)'
          /\ \A c \in SelChans[s] : wCh'[c].buffer = wCh[c].buffer
      BY <1>0, <2>1, <2>2, <3>2, LeftKept DEF Departs
    <3>4. Sel(s)!ItemsConserved'
      BY <1>0, <2>1, <3>3, BuffersKept
    <3>5. Sel(s)!TypeOK'
      BY <1>0, <2>1, <3>2, <3>3 DEF Sel!TypeOK
    <3> QED BY <3>3, <3>4, <3>5 DEF SelInv
  <2>3. CASE Sel(s)!Goto(w, "await") /\ wCh' = wCh
    <3>2. /\ wPc' \in [SelTasks[s] -> Sel(s)!PCs] /\ wPc'[w] = "await"
          /\ \A v \in SelTasks[s] : v # w => wPc'[v] = wPc[v]
      <4>1. "await" \in Sel(s)!PCs
        OBVIOUS
      <4> QED BY <1>0, <2>3, <4>1, GoesTo
    <3>3. Watching(s)'
      <4>1. \A c \in SelChans[s] :
              /\ Fit(s, wCh'[c])
              /\ \A a \in Sel(s)!Arbiters : InQueue(a, wCh'[c].watchers) => InQueue(a, wCh[c].watchers)
        BY <1>0, <2>3
      <4>2. \A v \in SelTasks[s] :
              \/ wPc'[v] = wPc[v] /\ round'[v] = round[v] /\ todo'[v] \subseteq todo[v]
              \/ round'[v] = round[v] /\ wPc'[v] = "await"
        BY <2>1, <3>2
      <4> QED BY <1>0, <4>1, <4>2, WatchersKept
    <3>4. Sel(s)!ItemsConserved'
      BY <1>0, <2>1, <2>3, BuffersKept
    <3>5. Sel(s)!TypeOK'
      BY <1>0, <2>1, <2>3, <3>2 DEF Sel!TypeOK
    <3>6. Named(s)'
      BY <1>0, <2>1, <3>2 DEF Named
    <3> QED BY <3>3, <3>4, <3>5, <3>6 DEF SelInv
  <2> QED BY <2>1, <2>2, <2>3
<1>3. CASE Sel(s)!Claim(w) \/ Sel(s)!Resume(w)
  <2> DEFINE c == ready[w]
             r == Sel(s)!Raw!try_recv(wCh[c])
             chans == [wCh EXCEPT ![c] = r.st]
  <2>1. c \in SelChans[s] /\ wPc[w] \in {"claim", "woken"} /\ UNCHANGED <<ready, settled, unsent>>
    BY <1>0, <1>3 DEF Sel!Claim, Sel!Resume, Named
  <2>2. /\ Sel(s)!Signals(c, r) = {} /\ Fit(s, r.st) /\ r.st.watchers = wCh[c].watchers
        /\ r.ret # "item" => r.st = wCh[c]
    BY <2>1, TakeIs
  <2>3. \/ /\ r.ret = "item" /\ Sel(s)!Goto(w, "done") /\ got' = got \cup {r.item}
           /\ wCh' = Sel(s)!Unregistered(chans, w) /\ UNCHANGED <<todo, round>>
        \/ /\ r.ret # "item" /\ Sel(s)!Goto(w, "register") /\ got' = got /\ wCh' = chans
           /\ wPc[w] = "claim" /\ UNCHANGED <<todo, round>>
        \/ /\ r.ret # "item" /\ Sel(s)!Goto(w, "probe") /\ got' = got /\ wCh' = Sel(s)!Unregistered(chans, w)
           /\ round[w] < SelRounds[s] /\ round' = [round EXCEPT ![w] = @ + 1]
           /\ todo' = [todo EXCEPT ![w] = SelChans[s]]
    BY <1>3 DEF Sel!Claim, Sel!Resume
  <2>4. wInflight' = wInflight
    BY <1>3, <2>2 DEF Sel!Claim, Sel!Resume
  <2>5. /\ chans[c] = r.st /\ \A d \in SelChans[s] : d # c => chans[d] = wCh[d]
        /\ \A d \in SelChans[s] : Fit(s, chans[d]) /\ chans[d].watchers = wCh[d].watchers
    <3>1. chans[c] = r.st /\ \A d \in SelChans[s] : d # c => chans[d] = wCh[d]
      BY <1>0, <2>1
    <3> HIDE DEF chans, r
    <3> QED BY <1>0, <2>2, <3>1
  <2>6. ASSUME wCh' = Sel(s)!Unregistered(chans, w) \/ wCh' = chans,
               wCh' = Sel(s)!Unregistered(chans, w) => \A d \in SelChans[s] : wCh'[d].buffer = chans[d].buffer
        PROVE  Sel(s)!ItemsConserved' /\ got' \subseteq SelItems[s]
    <3>1. \A d \in SelChans[s] : wCh'[d].buffer = chans[d].buffer
      BY <2>6
    <3>2. wCh'[c].buffer = r.st.buffer /\ \A d \in SelChans[s] : d # c => wCh'[d].buffer = wCh[d].buffer
      BY <2>1, <2>5, <3>1
    <3>3. (r.ret = "item" => got' = got \cup {r.item}) /\ (r.ret # "item" => got' = got)
      BY <2>3
    <3> QED BY <2>1, <3>2, <3>3, TakeConserves
  <2> HIDE DEF chans, r, c
  <2>7. CASE /\ r.ret = "item" /\ Sel(s)!Goto(w, "done") /\ got' = got \cup {r.item}
             /\ wCh' = Sel(s)!Unregistered(chans, w) /\ UNCHANGED <<todo, round>>
    <3>2. /\ wPc' \in [SelTasks[s] -> Sel(s)!PCs] /\ wPc'[w] = "done"
          /\ \A v \in SelTasks[s] : v # w => wPc'[v] = wPc[v]
      <4>1. "done" \in Sel(s)!PCs
        OBVIOUS
      <4> QED BY <1>0, <2>7, <4>1, GoesTo
    <3>3. /\ wCh' \in [SelChans[s] -> Sel(s)!Raw!ChannelState] /\ Watching(s)' /\ Named(s)'
          /\ \A d \in SelChans[s] : wCh'[d].buffer = chans[d].buffer
      BY <1>0, <2>1, <2>5, <2>7, <3>2, LeftKept DEF Departs
    <3>4. Sel(s)!ItemsConserved' /\ got' \subseteq SelItems[s]
      BY <2>6, <2>7, <3>3
    <3>5. Sel(s)!TypeOK'
      BY <1>0, <2>1, <2>4, <2>7, <3>2, <3>3, <3>4 DEF Sel!TypeOK
    <3> QED BY <3>3, <3>4, <3>5 DEF SelInv
  <2>8. CASE /\ r.ret # "item" /\ Sel(s)!Goto(w, "register") /\ got' = got /\ wCh' = chans
             /\ wPc[w] = "claim" /\ UNCHANGED <<todo, round>>
    <3>1. wCh' = wCh
      BY <1>0, <2>2, <2>8 DEF chans, c, r
    <3>2. /\ wPc' \in [SelTasks[s] -> Sel(s)!PCs] /\ wPc'[w] = "register"
          /\ \A v \in SelTasks[s] : v # w => wPc'[v] = wPc[v]
      <4>1. "register" \in Sel(s)!PCs
        OBVIOUS
      <4> QED BY <1>0, <2>8, <4>1, GoesTo
    <3>3. Watching(s)'
      <4>1. \A d \in SelChans[s] :
              /\ Fit(s, wCh'[d])
              /\ \A a \in Sel(s)!Arbiters : InQueue(a, wCh'[d].watchers) => InQueue(a, wCh[d].watchers)
        BY <1>0, <3>1
      <4>2. \A v \in SelTasks[s] :
              \/ wPc'[v] = wPc[v] /\ round'[v] = round[v] /\ todo'[v] \subseteq todo[v]
              \/ /\ round'[v] = round[v] /\ wPc'[v] = "register" /\ wPc[v] = "claim"
                 /\ todo'[v] \subseteq todo[v]
        BY <2>8, <3>2
      <4> QED BY <1>0, <4>1, <4>2, WatchersKept
    <3>4. Sel(s)!ItemsConserved'
      BY <1>0, <2>1, <2>8, <3>1, BuffersKept
    <3>5. Sel(s)!TypeOK'
      BY <1>0, <2>1, <2>4, <2>8, <3>1, <3>2 DEF Sel!TypeOK
    <3>6. Named(s)'
      BY <1>0, <2>1, <3>2 DEF Named
    <3> QED BY <3>3, <3>4, <3>5, <3>6 DEF SelInv
  <2>9. CASE /\ r.ret # "item" /\ Sel(s)!Goto(w, "probe") /\ got' = got /\ wCh' = Sel(s)!Unregistered(chans, w)
             /\ round[w] < SelRounds[s] /\ round' = [round EXCEPT ![w] = @ + 1]
             /\ todo' = [todo EXCEPT ![w] = SelChans[s]]
    <3>1. /\ round' \in [SelTasks[s] -> 1..SelRounds[s]] /\ todo' \in [SelTasks[s] -> SUBSET SelChans[s]]
          /\ \A v \in SelTasks[s] : v # w => round'[v] = round[v] /\ todo'[v] = todo[v]
      <4>1. round[w] + 1 \in 1..SelRounds[s]
        BY <1>0, <2>9
      <4> QED BY <1>0, <2>9, <4>1
    <3>2. /\ wPc' \in [SelTasks[s] -> Sel(s)!PCs] /\ wPc'[w] = "probe"
          /\ \A v \in SelTasks[s] : v # w => wPc'[v] = wPc[v]
      <4>1. "probe" \in Sel(s)!PCs
        OBVIOUS
      <4> QED BY <1>0, <2>9, <4>1, GoesTo
    <3>3. /\ wCh' \in [SelChans[s] -> Sel(s)!Raw!ChannelState] /\ Watching(s)' /\ Named(s)'
          /\ \A d \in SelChans[s] : wCh'[d].buffer = chans[d].buffer
      <4>1. /\ \A d \in SelChans[s] : Fit(s, chans[d]) /\ chans[d].watchers = wCh[d].watchers
            /\ wCh' = Sel(s)!Unregistered(chans, w)
        BY <2>5, <2>9
      <4>2. \A v \in SelTasks[s] : v # w => wPc'[v] = wPc[v] /\ round'[v] = round[v] /\ todo'[v] = todo[v]
        BY <3>1, <3>2
      <4>3. wPc'[w] \notin {"claim", "woken"} /\ UNCHANGED ready
        BY <2>1, <3>2
      <4> QED BY <3>1, <3>2, <4>1, <4>2, <4>3, LeftKept DEF Departs
    <3>4. Sel(s)!ItemsConserved' /\ got' \subseteq SelItems[s]
      BY <2>6, <2>9, <3>3
    <3>5. Sel(s)!TypeOK'
      BY <1>0, <2>1, <2>4, <3>1, <3>2, <3>3, <3>4 DEF Sel!TypeOK
    <3> QED BY <3>3, <3>4, <3>5 DEF SelInv
  <2> QED BY <2>3, <2>7, <2>8, <2>9
<1> QED BY <1>1, <1>2, <1>3

\* A _select_wake callback keeps the invariant.
LEMMA WakeKept ==
    ASSUME NEW s \in SelectScenes, SelInv(s), NEW a \in Sel(s)!Arbiters, NEW c \in SelChans[s],
           Sel(s)!SelectWake(a, c)
    PROVE  SelInv(s)'
<1>0. /\ Sel(s)!TypeOK /\ Watching(s) /\ Sel(s)!ItemsConserved /\ Named(s)
      /\ ready \in [SelTasks[s] -> SelChans[s] \cup {NoChan}]
      /\ wPc \in [SelTasks[s] -> Sel(s)!PCs]
      /\ settled \subseteq Sel(s)!Arbiters
      /\ wInflight \subseteq Sel(s)!Arbiters \X SelChans[s]
      /\ Fit(s, wCh[c]) /\ wCh[c].watchers \in Seq(Sel(s)!Arbiters)
      /\ a[1] \in SelTasks[s]
      /\ \A d \in SelChans[s] : Fit(s, wCh[d])
  BY SelTypes, FitFields, ArbiterShape DEF SelInv, Watching
<1>1. UNCHANGED <<todo, round, unsent, got>>
  BY DEF Sel!SelectWake
<1>2. CASE a \in settled
  <2> DEFINE r == Sel(s)!Raw!forward_select_wakeup(wCh[c])
  <2>1. /\ wCh' = [wCh EXCEPT ![c] = r.st]
        /\ wInflight' = (wInflight \ {<<a, c>>}) \cup Sel(s)!Signals(c, r)
        /\ UNCHANGED <<wPc, ready, settled>>
    BY <1>2 DEF Sel!SelectWake
  <2>2. /\ Fit(s, r.st) /\ r.st.buffer = wCh[c].buffer
        /\ wCh[c].watchers = <<>> => r.st.watchers = <<>> /\ Sel(s)!Signals(c, r) = {}
        /\ wCh[c].watchers # <<>> =>
             \/ r.st = wCh[c] /\ Sel(s)!Signals(c, r) = {}
             \/ r.st.watchers = Tail(wCh[c].watchers) /\ Sel(s)!Signals(c, r) = {<<Head(wCh[c].watchers), c>>}
    <3>1. LET z == Sel(s)!Raw!forward_select_wakeup(wCh[c])
          IN  /\ Fit(s, z.st) /\ z.st.buffer = wCh[c].buffer /\ z.st.is_closed = wCh[c].is_closed
              /\ wCh[c].watchers = <<>> => z.st.watchers = <<>> /\ Sel(s)!Signals(c, z) = {}
              /\ wCh[c].watchers # <<>> =>
                   \/ z.st = wCh[c] /\ wCh[c].buffer = <<>> /\ Sel(s)!Signals(c, z) = {}
                   \/ z.st.watchers = Tail(wCh[c].watchers) /\ Sel(s)!Signals(c, z) = {<<Head(wCh[c].watchers), c>>}
      BY <1>0, SelForward
    <3> QED BY <3>1
  <2> HIDE DEF r
  <2>3. wCh[c].watchers # <<>> =>
          /\ Head(wCh[c].watchers) \in Sel(s)!Arbiters
          /\ \A b : InQueue(b, Tail(wCh[c].watchers)) => InQueue(b, wCh[c].watchers)
    <3> SUFFICES ASSUME wCh[c].watchers # <<>>
                 PROVE  /\ Head(wCh[c].watchers) \in Sel(s)!Arbiters
                        /\ \A b : InQueue(b, Tail(wCh[c].watchers)) => InQueue(b, wCh[c].watchers)
      OBVIOUS
    <3>1. NoRepeat(wCh[c].watchers)
      BY <1>0 DEF Fit
    <3> QED BY <1>0, <3>1, TailQueue, HeadTailProperties
  <2>4. wInflight' \subseteq Sel(s)!Arbiters \X SelChans[s]
    BY <1>0, <2>1, <2>2, <2>3
  <2>5. /\ wCh'[c] = r.st /\ \A d \in SelChans[s] : d # c => wCh'[d] = wCh[d]
        /\ \A d \in SelChans[s] : Fit(s, wCh'[d])
        /\ wCh' \in [SelChans[s] -> Sel(s)!Raw!ChannelState]
    BY <2>1, <2>2, OneChannelChanged
  <2>6. \A d \in SelChans[s] : wCh'[d].buffer = wCh[d].buffer
    BY <2>2, <2>5
  <2>7. \A d \in SelChans[s] : \A b \in Sel(s)!Arbiters :
           InQueue(b, wCh'[d].watchers) => InQueue(b, wCh[d].watchers)
    <3>1. \A b : ~InQueue(b, <<>>)
      BY DEF InQueue
    <3>2. \A b \in Sel(s)!Arbiters : InQueue(b, r.st.watchers) => InQueue(b, wCh[c].watchers)
      BY <2>2, <2>3, <3>1
    <3> QED BY <2>5, <3>2
  <2>8. Watching(s)'
    BY <1>0, <1>1, <2>1, <2>5, <2>7, WatchersKept
  <2>9. Sel(s)!ItemsConserved'
    BY <1>0, <1>1, <2>6, BuffersKept
  <2>10. Sel(s)!TypeOK'
    BY <1>0, <1>1, <2>1, <2>4, <2>5 DEF Sel!TypeOK
  <2>11. Named(s)'
    BY <1>0, <2>1 DEF Named
  <2> QED BY <2>8, <2>9, <2>10, <2>11 DEF SelInv
<1>3. CASE a \notin settled
  <2>1. /\ settled' = settled \cup {a} /\ wInflight' = wInflight \ {<<a, c>>} /\ wCh' = wCh
        /\ \/ /\ wPc[a[1]] = "await" /\ Sel(s)!Goto(a[1], "woken")
              /\ ready' = [ready EXCEPT ![a[1]] = c]
           \/ UNCHANGED <<wPc, ready>>
    BY <1>3 DEF Sel!SelectWake
  <2>2. /\ wPc' \in [SelTasks[s] -> Sel(s)!PCs]
        /\ ready' \in [SelTasks[s] -> SelChans[s] \cup {NoChan}]
        /\ \A v \in SelTasks[s] : \/ wPc'[v] = wPc[v] /\ ready'[v] = ready[v]
                                  \/ wPc'[v] = "woken" /\ ready'[v] = c
    <3>1. CASE UNCHANGED <<wPc, ready>>
      BY <1>0, <3>1
    <3>2. CASE wPc[a[1]] = "await" /\ Sel(s)!Goto(a[1], "woken") /\ ready' = [ready EXCEPT ![a[1]] = c]
      <4>1. "woken" \in Sel(s)!PCs
        BY DEF Sel!PCs
      <4>2. /\ wPc' \in [SelTasks[s] -> Sel(s)!PCs] /\ wPc'[a[1]] = "woken"
            /\ \A v \in SelTasks[s] : v # a[1] => wPc'[v] = wPc[v]
        BY <1>0, <3>2, <4>1, GoesTo
      <4>3. /\ ready' \in [SelTasks[s] -> SelChans[s] \cup {NoChan}] /\ ready'[a[1]] = c
            /\ \A v \in SelTasks[s] : v # a[1] => ready'[v] = ready[v]
        BY <1>0, <3>2
      <4> QED BY <4>2, <4>3
    <3> QED BY <2>1, <3>1, <3>2
  <2>3. Watching(s)'
    <3>1. \A d \in SelChans[s] :
            /\ Fit(s, wCh'[d])
            /\ \A b \in Sel(s)!Arbiters : InQueue(b, wCh'[d].watchers) => InQueue(b, wCh[d].watchers)
      BY <1>0, <2>1
    <3>2. \A v \in SelTasks[s] :
            \/ wPc'[v] = wPc[v] /\ round'[v] = round[v] /\ todo'[v] \subseteq todo[v]
            \/ round'[v] = round[v] /\ wPc'[v] = "woken"
      BY <1>1, <2>2
    <3> QED BY <1>0, <3>1, <3>2, WatchersKept
  <2>4. Sel(s)!ItemsConserved'
    BY <1>0, <1>1, <2>1, BuffersKept
  <2>5. Sel(s)!TypeOK'
    <3>1. settled' \subseteq Sel(s)!Arbiters /\ wInflight' \subseteq Sel(s)!Arbiters \X SelChans[s]
      BY <1>0, <2>1
    <3> QED BY <1>0, <1>1, <2>1, <2>2, <3>1 DEF Sel!TypeOK
  <2>6. Named(s)'
    BY <1>0, <2>2 DEF Named
  <2> QED BY <2>3, <2>4, <2>5, <2>6 DEF SelInv
<1> QED BY <1>2, <1>3

\* The initial states.
LEMMA SelInit ==
    ASSUME NEW s \in SelectScenes, Sel(s)!Init
    PROVE  SelInv(s)
<1>0. Sel(s)!SelectParams /\ SelRounds[s] \in Nat \ {0}
  BY InstanceAssumptions DEF Sel!SelectParams
<1>1. /\ Sel(s)!Raw!NewChannel \in Sel(s)!Raw!ChannelState
      /\ Sel(s)!Raw!NewChannel.buffer = <<>> /\ Sel(s)!Raw!NewChannel.watchers = <<>>
      /\ Sel(s)!Raw!NewChannel.getters = <<>> /\ Sel(s)!Raw!NewChannel.putters = <<>>
  BY DEF Sel!Raw!NewChannel, Sel!Raw!ChannelState
<1>2. /\ \A x : ~InQueue(x, <<>>)
      /\ NoRepeat(<<>>)
  BY DEF InQueue, NoRepeat
<1>3. Fit(s, Sel(s)!Raw!NewChannel)
  BY <1>1, <1>2 DEF Fit
<1>4. /\ wCh = [c \in SelChans[s] |-> Sel(s)!Raw!NewChannel]
      /\ wPc = [w \in SelTasks[s] |-> "probe"] /\ todo = [w \in SelTasks[s] |-> SelChans[s]]
      /\ round = [w \in SelTasks[s] |-> 1] /\ ready = [w \in SelTasks[s] |-> NoChan]
      /\ settled = {} /\ wInflight = {} /\ unsent = SelItems[s] /\ got = {}
  BY DEF Sel!Init
<1>5. \A c \in SelChans[s] : wCh[c] = Sel(s)!Raw!NewChannel
  BY <1>4
<1>6. Sel(s)!TypeOK
  <2>1. "probe" \in Sel(s)!PCs /\ 1 \in 1..SelRounds[s]
    BY <1>0 DEF Sel!PCs
  <2> QED BY <1>1, <1>4, <2>1, SelTypes
<1>7. Watching(s)
  BY <1>1, <1>2, <1>3, <1>5 DEF Watching
<1>8. Named(s)
  BY <1>4 DEF Named
<1>9. Sel(s)!ItemsConserved
  <2>1. \A c \in SelChans[s] : Sel(s)!Buffered(c) = {} /\ NoRepeat(wCh[c].buffer)
    BY <1>1, <1>2, <1>5, BufferedIs
  <2>2. SelItems[s] = unsent \cup got \cup UNION {Sel(s)!Buffered(c) : c \in SelChans[s]}
    BY <1>4, <2>1
  <2>3. unsent \cap got = {}
    BY <1>4
  <2>4. ASSUME NEW c \in SelChans[s]
        PROVE  /\ Sel(s)!Buffered(c) \cap (unsent \cup got) = {}
               /\ \A d \in SelChans[s] : c # d => Sel(s)!Buffered(c) \cap Sel(s)!Buffered(d) = {}
               /\ \A j, k \in DOMAIN wCh[c].buffer : j # k => wCh[c].buffer[j] # wCh[c].buffer[k]
    <3>1. \A j, k \in DOMAIN wCh[c].buffer : j # k => wCh[c].buffer[j] # wCh[c].buffer[k]
      BY Zenon, <2>1 DEF NoRepeat
    <3> QED BY <2>1, <3>1
  <2> QED BY <2>2, <2>3, <2>4 DEF Sel!ItemsConserved
<1> QED BY <1>6, <1>7, <1>8, <1>9 DEF SelInv

\* Every step of select_channel keeps the invariant.
LEMMA SelStep ==
    ASSUME NEW s \in SelectScenes, SelInv(s), [Sel(s)!Next]_swarm
    PROVE  SelInv(s)'
<1>1. CASE UNCHANGED swarm
  <2>1. UNCHANGED <<wCh, wPc, todo, round, ready, settled, wInflight, unsent, got>>
    BY <1>1 DEF swarm
  <2>2. Sel(s)!TypeOK'
    BY <2>1 DEF SelInv, Sel!TypeOK
  <2>3. Watching(s)'
    BY <2>1 DEF SelInv, Watching, Fit, Sel!Arbiters, Sel!Raw!ChannelState
  <2>4. Named(s)'
    BY <2>1 DEF SelInv, Named
  <2>5. Sel(s)!ItemsConserved'
    BY <2>1, BuffersKept DEF SelInv
  <2> QED BY <2>2, <2>3, <2>4, <2>5 DEF SelInv
<1>2. CASE Sel(s)!Next
  <2>1. ASSUME NEW c \in SelChans[s], NEW i \in SelItems[s], Sel(s)!TrySend(c, i) PROVE SelInv(s)'
    BY <2>1, ClientsKept
  <2>2. ASSUME NEW c \in SelChans[s], Sel(s)!TryRecv(c) \/ Sel(s)!Close(c) PROVE SelInv(s)'
    BY <2>2, ClientsKept
  <2>3. ASSUME NEW w \in SelTasks[s], Sel(s)!SelectorStep(w) \/ Sel(s)!Cancel(w) PROVE SelInv(s)'
    BY <2>3, ProbeEndKept, VisitKept, RoundEndKept DEF Sel!SelectorStep
  <2>4. CASE Sel(s)!Callback
    BY <2>4, WakeKept DEF Sel!Callback
  <2> QED BY <1>2, <2>1, <2>2, <2>3, <2>4 DEF Sel!Next
<1> QED BY <1>1, <1>2

\* No step of the specification but those of its scene touches the selectors.
LEMMA SelSteps ==
    ASSUME [MNext]_mvars
    PROVE  /\ scene' = scene
           /\ \A s \in {"pair", "shared", "alone"} : scene = s => [Sel(s)!Next]_swarm
<1>1. CASE Restless \/ Peaceful
  BY <1>1 DEF Restless, Peaceful
<1>2. CASE PairRuns
  BY <1>2 DEF PairRuns, Selects
<1>3. CASE SharedRuns
  BY <1>3 DEF SharedRuns, Selects
<1>4. CASE AloneRuns
  BY <1>4 DEF AloneRuns, Selects
<1>5. CASE UNCHANGED mvars
  BY <1>5 DEF mvars
<1> QED BY <1>1, <1>2, <1>3, <1>4, <1>5 DEF MNext

\* The invariant of whichever selectors are on stage.
OnStage == \A s \in {"pair", "shared", "alone"} : scene = s => SelInv(s)

LEMMA OnStageInvariant == MSpec => []OnStage
<1>0. \A s \in {"pair", "shared", "alone"} : s \in SelectScenes
  BY DEF SelectScenes
<1>1. MInit => OnStage
  BY <1>0, SelInit DEF MInit, OnStage
<1>2. OnStage /\ [MNext]_mvars => OnStage'
  <2> SUFFICES ASSUME OnStage, [MNext]_mvars, NEW s \in {"pair", "shared", "alone"}, scene' = s
               PROVE  SelInv(s)'
    BY DEF OnStage
  <2>1. scene = s /\ [Sel(s)!Next]_swarm
    BY SelSteps
  <2>2. SelInv(s)
    BY <2>1 DEF OnStage
  <2> QED BY <1>0, <2>1, <2>2, SelStep
<1> QED BY <1>1, <1>2, PTL DEF MSpec

\* A select never loses or duplicates an item, and leaves no watcher behind when
\* it returns, raises or begins a new round (SelectSound).
THEOREM SelectTheorem == MSpec => []SelectSound
<1>1. OnStage => SelectSound
  <2> SUFFICES ASSUME OnStage, NEW s \in {"pair", "shared", "alone"}, scene = s
               PROVE  Sel(s)!TypeOK /\ Sel(s)!NoGhostWatcher /\ Sel(s)!ItemsConserved
    BY DEF SelectSound
  <2>1. SelInv(s)
    BY DEF OnStage
  <2>2. Sel(s)!NoGhostWatcher
    <3> SUFFICES ASSUME NEW c \in SelChans[s], NEW a \in Sel(s)!Raw!Elems(wCh[c].watchers)
                 PROVE  a = Sel(s)!Arbiter(a[1]) /\ wPc[a[1]] \notin Sel(s)!Returned \cup {"probe"}
      BY DEF Sel!NoGhostWatcher
    <3>1. Fit(s, wCh[c]) /\ Watching(s) /\ Sel(s)!TypeOK
      BY <2>1 DEF SelInv, Watching
    <3>2. InQueue(a, wCh[c].watchers)
      BY SelQueues
    <3>3. a \in Sel(s)!Arbiters
      <4>1. wCh[c].watchers \in Seq(Sel(s)!Arbiters)
        BY <3>1, FitFields
      <4> QED BY <3>2, <4>1, ElementOfSeq, LenProperties DEF InQueue
    <3>4. a[1] \in SelTasks[s] /\ Sel(s)!Arbiter(a[1]) = <<a[1], round[a[1]]>>
      BY <3>1, <3>3, ArbiterShape, ArbiterIs
    <3>5. a = <<a[1], round[a[1]]>> /\ wPc[a[1]] \in {"register", "claim", "await", "woken", "unwind"}
      BY <3>1, <3>2, <3>3 DEF Watching
    <3> QED BY <3>4, <3>5 DEF Sel!Returned
  <2> QED BY <2>1, <2>2 DEF SelInv
<1> QED BY <1>1, OnStageInvariant, PTL

-----------------------------------------------------------------------------
(* One channel, several selectors, rival receivers *)

\* The selectors on their way to channel c.
Alerted(c) == {w \in SelTasks["shared"] : wPc[w] = "woken" \/ <<<<w, round[w]>>, c>> \in wInflight}

\* An arbiter that is done belongs to a round that has ended or is about to.
Answered ==
    \A a \in settled : /\ a[2] <= round[a[1]]
                       /\ a[2] = round[a[1]] => wPc[a[1]] \in {"woken", "done", "default", "closed"}
Undisturbed == \A w \in SelTasks["shared"] : wPc[w] \notin {"unwind", "timeout", "cancelled"}
NoFuture(c) == \A a \in Sel("shared")!Arbiters : <<a, c>> \in wInflight => a[2] <= round[a[1]]

\* While the channel is open, a watcher or the subject of a queued callback is a
\* selector that has registered and not been woken, and never both.
Pending(c) ==
    \A a \in Sel("shared")!Arbiters :
        /\ <<a, c>> \in wInflight \/ InQueue(a, wCh[c].watchers) =>
             /\ a = <<a[1], round[a[1]]>> /\ a \notin settled
             /\ wPc[a[1]] \in {"register", "await"} /\ todo[a[1]] = {}
        /\ InQueue(a, wCh[c].watchers) => <<a, c>> \notin wInflight

\* Beside SelInv: while somebody watches the open channel, as many selectors are on
\* their way to it as it has items, so a rival that takes one leaves enough.
SharedInv(c) ==
    /\ wCh[c].is_closed => wCh[c].watchers = <<>>
    /\ Answered /\ Undisturbed /\ NoFuture(c)
    /\ ~wCh[c].is_closed => Pending(c)
    /\ ~wCh[c].is_closed /\ wCh[c].watchers # <<>> => Len(wCh[c].buffer) <= Cardinality(Alerted(c))

\* The shapes the proofs of the steps need.
LEMMA SharedTypes ==
    ASSUME SelInv("shared"), NEW c \in SelChans["shared"]
    PROVE  /\ Sel("shared")!TypeOK /\ Fit("shared", wCh[c])
           /\ wCh[c].buffer \in Seq(SelItems["shared"]) /\ Len(wCh[c].buffer) \in Nat
           /\ wCh[c].watchers \in Seq(Sel("shared")!Arbiters) /\ NoRepeat(wCh[c].watchers)
           /\ wCh[c].is_closed \in BOOLEAN
           /\ wCh \in [SelChans["shared"] -> Sel("shared")!Raw!ChannelState]
           /\ wPc \in [SelTasks["shared"] -> Sel("shared")!PCs]
           /\ todo \in [SelTasks["shared"] -> SUBSET SelChans["shared"]]
           /\ round \in [SelTasks["shared"] -> Nat]
           /\ settled \subseteq Sel("shared")!Arbiters
           /\ \A a \in Sel("shared")!Arbiters : a[1] \in SelTasks["shared"] /\ a[2] \in Nat
           /\ \A w \in SelTasks["shared"] :
                <<w, round[w]>> \in Sel("shared")!Arbiters /\ Sel("shared")!Arbiter(w) = <<w, round[w]>>
           /\ \A d \in SelChans["shared"] : d = c
           /\ IsFiniteSet(Alerted(c)) /\ Cardinality(Alerted(c)) \in Nat
<1>1. /\ Sel("shared")!TypeOK /\ Fit("shared", wCh[c])
      /\ \A w \in SelTasks["shared"] :
                <<w, round[w]>> \in Sel("shared")!Arbiters /\ Sel("shared")!Arbiter(w) = <<w, round[w]>>
  BY ArbiterIs DEF SelInv, Watching
<1>2. /\ wCh[c].buffer \in Seq(SelItems["shared"]) /\ wCh[c].is_closed \in BOOLEAN
      /\ wCh[c].watchers \in Seq(Sel("shared")!Arbiters) /\ NoRepeat(wCh[c].watchers)
  BY <1>1, FitFields DEF Fit
<1>3. Len(wCh[c].buffer) \in Nat
  BY <1>2, LenProperties
<1>4. /\ wCh \in [SelChans["shared"] -> Sel("shared")!Raw!ChannelState]
      /\ wPc \in [SelTasks["shared"] -> Sel("shared")!PCs]
      /\ todo \in [SelTasks["shared"] -> SUBSET SelChans["shared"]]
      /\ round \in [SelTasks["shared"] -> 1..SelRounds["shared"]]
      /\ settled \subseteq Sel("shared")!Arbiters
  BY <1>1, SelTypes
<1>5. SelRounds["shared"] \in Nat
  BY InstanceAssumptions DEF Sel!SelectParams, SelectScenes
<1>6. round \in [SelTasks["shared"] -> Nat]
  BY <1>4, <1>5
<1>7. \A a \in Sel("shared")!Arbiters : a[1] \in SelTasks["shared"] /\ a[2] \in Nat
  BY <1>5, ArbiterShape
<1>8. \A d \in SelChans["shared"] : d = c
  BY InstanceAssumptions
<1>9. IsFiniteSet(Alerted(c)) /\ Cardinality(Alerted(c)) \in Nat
  <2>1. Alerted(c) \subseteq SelTasks["shared"] /\ IsFiniteSet(SelTasks["shared"])
    BY InstanceAssumptions DEF Alerted
  <2> QED BY <2>1, FS_Subset, FS_CardinalityType
<1> QED BY <1>1, <1>2, <1>3, <1>4, <1>6, <1>7, <1>8, <1>9

\* The finally clause at channel c.
LEMMA UnregisteredAt ==
    ASSUME NEW s, Sel(s)!TypeOK, NEW w \in SelTasks[s], NEW chans, NEW c \in SelChans[s], Fit(s, chans[c]),
           wCh' = Sel(s)!Unregistered(chans, w)
    PROVE  /\ wCh'[c].buffer = chans[c].buffer /\ wCh'[c].is_closed = chans[c].is_closed
           /\ \A a : InQueue(a, wCh'[c].watchers) => InQueue(a, chans[c].watchers)
           /\ chans[c].watchers = <<>> => wCh'[c].watchers = <<>>
<1>1. Sel(s)!Arbiter(w) = <<w, round[w]>> /\ <<w, round[w]>> \in Sel(s)!Arbiters
  BY ArbiterIs
<1>2. wCh'[c] = Sel(s)!Raw!unregister_select_watcher(chans[c], <<w, round[w]>>).st
  BY <1>1 DEF Sel!Unregistered
<1>3. LET y == Sel(s)!Raw!unregister_select_watcher(chans[c], <<w, round[w]>>).st
      IN  /\ Fit(s, y) /\ y.buffer = chans[c].buffer /\ y.is_closed = chans[c].is_closed
          /\ \A b : InQueue(b, y.watchers) <=> InQueue(b, chans[c].watchers) /\ b # <<w, round[w]>>
  BY <1>1, SelUnregister
<1>4. wCh'[c].watchers \in Seq(Sel(s)!Arbiters)
  BY <1>2, <1>3, FitFields
<1>5. \A a : ~InQueue(a, <<>>)
  BY DEF InQueue
<1>6. chans[c].watchers = <<>> => wCh'[c].watchers = <<>>
  BY <1>2, <1>3, <1>4, <1>5, EmptyQueue
<1> QED BY <1>2, <1>3, <1>6

\* Steps that notify nobody, settle nothing and wake nobody.
LEMMA QuietKept ==
    ASSUME SelInv("shared"), NEW c \in SelChans["shared"], SharedInv(c),
           wInflight' = wInflight, settled' = settled, round' = round,
           wCh'[c].is_closed = wCh[c].is_closed,
           Len(wCh'[c].buffer) \in Nat, Len(wCh'[c].buffer) <= Len(wCh[c].buffer),
           wCh[c].watchers = <<>> => wCh'[c].watchers = <<>>,
           \A a : InQueue(a, wCh'[c].watchers) => InQueue(a, wCh[c].watchers),
           \A w \in SelTasks["shared"] :
              \/ wPc'[w] = wPc[w] /\ todo'[w] = todo[w]
              \/ /\ wPc[w] \in {"probe", "claim"}
                 /\ wPc'[w] \notin {"woken", "unwind", "timeout", "cancelled"}
              \/ wPc[w] = "register" /\ wPc'[w] = "await" /\ todo'[w] = todo[w]
              \/ wPc[w] = "register" /\ todo[w] # {} /\ wPc'[w] = "claim"
              \/ wPc[w] = "register" /\ wCh[c].is_closed /\ wPc'[w] = "closed"
    PROVE  SharedInv(c)'
<1>0. /\ Len(wCh[c].buffer) \in Nat /\ Cardinality(Alerted(c)) \in Nat
      /\ settled \subseteq Sel("shared")!Arbiters
      /\ \A a \in Sel("shared")!Arbiters : a[1] \in SelTasks["shared"] /\ a[2] \in Nat
  BY SharedTypes
<1>1. Answered' /\ Undisturbed' /\ NoFuture(c)'
  <2>1. Answered'
    BY <1>0 DEF SharedInv, Answered
  <2>2. Undisturbed'
    BY DEF SharedInv, Undisturbed
  <2>3. NoFuture(c)'
    BY DEF SharedInv, NoFuture, Sel!Arbiters
  <2> QED BY <2>1, <2>2, <2>3
<1>2. ASSUME ~wCh[c].is_closed PROVE Pending(c)'
  <2> SUFFICES ASSUME NEW a \in Sel("shared")!Arbiters
               PROVE  /\ <<a, c>> \in wInflight \/ InQueue(a, wCh'[c].watchers) =>
                           /\ a = <<a[1], round[a[1]]>> /\ a \notin settled
                           /\ wPc'[a[1]] \in {"register", "await"} /\ todo'[a[1]] = {}
                      /\ InQueue(a, wCh'[c].watchers) => <<a, c>> \notin wInflight
    BY DEF Pending, Sel!Arbiters, InQueue
  <2>1. a[1] \in SelTasks["shared"]
    BY <1>0
  <2>2. /\ <<a, c>> \in wInflight \/ InQueue(a, wCh[c].watchers) =>
             /\ a = <<a[1], round[a[1]]>> /\ a \notin settled
             /\ wPc[a[1]] \in {"register", "await"} /\ todo[a[1]] = {}
        /\ InQueue(a, wCh[c].watchers) => <<a, c>> \notin wInflight
    BY <1>2 DEF SharedInv, Pending
  <2> QED BY <1>2, <2>1, <2>2
<1>3. Alerted(c)' = Alerted(c)
  BY DEF Alerted
<1>4. (~wCh[c].is_closed /\ wCh[c].watchers # <<>> => Len(wCh[c].buffer) <= Cardinality(Alerted(c)))'
  <2>1. ~wCh'[c].is_closed /\ wCh'[c].watchers # <<>> => Len(wCh'[c].buffer) <= Cardinality(Alerted(c))
    BY <1>0 DEF SharedInv
  <2> QED BY <1>3, <2>1
<1>5. (wCh[c].is_closed => wCh[c].watchers = <<>>)'
  BY DEF SharedInv
<1> QED BY <1>1, <1>2, <1>4, <1>5 DEF SharedInv

\* A take from the channel shortens its buffer at most.
LEMMA SharedTake ==
    ASSUME SelInv("shared"), NEW c \in SelChans["shared"]
    PROVE  LET y == Sel("shared")!Raw!try_recv(wCh[c]).st
           IN  /\ Fit("shared", y) /\ y.watchers = wCh[c].watchers /\ y.is_closed = wCh[c].is_closed
               /\ Len(y.buffer) \in Nat /\ Len(y.buffer) <= Len(wCh[c].buffer)
               /\ [wCh EXCEPT ![c] = y][c] = y
<1> DEFINE z == Sel("shared")!Raw!try_recv(wCh[c])
<1>1. LET r == Sel("shared")!Raw!try_recv(wCh[c])
      IN  /\ Sel("shared")!Signals(c, r) = {} /\ Fit("shared", wCh[c]) /\ Fit("shared", r.st)
          /\ r.st.watchers = wCh[c].watchers /\ r.st.is_closed = wCh[c].is_closed
          /\ r.ret # "item" => r.st = wCh[c] /\ wCh[c].buffer = <<>>
          /\ r.ret = "item" => /\ wCh[c].buffer # <<>> /\ r.item = Head(wCh[c].buffer)
                               /\ r.st.buffer = Tail(wCh[c].buffer)
  BY TakeIs
<1>2. /\ Fit("shared", z.st) /\ z.st.watchers = wCh[c].watchers /\ z.st.is_closed = wCh[c].is_closed
      /\ z.ret # "item" => z.st = wCh[c]
      /\ z.ret = "item" => wCh[c].buffer # <<>> /\ z.st.buffer = Tail(wCh[c].buffer)
  BY <1>1
<1> HIDE DEF z
<1>3. wCh[c].buffer \in Seq(SelItems["shared"]) /\ Len(wCh[c].buffer) \in Nat
  BY SharedTypes
<1>4. wCh[c].buffer # <<>> => Len(Tail(wCh[c].buffer)) = Len(wCh[c].buffer) - 1 /\ Len(wCh[c].buffer) # 0
  BY <1>3, HeadTailProperties, EmptySeq
<1>5. Len(z.st.buffer) \in Nat /\ Len(z.st.buffer) <= Len(wCh[c].buffer)
  <2>1. CASE z.ret = "item"
    <3>1. z.st.buffer = Tail(wCh[c].buffer) /\ Len(wCh[c].buffer) \in Nat
      BY <1>2, <1>3, <2>1
    <3>2. Len(z.st.buffer) = Len(wCh[c].buffer) - 1 /\ Len(wCh[c].buffer) # 0
      BY <1>2, <1>4, <2>1
    <3> QED BY <3>1, <3>2
  <2>2. CASE z.ret # "item"
    BY <1>2, <1>3, <2>2
  <2> QED BY <2>1, <2>2
<1>6. [wCh EXCEPT ![c] = z.st][c] = z.st
  BY SharedTypes
<1> QED BY <1>2, <1>5, <1>6 DEF z

\* A rival's take is quiet.
LEMMA RivalKept ==
    ASSUME SelInv("shared"), NEW c \in SelChans["shared"], SharedInv(c), Sel("shared")!TryRecv(c)
    PROVE  SharedInv(c)'
<1> DEFINE r == Sel("shared")!Raw!try_recv(wCh[c])
<1>1. /\ Fit("shared", r.st) /\ r.st.watchers = wCh[c].watchers /\ r.st.is_closed = wCh[c].is_closed
      /\ Len(r.st.buffer) \in Nat /\ Len(r.st.buffer) <= Len(wCh[c].buffer)
      /\ [wCh EXCEPT ![c] = r.st][c] = r.st
  BY SharedTake
<1>2. Sel("shared")!Signals(c, r) = {}
  BY TakeIs
<1>3. /\ wCh' = [wCh EXCEPT ![c] = r.st] /\ wInflight' = wInflight
      /\ UNCHANGED <<wPc, todo, round, settled>>
  BY <1>2 DEF Sel!TryRecv, Sel!Apply
<1> HIDE DEF r
<1>4. wCh'[c] = r.st
  BY <1>1, <1>3
<1> QED BY <1>1, <1>3, <1>4, QuietKept

\* A probe, a claim and a suspension are quiet.
LEMMA QuietSteps ==
    ASSUME SelInv("shared"), NEW c \in SelChans["shared"], SharedInv(c), NEW w \in SelTasks["shared"],
           \/ Sel("shared")!Probe(w) \/ Sel("shared")!ProbeEnd(w)
           \/ Sel("shared")!Claim(w) \/ Sel("shared")!Suspend(w)
    PROVE  SharedInv(c)'
<1>0. /\ Len(wCh[c].buffer) \in Nat /\ Fit("shared", wCh[c]) /\ Sel("shared")!TypeOK
      /\ wPc \in [SelTasks["shared"] -> Sel("shared")!PCs]
      /\ todo \in [SelTasks["shared"] -> SUBSET SelChans["shared"]]
      /\ \A d \in SelChans["shared"] : d = c
  BY SharedTypes
<1>9. Fit("shared", wCh[c]) /\ Sel("shared")!TypeOK
  BY SharedTypes
<1> DEFINE r == Sel("shared")!Raw!try_recv(wCh[c])
<1>1. /\ Fit("shared", r.st) /\ r.st.watchers = wCh[c].watchers /\ r.st.is_closed = wCh[c].is_closed
      /\ Len(r.st.buffer) \in Nat /\ Len(r.st.buffer) <= Len(wCh[c].buffer)
      /\ [wCh EXCEPT ![c] = r.st][c] = r.st
  BY SharedTake
<1>2. Sel("shared")!Signals(c, r) = {}
  BY TakeIs
<1>4. CASE Sel("shared")!Probe(w)
  <2>1. /\ wCh' = [wCh EXCEPT ![c] = r.st] /\ wInflight' = wInflight
        /\ UNCHANGED <<round, settled>> /\ wPc[w] = "probe"
        /\ (wPc' = wPc \/ wPc' = [wPc EXCEPT ![w] = "done"])
        /\ \E d \in SelChans["shared"] : todo' = [todo EXCEPT ![w] = @ \ {d}]
    BY <1>0, <1>2, <1>4 DEF Sel!Probe, Sel!Apply, Sel!Goto
  <2> HIDE DEF r
  <2>2. wCh'[c] = r.st
    BY <1>1, <2>1
  <2>3. \A v \in SelTasks["shared"] :
          \/ wPc'[v] = wPc[v] /\ todo'[v] = todo[v]
          \/ wPc[v] = "probe" /\ wPc'[v] \in {"probe", "done"}
    BY <1>0, <2>1
  <2> QED BY <1>1, <2>1, <2>2, <2>3, QuietKept
<1>5. CASE Sel("shared")!ProbeEnd(w)
  <2>1. /\ UNCHANGED <<wCh, wInflight, round, settled>> /\ wPc[w] = "probe"
        /\ \E x \in {"default", "closed", "register"} : wPc' = [wPc EXCEPT ![w] = x]
        /\ (todo' = todo \/ todo' = [todo EXCEPT ![w] = SelChans["shared"]])
    BY <1>5, InstanceAssumptions DEF Sel!ProbeEnd, Sel!Goto
  <2>2. \A v \in SelTasks["shared"] :
          \/ wPc'[v] = wPc[v] /\ todo'[v] = todo[v]
          \/ wPc[v] = "probe" /\ wPc'[v] \in {"default", "closed", "register"}
    BY <1>0, <2>1
  <2> QED BY <1>0, <2>1, <2>2, QuietKept
<1>6. CASE Sel("shared")!Suspend(w)
  <2>1. UNCHANGED <<wInflight, round, settled, todo>> /\ wPc[w] = "register"
    BY <1>6 DEF Sel!Suspend
  <2>2. CASE Sel("shared")!AllDrained
    <3>1. wCh' = Sel("shared")!Unregistered(wCh, w) /\ wPc' = [wPc EXCEPT ![w] = "closed"]
      BY <1>6, <2>2 DEF Sel!Suspend, Sel!Goto
    <3>2. wCh[c].is_closed
      BY <2>2 DEF Sel!AllDrained
    <3>3. /\ wCh'[c].buffer = wCh[c].buffer /\ wCh'[c].is_closed = wCh[c].is_closed
          /\ \A a : InQueue(a, wCh'[c].watchers) => InQueue(a, wCh[c].watchers)
          /\ wCh[c].watchers = <<>> => wCh'[c].watchers = <<>>
      BY Zenon, <1>9, <3>1, UnregisteredAt
    <3>4. \A v \in SelTasks["shared"] : wPc'[v] = wPc[v] \/ (wPc[v] = "register" /\ wPc'[v] = "closed")
      BY <1>0, <2>1, <3>1
    <3>5. Len(wCh'[c].buffer) \in Nat /\ Len(wCh'[c].buffer) <= Len(wCh[c].buffer)
      BY <1>0, <3>3
    <3> QED BY <2>1, <3>2, <3>3, <3>4, <3>5, QuietKept
  <2>3. CASE ~Sel("shared")!AllDrained
    <3>1. wCh' = wCh /\ wPc' = [wPc EXCEPT ![w] = "await"]
      BY <1>6, <2>3 DEF Sel!Suspend, Sel!Goto
    <3>2. \A v \in SelTasks["shared"] : wPc'[v] = wPc[v] \/ (wPc[v] = "register" /\ wPc'[v] = "await")
      BY <1>0, <2>1, <3>1
    <3> QED BY <1>0, <2>1, <3>1, <3>2, QuietKept
  <2> QED BY <2>2, <2>3
<1>7. CASE Sel("shared")!Claim(w)
  <2>0. ready[w] = c
    BY <1>0, <1>7 DEF SelInv, Named, Sel!Claim
  <2> DEFINE chans == [wCh EXCEPT ![c] = r.st]
  <2>1. /\ wPc[w] = "claim" /\ UNCHANGED <<todo, round, settled>> /\ wInflight' = wInflight
        /\ \/ wCh' = Sel("shared")!Unregistered(chans, w) /\ wPc' = [wPc EXCEPT ![w] = "done"]
           \/ wCh' = chans /\ wPc' = [wPc EXCEPT ![w] = "register"]
    BY <1>2, <1>7, <2>0 DEF Sel!Claim, Sel!Goto
  <2>2. chans[c] = r.st
    BY <1>1
  <2> HIDE DEF r, chans
  <2>3. /\ wCh'[c].buffer = r.st.buffer /\ wCh'[c].is_closed = r.st.is_closed
        /\ \A a : InQueue(a, wCh'[c].watchers) => InQueue(a, r.st.watchers)
        /\ r.st.watchers = <<>> => wCh'[c].watchers = <<>>
    <3>1. CASE wCh' = chans
      BY <2>2, <3>1
    <3>2. CASE wCh' = Sel("shared")!Unregistered(chans, w)
      <4>1. Fit("shared", chans[c])
        BY <1>1, <2>2
      <4>2. /\ wCh'[c].buffer = chans[c].buffer /\ wCh'[c].is_closed = chans[c].is_closed
            /\ \A a : InQueue(a, wCh'[c].watchers) => InQueue(a, chans[c].watchers)
            /\ chans[c].watchers = <<>> => wCh'[c].watchers = <<>>
        BY Zenon, <1>9, <3>2, <4>1, UnregisteredAt
      <4> QED BY <2>2, <4>2
    <3> QED BY <2>1, <3>1, <3>2
  <2>4. \A v \in SelTasks["shared"] :
          \/ wPc'[v] = wPc[v]
          \/ wPc[v] = "claim" /\ wPc'[v] \in {"register", "done"}
    BY <1>0, <2>1
  <2> QED BY <1>1, <2>1, <2>3, <2>4, QuietKept
<1> QED BY <1>4, <1>5, <1>6, <1>7

\* A registration: a new watcher stands on an empty channel.
LEMMA RegisterKept ==
    ASSUME SelInv("shared"), NEW c \in SelChans["shared"], SharedInv(c), NEW w \in SelTasks["shared"],
           Sel("shared")!Register(w)
    PROVE  SharedInv(c)'
<1> DEFINE me == <<w, round[w]>>
           r == Sel("shared")!Raw!register_select_watcher(wCh[c], me)
<1>0. /\ Len(wCh[c].buffer) \in Nat /\ Fit("shared", wCh[c]) /\ Cardinality(Alerted(c)) \in Nat
      /\ wPc \in [SelTasks["shared"] -> Sel("shared")!PCs]
      /\ todo \in [SelTasks["shared"] -> SUBSET SelChans["shared"]]
      /\ settled \subseteq Sel("shared")!Arbiters
      /\ wCh \in [SelChans["shared"] -> Sel("shared")!Raw!ChannelState]
      /\ \A a \in Sel("shared")!Arbiters : a[1] \in SelTasks["shared"]
      /\ \A d \in SelChans["shared"] : d = c
      /\ me \in Sel("shared")!Arbiters /\ Sel("shared")!Arbiter(w) = me /\ me[1] = w /\ me[2] = round[w]
  BY SharedTypes
<1> HIDE DEF me
<1>1. /\ wPc[w] = "register" /\ c \in todo[w] /\ UNCHANGED <<round, settled>>
      /\ wCh' = [wCh EXCEPT ![c] = r.st] /\ wInflight' = wInflight \cup Sel("shared")!Signals(c, r)
      /\ todo' = [todo EXCEPT ![w] = @ \ {c}]
      /\ r.ret = "registered" => wPc' = wPc
      /\ r.ret # "registered" => wPc' = [wPc EXCEPT ![w] = "claim"]
  BY <1>0 DEF Sel!Register, Sel!Apply, Sel!Goto
<1>2. ~InQueue(me, wCh[c].watchers)
  BY <1>0, <1>1 DEF SelInv, Watching
<1>3. /\ r.wakes = {} /\ Fit("shared", r.st) /\ r.st.buffer = wCh[c].buffer /\ r.st.is_closed = wCh[c].is_closed
      /\ r.ret # "registered" => r.st = wCh[c]
      /\ r.ret = "registered" =>
           /\ wCh[c].buffer = <<>> /\ ~wCh[c].is_closed
           /\ \A b : InQueue(b, r.st.watchers) <=> InQueue(b, wCh[c].watchers) \/ b = me
  <2>1. LET z == Sel("shared")!Raw!register_select_watcher(wCh[c], me)
        IN  /\ z.wakes = {} /\ Fit("shared", z.st) /\ z.st.buffer = wCh[c].buffer
            /\ z.st.is_closed = wCh[c].is_closed
            /\ z.ret # "registered" => z.st = wCh[c]
            /\ z.ret = "registered" =>
                 /\ wCh[c].buffer = <<>> /\ ~wCh[c].is_closed /\ z.st.watchers # <<>>
                 /\ \A b : InQueue(b, z.st.watchers) <=> InQueue(b, wCh[c].watchers) \/ b = me
    BY <1>0, <1>2, SelRegister
  <2> QED BY <2>1
<1>4. wInflight' = wInflight /\ wCh'[c] = r.st
  <2>1. Sel("shared")!Signals(c, r) = {}
    BY <1>3, SelSignals
  <2>2. [wCh EXCEPT ![c] = r.st][c] = r.st
    BY <1>0
  <2> QED BY <1>1, <2>1, <2>2
<1> HIDE DEF r
<1>5. CASE r.ret # "registered"
  <2>1. \A v \in SelTasks["shared"] :
          \/ wPc'[v] = wPc[v] /\ todo'[v] = todo[v]
          \/ wPc[v] = "register" /\ todo[v] # {} /\ wPc'[v] = "claim"
    BY <1>0, <1>1, <1>5
  <2>2. wCh'[c] = wCh[c]
    BY <1>3, <1>4, <1>5
  <2> QED BY <1>0, <1>1, <1>4, <2>1, <2>2, QuietKept
<1>6. CASE r.ret = "registered"
  <2>1. /\ wPc' = wPc /\ todo'[w] = {} /\ \A v \in SelTasks["shared"] : v # w => todo'[v] = todo[v]
    BY <1>0, <1>1, <1>6
  <2>2. /\ ~wCh[c].is_closed /\ ~wCh'[c].is_closed /\ Len(wCh'[c].buffer) = 0
        /\ \A b : InQueue(b, wCh'[c].watchers) <=> InQueue(b, wCh[c].watchers) \/ b = me
    BY <1>3, <1>4, <1>6
  <2>3. Answered' /\ Undisturbed' /\ NoFuture(c)'
    BY <1>1, <1>4, <2>1 DEF SharedInv, Answered, Undisturbed, NoFuture, Sel!Arbiters
  <2>4. Pending(c)'
    <3> SUFFICES ASSUME NEW a \in Sel("shared")!Arbiters
                 PROVE  /\ <<a, c>> \in wInflight \/ InQueue(a, wCh'[c].watchers) =>
                             /\ a = <<a[1], round[a[1]]>> /\ a \notin settled
                             /\ wPc[a[1]] \in {"register", "await"} /\ todo'[a[1]] = {}
                        /\ InQueue(a, wCh'[c].watchers) => <<a, c>> \notin wInflight
      BY <1>1, <1>4, <2>1 DEF Pending, Sel!Arbiters, InQueue
    <3>1. a[1] \in SelTasks["shared"]
      BY <1>0
    <3>2. /\ <<a, c>> \in wInflight \/ InQueue(a, wCh[c].watchers) =>
               /\ a = <<a[1], round[a[1]]>> /\ a \notin settled
               /\ wPc[a[1]] \in {"register", "await"} /\ todo[a[1]] = {}
          /\ InQueue(a, wCh[c].watchers) => <<a, c>> \notin wInflight
      BY <2>2 DEF SharedInv, Pending
    <3>3. CASE a = me
      <4>1. a[1] = w /\ a = <<a[1], round[a[1]]>>
        BY <1>0, <3>3 DEF me
      <4>2. a \notin settled
        BY <1>0, <1>1, <3>3 DEF SharedInv, Answered
      <4>3. <<a, c>> \notin wInflight
        BY <1>1, <3>2, <4>1
      <4> QED BY <1>1, <2>1, <4>1, <4>2, <4>3
    <3>4. CASE a # me
      <4>1. InQueue(a, wCh'[c].watchers) => InQueue(a, wCh[c].watchers)
        BY <2>2, <3>4
      <4> QED BY <2>1, <3>1, <3>2, <4>1
    <3> QED BY <3>3, <3>4
  <2>5. (~wCh[c].is_closed /\ wCh[c].watchers # <<>> => Len(wCh[c].buffer) <= Cardinality(Alerted(c)))'
    <3>1. Alerted(c)' = Alerted(c)
      BY <1>1, <1>4, <2>1 DEF Alerted
    <3>2. Len(wCh'[c].buffer) <= Cardinality(Alerted(c))
      BY <1>0, <2>2
    <3> QED BY <3>1, <3>2
  <2> QED BY <2>2, <2>3, <2>4, <2>5 DEF SharedInv
<1> QED BY <1>5, <1>6

\* A send: the first watcher is told of the item.
LEMMA SendKept ==
    ASSUME SelInv("shared"), NEW c \in SelChans["shared"], SharedInv(c), NEW i \in SelItems["shared"],
           Sel("shared")!TrySend(c, i)
    PROVE  SharedInv(c)'
<1> DEFINE r == Sel("shared")!Raw!try_send(wCh[c], i)
<1>0. /\ Len(wCh[c].buffer) \in Nat /\ Fit("shared", wCh[c])
      /\ wCh[c].buffer \in Seq(SelItems["shared"])
      /\ wCh[c].watchers \in Seq(Sel("shared")!Arbiters) /\ NoRepeat(wCh[c].watchers)
      /\ wCh \in [SelChans["shared"] -> Sel("shared")!Raw!ChannelState]
      /\ \A a \in Sel("shared")!Arbiters : a[1] \in SelTasks["shared"]
      /\ IsFiniteSet(Alerted(c)) /\ Cardinality(Alerted(c)) \in Nat
  BY SharedTypes
<1>1. /\ UNCHANGED <<wPc, todo, round, settled>>
      /\ wCh' = [wCh EXCEPT ![c] = r.st] /\ wInflight' = wInflight \cup Sel("shared")!Signals(c, r)
  BY DEF Sel!TrySend, Sel!Apply
<1>2. /\ r.st.is_closed = wCh[c].is_closed
      /\ r.ret # "ok" => r.st = wCh[c] /\ Sel("shared")!Signals(c, r) = {}
      /\ r.ret = "ok" => ~wCh[c].is_closed /\ r.st.buffer = Append(wCh[c].buffer, i)
      /\ r.ret = "ok" /\ wCh[c].watchers = <<>> => r.st.watchers = <<>> /\ Sel("shared")!Signals(c, r) = {}
      /\ r.ret = "ok" /\ wCh[c].watchers # <<>> =>
           r.st.watchers = Tail(wCh[c].watchers) /\ Sel("shared")!Signals(c, r) = {<<Head(wCh[c].watchers), c>>}
  <2>1. LET z == Sel("shared")!Raw!try_send(wCh[c], i)
        IN  /\ Fit("shared", z.st) /\ z.st.is_closed = wCh[c].is_closed
            /\ z.ret # "ok" => z.st = wCh[c] /\ Sel("shared")!Signals(c, z) = {}
            /\ z.ret = "ok" => ~wCh[c].is_closed /\ z.st.buffer = Append(wCh[c].buffer, i)
            /\ z.ret = "ok" /\ wCh[c].watchers = <<>> => z.st.watchers = <<>> /\ Sel("shared")!Signals(c, z) = {}
            /\ z.ret = "ok" /\ wCh[c].watchers # <<>> =>
                 z.st.watchers = Tail(wCh[c].watchers) /\ Sel("shared")!Signals(c, z) = {<<Head(wCh[c].watchers), c>>}
    BY <1>0, SelSend
  <2> QED BY <2>1
<1>3. wCh'[c] = r.st
  <2>1. [wCh EXCEPT ![c] = r.st][c] = r.st
    BY <1>0
  <2> QED BY <1>1, <2>1
<1> HIDE DEF r
<1>4. CASE r.ret # "ok"
  <2>1. wCh'[c] = wCh[c] /\ wInflight' = wInflight
    BY <1>1, <1>2, <1>3, <1>4
  <2> QED BY <1>0, <1>1, <2>1, QuietKept
<1>5. CASE r.ret = "ok" /\ wCh[c].watchers = <<>>
  <2>1. /\ wInflight' = wInflight /\ wCh'[c].watchers = <<>> /\ wCh'[c].is_closed = wCh[c].is_closed
        /\ ~wCh[c].is_closed
    BY <1>1, <1>2, <1>3, <1>5
  <2>2. Answered' /\ Undisturbed' /\ NoFuture(c)'
    BY <1>1, <2>1 DEF SharedInv, Answered, Undisturbed, NoFuture, Sel!Arbiters
  <2>3. Pending(c)'
    <3>1. \A a : InQueue(a, wCh'[c].watchers) <=> InQueue(a, wCh[c].watchers)
      BY <1>5, <2>1
    <3> QED BY <1>1, <2>1, <3>1 DEF SharedInv, Pending, Sel!Arbiters, InQueue
  <2> QED BY <2>1, <2>2, <2>3 DEF SharedInv
<1>6. CASE r.ret = "ok" /\ wCh[c].watchers # <<>>
  <2>1. PICK h : h = Head(wCh[c].watchers)
    OBVIOUS
  <2>2. /\ wInflight' = wInflight \cup {<<h, c>>} /\ wCh'[c].watchers = Tail(wCh[c].watchers)
        /\ wCh'[c].buffer = Append(wCh[c].buffer, i)
        /\ ~wCh'[c].is_closed /\ ~wCh[c].is_closed
    BY <1>1, <1>2, <1>3, <1>6, <2>1
  <2>3. /\ h \in Sel("shared")!Arbiters /\ InQueue(h, wCh[c].watchers)
        /\ \A a : InQueue(a, Tail(wCh[c].watchers)) <=> InQueue(a, wCh[c].watchers) /\ a # h
    BY <1>0, <1>6, <2>1, TailQueue, HeadTailProperties
  <2>4. \A a \in Sel("shared")!Arbiters :
           /\ <<a, c>> \in wInflight \/ InQueue(a, wCh[c].watchers) =>
                /\ a = <<a[1], round[a[1]]>> /\ a \notin settled
                /\ wPc[a[1]] \in {"register", "await"} /\ todo[a[1]] = {}
           /\ InQueue(a, wCh[c].watchers) => <<a, c>> \notin wInflight
    BY <2>2 DEF SharedInv, Pending
  <2>5. h[1] \in SelTasks["shared"] /\ h = <<h[1], round[h[1]]>> /\ wPc[h[1]] # "woken" /\ <<h, c>> \notin wInflight
    BY <1>0, <2>3, <2>4
  <2>6. Answered' /\ Undisturbed' /\ NoFuture(c)'
    <3>1. Answered' /\ Undisturbed'
      BY <1>1 DEF SharedInv, Answered, Undisturbed
    <3>2. h[2] <= round[h[1]]
      <4>1. h[2] = round[h[1]] /\ round[h[1]] \in Nat
        BY <2>5, SharedTypes
      <4> QED BY <4>1
    <3>3. NoFuture(c)'
      BY <1>1, <2>2, <3>2 DEF SharedInv, NoFuture, Sel!Arbiters
    <3> QED BY <3>1, <3>3
  <2>7. Pending(c)'
    <3>1. \A a \in Sel("shared")!Arbiters :
           /\ <<a, c>> \in wInflight' \/ InQueue(a, wCh'[c].watchers) =>
                /\ a = <<a[1], round[a[1]]>> /\ a \notin settled
                /\ wPc[a[1]] \in {"register", "await"} /\ todo[a[1]] = {}
           /\ InQueue(a, wCh'[c].watchers) => <<a, c>> \notin wInflight'
      BY <2>2, <2>3, <2>4
    <3> QED BY <1>1, <3>1 DEF Pending, Sel!Arbiters, InQueue
  <2>8. (~wCh[c].is_closed /\ wCh[c].watchers # <<>> => Len(wCh[c].buffer) <= Cardinality(Alerted(c)))'
    <3>1. Alerted(c)' = Alerted(c) \cup {h[1]} /\ h[1] \notin Alerted(c)
      BY <1>1, <2>2, <2>5 DEF Alerted
    <3>2. Cardinality(Alerted(c)') = Cardinality(Alerted(c)) + 1
      BY <1>0, <3>1, CountAdd
    <3>3. Len(wCh'[c].buffer) = Len(wCh[c].buffer) + 1
      BY <1>0, <2>2, AppendProperties
    <3>4. Len(wCh[c].buffer) <= Cardinality(Alerted(c))
      BY <1>6, <2>2 DEF SharedInv
    <3>5. Len(wCh'[c].buffer) <= Cardinality(Alerted(c)')
      BY <1>0, <3>2, <3>3, <3>4
    <3> QED BY <3>5
  <2> QED BY <2>2, <2>6, <2>7, <2>8 DEF SharedInv
<1> QED BY <1>4, <1>5, <1>6

\* A close: every watcher is told, none is left.
LEMMA CloseKept ==
    ASSUME SelInv("shared"), NEW c \in SelChans["shared"], SharedInv(c), Sel("shared")!Close(c)
    PROVE  SharedInv(c)'
<1> DEFINE r == Sel("shared")!Raw!close(wCh[c])
<1>0. /\ Fit("shared", wCh[c]) /\ wCh \in [SelChans["shared"] -> Sel("shared")!Raw!ChannelState]
      /\ wCh[c].watchers \in Seq(Sel("shared")!Arbiters) /\ round \in [SelTasks["shared"] -> Nat]
      /\ \A a \in Sel("shared")!Arbiters : a[1] \in SelTasks["shared"]
  BY SharedTypes
<1>1. /\ UNCHANGED <<wPc, todo, round, settled>> /\ ~wCh[c].is_closed
      /\ wCh' = [wCh EXCEPT ![c] = r.st] /\ wInflight' = wInflight \cup Sel("shared")!Signals(c, r)
  BY DEF Sel!Close, Sel!Apply
<1>2. /\ r.st.is_closed /\ r.st.watchers = <<>>
      /\ Sel("shared")!Signals(c, r) = {<<a, c>> : a \in Elems(wCh[c].watchers)}
  <2>1. Fit("shared", wCh[c]) /\ ~wCh[c].is_closed
    BY <1>0, <1>1
  <2>2. LET z == Sel("shared")!Raw!close(wCh[c])
        IN  /\ Fit("shared", z.st) /\ z.st.is_closed /\ z.st.buffer = wCh[c].buffer /\ z.st.watchers = <<>>
            /\ Sel("shared")!Signals(c, z) = {<<a, c>> : a \in Elems(wCh[c].watchers)}
    BY <2>1, SelClose
  <2> QED BY <2>2
<1>3. wCh'[c] = r.st
  <2>1. [wCh EXCEPT ![c] = r.st][c] = r.st
    BY <1>0
  <2> QED BY <1>1, <2>1
<1> HIDE DEF r
<1>4. \A a : <<a, c>> \in wInflight' => <<a, c>> \in wInflight \/ InQueue(a, wCh[c].watchers)
  BY <1>1, <1>2, SelQueues
<1>5. Answered' /\ Undisturbed'
  BY <1>1 DEF SharedInv, Answered, Undisturbed
<1>6. NoFuture(c)'
  <2>1. ASSUME NEW a \in Sel("shared")!Arbiters, <<a, c>> \in wInflight' PROVE a[2] <= round[a[1]]
    <3>1. CASE <<a, c>> \in wInflight
      BY <3>1 DEF SharedInv, NoFuture
    <3>2. CASE InQueue(a, wCh[c].watchers)
      <4>1. a = <<a[1], round[a[1]]>>
        BY <3>2 DEF SelInv, Watching
      <4>2. a[2] = round[a[1]] /\ round[a[1]] \in Nat
        BY <1>0, <4>1
      <4> QED BY <4>2
    <3> QED BY <1>4, <2>1, <3>1, <3>2
  <2> QED BY <1>1, <2>1 DEF NoFuture, Sel!Arbiters
<1>7. wCh'[c].is_closed /\ wCh'[c].watchers = <<>>
  BY <1>2, <1>3
<1> QED BY <1>5, <1>6, <1>7 DEF SharedInv

\* A resumption: the selector takes an item, or there is none.
LEMMA ResumeKept ==
    ASSUME SelInv("shared"), NEW c \in SelChans["shared"], SharedInv(c), NEW w \in SelTasks["shared"],
           Sel("shared")!Resume(w)
    PROVE  SharedInv(c)'
<1> DEFINE r == Sel("shared")!Raw!try_recv(wCh[c])
           chans == [wCh EXCEPT ![c] = r.st]
<1>0. /\ wPc \in [SelTasks["shared"] -> Sel("shared")!PCs]
      /\ todo \in [SelTasks["shared"] -> SUBSET SelChans["shared"]]
      /\ round \in [SelTasks["shared"] -> Nat]
      /\ \A a \in Sel("shared")!Arbiters : a[1] \in SelTasks["shared"] /\ a[2] \in Nat
      /\ settled \subseteq Sel("shared")!Arbiters
      /\ \A d \in SelChans["shared"] : d = c
  BY SharedTypes
<1>9. Sel("shared")!TypeOK /\ Len(wCh[c].buffer) \in Nat /\ wCh[c].buffer \in Seq(SelItems["shared"])
      /\ IsFiniteSet(Alerted(c)) /\ Cardinality(Alerted(c)) \in Nat
  BY SharedTypes
<1>1. /\ Fit("shared", r.st) /\ r.st.watchers = wCh[c].watchers /\ r.st.is_closed = wCh[c].is_closed
      /\ chans[c] = r.st
  BY SharedTake
<1>2. /\ Sel("shared")!Signals(c, r) = {}
      /\ r.ret # "item" => r.st = wCh[c] /\ wCh[c].buffer = <<>>
      /\ r.ret = "item" => wCh[c].buffer # <<>> /\ r.st.buffer = Tail(wCh[c].buffer)
  <2>1. LET z == Sel("shared")!Raw!try_recv(wCh[c])
        IN  /\ Sel("shared")!Signals(c, z) = {} /\ Fit("shared", wCh[c]) /\ Fit("shared", z.st)
            /\ z.st.watchers = wCh[c].watchers /\ z.st.is_closed = wCh[c].is_closed
            /\ z.ret # "item" => z.st = wCh[c] /\ wCh[c].buffer = <<>>
            /\ z.ret = "item" => /\ wCh[c].buffer # <<>> /\ z.item = Head(wCh[c].buffer)
                                 /\ z.st.buffer = Tail(wCh[c].buffer)
    BY TakeIs
  <2> QED BY <2>1
<1>3. wPc[w] = "woken" /\ ready[w] = c
  BY <1>0 DEF SelInv, Named, Sel!Resume
<1>4. /\ settled' = settled /\ wInflight' = wInflight
      /\ wCh' = Sel("shared")!Unregistered(chans, w)
      /\ \/ r.ret = "item" /\ wPc' = [wPc EXCEPT ![w] = "done"] /\ UNCHANGED <<todo, round>>
         \/ /\ r.ret # "item" /\ wPc' = [wPc EXCEPT ![w] = "probe"]
            /\ round' = [round EXCEPT ![w] = @ + 1] /\ todo' = [todo EXCEPT ![w] = SelChans["shared"]]
  BY <1>2, <1>3 DEF Sel!Resume, Sel!Goto
<1> HIDE DEF r, chans
<1>5. /\ wCh'[c].buffer = r.st.buffer /\ wCh'[c].is_closed = wCh[c].is_closed
      /\ \A a : InQueue(a, wCh'[c].watchers) => InQueue(a, wCh[c].watchers)
      /\ wCh[c].watchers = <<>> => wCh'[c].watchers = <<>>
  <2>1. Fit("shared", chans[c])
    BY <1>1
  <2>2. /\ wCh'[c].buffer = chans[c].buffer /\ wCh'[c].is_closed = chans[c].is_closed
        /\ \A a : InQueue(a, wCh'[c].watchers) => InQueue(a, chans[c].watchers)
        /\ chans[c].watchers = <<>> => wCh'[c].watchers = <<>>
    <3>1. Sel("shared")!TypeOK /\ wCh' = Sel("shared")!Unregistered(chans, w)
      BY <1>4, <1>9
    <3> QED BY Zenon, <2>1, <3>1, UnregisteredAt
  <2> QED BY <1>1, <2>2
<1>6. /\ wPc'[w] \in {"done", "probe"} /\ round[w] \in Nat
      /\ (wPc'[w] = "done" /\ round'[w] = round[w]) \/ round'[w] = round[w] + 1
      /\ \A v \in SelTasks["shared"] : v # w => wPc'[v] = wPc[v] /\ round'[v] = round[v] /\ todo'[v] = todo[v]
  BY <1>0, <1>4
<1>7. Answered' /\ Undisturbed' /\ NoFuture(c)'
  <2>1. ASSUME NEW a \in settled
        PROVE  /\ a[2] <= round'[a[1]]
               /\ a[2] = round'[a[1]] => wPc'[a[1]] \in {"woken", "done", "default", "closed"}
    <3>1. /\ a[1] \in SelTasks["shared"] /\ a[2] \in Nat /\ a[2] <= round[a[1]]
          /\ a[2] = round[a[1]] => wPc[a[1]] \in {"woken", "done", "default", "closed"}
      BY <1>0 DEF SharedInv, Answered
    <3>2. CASE a[1] = w
      BY <1>6, <3>1, <3>2
    <3>3. CASE a[1] # w
      BY <1>6, <3>1, <3>3
    <3> QED BY <3>2, <3>3
  <2>2. Answered'
    BY <1>4, <2>1 DEF Answered
  <2>3. Undisturbed'
    BY <1>6 DEF SharedInv, Undisturbed
  <2>4. ASSUME NEW a \in Sel("shared")!Arbiters, <<a, c>> \in wInflight PROVE a[2] <= round'[a[1]]
    <3>1. a[1] \in SelTasks["shared"] /\ a[2] \in Nat /\ a[2] <= round[a[1]]
      BY <1>0, <2>4 DEF SharedInv, NoFuture
    <3>2. CASE a[1] = w
      BY <1>6, <3>1, <3>2
    <3>3. CASE a[1] # w
      BY <1>6, <3>1, <3>3
    <3> QED BY <3>2, <3>3
  <2>5. NoFuture(c)'
    BY <1>4, <2>4 DEF NoFuture, Sel!Arbiters
  <2> QED BY <2>2, <2>3, <2>5
<1>8. (wCh[c].is_closed => wCh[c].watchers = <<>>)'
  BY <1>5 DEF SharedInv
<1>10. ASSUME ~wCh[c].is_closed
       PROVE  /\ Pending(c)'
              /\ (~wCh[c].is_closed /\ wCh[c].watchers # <<>> => Len(wCh[c].buffer) <= Cardinality(Alerted(c)))'
  <2>1. \A a \in Sel("shared")!Arbiters :
           /\ <<a, c>> \in wInflight \/ InQueue(a, wCh[c].watchers) =>
                /\ a[1] # w /\ a = <<a[1], round[a[1]]>> /\ a \notin settled
                /\ wPc[a[1]] \in {"register", "await"} /\ todo[a[1]] = {}
           /\ InQueue(a, wCh[c].watchers) => <<a, c>> \notin wInflight
    BY <1>3, <1>10 DEF SharedInv, Pending
  <2>2. Pending(c)'
    <3>1. ASSUME NEW a \in Sel("shared")!Arbiters
          PROVE  /\ <<a, c>> \in wInflight' \/ InQueue(a, wCh'[c].watchers) =>
                      /\ a = <<a[1], round'[a[1]]>> /\ a \notin settled'
                      /\ wPc'[a[1]] \in {"register", "await"} /\ todo'[a[1]] = {}
                 /\ InQueue(a, wCh'[c].watchers) => <<a, c>> \notin wInflight'
      <4>1. a[1] \in SelTasks["shared"]
        BY <1>0
      <4> QED BY <1>4, <1>5, <1>6, <2>1, <4>1
    <3> QED BY <3>1 DEF Pending, Sel!Arbiters, InQueue
  <2>3. Alerted(c)' = Alerted(c) \ {w} /\ w \in Alerted(c)
    <3>1. w \in Alerted(c)
      BY <1>3 DEF Alerted
    <3>2. <<<<w, round'[w]>>, c>> \notin wInflight'
      <4> SUFFICES ASSUME <<<<w, round'[w]>>, c>> \in wInflight PROVE FALSE
        BY <1>4
      <4>1. <<w, round'[w]>> \in Sel("shared")!Arbiters
        BY <1>9, SelTypes DEF SelInv, Sel!TypeOK
      <4>2. <<w, round'[w]>>[1] = w
        OBVIOUS
      <4> QED BY <2>1, <4>1, <4>2
    <3>3. \A v \in SelTasks["shared"] : v # w =>
             (wPc'[v] = "woken" \/ <<<<v, round'[v]>>, c>> \in wInflight')
               <=> (wPc[v] = "woken" \/ <<<<v, round[v]>>, c>> \in wInflight)
      BY <1>4, <1>6
    <3>4. wPc'[w] # "woken"
      BY <1>6
    <3>5. Alerted(c)' = {v \in SelTasks["shared"] : wPc'[v] = "woken" \/ <<<<v, round'[v]>>, c>> \in wInflight'}
      BY DEF Alerted
    <3>6. Alerted(c) = {v \in SelTasks["shared"] : wPc[v] = "woken" \/ <<<<v, round[v]>>, c>> \in wInflight}
      BY DEF Alerted
    <3> QED BY <3>1, <3>2, <3>3, <3>4, <3>5, <3>6
  <2>4. Cardinality(Alerted(c)') = Cardinality(Alerted(c)) - 1 /\ Cardinality(Alerted(c)') \in Nat
    BY <1>9, <2>3, CountRemove
  <2>5. CASE r.ret # "item"
    <3>1. Len(wCh'[c].buffer) = 0
      BY <1>2, <1>5, <2>5
    <3> QED BY <2>2, <2>4, <3>1
  <2>6. CASE r.ret = "item"
    <3>1. Len(wCh'[c].buffer) = Len(wCh[c].buffer) - 1
      <4>1. wCh'[c].buffer = Tail(wCh[c].buffer) /\ wCh[c].buffer # <<>>
        BY <1>2, <1>5, <2>6
      <4> QED BY <1>9, <4>1, HeadTailProperties
    <3>2. wCh'[c].watchers # <<>> => Len(wCh[c].buffer) <= Cardinality(Alerted(c))
      BY <1>5, <1>10 DEF SharedInv
    <3>3. wCh'[c].watchers # <<>> => Len(wCh'[c].buffer) <= Cardinality(Alerted(c)')
      BY <1>9, <2>4, <3>1, <3>2
    <3> QED BY <2>2, <3>3
  <2> QED BY <2>5, <2>6
<1> QED BY <1>5, <1>7, <1>8, <1>10 DEF SharedInv

\* A callback: on the open channel it wakes the selector it was queued for; on the
\* closed one nobody watches any more.
LEMMA CallbackKept ==
    ASSUME SelInv("shared"), NEW c \in SelChans["shared"], SharedInv(c), NEW a \in Sel("shared")!Arbiters,
           Sel("shared")!SelectWake(a, c)
    PROVE  SharedInv(c)'
<1>0. /\ wPc \in [SelTasks["shared"] -> Sel("shared")!PCs]
      /\ \A b \in Sel("shared")!Arbiters : b[1] \in SelTasks["shared"] /\ b[2] \in Nat
      /\ settled \subseteq Sel("shared")!Arbiters
  BY SharedTypes
<1>1. /\ <<a, c>> \in wInflight /\ UNCHANGED <<todo, round>>
      /\ wPc[a[1]] \in {"await", "woken", "unwind"} \cup Sel("shared")!Returned
  BY DEF Sel!SelectWake
<1>2. a[1] \in SelTasks["shared"] /\ a[2] <= round[a[1]]
  BY <1>0, <1>1 DEF SharedInv, NoFuture
<1>3. CASE a \in settled
  <2> DEFINE r == Sel("shared")!Raw!forward_select_wakeup(wCh[c])
  <2>1. /\ wCh' = [wCh EXCEPT ![c] = r.st] /\ UNCHANGED <<wPc, settled>>
        /\ wInflight' = (wInflight \ {<<a, c>>}) \cup Sel("shared")!Signals(c, r)
    BY <1>3 DEF Sel!SelectWake
  <2>2. wCh[c].is_closed /\ wCh[c].watchers = <<>>
    BY <1>1, <1>3 DEF SharedInv, Pending
  <2>3. /\ r.st.watchers = <<>> /\ Sel("shared")!Signals(c, r) = {} /\ r.st.is_closed = wCh[c].is_closed
    <3>1. Fit("shared", wCh[c])
      BY SharedTypes
    <3>2. LET z == Sel("shared")!Raw!forward_select_wakeup(wCh[c])
          IN  /\ Fit("shared", z.st) /\ z.st.buffer = wCh[c].buffer /\ z.st.is_closed = wCh[c].is_closed
              /\ wCh[c].watchers = <<>> => z.st.watchers = <<>> /\ Sel("shared")!Signals(c, z) = {}
              /\ wCh[c].watchers # <<>> =>
                   \/ z.st = wCh[c] /\ wCh[c].buffer = <<>> /\ Sel("shared")!Signals(c, z) = {}
                   \/ /\ z.st.watchers = Tail(wCh[c].watchers)
                      /\ Sel("shared")!Signals(c, z) = {<<Head(wCh[c].watchers), c>>}
      BY <3>1, SelForward
    <3> QED BY <2>2, <3>2
  <2>4. wCh'[c] = r.st
    <3>1. [wCh EXCEPT ![c] = r.st][c] = r.st
      BY SharedTypes
    <3> QED BY <2>1, <3>1
  <2> HIDE DEF r
  <2>5. wInflight' = wInflight \ {<<a, c>>}
    BY <2>1, <2>3
  <2>6. Answered' /\ Undisturbed' /\ NoFuture(c)'
    BY <1>1, <2>1, <2>5 DEF SharedInv, Answered, Undisturbed, NoFuture, Sel!Arbiters
  <2>7. wCh'[c].is_closed /\ wCh'[c].watchers = <<>>
    BY <2>2, <2>3, <2>4
  <2> QED BY <2>6, <2>7 DEF SharedInv
<1>4. CASE a \notin settled
  <2>0. Sel("shared")!Arbiter(a[1]) = <<a[1], round[a[1]]>>
    BY <1>2, SharedTypes
  <2>1. /\ settled' = settled \cup {a} /\ wInflight' = wInflight \ {<<a, c>>} /\ wCh' = wCh
        /\ IF a = <<a[1], round[a[1]]>> /\ wPc[a[1]] = "await"
           THEN wPc' = [wPc EXCEPT ![a[1]] = "woken"]
           ELSE wPc' = wPc
    BY <1>4, <2>0 DEF Sel!SelectWake, Sel!Goto
  <2>2. \A v \in SelTasks["shared"] : v # a[1] => wPc'[v] = wPc[v]
    BY <1>0, <2>1
  <2>3. /\ a[2] = round[a[1]] => wPc'[a[1]] \in {"woken", "done", "default", "closed"}
        /\ wPc'[a[1]] \in {wPc[a[1]], "woken"}
    <3>1. wPc[a[1]] \in {"await", "woken", "done", "default", "closed"}
      BY <1>1, <1>2 DEF SharedInv, Undisturbed, Sel!Returned
    <3>2. a[2] = round[a[1]] => a = <<a[1], round[a[1]]>>
      BY ArbiterShape
    <3> QED BY <1>0, <1>2, <2>1, <3>1, <3>2
  <2>4. Answered'
    <3>1. ASSUME NEW b \in settled'
          PROVE  /\ b[2] <= round[b[1]]
                 /\ b[2] = round[b[1]] => wPc'[b[1]] \in {"woken", "done", "default", "closed"}
      <4>1. CASE b = a
        BY <1>2, <2>3, <4>1
      <4>2. CASE b # a
        <5>1. /\ b \in settled /\ b[1] \in SelTasks["shared"] /\ b[2] <= round[b[1]]
              /\ b[2] = round[b[1]] => wPc[b[1]] \in {"woken", "done", "default", "closed"}
          BY <1>0, <2>1, <4>2 DEF SharedInv, Answered
        <5>2. wPc'[b[1]] \in {wPc[b[1]], "woken"}
          BY <2>2, <2>3, <5>1
        <5> QED BY <5>1, <5>2
      <4> QED BY <4>1, <4>2
    <3> QED BY <1>1, <3>1 DEF Answered
  <2>5. Undisturbed'
    <3>1. \A v \in SelTasks["shared"] : wPc'[v] \in {wPc[v], "woken"}
      BY <2>2, <2>3
    <3> QED BY <3>1 DEF SharedInv, Undisturbed
  <2>6. NoFuture(c)'
    BY <1>1, <2>1 DEF SharedInv, NoFuture, Sel!Arbiters
  <2>7. (wCh[c].is_closed => wCh[c].watchers = <<>>)'
    BY <2>1 DEF SharedInv
  <2>8. ASSUME ~wCh[c].is_closed
        PROVE  /\ Pending(c)'
               /\ (~wCh[c].is_closed /\ wCh[c].watchers # <<>> => Len(wCh[c].buffer) <= Cardinality(Alerted(c)))'
    <3>1. \A b \in Sel("shared")!Arbiters :
             /\ <<b, c>> \in wInflight \/ InQueue(b, wCh[c].watchers) =>
                  /\ b = <<b[1], round[b[1]]>> /\ b \notin settled
                  /\ wPc[b[1]] \in {"register", "await"} /\ todo[b[1]] = {}
             /\ InQueue(b, wCh[c].watchers) => <<b, c>> \notin wInflight
      BY <2>8 DEF SharedInv, Pending
    <3>2. a = <<a[1], round[a[1]]>> /\ wPc[a[1]] = "await" /\ wPc'[a[1]] = "woken"
      <4>1. a = <<a[1], round[a[1]]>> /\ wPc[a[1]] \in {"register", "await"}
        BY <1>1, <3>1
      <4>2. wPc[a[1]] = "await"
        BY <1>1, <4>1 DEF Sel!Returned
      <4> QED BY <1>0, <1>2, <2>1, <4>1, <4>2
    <3>3. Pending(c)'
      <4>1. ASSUME NEW b \in Sel("shared")!Arbiters
            PROVE  /\ <<b, c>> \in wInflight' \/ InQueue(b, wCh[c].watchers) =>
                        /\ b = <<b[1], round[b[1]]>> /\ b \notin settled'
                        /\ wPc'[b[1]] \in {"register", "await"} /\ todo[b[1]] = {}
                   /\ InQueue(b, wCh[c].watchers) => <<b, c>> \notin wInflight'
        <5>1. b[1] \in SelTasks["shared"]
          BY <1>0
        <5>2. <<b, c>> \in wInflight' \/ InQueue(b, wCh[c].watchers) => b # a
          BY <1>1, <2>1, <3>1
        <5>3. <<b, c>> \in wInflight' \/ InQueue(b, wCh[c].watchers) => b[1] # a[1]
          BY <2>1, <3>1, <3>2, <5>2
        <5> QED BY <2>1, <2>2, <3>1, <5>1, <5>2, <5>3
      <4> QED BY <1>1, <2>1, <4>1 DEF Pending, Sel!Arbiters, InQueue
    <3>4. Alerted(c)' = Alerted(c)
      <4>1. Alerted(c)' = {v \in SelTasks["shared"] : wPc'[v] = "woken" \/ <<<<v, round[v]>>, c>> \in wInflight'}
        BY <1>1 DEF Alerted
      <4>2. \A v \in SelTasks["shared"] :
               (wPc'[v] = "woken" \/ <<<<v, round[v]>>, c>> \in wInflight')
                 <=> (wPc[v] = "woken" \/ <<<<v, round[v]>>, c>> \in wInflight)
        <5> TAKE v \in SelTasks["shared"]
        <5>1. CASE v = a[1]
          BY <1>1, <3>2, <5>1
        <5>2. CASE v # a[1]
          <6>1. <<<<v, round[v]>>, c>> # <<a, c>>
            BY <3>2, <5>2
          <6> QED BY <2>1, <2>2, <5>2, <6>1
        <5> QED BY <5>1, <5>2
      <4> QED BY <4>1, <4>2 DEF Alerted
    <3> QED BY <2>1, <3>3, <3>4 DEF SharedInv
  <2> QED BY <2>1, <2>4, <2>5, <2>6, <2>7, <2>8 DEF SharedInv
<1> QED BY <1>3, <1>4

\* The steps of the shared scene.
LEMMA SharedStep ==
    ASSUME SelInv("shared"), NEW c \in SelChans["shared"], SharedInv(c), [Sel("shared")!Next]_swarm
    PROVE  SharedInv(c)'
<1>0. \A d \in SelChans["shared"] : d = c
  BY InstanceAssumptions
<1>1. CASE UNCHANGED swarm
  <2>1. UNCHANGED <<wCh, wPc, todo, round, settled, wInflight>>
    BY <1>1 DEF swarm
  <2>2. Alerted(c)' = Alerted(c)
    BY <2>1 DEF Alerted
  <2>3. Answered' /\ Undisturbed' /\ NoFuture(c)'
    BY <2>1 DEF SharedInv, Answered, Undisturbed, NoFuture, Sel!Arbiters
  <2>4. ~wCh[c].is_closed => Pending(c)'
    BY <2>1 DEF SharedInv, Pending, Sel!Arbiters, InQueue
  <2> QED BY <2>1, <2>2, <2>3, <2>4 DEF SharedInv
<1>2. CASE Sel("shared")!Next
  <2>1. ASSUME NEW d \in SelChans["shared"], NEW i \in SelItems["shared"], Sel("shared")!TrySend(d, i)
        PROVE  SharedInv(c)'
    BY <1>0, <2>1, SendKept
  <2>2. ASSUME NEW d \in SelChans["shared"], Sel("shared")!Close(d) PROVE SharedInv(c)'
    BY <1>0, <2>2, CloseKept
  <2>3. ASSUME NEW d \in SelChans["shared"], Sel("shared")!TryRecv(d) PROVE SharedInv(c)'
    BY <1>0, <2>3, RivalKept
  <2>4. ASSUME NEW w \in SelTasks["shared"], Sel("shared")!SelectorStep(w) PROVE SharedInv(c)'
    <3>1. ~Sel("shared")!Unwind(w)
      BY DEF SharedInv, Undisturbed, Sel!Unwind
    <3> QED BY <2>4, <3>1, QuietSteps, RegisterKept, ResumeKept DEF Sel!SelectorStep
  <2>5. ASSUME NEW w \in SelTasks["shared"], Sel("shared")!Cancel(w) PROVE SharedInv(c)'
    BY <2>5, InstanceAssumptions DEF Sel!Cancel
  <2>6. CASE Sel("shared")!Callback
    BY <1>0, <2>6, CallbackKept DEF Sel!Callback
  <2> QED BY <1>2, <2>1, <2>2, <2>3, <2>4, <2>5, <2>6 DEF Sel!Next
<1> QED BY <1>1, <1>2

\* On one channel read by rivals, whose selectors are not cancelled, the wake-up of a
\* buffered item is never lost (SharedWakeKept).
THEOREM SharedWakeTheorem == MSpec => []SharedWakeKept
<1> DEFINE SharedOnStage == scene = "shared" => \A c \in SelChans["shared"] : SharedInv(c)
<1>1. MInit => SharedOnStage
  <2> SUFFICES ASSUME MInit, scene = "shared", NEW c \in SelChans["shared"] PROVE SharedInv(c)
    OBVIOUS
  <2>1. Sel("shared")!Init
    BY DEF MInit, SelectScenes
  <2>2. /\ wCh[c] = Sel("shared")!Raw!NewChannel /\ wPc = [w \in SelTasks["shared"] |-> "probe"]
        /\ settled = {} /\ wInflight = {}
    BY <2>1 DEF Sel!Init
  <2>3. wCh[c].watchers = <<>>
    BY <2>2 DEF Sel!Raw!NewChannel
  <2>4. Answered /\ Undisturbed /\ NoFuture(c)
    BY <2>2 DEF Answered, Undisturbed, NoFuture
  <2>5. Pending(c)
    BY <2>2, <2>3 DEF Pending, InQueue
  <2> QED BY <2>3, <2>4, <2>5 DEF SharedInv
<1>2. OnStage /\ SharedOnStage /\ [MNext]_mvars => SharedOnStage'
  <2> SUFFICES ASSUME OnStage, SharedOnStage, [MNext]_mvars, scene' = "shared", NEW c \in SelChans["shared"]
               PROVE  SharedInv(c)'
    OBVIOUS
  <2>1. scene = "shared" /\ [Sel("shared")!Next]_swarm
    BY SelSteps
  <2>2. SelInv("shared") /\ SharedInv(c)
    BY <2>1 DEF OnStage
  <2> QED BY <2>1, <2>2, SharedStep
<1>3. OnStage /\ SharedOnStage => SharedWakeKept
  <2> SUFFICES ASSUME OnStage, SharedOnStage, scene = "shared", NEW c \in SelChans["shared"],
                      wCh[c].buffer # <<>>, wCh[c].watchers # <<>>
               PROVE  Sel("shared")!Alert(c)
    BY DEF SharedWakeKept, Sel!NoLostSelectWake
  <2>1. SelInv("shared") /\ SharedInv(c)
    BY DEF OnStage
  <2>2. /\ wCh[c].buffer \in Seq(SelItems["shared"]) /\ Cardinality(Alerted(c)) \in Nat
        /\ \A d \in SelChans["shared"] : d = c
        /\ \A w \in SelTasks["shared"] : <<w, round[w]>> \in Sel("shared")!Arbiters
    BY <2>1, SharedTypes
  <2>3. Len(wCh[c].buffer) \in Nat /\ Len(wCh[c].buffer) # 0
    BY <2>2, EmptySeq, LenProperties
  <2>4. Len(wCh[c].buffer) <= Cardinality(Alerted(c))
    BY <2>1 DEF SharedInv
  <2>5. Alerted(c) # {}
    <3> SUFFICES ASSUME Alerted(c) = {} PROVE FALSE
      OBVIOUS
    <3>1. Cardinality(Alerted(c)) = 0
      BY FS_EmptySet
    <3> QED BY <2>3, <2>4, <3>1
  <2>6. PICK w \in SelTasks["shared"] : wPc[w] = "woken" \/ <<<<w, round[w]>>, c>> \in wInflight
    BY <2>5 DEF Alerted
  <2>7. wPc[w] = "woken" => ready[w] = c
    BY <2>1, <2>2 DEF SelInv, Named
  <2> QED BY <2>2, <2>6, <2>7 DEF Sel!Alert
<1> HIDE DEF SharedOnStage
<1> QED BY <1>1, <1>2, <1>3, OnStageInvariant, PTL DEF MSpec
=============================================================================
