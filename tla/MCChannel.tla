------------------------------ MODULE MCChannel ------------------------------
(***************************************************************************)
(* Channels, in one scene per behaviour.  One channel: all its tasks may   *)
(* be cancelled ("restless", the constants of the .cfg), or, on one of     *)
(* another capacity, only the senders ("calm").  select_channel: two       *)
(* selectors on two channels, cancelled at will ("pair"); one channel that *)
(* rival receivers read too ("shared"); one selector alone on two          *)
(* unbounded channels ("alone"); two selectors on one channel ("twins").   *)
(***************************************************************************)
EXTENDS Channel

CONSTANTS
    NoChan, CalmMaxsize,        \* capacity of the calm channel
    Scenes,                     \* the scenes a behaviour may show
    SelChans, SelTasks,         \* in each scene of select_channel: the channels, the
    SelItems, SelMaxsize,       \* selectors, the items, the capacity, how often a
    SelRounds, SelRivals,       \* selector may loop, the channels others read too,
    SelCancellable,             \* and who is cancelled
    s1, s2, s3, r1, r2, c1, c2, w1, w2, i1, i2

ThreeSenders == {s1, s2, s3}
TwoSenders == {s1, s2}
TwoReceivers == {r1, r2}
All == Tasks
EveryScene == {"restless", "calm", "pair", "shared", "alone"}
OneChannel == {"restless", "calm"}
Twin == {"twins"}
SelectScenes == {"pair", "shared", "alone", "twins"}
BothItems == [s \in SelectScenes |-> {i1, i2}]
ChansEach == [s \in SelectScenes |-> IF s \in {"shared", "twins"} THEN {c1} ELSE {c1, c2}]
TasksEach == [s \in SelectScenes |-> IF s = "alone" THEN {w1} ELSE {w1, w2}]
MaxsizeEach == [pair |-> 1, shared |-> 1, alone |-> 0, twins |-> 0]
RoundsEach == [pair |-> 2, shared |-> 3, alone |-> 3, twins |-> 4]
RivalsEach == [s \in SelectScenes |-> IF s = "shared" THEN {c1} ELSE {}]
CancellableEach == [s \in SelectScenes |-> IF s = "pair" THEN {w1, w2} ELSE {}]

VARIABLES scene, wCh, wPc, todo, round, ready, settled, wInflight, unsent, got

swarm == <<wCh, wPc, todo, round, ready, settled, wInflight, unsent, got>>
mvars == <<vars, swarm, scene>>

Calm == INSTANCE Channel WITH Maxsize <- CalmMaxsize, Cancellable <- Senders

Sel(s) == INSTANCE SelectChannel WITH
    Chans <- SelChans[s], Selectors <- SelTasks[s], Items <- SelItems[s],
    Maxsize <- SelMaxsize[s], MaxRounds <- SelRounds[s], Rivals <- SelRivals[s],
    Cancellable <- SelCancellable[s],
    ch <- wCh, pc <- wPc, inflight <- wInflight

\* The shared scene is one channel with finitely many selectors, not cancelled.
ASSUME InstanceAssumptions ==
    /\ CalmMaxsize \in Nat
    /\ \A s \in SelectScenes : Sel(s)!SelectParams
    /\ \A c, d \in SelChans["shared"] : c = d
    /\ IsFiniteSet(SelTasks["shared"]) /\ SelCancellable["shared"] = {}

\* The calm channel as the abstract queue sees it; the others are invisible.
Seen(q) == IF scene = "calm" THEN q ELSE <<>>
SeenFifo == INSTANCE FifoQueue WITH
    Capacity <- CalmMaxsize, Values <- Senders,
    queue <- Seen(ch.buffer), in <- Seen(accepted), out <- Seen(taken)

\* The parts that are not on stage rest in an initial state.
MInit ==
    /\ scene \in Scenes /\ Init
    /\ \A s \in SelectScenes : scene = s => Sel(s)!Init
    /\ scene \in OneChannel => Sel("pair")!Init

Restless == scene = "restless" /\ Next /\ UNCHANGED <<swarm, scene>>
Peaceful == scene = "calm" /\ Calm!Next /\ UNCHANGED <<swarm, scene>>
Selects(s) == scene = s /\ Sel(s)!Next /\ UNCHANGED <<vars, scene>>
PairRuns == Selects("pair")
SharedRuns == Selects("shared")
AloneRuns == Selects("alone")
TwinsRun == Selects("twins")
MNext == Restless \/ Peaceful \/ PairRuns \/ SharedRuns \/ AloneRuns

MSpec == MInit /\ [][MNext]_mvars

\* The modules' fairness, for the scenes whose liveness is checked: loops run
\* what is ready.
MFairSpec ==
    /\ MSpec
    /\ \A s \in Senders : /\ WF_vars(scene = "restless" /\ SenderStep(s))
                          /\ WF_vars(scene = "calm" /\ Calm!SenderStep(s))
    /\ \A t \in Receivers : /\ WF_vars(scene = "restless" /\ ReceiverStep(t))
                            /\ WF_vars(scene = "calm" /\ Calm!ReceiverStep(t))
    /\ WF_vars(scene = "restless" /\ Callback)
    /\ WF_vars(scene = "calm" /\ Calm!Callback)
    /\ \A w \in SelTasks["alone"] : WF_swarm(scene = "alone" /\ Sel("alone")!SelectorStep(w))
    /\ WF_swarm(scene = "alone" /\ Sel("alone")!Callback)

TwinsFairSpec ==
    /\ MInit /\ [][TwinsRun]_mvars
    /\ \A w \in SelTasks["twins"] : WF_swarm(scene = "twins" /\ Sel("twins")!SelectorStep(w))
    /\ WF_swarm(scene = "twins" /\ Sel("twins")!Callback)

-----------------------------------------------------------------------------

\* The state is well formed, the buffer never exceeds its capacity (no select
\* watches this channel), no getter queues while an item is buffered, a free
\* slot is never left unannounced to the senders queued for it, and a call that
\* returned or was cancelled has left no future registered.
ChannelSound ==
    /\ TypeOK /\ NoIdleItem /\ NoLeakedWaiter
    /\ IF scene = "calm" THEN Calm!CapacityRespected /\ Calm!NoIdleSlot
       ELSE CapacityRespected /\ NoIdleSlot

\* No item is delivered twice, though a wake-up that comes too late sends its
\* item again; and when receivers are not cancelled none is lost.
ItemsKept == NoDuplicate /\ (scene = "calm" => NoItemLost)

\* When receivers are not cancelled, the channel implements the bounded FIFO
\* queue its users are promised.
CalmImplementsFifo == SeenFifo!Spec

\* A select never loses or duplicates an item, cancelled or timed out at any
\* point, with rival receivers or without; and one that returned, raised or began
\* a new round has left no watcher behind on any channel.
SelectSound ==
    \A s \in {"pair", "shared", "alone"} : scene = s =>
        Sel(s)!TypeOK /\ Sel(s)!NoGhostWatcher /\ Sel(s)!ItemsConserved

\* On one channel, watched by several selectors and read by rivals, none of
\* them cancelled, the wake-up of a buffered item is never lost: while somebody
\* watches, some selector is on its way to the item.
SharedWakeKept == scene = "shared" => Sel("shared")!NoLostSelectWake

\* A selector alone on its channels returns once one of them has an item, or
\* all are closed and empty, whatever was sent or closed between its probes,
\* registrations and wake-ups.
LoneSelectReturns ==
    (scene = "alone" /\ (\/ Sel("alone")!AllDrained
                          \/ \E c \in SelChans["alone"] : wCh[c].buffer # <<>>))
        ~> \A w \in SelTasks["alone"] : wPc[w] \in Sel("alone")!Returned

\* select_channel does not hang when all its channels are closed and empty.
ClosedSelectReturns == scene = "twins" => Sel("twins")!ClosedSelectReturns
=============================================================================
