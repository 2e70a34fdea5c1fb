---------------------------- MODULE ChannelProofs ----------------------------
(***************************************************************************)
(* Proofs about Channel: its invariants and, when no receiver is           *)
(* cancelled, its refinement of FifoQueue, for any capacity and any number *)
(* of senders and receivers.                                               *)
(*                                                                         *)
(* A step of Channel is a call of a RawChannel method and a move of the    *)
(* task that made it.  The invariant is therefore an operator of the parts *)
(* of the state (b the buffer, cl is_closed, g the getters, q the putters, *)
(* p the pcs, v the values, f the wakes in flight), and each part of a     *)
(* step has a lemma of its own.                                            *)
(***************************************************************************)
EXTENDS Channel, QueueLemmas

PCs == Running \cup Suspended \cup Returned

\* A future is registered at most once, by a task that awaits it or is about to
\* clean it up, and no wake is on its way to it; a closed channel has none.
Registered(g, p, f, S) ==
    /\ g \in Seq(Tasks) /\ NoRepeat(g)
    /\ \A t \in Tasks : InQueue(t, g) =>
         t \in S /\ p[t] \in {"await", "unwind"} /\ \A m \in f : m.to # t

\* A popped waiter gets one wake: an item if it receives, a go if it sends, or
\* the news that the channel is closed.
WakesSound(cl, p, f) ==
    /\ f \subseteq Raw!Wakes
    /\ \A m \in f : /\ p[m.to] \in {"await", "unwind", "cancelled"}
                    /\ m.kind \in {"item", "go", "closed"}
                    /\ m.kind = "item" => m.to \in Receivers /\ m.item \in Senders
                    /\ m.kind # "item" => m.item = NoItem
                    /\ m.kind = "go" => m.to \in Senders
                    /\ m.kind = "closed" => cl
    /\ \A m, n \in f : m.to = n.to => m = n

TasksSound(cl, p, v) ==
    /\ p \in [Tasks -> PCs] /\ v \in [Tasks -> Senders \cup {NoItem}]
    /\ \A t \in Tasks : /\ p[t] = "failed" => cl
                        /\ p[t] \in {"start", "register", "await"} => v[t] = NoItem
    /\ \A t \in Senders : v[t] = NoItem

\* An item in some place was sent, and is in that place only.
ItemsSound(b, p, v, f) ==
    /\ b \in Seq(Senders) /\ NoRepeat(b)
    /\ \A i \in Senders : InQueue(i, b) => p[i] = "done"
    /\ \A m \in f : m.item \in Senders => p[m.item] = "done" /\ ~InQueue(m.item, b)
    /\ \A t \in Tasks : v[t] \in Senders =>
         /\ p[v[t]] = "done" /\ ~InQueue(v[t], b)
         /\ \A m \in f : m.item # v[t]
    /\ \A m, n \in f : m.item \in Senders /\ m.item = n.item => m = n
    /\ \A t, u \in Tasks : v[t] \in Senders /\ v[t] = v[u] => t = u

Sound(b, cl, g, q, p, v, f) ==
    /\ cl \in BOOLEAN /\ (cl => g = <<>> /\ q = <<>>)
    /\ Registered(g, p, f, Receivers) /\ Registered(q, p, f, Senders)
    /\ WakesSound(cl, p, f) /\ TasksSound(cl, p, v) /\ ItemsSound(b, p, v, f)
    /\ g # <<>> => b = <<>>
    /\ Maxsize > 0 => Len(b) <= Maxsize

\* Item i is in no place.
Nowhere(i, b, v, f) ==
    /\ ~InQueue(i, b)
    /\ \A m \in f : m.item # i
    /\ \A t \in Tasks : v[t] # i

\* Senders on their way to a slot, and the slots they are for.
Woken(q, p, f) ==
    {s \in Senders :
        \/ p[s] = "woken"
        \/ p[s] \in {"await", "unwind"} /\ \E m \in f : m.to = s
        \/ p[s] = "unwind" /\ ~InQueue(s, q)}
SlotsAnnounced(b, q, p, f) == q # <<>> => Len(b) + Cardinality(Woken(q, p, f)) >= Maxsize

\* The inductive invariant.
Inv ==
    /\ ch \in Raw!ChannelState /\ ch.watchers = <<>>
    /\ accepted \in Seq(Senders) /\ taken \in Seq(Senders)
    /\ Sound(ch.buffer, ch.is_closed, ch.getters, ch.putters, pc, val, inflight)
    /\ SlotsAnnounced(ch.buffer, ch.putters, pc, inflight)

\* While no receiver is cancelled, every wake finds its receiver waiting, and
\* what was accepted is buffered, in flight, or received.
CalmInv ==
    /\ \A t \in Receivers : pc[t] \notin {"unwind", "cancelled"}
    /\ \A i \in Senders : InQueue(i, accepted) => ~Nowhere(i, ch.buffer, val, inflight)

-----------------------------------------------------------------------------
(* The operators *)

\* The queue operators are the same inside an instance.
LEMMA RawOperators ==
    /\ \A q : Raw!Elems(q) = Elems(q)
    /\ \A q, t : Raw!Discard(q, t) = Discard(q, t)
    /\ \A q, t : t \in Elems(q) <=> InQueue(t, q)
<1>1. \A q : Raw!Elems(q) = Elems(q)
  BY DEF Raw!Elems, Elems
<1>2. \A q, t : Raw!Discard(q, t) = Discard(q, t)
  BY DEF Raw!Discard, Discard, Raw!InQueue, InQueue
<1>3. \A q, t : t \in Elems(q) <=> InQueue(t, q)
  BY DEF Elems, InQueue
<1> QED BY <1>1, <1>2, <1>3

\* An empty queue.
LEMMA Nobody ==
    ASSUME NEW S, NEW p, NEW f
    PROVE  Registered(<<>>, p, f, S) /\ NoRepeat(<<>>) /\ \A t : ~InQueue(t, <<>>)
<1>1. <<>> \in Seq(Tasks) /\ DOMAIN <<>> = {}
  BY EmptySeq
<1> QED BY <1>1 DEF Registered, NoRepeat, InQueue

-----------------------------------------------------------------------------
(* The parts of a step *)

\* A task moves on.
LEMMA Moves ==
    ASSUME NEW b, NEW cl, NEW g, NEW q, NEW p, NEW v, NEW f, Sound(b, cl, g, q, p, v, f),
           NEW t \in Tasks, NEW w \in PCs, NEW p2, p2 = [p EXCEPT ![t] = w],
           InQueue(t, g) \/ InQueue(t, q) => w \in {"await", "unwind"},
           \A m \in f : m.to = t => w \in {"await", "unwind", "cancelled"},
           w = "failed" => cl,
           w \in {"start", "register", "await"} => v[t] = NoItem,
           p[t] = "done" => w = "done"
    PROVE  Sound(b, cl, g, q, p2, v, f)
<1>1. /\ p \in [Tasks -> PCs] /\ p2 \in [Tasks -> PCs] /\ p2[t] = w
      /\ \A u \in Tasks \ {t} : p2[u] = p[u]
      /\ \A u \in Tasks : p[u] = "done" => p2[u] = "done"
  BY DEF Sound, TasksSound
<1>2. Registered(g, p2, f, Receivers) /\ Registered(q, p2, f, Senders)
  BY <1>1 DEF Sound, Registered
<1>3. WakesSound(cl, p2, f)
  <2>1. \A m \in f : m.to \in Tasks
    BY DEF Sound, WakesSound, Raw!Wakes
  <2> QED BY <1>1, <2>1 DEF Sound, WakesSound
<1>4. TasksSound(cl, p2, v)
  BY <1>1 DEF Sound, TasksSound
<1>5. ItemsSound(b, p2, v, f)
  BY <1>1 DEF Sound, ItemsSound, Tasks
<1> QED BY <1>2, <1>3, <1>4, <1>5 DEF Sound

\* An item that is nowhere is appended to a buffer with room.
LEMMA Buffers ==
    ASSUME NEW b, NEW cl, NEW g, NEW q, NEW p, NEW v, NEW f, Sound(b, cl, g, q, p, v, f),
           NEW i \in Senders, p[i] = "done", Nowhere(i, b, v, f),
           g = <<>>, Maxsize = 0 \/ Len(b) < Maxsize
    PROVE  Sound(Append(b, i), cl, g, q, p, v, f) /\ Len(Append(b, i)) = Len(b) + 1
<1>1. PICK c : c = Append(b, i)
  OBVIOUS
<1>2. b \in Seq(Senders) /\ NoRepeat(b) /\ ~InQueue(i, b)
  BY DEF Sound, ItemsSound, Nowhere
<1>3. c \in Seq(Senders) /\ NoRepeat(c) /\ \A x : InQueue(x, c) <=> InQueue(x, b) \/ x = i
  BY <1>1, <1>2, AppendQueue
<1>4. Len(c) = Len(b) + 1 /\ Len(b) \in Nat
  BY <1>1, <1>2, AppendProperties, LenProperties
<1>5. Maxsize > 0 => Len(c) <= Maxsize
  BY <1>4, ChannelAssumption
<1>6. ItemsSound(c, p, v, f)
  BY <1>3 DEF Sound, ItemsSound, Nowhere
<1> QED BY <1>1, <1>4, <1>5, <1>6 DEF Sound

\* The oldest item leaves the buffer.
LEMMA Unbuffers ==
    ASSUME NEW b, NEW cl, NEW g, NEW q, NEW p, NEW v, NEW f, Sound(b, cl, g, q, p, v, f),
           b # <<>>
    PROVE  /\ Sound(Tail(b), cl, g, q, p, v, f) /\ Len(Tail(b)) = Len(b) - 1
           /\ Head(b) \in Senders /\ p[Head(b)] = "done" /\ Nowhere(Head(b), Tail(b), v, f)
<1>1. PICK c : c = Tail(b)
  OBVIOUS
<1>2. PICK i : i = Head(b)
  OBVIOUS
<1>3. b \in Seq(Senders) /\ NoRepeat(b) /\ Len(b) \in Nat
  BY LenProperties DEF Sound, ItemsSound
<1>4. i = b[1]
  BY <1>2, <1>3
<1>5. /\ c \in Seq(Senders) /\ NoRepeat(c) /\ Len(c) = Len(b) - 1
      /\ i \in Senders /\ InQueue(i, b)
      /\ \A x : InQueue(x, c) <=> InQueue(x, b) /\ x # i
  BY <1>1, <1>3, <1>4, TailQueue
<1>6. ItemsSound(c, p, v, f)
  BY <1>5 DEF Sound, ItemsSound
<1>7. p[i] = "done" /\ Nowhere(i, c, v, f)
  BY <1>5 DEF Sound, ItemsSound, Nowhere
<1>8. Maxsize > 0 => Len(c) <= Maxsize
  BY <1>3, <1>5, ChannelAssumption DEF Sound
<1>9. g = <<>>
  BY DEF Sound
<1> QED BY <1>1, <1>2, <1>5, <1>6, <1>7, <1>8, <1>9 DEF Sound

\* A receiver, no longer waiting, holds an item that was nowhere else.
LEMMA Holds ==
    ASSUME NEW b, NEW cl, NEW g, NEW q, NEW p, NEW v, NEW f, Sound(b, cl, g, q, p, v, f),
           NEW t \in Receivers, p[t] \notin {"start", "register", "await"},
           NEW i \in Senders, p[i] = "done", Nowhere(i, b, v, f),
           NEW v2, v2 = [v EXCEPT ![t] = i]
    PROVE  Sound(b, cl, g, q, p, v2, f)
<1>1. t \in Tasks /\ t \notin Senders /\ i # NoItem
  BY ChannelAssumption DEF Tasks
<1>2. /\ v \in [Tasks -> Senders \cup {NoItem}] /\ v2 \in [Tasks -> Senders \cup {NoItem}]
      /\ v2[t] = i /\ \A u \in Tasks \ {t} : v2[u] = v[u]
  BY <1>1 DEF Sound, TasksSound
<1>3. TasksSound(cl, p, v2)
  BY <1>1, <1>2 DEF Sound, TasksSound, Tasks
<1>4. ItemsSound(b, p, v2, f)
  BY <1>1, <1>2 DEF Sound, ItemsSound, Nowhere
<1> QED BY <1>3, <1>4 DEF Sound

\* A wake is taken off the loop's queue.
LEMMA Drops ==
    ASSUME NEW b, NEW cl, NEW g, NEW q, NEW p, NEW v, NEW f, Sound(b, cl, g, q, p, v, f),
           NEW m \in f
    PROVE  /\ Sound(b, cl, g, q, p, v, f \ {m})
           /\ m.to \in Tasks /\ \A n \in f \ {m} : n.to # m.to
           /\ ~InQueue(m.to, g) /\ ~InQueue(m.to, q)
           /\ m.kind = "item" =>
                m.item \in Senders /\ p[m.item] = "done" /\ Nowhere(m.item, b, v, f \ {m})
<1>1. m.to \in Tasks /\ \A n \in f \ {m} : n.to # m.to
  BY DEF Sound, WakesSound, Raw!Wakes
<1>2. ~InQueue(m.to, g) /\ ~InQueue(m.to, q)
  BY <1>1 DEF Sound, Registered
<1>3. m.kind = "item" =>
        m.item \in Senders /\ p[m.item] = "done" /\ Nowhere(m.item, b, v, f \ {m})
  BY DEF Sound, WakesSound, ItemsSound, Nowhere
<1>4. Registered(g, p, f \ {m}, Receivers) /\ Registered(q, p, f \ {m}, Senders)
  BY DEF Sound, Registered
<1>5. WakesSound(cl, p, f \ {m}) /\ ItemsSound(b, p, v, f \ {m})
  BY DEF Sound, WakesSound, ItemsSound
<1> QED BY <1>1, <1>2, <1>3, <1>4, <1>5 DEF Sound

\* Waiters leave the queues g and q for g2 and q2, the channel perhaps closes.
Shrinks(cl, g, q, cl2, g2, q2) ==
    /\ cl2 \in BOOLEAN /\ g2 \in Seq(Tasks) /\ q2 \in Seq(Tasks)
    /\ NoRepeat(g2) /\ NoRepeat(q2)
    /\ (cl => cl2) /\ (cl2 => g2 = <<>> /\ q2 = <<>>)
    /\ \A x \in Tasks : InQueue(x, g2) => InQueue(x, g)
    /\ \A x \in Tasks : InQueue(x, q2) => InQueue(x, q)
    /\ g2 # <<>> => g # <<>>

\* N holds one wake, of the right kind, for some of those who left.
Tells(b, g, q, p, v, f, cl2, g2, q2, N) ==
    /\ N \subseteq Raw!Wakes
    /\ \A n \in N :
         /\ \/ InQueue(n.to, g) /\ ~InQueue(n.to, g2)
            \/ InQueue(n.to, q) /\ ~InQueue(n.to, q2)
         /\ n.kind \in {"item", "go", "closed"}
         /\ n.kind = "closed" => cl2
         /\ n.kind = "go" => InQueue(n.to, q)
         /\ n.kind = "item" => InQueue(n.to, g) /\ n.item \in Senders
         /\ n.kind # "item" => n.item = NoItem
         /\ n.item \in Senders => p[n.item] = "done" /\ Nowhere(n.item, b, v, f)
    /\ \A m, n \in N : m.to = n.to => m = n
    /\ \A m, n \in N : m.item \in Senders /\ m.item = n.item => m = n

\* Waiters leave the queues, and those of N are woken.
LEMMA Pops ==
    ASSUME NEW b, NEW cl, NEW g, NEW q, NEW p, NEW v, NEW f, Sound(b, cl, g, q, p, v, f),
           NEW cl2, NEW g2, NEW q2, NEW N,
           Shrinks(cl, g, q, cl2, g2, q2), Tells(b, g, q, p, v, f, cl2, g2, q2, N)
    PROVE  Sound(b, cl2, g2, q2, p, v, f \cup N)
<1> USE DEF Shrinks, Tells
<1>1. \A n \in N : n.to \in Tasks
  BY DEF Raw!Wakes
<1>2. /\ \A x \in Tasks : InQueue(x, g) =>
           x \in Receivers /\ p[x] \in {"await", "unwind"} /\ \A m \in f : m.to # x
      /\ \A x \in Tasks : InQueue(x, q) =>
           x \in Senders /\ p[x] \in {"await", "unwind"} /\ \A m \in f : m.to # x
      /\ Senders \cap Receivers = {}
  BY ChannelAssumption DEF Sound, Registered
<1>3. \A n \in N : p[n.to] \in {"await", "unwind"} /\ \A m \in f : m.to # n.to
  BY <1>1, <1>2
<1>4. \A n \in N : ~InQueue(n.to, g2) /\ ~InQueue(n.to, q2)
  BY <1>1, <1>2
<1>5. Registered(g2, p, f \cup N, Receivers)
  BY <1>2, <1>4 DEF Registered
<1>6. Registered(q2, p, f \cup N, Senders)
  BY <1>2, <1>4 DEF Registered
<1>7. WakesSound(cl2, p, f \cup N)
  <2>1. f \cup N \subseteq Raw!Wakes
    BY DEF Sound, WakesSound
  <2>2. \A m \in f : /\ p[m.to] \in {"await", "unwind", "cancelled"}
                     /\ m.kind \in {"item", "go", "closed"}
                     /\ m.kind = "item" => m.to \in Receivers /\ m.item \in Senders
                     /\ m.kind # "item" => m.item = NoItem
                     /\ m.kind = "go" => m.to \in Senders
                     /\ m.kind = "closed" => cl2
    BY DEF Sound, WakesSound
  <2>3. \A m \in N : /\ p[m.to] \in {"await", "unwind", "cancelled"}
                     /\ m.kind \in {"item", "go", "closed"}
                     /\ m.kind = "item" => m.to \in Receivers /\ m.item \in Senders
                     /\ m.kind # "item" => m.item = NoItem
                     /\ m.kind = "go" => m.to \in Senders
                     /\ m.kind = "closed" => cl2
    BY <1>1, <1>2, <1>3
  <2>4. \A m, n \in f \cup N : m.to = n.to => m = n
    BY <1>3 DEF Sound, WakesSound
  <2> QED BY <2>1, <2>2, <2>3, <2>4 DEF WakesSound
<1>8. TasksSound(cl2, p, v)
  BY DEF Sound, TasksSound
<1>9. ItemsSound(b, p, v, f \cup N)
  <2>1. \A m \in f \cup N : m.item \in Senders => p[m.item] = "done" /\ ~InQueue(m.item, b)
    BY DEF Sound, ItemsSound, Nowhere
  <2>2. \A t \in Tasks : v[t] \in Senders => \A m \in f \cup N : m.item # v[t]
    BY DEF Sound, ItemsSound, Nowhere
  <2>3. \A m, n \in f \cup N : m.item \in Senders /\ m.item = n.item => m = n
    BY DEF Sound, ItemsSound, Nowhere
  <2> QED BY <2>1, <2>2, <2>3 DEF Sound, ItemsSound
<1> QED BY <1>5, <1>6, <1>7, <1>8, <1>9 DEF Sound

\* A receiver that found the channel empty, or others waiting, queues.
LEMMA JoinsGetters ==
    ASSUME NEW b, NEW g, NEW q, NEW p, NEW v, NEW f, Sound(b, FALSE, g, q, p, v, f),
           NEW t \in Receivers, p[t] = "await", ~InQueue(t, g), \A m \in f : m.to # t,
           b = <<>>
    PROVE  Sound(b, FALSE, Append(g, t), q, p, v, f)
<1>1. g \in Seq(Tasks) /\ NoRepeat(g) /\ t \in Tasks
  BY DEF Sound, Registered, Tasks
<1>2. /\ Append(g, t) \in Seq(Tasks) /\ NoRepeat(Append(g, t))
      /\ \A x : InQueue(x, Append(g, t)) <=> InQueue(x, g) \/ x = t
  BY <1>1, AppendQueue
<1>3. Registered(Append(g, t), p, f, Receivers)
  BY <1>2 DEF Sound, Registered
<1> QED BY <1>3 DEF Sound

\* A sender that found no room queues.
LEMMA JoinsPutters ==
    ASSUME NEW b, NEW g, NEW q, NEW p, NEW v, NEW f, Sound(b, FALSE, g, q, p, v, f),
           NEW t \in Senders, p[t] = "await", ~InQueue(t, q), \A m \in f : m.to # t
    PROVE  Sound(b, FALSE, g, Append(q, t), p, v, f)
<1>1. q \in Seq(Tasks) /\ NoRepeat(q) /\ t \in Tasks
  BY DEF Sound, Registered, Tasks
<1>2. /\ Append(q, t) \in Seq(Tasks) /\ NoRepeat(Append(q, t))
      /\ \A x : InQueue(x, Append(q, t)) <=> InQueue(x, q) \/ x = t
  BY <1>1, AppendQueue
<1>3. Registered(Append(q, t), p, f, Senders)
  BY <1>2 DEF Sound, Registered
<1> QED BY <1>3 DEF Sound

\* The first putter is told of a slot.
LEMMA WakesPutter ==
    ASSUME NEW b, NEW cl, NEW g, NEW q, NEW p, NEW v, NEW f, Sound(b, cl, g, q, p, v, f),
           q # <<>>
    PROVE  /\ Sound(b, cl, g, Tail(q), p, v, f \cup {Raw!Wake(Head(q), "go")})
           /\ Head(q) \in Senders /\ InQueue(Head(q), q) /\ Raw!Wake(Head(q), "go").to = Head(q)
           /\ \A x : InQueue(x, Tail(q)) <=> InQueue(x, q) /\ x # Head(q)
<1>1. q \in Seq(Tasks) /\ NoRepeat(q) /\ Len(q) \in Nat
  BY LenProperties DEF Sound, Registered
<1>2. PICK h : h = Head(q)
  OBVIOUS
<1>3. PICK r : r = Tail(q)
  OBVIOUS
<1>4. h = q[1]
  BY <1>1, <1>2
<1>5. /\ r \in Seq(Tasks) /\ NoRepeat(r) /\ h \in Tasks /\ InQueue(h, q)
      /\ \A x : InQueue(x, r) <=> InQueue(x, q) /\ x # h
  BY <1>1, <1>3, <1>4, TailQueue
<1>6. PICK m : m = Raw!Wake(h, "go")
  OBVIOUS
<1>7. m \in Raw!Wakes /\ m.to = h /\ m.kind = "go" /\ m.item = NoItem
  BY <1>5, <1>6 DEF Raw!Wake, Raw!Wakes, Raw!WakeKinds
<1>8. h \in Senders
  BY <1>5 DEF Sound, Registered
<1>9. NoItem \notin Senders
  BY ChannelAssumption DEF Tasks
<1>10. Sound(b, cl, g, r, p, v, f \cup {m})
  <2>1. g \in Seq(Tasks) /\ NoRepeat(g) /\ cl \in BOOLEAN
    BY DEF Sound, Registered
  <2>2. ~cl
    BY DEF Sound
  <2>3. {m} \subseteq Raw!Wakes
    BY <1>7
  <2>4. \A n \in {m} : InQueue(n.to, q) /\ ~InQueue(n.to, r)
    BY <1>5, <1>7
  <2>5. \A n \in {m} : /\ n.kind = "go" /\ n.item = NoItem /\ n.item \notin Senders
                       /\ InQueue(n.to, q)
    BY <1>5, <1>7, <1>9
  <2>6. Shrinks(cl, g, q, cl, g, r)
    BY <1>5, <2>1, <2>2 DEF Shrinks
  <2>7. Tells(b, g, q, p, v, f, cl, g, r, {m})
    BY <2>3, <2>4, <2>5 DEF Tells
  <2> QED BY <2>6, <2>7, Pops
<1> QED BY <1>2, <1>3, <1>5, <1>6, <1>7, <1>8, <1>10

\* All putters are told of the room.
LEMMA WakesPutters ==
    ASSUME NEW b, NEW cl, NEW g, NEW q, NEW p, NEW v, NEW f, Sound(b, cl, g, q, p, v, f)
    PROVE  Sound(b, cl, g, <<>>, p, v, f \cup {Raw!Wake(w, "go") : w \in Elems(q)})
<1>1. PICK N : N = {Raw!Wake(w, "go") : w \in Elems(q)}
  OBVIOUS
<1>2. Elems(q) \subseteq Tasks
  <2>1. q \in Seq(Tasks)
    BY DEF Sound, Registered
  <2> QED BY <2>1, LenProperties, ElementOfSeq DEF Elems
<1>3. \A n \in N : n \in Raw!Wakes /\ n.kind = "go" /\ n.item = NoItem /\ InQueue(n.to, q)
  <2> TAKE n \in N
  <2>1. PICK w \in Elems(q) : n = Raw!Wake(w, "go")
    BY <1>1
  <2>2. InQueue(w, q) /\ w \in Tasks
    BY <1>2, <2>1, RawOperators
  <2>3. n.to = w
    BY <2>1 DEF Raw!Wake
  <2>4. n \in Raw!Wakes /\ n.kind = "go" /\ n.item = NoItem
    BY <2>1, <2>2 DEF Raw!Wake, Raw!Wakes, Raw!WakeKinds
  <2> QED BY <2>2, <2>3, <2>4
<1>4. \A m, n \in N : m.to = n.to => m = n
  BY <1>1 DEF Raw!Wake
<1>5. NoItem \notin Senders
  BY ChannelAssumption DEF Tasks
<1>6. g \in Seq(Tasks) /\ NoRepeat(g) /\ cl \in BOOLEAN /\ (cl => g = <<>>)
  BY DEF Sound, Registered
<1>7. <<>> \in Seq(Tasks) /\ NoRepeat(<<>>) /\ \A x : ~InQueue(x, <<>>)
  BY Nobody DEF Registered
<1>8. N \subseteq Raw!Wakes
  BY <1>3
<1>9. \A n \in N : n.item \notin Senders
  BY <1>3, <1>5
<1>10. Sound(b, cl, g, <<>>, p, v, f \cup N)
  <2>1. Shrinks(cl, g, q, cl, g, <<>>)
    BY <1>6, <1>7 DEF Shrinks
  <2>2. Tells(b, g, q, p, v, f, cl, g, <<>>, N)
    BY <1>3, <1>4, <1>7, <1>8, <1>9 DEF Tells
  <2> QED BY <2>1, <2>2, Pops
<1> QED BY <1>1, <1>10

\* An item that was nowhere goes to the first getter.
LEMMA HandsOff ==
    ASSUME NEW b, NEW cl, NEW g, NEW q, NEW p, NEW v, NEW f, Sound(b, cl, g, q, p, v, f),
           g # <<>>, NEW i \in Senders, p[i] = "done", Nowhere(i, b, v, f)
    PROVE  Sound(b, cl, Tail(g), q, p, v, f \cup {Raw!Handoff(Head(g), i)})
<1>1. g \in Seq(Tasks) /\ NoRepeat(g) /\ Len(g) \in Nat
  BY LenProperties DEF Sound, Registered
<1>2. PICK h : h = Head(g)
  OBVIOUS
<1>3. PICK r : r = Tail(g)
  OBVIOUS
<1>4. h = g[1]
  BY <1>1, <1>2
<1>5. /\ r \in Seq(Tasks) /\ NoRepeat(r) /\ h \in Tasks /\ InQueue(h, g)
      /\ \A x : InQueue(x, r) <=> InQueue(x, g) /\ x # h
  BY <1>1, <1>3, <1>4, TailQueue
<1>6. PICK m : m = Raw!Handoff(h, i)
  OBVIOUS
<1>7. m \in Raw!Wakes /\ m.to = h /\ m.kind = "item" /\ m.item = i
  BY <1>5, <1>6 DEF Raw!Handoff, Raw!Wakes, Raw!WakeKinds
<1>8. Sound(b, cl, r, q, p, v, f \cup {m})
  <2>1. q \in Seq(Tasks) /\ NoRepeat(q) /\ cl \in BOOLEAN /\ ~cl
    BY DEF Sound, Registered
  <2>2. {m} \subseteq Raw!Wakes
    BY <1>7
  <2>3. \A n \in {m} : InQueue(n.to, g) /\ ~InQueue(n.to, r)
    BY <1>5, <1>7
  <2>4. \A n \in {m} : /\ n.kind = "item" /\ n.item \in Senders /\ InQueue(n.to, g)
                       /\ p[n.item] = "done" /\ Nowhere(n.item, b, v, f)
    BY <1>5, <1>7
  <2>5. Shrinks(cl, g, q, cl, r, q)
    BY <1>5, <2>1 DEF Shrinks
  <2>6. Tells(b, g, q, p, v, f, cl, r, q, {m})
    BY <2>2, <2>3, <2>4 DEF Tells
  <2> QED BY <2>5, <2>6, Pops
<1> QED BY <1>2, <1>3, <1>6, <1>8

\* A waiter withdraws from the queues, wherever it stands.
LEMMA Leaves ==
    ASSUME NEW b, NEW cl, NEW g, NEW q, NEW p, NEW v, NEW f, Sound(b, cl, g, q, p, v, f),
           NEW t \in Tasks
    PROVE  /\ Sound(b, cl, Discard(g, t), q, p, v, f)
           /\ Sound(b, cl, g, Discard(q, t), p, v, f)
           /\ Discard(g, t) # <<>> => g # <<>>
           /\ \A x : InQueue(x, Discard(g, t)) <=> InQueue(x, g) /\ x # t
           /\ \A x : InQueue(x, Discard(q, t)) <=> InQueue(x, q) /\ x # t
<1>1. ASSUME NEW s \in Seq(Tasks), NoRepeat(s)
      PROVE  /\ Discard(s, t) \in Seq(Tasks) /\ NoRepeat(Discard(s, t))
             /\ \A x : InQueue(x, Discard(s, t)) <=> InQueue(x, s) /\ x # t
             /\ Discard(s, t) # <<>> => s # <<>>
  <2>1. CASE InQueue(t, s)
    <3>1. s # <<>>
      BY <2>1, Nobody
    <3> QED BY <1>1, <2>1, <3>1, DiscardQueue
  <2>2. CASE ~InQueue(t, s)
    <3>1. Discard(s, t) = s
      BY <2>2 DEF Discard
    <3> QED BY <1>1, <2>2, <3>1
  <2> QED BY <2>1, <2>2
<1>2. g \in Seq(Tasks) /\ NoRepeat(g) /\ q \in Seq(Tasks) /\ NoRepeat(q) /\ cl \in BOOLEAN
  BY DEF Sound, Registered
<1>3. Discard(g, t) \in Seq(Tasks) /\ NoRepeat(Discard(g, t))
      /\ (\A x : InQueue(x, Discard(g, t)) <=> InQueue(x, g) /\ x # t)
      /\ (Discard(g, t) # <<>> => g # <<>>)
  BY <1>1, <1>2
<1>4. Discard(q, t) \in Seq(Tasks) /\ NoRepeat(Discard(q, t))
      /\ (\A x : InQueue(x, Discard(q, t)) <=> InQueue(x, q) /\ x # t)
      /\ (Discard(q, t) # <<>> => q # <<>>)
  BY <1>1, <1>2
<1>5. cl => g = <<>> /\ q = <<>>
  BY DEF Sound
<1>6. {} \subseteq Raw!Wakes /\ f \cup {} = f
  OBVIOUS
<1>7. Sound(b, cl, Discard(g, t), q, p, v, f \cup {})
  <2>1. Shrinks(cl, g, q, cl, Discard(g, t), q)
    BY <1>2, <1>3, <1>5 DEF Shrinks
  <2>2. Tells(b, g, q, p, v, f, cl, Discard(g, t), q, {})
    BY <1>6 DEF Tells
  <2> QED BY <2>1, <2>2, Pops
<1>8. Sound(b, cl, g, Discard(q, t), p, v, f \cup {})
  <2>1. Shrinks(cl, g, q, cl, g, Discard(q, t))
    BY <1>2, <1>4, <1>5 DEF Shrinks
  <2>2. Tells(b, g, q, p, v, f, cl, g, Discard(q, t), {})
    BY <1>6 DEF Tells
  <2> QED BY <2>1, <2>2, Pops
<1> QED BY <1>3, <1>4, <1>6, <1>7, <1>8

\* The channel closes and tells all waiters.
LEMMA Closes ==
    ASSUME NEW b, NEW cl, NEW g, NEW q, NEW p, NEW v, NEW f, Sound(b, cl, g, q, p, v, f)
    PROVE  Sound(b, TRUE, <<>>, <<>>, p, v,
                 f \cup {Raw!Wake(w, "closed") : w \in Elems(g) \cup Elems(q)})
<1>1. PICK N : N = {Raw!Wake(w, "closed") : w \in Elems(g) \cup Elems(q)}
  OBVIOUS
<1>2. Elems(g) \cup Elems(q) \subseteq Tasks
  <2>1. g \in Seq(Tasks) /\ q \in Seq(Tasks)
    BY DEF Sound, Registered
  <2> QED BY <2>1, LenProperties, ElementOfSeq DEF Elems
<1>3. \A n \in N : /\ n \in Raw!Wakes /\ n.kind = "closed" /\ n.item = NoItem
                   /\ InQueue(n.to, g) \/ InQueue(n.to, q)
  <2> TAKE n \in N
  <2>1. PICK w \in Elems(g) \cup Elems(q) : n = Raw!Wake(w, "closed")
    BY <1>1
  <2>2. (InQueue(w, g) \/ InQueue(w, q)) /\ w \in Tasks
    BY <1>2, <2>1, RawOperators
  <2>3. n.to = w
    BY <2>1 DEF Raw!Wake
  <2>4. n \in Raw!Wakes /\ n.kind = "closed" /\ n.item = NoItem
    BY <2>1, <2>2 DEF Raw!Wake, Raw!Wakes, Raw!WakeKinds
  <2> QED BY <2>2, <2>3, <2>4
<1>4. \A m, n \in N : m.to = n.to => m = n
  BY <1>1 DEF Raw!Wake
<1>5. NoItem \notin Senders
  BY ChannelAssumption DEF Tasks
<1>6. <<>> \in Seq(Tasks) /\ NoRepeat(<<>>) /\ \A x : ~InQueue(x, <<>>)
  BY Nobody DEF Registered
<1>7. N \subseteq Raw!Wakes
  BY <1>3
<1>8. \A n \in N : n.item \notin Senders
  BY <1>3, <1>5
<1>9. Sound(b, TRUE, <<>>, <<>>, p, v, f \cup N)
  <2>1. Shrinks(cl, g, q, TRUE, <<>>, <<>>)
    BY <1>6 DEF Shrinks
  <2>2. Tells(b, g, q, p, v, f, TRUE, <<>>, <<>>, N)
    BY <1>3, <1>4, <1>6, <1>7, <1>8 DEF Tells
  <2> QED BY <2>1, <2>2, Pops
<1> QED BY <1>1, <1>9

-----------------------------------------------------------------------------
(* Announced slots *)

\* The woken senders are finitely many.
LEMMA WokenFinite ==
    ASSUME NEW q, NEW p, NEW f
    PROVE  IsFiniteSet(Woken(q, p, f)) /\ Cardinality(Woken(q, p, f)) \in Nat
<1>1. Woken(q, p, f) \in SUBSET Tasks
  BY DEF Woken, Tasks
<1> QED BY <1>1, ChannelAssumption, FS_Subset, FS_CardinalityType

\* How the lengths of buffers compare, with each other and with the capacity.
AsLong(b2, b) == Len(b2) >= Len(b)
OneLonger(b2, b) == Len(b2) = Len(b) + 1
OneShorter(b2, b) == Len(b2) = Len(b) - 1
IsFull(b) == Len(b) >= Maxsize

\* Every woken sender, but for those of X, stays woken.
Remembers(q, p, f, q2, p2, f2, X) == Woken(q, p, f) \ X \subseteq Woken(q2, p2, f2)

\* No item leaves the buffer and no woken sender is forgotten.
LEMMA SlotsKept ==
    ASSUME NEW b \in Seq(Senders), NEW q, NEW p, NEW f, SlotsAnnounced(b, q, p, f),
           NEW b2 \in Seq(Senders), NEW q2, NEW p2, NEW f2, q2 # <<>> => q # <<>>,
           AsLong(b2, b), Remembers(q, p, f, q2, p2, f2, {})
    PROVE  SlotsAnnounced(b2, q2, p2, f2)
<1>1. Cardinality(Woken(q, p, f)) <= Cardinality(Woken(q2, p2, f2))
  <2>1. Woken(q, p, f) \in SUBSET Woken(q2, p2, f2)
    BY DEF Remembers
  <2> QED BY <2>1, WokenFinite, FS_Subset
<1>2. Len(b) \in Nat /\ Len(b2) \in Nat
  BY LenProperties
<1>3. Cardinality(Woken(q, p, f)) \in Nat /\ Cardinality(Woken(q2, p2, f2)) \in Nat
  BY WokenFinite
<1> QED BY <1>1, <1>2, <1>3, ChannelAssumption DEF SlotsAnnounced, AsLong

\* A sender, woken or not, puts its item into the buffer.
LEMMA SlotFilled ==
    ASSUME NEW b \in Seq(Senders), NEW q, NEW p, NEW f, SlotsAnnounced(b, q, p, f),
           NEW b2 \in Seq(Senders), NEW q2, NEW p2, NEW f2, q2 # <<>> => q # <<>>,
           OneLonger(b2, b), NEW s, Remembers(q, p, f, q2, p2, f2, {s})
    PROVE  SlotsAnnounced(b2, q2, p2, f2)
<1>1. PICK A : A = Woken(q, p, f)
  OBVIOUS
<1>2. PICK B : B = Woken(q2, p2, f2)
  OBVIOUS
<1>3. /\ IsFiniteSet(A) /\ IsFiniteSet(B) /\ A \ {s} \subseteq B
      /\ Cardinality(A) \in Nat /\ Cardinality(B) \in Nat
  BY <1>1, <1>2, WokenFinite DEF Remembers
<1>4. PICK D : D = A \ {s}
  OBVIOUS
<1>5. Cardinality(D) <= Cardinality(B)
  BY <1>3, <1>4, FS_Subset
<1>6. Cardinality(D) \in Nat /\ Cardinality(D) + 1 >= Cardinality(A)
  <2>1. CASE s \in A
    <3>1. Cardinality(D) = Cardinality(A) - 1 /\ Cardinality(D) \in Nat
      BY <1>3, <1>4, <2>1, CountRemove
    <3> QED BY <1>3, <3>1
  <2>2. CASE s \notin A
    <3>1. D = A
      BY <1>4, <2>2
    <3> QED BY <1>3, <3>1
  <2> QED BY <2>1, <2>2
<1>7. Cardinality(B) + 1 >= Cardinality(A)
  BY <1>3, <1>5, <1>6
<1>8. Len(b) \in Nat
  BY LenProperties
<1> QED BY <1>1, <1>2, <1>3, <1>7, <1>8, ChannelAssumption DEF SlotsAnnounced, OneLonger

\* A slot becomes free and h is told of it.
LEMMA SlotFreed ==
    ASSUME NEW b \in Seq(Senders), NEW q, NEW p, NEW f, SlotsAnnounced(b, q, p, f),
           NEW b2 \in Seq(Senders), NEW q2, NEW p2, NEW f2, q2 # <<>> => q # <<>>,
           OneShorter(b2, b), NEW h, h \notin Woken(q, p, f),
           h \in Woken(q2, p2, f2), Remembers(q, p, f, q2, p2, f2, {})
    PROVE  SlotsAnnounced(b2, q2, p2, f2)
<1>1. PICK A : A = Woken(q, p, f)
  OBVIOUS
<1>2. PICK B : B = Woken(q2, p2, f2)
  OBVIOUS
<1>3. /\ IsFiniteSet(A) /\ IsFiniteSet(B) /\ A \cup {h} \subseteq B /\ h \notin A
      /\ Cardinality(A) \in Nat /\ Cardinality(B) \in Nat
  BY <1>1, <1>2, WokenFinite DEF Remembers
<1>4. Cardinality(A \cup {h}) = Cardinality(A) + 1 /\ IsFiniteSet(A \cup {h})
  BY <1>3, CountAdd
<1>5. Cardinality(A \cup {h}) <= Cardinality(B)
  BY <1>3, FS_Subset
<1>6. Len(b) \in Nat
  BY LenProperties
<1> QED BY <1>1, <1>2, <1>3, <1>4, <1>5, <1>6, ChannelAssumption DEF SlotsAnnounced, OneShorter

\* A woken sender that gives up passes its slot on to h.
LEMMA SlotPassed ==
    ASSUME NEW b \in Seq(Senders), NEW q, NEW p, NEW f, SlotsAnnounced(b, q, p, f),
           NEW q2, NEW p2, NEW f2, q2 # <<>> => q # <<>>,
           NEW s, NEW h, s \in Woken(q, p, f), h \notin Woken(q, p, f),
           h \in Woken(q2, p2, f2), Remembers(q, p, f, q2, p2, f2, {s})
    PROVE  SlotsAnnounced(b, q2, p2, f2)
<1>1. PICK A : A = Woken(q, p, f)
  OBVIOUS
<1>2. PICK B : B = Woken(q2, p2, f2)
  OBVIOUS
<1>3. /\ IsFiniteSet(A) /\ IsFiniteSet(B) /\ (A \ {s}) \cup {h} \subseteq B
      /\ s \in A /\ h \notin A /\ Cardinality(A) \in Nat /\ Cardinality(B) \in Nat
  BY <1>1, <1>2, WokenFinite DEF Remembers
<1>4. Cardinality((A \ {s}) \cup {h}) = Cardinality(A)
  BY <1>3, CountSwap
<1>5. Cardinality((A \ {s}) \cup {h}) <= Cardinality(B)
  BY <1>3, FS_Subset
<1>6. Len(b) \in Nat
  BY LenProperties
<1> QED BY <1>1, <1>2, <1>3, <1>4, <1>5, <1>6, ChannelAssumption DEF SlotsAnnounced

-----------------------------------------------------------------------------
(* The methods of RawChannel *)

\* What try_send does: refuse, hand over and wake nobody or all putters, buffer,
\* or report that there is no room.
Refuses(c, r) == c.is_closed /\ r.ret = "closed" /\ r.st = c /\ r.wakes = {}
Hands(c, i, r) ==
    /\ ~c.is_closed /\ c.getters # <<>> /\ r.ret = "ok"
    /\ r.st = [c EXCEPT !.getters = Tail(@)]
    /\ c.putters = <<>> \/ Maxsize = 0 \/ Len(c.buffer) >= Maxsize
    /\ r.wakes = {Raw!Handoff(Head(c.getters), i)}
HandsAndWakes(c, i, r) ==
    /\ ~c.is_closed /\ c.getters # <<>> /\ r.ret = "ok"
    /\ r.st = [c EXCEPT !.getters = Tail(@), !.putters = <<>>]
    /\ r.wakes = {Raw!Handoff(Head(c.getters), i)}
                 \cup {Raw!Wake(w, "go") : w \in Elems(c.putters)}
Keeps(c, i, r) ==
    /\ ~c.is_closed /\ c.getters = <<>> /\ r.ret = "ok"
    /\ Maxsize = 0 \/ Len(c.buffer) < Maxsize
    /\ r.st = [c EXCEPT !.buffer = Append(@, i)] /\ r.wakes = {}
Overflows(c, r) ==
    /\ ~c.is_closed /\ c.getters = <<>> /\ r.ret = "full"
    /\ Maxsize > 0 /\ Len(c.buffer) >= Maxsize /\ r.st = c /\ r.wakes = {}

\* What one send does to a channel without watchers: hand over, buffer, queue or refuse.
LEMMA SendCases ==
    ASSUME NEW c \in Raw!ChannelState, c.watchers = <<>>, NEW i \in Senders,
           NEW r, r = Raw!try_send(c, i)
    PROVE  \/ Refuses(c, r) \/ Hands(c, i, r) \/ HandsAndWakes(c, i, r)
           \/ Keeps(c, i, r) \/ Overflows(c, r)
<1> USE DEF Refuses, Hands, HandsAndWakes, Keeps, Overflows
<1>1. Len(c.buffer) \in Nat /\ c.is_closed \in BOOLEAN
  BY LenProperties DEF Raw!ChannelState
<1>2. CASE c.is_closed
  BY <1>2 DEF Raw!try_send, Raw!Reply
<1>3. CASE ~c.is_closed /\ c.getters = <<>>
  BY <1>1, <1>3, ChannelAssumption DEF Raw!try_send, Raw!Reply, Raw!HasSpace
<1>4. CASE ~c.is_closed /\ c.getters # <<>>
  <2>1. CASE Maxsize > 0 /\ Len(c.buffer) < Maxsize /\ c.putters # <<>>
    BY <1>4, <2>1, RawOperators DEF Raw!try_send, Raw!Reply
  <2>2. CASE ~(Maxsize > 0 /\ Len(c.buffer) < Maxsize /\ c.putters # <<>>)
    <3>1. Raw!Elems(<<>>) = {}
      BY EmptySeq DEF Raw!Elems
    <3>2. c.putters = <<>> \/ Maxsize = 0 \/ Len(c.buffer) >= Maxsize
      BY <1>1, <2>2, ChannelAssumption
    <3>3. /\ r.st = [c EXCEPT !.getters = Tail(@)] /\ r.ret = "ok"
          /\ r.wakes = {Raw!Handoff(Head(c.getters), i)}
      BY <1>4, <2>2, <3>1 DEF Raw!try_send, Raw!Reply
    <3> QED BY <1>4, <3>2, <3>3
  <2> QED BY <2>1, <2>2
<1> QED BY <1>1, <1>2, <1>3, <1>4

\* Taking the oldest item wakes the first putter of a bounded channel.
LEMMA TakeCases ==
    ASSUME NEW c \in Raw!ChannelState, c.buffer # <<>>, NEW r, r = Raw!TakeItem(c)
    PROVE  /\ r.ret = "item" /\ r.item = Head(c.buffer)
           /\ \/ /\ Maxsize > 0 /\ c.putters # <<>>
                 /\ r.st = [c EXCEPT !.buffer = Tail(@), !.putters = Tail(@)]
                 /\ r.wakes = {Raw!Wake(Head(c.putters), "go")}
              \/ /\ Maxsize = 0 \/ c.putters = <<>>
                 /\ r.st = [c EXCEPT !.buffer = Tail(@)] /\ r.wakes = {}
<1>1. Maxsize > 0 \/ Maxsize = 0
  BY ChannelAssumption
<1>2. CASE Maxsize > 0 /\ c.putters # <<>>
  BY <1>2 DEF Raw!TakeItem, Raw!Taken, Raw!PopBuffer, Raw!ChannelState
<1>3. CASE ~(Maxsize > 0 /\ c.putters # <<>>)
  BY <1>1, <1>3 DEF Raw!TakeItem, Raw!Taken, Raw!PopBuffer, Raw!ChannelState
<1> QED BY <1>2, <1>3

\* A full buffer has no slot to announce.
LEMMA SlotsFull ==
    ASSUME NEW b \in Seq(Senders), NEW q, NEW p, NEW f, q = <<>> \/ IsFull(b)
    PROVE  SlotsAnnounced(b, q, p, f)
<1>1. Len(b) \in Nat /\ Cardinality(Woken(q, p, f)) \in Nat
  BY LenProperties, WokenFinite
<1> QED BY <1>1, ChannelAssumption DEF SlotsAnnounced, IsFull

\* The fields of a channel.
LEMMA FieldTypes ==
    ASSUME NEW c \in Raw!ChannelState
    PROVE  /\ c.buffer \in Seq(Senders) /\ c.is_closed \in BOOLEAN /\ c.getters \in Seq(Tasks)
           /\ c.putters \in Seq(Tasks) /\ c.watchers \in Seq(Tasks)
BY DEF Raw!ChannelState

\* try_send of an item that is nowhere, by a task that need not care any more.
Sendable(c, i, p, v, f) ==
    /\ c \in Raw!ChannelState /\ c.watchers = <<>>
    /\ Sound(c.buffer, c.is_closed, c.getters, c.putters, p, v, f)
    /\ i \in Senders /\ p[i] = "done" /\ Nowhere(i, c.buffer, v, f)
Sent(c, r, p, v, f) ==
    /\ r.st \in Raw!ChannelState /\ r.st.watchers = <<>>
    /\ Sound(r.st.buffer, r.st.is_closed, r.st.getters, r.st.putters, p, v, f \cup r.wakes)
    /\ r.st.putters = <<>> \/ r.st.putters = c.putters
    /\ r.st.putters = <<>> \/ IsFull(r.st.buffer) \/ OneLonger(r.st.buffer, c.buffer)

\* A send keeps the channel sound, whichever of the cases it is.
LEMMA SendSound ==
    ASSUME NEW c, NEW i, NEW p, NEW v, NEW f, Sendable(c, i, p, v, f),
           NEW r, r = Raw!try_send(c, i)
    PROVE  Sent(c, r, p, v, f)
<1> SUFFICES ASSUME c \in Raw!ChannelState, c.watchers = <<>>,
                    Sound(c.buffer, c.is_closed, c.getters, c.putters, p, v, f),
                    i \in Senders, p[i] = "done", Nowhere(i, c.buffer, v, f)
             PROVE  /\ r.st \in Raw!ChannelState /\ r.st.watchers = <<>>
                    /\ Sound(r.st.buffer, r.st.is_closed, r.st.getters, r.st.putters, p, v,
                             f \cup r.wakes)
                    /\ r.st.putters = <<>> \/ r.st.putters = c.putters
                    /\ r.st.putters = <<>> \/ IsFull(r.st.buffer) \/ OneLonger(r.st.buffer, c.buffer)
  BY DEF Sendable, Sent
<1>0. /\ c.buffer \in Seq(Senders) /\ c.getters \in Seq(Tasks) /\ c.putters \in Seq(Tasks)
      /\ Len(c.buffer) \in Nat /\ <<>> \in Seq(Tasks) /\ c.is_closed \in BOOLEAN
  BY FieldTypes, LenProperties, EmptySeq
<1>cases. Refuses(c, r) \/ Hands(c, i, r) \/ HandsAndWakes(c, i, r) \/ Keeps(c, i, r) \/ Overflows(c, r)
  BY SendCases
<1> USE DEF Refuses, Hands, HandsAndWakes, Keeps, Overflows, IsFull, OneLonger
<1>1. CASE Refuses(c, r)
  <2>1. f \cup r.wakes = f /\ c.putters = <<>>
    BY <1>1 DEF Sound
  <2> QED BY <1>1, <2>1
<1>2. CASE Overflows(c, r)
  <2>1. f \cup r.wakes = f
    BY <1>2
  <2> QED BY <1>2, <2>1
<1>3. CASE Keeps(c, i, r)
  <2>1. PICK d : d = Append(c.buffer, i)
    OBVIOUS
  <2>2. Sound(d, c.is_closed, c.getters, c.putters, p, v, f) /\ Len(d) = Len(c.buffer) + 1
    BY <1>3, <2>1, Buffers
  <2>3. d \in Seq(Senders)
    BY <2>2 DEF Sound, ItemsSound
  <2>4. /\ r.st \in Raw!ChannelState /\ r.st.buffer = d /\ r.st.is_closed = c.is_closed
        /\ r.st.getters = c.getters /\ r.st.putters = c.putters /\ r.st.watchers = c.watchers
    BY <1>3, <2>1, <2>3 DEF Raw!ChannelState
  <2>5. f \cup r.wakes = f
    BY <1>3
  <2> QED BY <2>2, <2>4, <2>5
<1>4. CASE Hands(c, i, r)
  <2>1. Tail(c.getters) \in Seq(Tasks)
    BY <1>0, <1>4, HeadTailProperties
  <2>2. /\ r.st \in Raw!ChannelState /\ r.st.buffer = c.buffer /\ r.st.is_closed = c.is_closed
        /\ r.st.getters = Tail(c.getters) /\ r.st.putters = c.putters
        /\ r.st.watchers = c.watchers
    BY <1>4, <2>1 DEF Raw!ChannelState
  <2>3. Sound(c.buffer, c.is_closed, Tail(c.getters), c.putters, p, v, f \cup r.wakes)
    BY <1>4, HandsOff
  <2>4. c.putters = <<>> \/ Len(c.buffer) >= Maxsize
    BY <1>0, <1>4
  <2> QED BY <2>2, <2>3, <2>4
<1>5. CASE HandsAndWakes(c, i, r)
  <2>1. Tail(c.getters) \in Seq(Tasks)
    BY <1>0, <1>5, HeadTailProperties
  <2>2. /\ r.st \in Raw!ChannelState /\ r.st.buffer = c.buffer /\ r.st.is_closed = c.is_closed
        /\ r.st.getters = Tail(c.getters) /\ r.st.putters = <<>>
        /\ r.st.watchers = c.watchers
    BY <1>0, <1>5, <2>1 DEF Raw!ChannelState
  <2>3. PICK h : h = {Raw!Handoff(Head(c.getters), i)}
    OBVIOUS
  <2>4. Sound(c.buffer, c.is_closed, Tail(c.getters), c.putters, p, v, f \cup h)
    BY <1>5, <2>3, HandsOff
  <2>5. Sound(c.buffer, c.is_closed, Tail(c.getters), <<>>, p, v,
              (f \cup h) \cup {Raw!Wake(w, "go") : w \in Elems(c.putters)})
    BY <2>4, WakesPutters
  <2>6. (f \cup h) \cup {Raw!Wake(w, "go") : w \in Elems(c.putters)} = f \cup r.wakes
    BY <1>5, <2>3
  <2> QED BY <2>2, <2>5, <2>6
<1> QED BY <1>1, <1>2, <1>3, <1>4, <1>5, <1>cases

-----------------------------------------------------------------------------
(* The steps of Channel *)

\* A new channel.
LEMMA InitInv == Init => Inv
<1> SUFFICES ASSUME Init PROVE Inv
  OBVIOUS
<1>1. <<>> \in Seq(Senders) /\ <<>> \in Seq(Tasks)
  BY EmptySeq
<1>2. /\ ch \in Raw!ChannelState /\ ch.watchers = <<>> /\ ch.buffer = <<>>
      /\ ch.getters = <<>> /\ ch.putters = <<>> /\ ch.is_closed = FALSE
  BY <1>1 DEF Init, Raw!NewChannel, Raw!ChannelState
<1>3. TasksSound(FALSE, pc, val)
  BY DEF Init, TasksSound, PCs, Running, Tasks
<1>4. WakesSound(FALSE, pc, inflight)
  BY DEF Init, WakesSound
<1>5. ItemsSound(<<>>, pc, val, inflight)
  <2>1. \A t \in Tasks : val[t] \notin Senders
    BY ChannelAssumption DEF Init, Tasks
  <2> QED BY <1>1, <2>1, Nobody DEF Init, ItemsSound
<1>6. Maxsize > 0 => Len(<<>>) <= Maxsize
  BY EmptySeq, ChannelAssumption
<1>7. Sound(<<>>, FALSE, <<>>, <<>>, pc, val, inflight)
  BY <1>3, <1>4, <1>5, <1>6, Nobody DEF Sound
<1>8. SlotsAnnounced(<<>>, <<>>, pc, inflight)
  BY DEF SlotsAnnounced
<1> QED BY <1>1, <1>2, <1>7, <1>8 DEF Inv, Init

\* Nobody wakes a task that runs or has returned.
LEMMA Unreached ==
    ASSUME NEW b, NEW cl, NEW g, NEW q, NEW p, NEW v, NEW f, Sound(b, cl, g, q, p, v, f),
           NEW t \in Tasks, p[t] \notin {"await", "unwind", "cancelled"}
    PROVE  ~InQueue(t, g) /\ ~InQueue(t, q) /\ \A m \in f : m.to # t
BY DEF Sound, Registered, WakesSound

\* An attempt to send.
LEMMA AttemptInv ==
    ASSUME Inv, NEW s \in Senders, pc[s] \in {"start", "retry", "woken"},
           NEW onFull \in {"register", "full", "await"}, AttemptSend(s, onFull)
    PROVE  Inv'
<1> DEFINE S == Sound(ch.buffer, ch.is_closed, ch.getters, ch.putters, pc, val, inflight)
<1>1. /\ ch \in Raw!ChannelState /\ ch.watchers = <<>> /\ S
      /\ SlotsAnnounced(ch.buffer, ch.putters, pc, inflight)
      /\ accepted \in Seq(Senders) /\ taken \in Seq(Senders)
  BY DEF Inv
<1>2. PICK r : r = Raw!try_send(ch, s)
  OBVIOUS
<1>3. /\ ch' = r.st /\ inflight' = inflight \cup r.wakes /\ val' = val
      /\ accepted' = IF r.ret = "ok" THEN Append(accepted, s) ELSE accepted
      /\ taken' = IF \E m \in r.wakes : m.kind = "item" THEN Append(taken, s) ELSE taken
      /\ pc' = [pc EXCEPT ![s] = CASE r.ret = "ok" -> "done"
                                   [] r.ret = "closed" -> "closed"
                                   [] r.ret = "full" -> onFull]
  BY <1>2 DEF AttemptSend, Apply, Record, Goto
<1>4. accepted' \in Seq(Senders) /\ taken' \in Seq(Senders)
  BY <1>1, <1>3, AppendProperties
<1>5. /\ s \in Tasks /\ ~InQueue(s, ch.getters) /\ ~InQueue(s, ch.putters)
      /\ \A m \in inflight : m.to # s
      /\ val[s] = NoItem /\ pc \in [Tasks -> PCs] /\ pc[s] # "done"
  <2>1. s \in Tasks /\ pc[s] \notin {"await", "unwind", "cancelled"} /\ pc[s] # "done"
    BY DEF Tasks
  <2>2. val[s] = NoItem /\ pc \in [Tasks -> PCs]
    BY <1>1 DEF Sound, TasksSound
  <2> QED BY <1>1, <2>1, <2>2, Unreached
<1>6. PICK w : pc' = [pc EXCEPT ![s] = w] /\ w \in {"done", "closed", onFull}
               /\ (r.ret = "ok" => w = "done") /\ (w = "done" => r.ret \notin {"closed", "full"})
  <2>1. \/ Refuses(ch, r) \/ Hands(ch, s, r) \/ HandsAndWakes(ch, s, r)
        \/ Keeps(ch, s, r) \/ Overflows(ch, r)
    BY <1>1, <1>2, SendCases
  <2>2. r.ret \in {"ok", "closed", "full"}
    BY <2>1 DEF Refuses, Hands, HandsAndWakes, Keeps, Overflows
  <2> QED BY <1>3, <2>2
<1>7. w \in PCs
  BY <1>6 DEF PCs, Running, Suspended, Returned
<1>8. Sound(ch.buffer, ch.is_closed, ch.getters, ch.putters, pc', val, inflight)
  BY <1>1, <1>5, <1>6, <1>7, Moves
<1>9. CASE r.ret = "ok"
  <2>1. pc'[s] = "done"
    BY <1>5, <1>6, <1>9
  <2>2. Nowhere(s, ch.buffer, val, inflight)
    BY <1>1, <1>5 DEF Sound, ItemsSound, Nowhere
  <2>3. /\ r.st \in Raw!ChannelState /\ r.st.watchers = <<>>
        /\ Sound(r.st.buffer, r.st.is_closed, r.st.getters, r.st.putters, pc', val,
                 inflight \cup r.wakes)
        /\ r.st.putters = <<>> \/ r.st.putters = ch.putters
        /\ r.st.putters = <<>> \/ IsFull(r.st.buffer) \/ OneLonger(r.st.buffer, ch.buffer)
    <3>1. PICK P : P = pc'
      OBVIOUS
    <3>2. Sendable(ch, s, P, val, inflight)
      BY <1>1, <1>8, <2>1, <2>2, <3>1 DEF Sendable
    <3>3. Sent(ch, r, P, val, inflight)
      BY <1>2, <3>2, SendSound
    <3> QED BY <3>1, <3>3 DEF Sent
  <2>4. r.st.buffer \in Seq(Senders) /\ ch.buffer \in Seq(Senders)
    BY <1>1, <2>3, FieldTypes
  <2>5. SlotsAnnounced(r.st.buffer, r.st.putters, pc', inflight \cup r.wakes)
    <3>1. CASE r.st.putters = <<>> \/ IsFull(r.st.buffer)
      BY <2>4, <3>1, SlotsFull
    <3>2. CASE r.st.putters = ch.putters /\ OneLonger(r.st.buffer, ch.buffer)
      <4>1. Remembers(ch.putters, pc, inflight, r.st.putters, pc', inflight \cup r.wakes, {s})
        BY <1>5, <1>6, <3>2 DEF Remembers, Woken, Tasks
      <4>2. r.st.putters # <<>> => ch.putters # <<>>
        BY <3>2
      <4>3. SlotsAnnounced(ch.buffer, ch.putters, pc, inflight)
        BY <1>1
      <4> QED BY <2>4, <3>2, <4>1, <4>2, <4>3, SlotFilled
    <3> QED BY <2>3, <3>1, <3>2
  <2> QED BY <1>3, <1>4, <2>3, <2>5 DEF Inv
<1>10. CASE r.ret # "ok"
  <2>1. Refuses(ch, r) \/ Overflows(ch, r)
    BY <1>1, <1>2, <1>10, SendCases DEF Hands, HandsAndWakes, Keeps
  <2>2. r.st = ch /\ inflight' = inflight
    BY <1>3, <2>1 DEF Refuses, Overflows
  <2>3. ch.putters = <<>> \/ IsFull(ch.buffer)
    BY <1>1, <2>1 DEF Refuses, Overflows, Sound, IsFull
  <2>4. SlotsAnnounced(ch.buffer, ch.putters, pc', inflight)
    BY <1>1, <2>3, SlotsFull, FieldTypes
  <2> QED BY <1>1, <1>3, <1>4, <1>8, <2>2, <2>4 DEF Inv
<1> QED BY <1>9, <1>10

\* A step that moves a task and leaves the channel alone.
LEMMA MoveInv ==
    ASSUME Inv, NEW t \in Tasks, NEW w \in PCs, pc' = [pc EXCEPT ![t] = w],
           UNCHANGED <<ch, val, inflight, accepted, taken>>,
           InQueue(t, ch.getters) \/ InQueue(t, ch.putters) => w \in {"await", "unwind"},
           \A m \in inflight : m.to = t => w \in {"await", "unwind", "cancelled"},
           w = "failed" => ch.is_closed,
           w \in {"start", "register", "await"} => val[t] = NoItem,
           pc[t] = "done" => w = "done",
           t \in Receivers \/ ch.putters = <<>> \/ w = "unwind" \/ t \notin Woken(ch.putters, pc, inflight)
    PROVE  Inv'
<1>1. /\ Sound(ch.buffer, ch.is_closed, ch.getters, ch.putters, pc, val, inflight)
      /\ SlotsAnnounced(ch.buffer, ch.putters, pc, inflight) /\ ch.buffer \in Seq(Senders)
      /\ ch.is_closed \in BOOLEAN
  BY FieldTypes DEF Inv
<1>2. Sound(ch.buffer, ch.is_closed, ch.getters, ch.putters, pc', val, inflight)
  BY <1>1, Moves
<1>3. SlotsAnnounced(ch.buffer, ch.putters, pc', inflight)
  <2>1. CASE ch.putters = <<>>
    BY <1>1, <2>1, SlotsFull
  <2>2. CASE ch.putters # <<>>
    <3>1. pc \in [Tasks -> PCs] /\ Senders \cap Receivers = {}
          /\ \A u \in Tasks : InQueue(u, ch.putters) => pc[u] \in {"await", "unwind"}
      BY <1>1, ChannelAssumption DEF Sound, TasksSound, Registered
    <3>2. pc[t] = "woken" => ~InQueue(t, ch.putters)
      BY <3>1
    <3>3. Remembers(ch.putters, pc, inflight, ch.putters, pc', inflight, {})
      BY <2>2, <3>1, <3>2 DEF Remembers, Woken, Tasks
    <3>4. AsLong(ch.buffer, ch.buffer)
      BY <1>1, LenProperties DEF AsLong
    <3> QED BY <1>1, <3>3, <3>4, SlotsKept
  <2> QED BY <2>1, <2>2
<1> QED BY <1>2, <1>3 DEF Inv

\* register_putter.
LEMMA SendRegisterInv == ASSUME Inv, NEW s \in Senders, SendRegister(s) PROVE Inv'
<1>1. /\ Sound(ch.buffer, ch.is_closed, ch.getters, ch.putters, pc, val, inflight)
      /\ SlotsAnnounced(ch.buffer, ch.putters, pc, inflight) /\ ch \in Raw!ChannelState
      /\ ch.buffer \in Seq(Senders) /\ ch.is_closed \in BOOLEAN /\ Len(ch.buffer) \in Nat
  BY FieldTypes, LenProperties DEF Inv
<1>2. /\ s \in Tasks /\ pc[s] = "register" /\ val[s] = NoItem /\ pc \in [Tasks -> PCs]
  BY <1>1 DEF SendRegister, Sound, TasksSound, Tasks
<1>3. /\ ~InQueue(s, ch.getters) /\ ~InQueue(s, ch.putters) /\ \A m \in inflight : m.to # s
  BY <1>1, <1>2, Unreached
<1>4. s \notin Woken(ch.putters, pc, inflight)
  BY <1>2 DEF Woken
<1>5. CASE ch.is_closed \/ (ch.putters = <<>> /\ Raw!HasSpace(ch))
  <2>1. PICK w \in {"retry", "closed"} : pc' = [pc EXCEPT ![s] = w]
    BY <1>1, <1>5 DEF SendRegister, Raw!register_putter, Raw!Reply, Goto
  <2>2. UNCHANGED <<ch, val, inflight, accepted, taken>>
    BY <1>1, <1>5 DEF SendRegister, Raw!register_putter, Raw!Reply, Apply
  <2>3. w \in PCs
    BY <2>1 DEF PCs, Running, Returned
  <2>4. ~(w \in {"start", "register", "await"}) /\ w # "failed" /\ pc[s] # "done"
    BY <1>2
  <2> QED BY <1>2, <1>3, <1>4, <2>1, <2>2, <2>3, <2>4, MoveInv
<1>6. CASE ~ch.is_closed /\ ~(ch.putters = <<>> /\ Raw!HasSpace(ch))
  <2>1. /\ pc' = [pc EXCEPT ![s] = "await"] /\ inflight' = inflight
        /\ ch' = [ch EXCEPT !.putters = Append(@, s)] /\ UNCHANGED <<val, accepted, taken>>
    BY <1>6 DEF SendRegister, Raw!register_putter, Raw!Reply, Apply, Goto
  <2>2. pc'[s] = "await" /\ "await" \in PCs
    BY <1>2, <2>1 DEF PCs, Suspended
  <2>3. Sound(ch.buffer, ch.is_closed, ch.getters, ch.putters, pc', val, inflight)
    BY <1>1, <1>2, <1>3, <2>1, <2>2, Moves
  <2>4. PICK q : q = Append(ch.putters, s)
    OBVIOUS
  <2>5. /\ Sound(ch.buffer, FALSE, ch.getters, q, pc', val, inflight)
        /\ \A x : InQueue(x, q) <=> InQueue(x, ch.putters) \/ x = s
    <3>1. PICK P : P = pc'
      OBVIOUS
    <3>2. Sound(ch.buffer, FALSE, ch.getters, ch.putters, P, val, inflight) /\ P[s] = "await"
      BY <1>1, <1>6, <2>2, <2>3, <3>1
    <3>3. Sound(ch.buffer, FALSE, ch.getters, q, P, val, inflight)
      BY <1>3, <2>4, <3>2, JoinsPutters
    <3>4. ch.putters \in Seq(Tasks) /\ NoRepeat(ch.putters)
      BY <1>1 DEF Sound, Registered
    <3>5. \A x : InQueue(x, q) <=> InQueue(x, ch.putters) \/ x = s
      BY <1>2, <1>3, <2>4, <3>4, AppendQueue
    <3> QED BY <3>1, <3>3, <3>5
  <2>6. q \in Seq(Tasks)
    BY <2>5 DEF Sound, Registered
  <2>7. /\ ch' \in Raw!ChannelState /\ ch'.buffer = ch.buffer /\ ch'.is_closed = FALSE
        /\ ch'.getters = ch.getters /\ ch'.putters = q /\ ch'.watchers = ch.watchers
    BY <1>1, <1>6, <2>1, <2>4, <2>6 DEF Raw!ChannelState
  <2>8. SlotsAnnounced(ch.buffer, q, pc', inflight)
    <3>1. CASE ch.putters = <<>>
      <4>1. IsFull(ch.buffer)
        BY <1>1, <1>6, <3>1, ChannelAssumption DEF Raw!HasSpace, IsFull
      <4> QED BY <1>1, <4>1, SlotsFull
    <3>2. CASE ch.putters # <<>>
      <4>1. Remembers(ch.putters, pc, inflight, q, pc', inflight, {})
        BY <1>2, <1>4, <2>1, <2>5 DEF Remembers, Woken, Tasks
      <4>2. AsLong(ch.buffer, ch.buffer)
        BY <1>1 DEF AsLong
      <4> QED BY <1>1, <3>2, <4>1, <4>2, SlotsKept
    <3> QED BY <3>1, <3>2
  <2> QED BY <2>1, <2>5, <2>7, <2>8 DEF Inv
<1> QED BY <1>1, <1>5, <1>6

\* unregister_putter, by a sender that gives up.
LEMMA UnregisterPutterInv ==
    ASSUME Inv, NEW s \in Senders, NEW w \in {"closed", "cancelled"},
           \/ pc[s] = "failed" /\ w = "closed"
           \/ pc[s] = "unwind" /\ w = "cancelled",
           Apply(Raw!unregister_putter(ch, s)), Goto(s, w), UNCHANGED <<val, accepted, taken>>
    PROVE  Inv'
<1>1. /\ Sound(ch.buffer, ch.is_closed, ch.getters, ch.putters, pc, val, inflight)
      /\ SlotsAnnounced(ch.buffer, ch.putters, pc, inflight) /\ ch \in Raw!ChannelState
      /\ ch.buffer \in Seq(Senders) /\ ch.is_closed \in BOOLEAN /\ Len(ch.buffer) \in Nat
  BY FieldTypes, LenProperties DEF Inv
<1>2. /\ s \in Tasks /\ s \notin Receivers /\ pc \in [Tasks -> PCs] /\ w \in PCs
      /\ pc' = [pc EXCEPT ![s] = w]
  BY <1>1, ChannelAssumption DEF Sound, TasksSound, Tasks, PCs, Returned, Goto
<1>3. /\ \A u \in Tasks : InQueue(u, ch.putters) =>
           pc[u] \in {"await", "unwind"} /\ \A m \in inflight : m.to # u
      /\ ~InQueue(s, ch.getters)
  BY <1>1, <1>2 DEF Sound, Registered
<1>4. PICK D : D = Discard(ch.putters, s)
  OBVIOUS
<1>5. /\ Sound(ch.buffer, ch.is_closed, ch.getters, D, pc, val, inflight)
      /\ \A x : InQueue(x, D) <=> InQueue(x, ch.putters) /\ x # s
  BY <1>1, <1>2, <1>4, Leaves
<1>6. \A m \in inflight : m.to = s => w \in {"await", "unwind", "cancelled"}
  BY <1>1, <1>2, Unreached
<1>7. PICK P : P = pc'
  OBVIOUS
<1>8. Sound(ch.buffer, ch.is_closed, ch.getters, D, P, val, inflight)
  <2>1. ~InQueue(s, D) /\ w \notin {"failed", "start", "register", "await"} /\ pc[s] # "done"
    BY <1>5
  <2> QED BY <1>2, <1>3, <1>5, <1>6, <1>7, <2>1, Moves
<1>9. D \in Seq(Tasks)
  BY <1>5 DEF Sound, Registered
<1>10. P[s] = w /\ \A u \in Tasks \ {s} : P[u] = pc[u]
  BY <1>2, <1>7
<1>11. CASE ~InQueue(s, ch.putters) /\ Raw!HasSpace(ch) /\ ch.putters # <<>>
  <2>1. D = ch.putters /\ pc[s] = "unwind"
    BY <1>1, <1>4, <1>11 DEF Discard, Sound, TasksSound, Tasks
  <2>2. /\ ch' = [ch EXCEPT !.putters = Tail(D)]
        /\ inflight' = inflight \cup {Raw!Wake(Head(D), "go")}
    <3>1. Raw!HasSpace([ch EXCEPT !.putters = D])
      BY <1>1, <1>11, <2>1 DEF Raw!ChannelState
    <3>2. s \notin Elems(ch.putters)
      BY <1>11, RawOperators
    <3> QED BY <1>1, <1>4, <1>11, <2>1, <3>1, <3>2, RawOperators
            DEF Raw!unregister_putter, Raw!Reply, Apply, Raw!ChannelState
  <2>3. PICK h : h = Head(D)
    OBVIOUS
  <2>4. PICK m : m = Raw!Wake(h, "go")
    OBVIOUS
  <2>5. PICK q : q = Tail(D)
    OBVIOUS
  <2>6. /\ Sound(ch.buffer, ch.is_closed, ch.getters, q, P, val, inflight \cup {m})
        /\ h \in Senders /\ InQueue(h, D) /\ m.to = h
        /\ \A x : InQueue(x, q) <=> InQueue(x, D) /\ x # h
    BY <1>8, <1>11, <2>1, <2>3, <2>4, <2>5, WakesPutter
  <2>7. q \in Seq(Tasks)
    BY <2>6 DEF Sound, Registered
  <2>8. /\ ch' \in Raw!ChannelState /\ ch'.buffer = ch.buffer /\ ch'.is_closed = ch.is_closed
        /\ ch'.getters = ch.getters /\ ch'.putters = q /\ ch'.watchers = ch.watchers
    BY <1>1, <2>2, <2>5, <2>7 DEF Raw!ChannelState
  <2>9. SlotsAnnounced(ch.buffer, q, P, inflight \cup {m})
    <3>1. h \in Tasks /\ h # s /\ P[h] = pc[h] /\ pc[h] \in {"await", "unwind"}
          /\ \A n \in inflight : n.to # h
      BY <1>3, <1>5, <1>10, <2>1, <2>6 DEF Tasks
    <3>2. s \in Woken(ch.putters, pc, inflight) /\ h \notin Woken(ch.putters, pc, inflight)
      BY <1>11, <2>1, <2>6, <3>1 DEF Woken
    <3>3. h \in Woken(q, P, inflight \cup {m})
      BY <2>6, <3>1 DEF Woken
    <3>4. Remembers(ch.putters, pc, inflight, q, P, inflight \cup {m}, {s})
      BY <1>10, <2>1, <2>6 DEF Remembers, Woken, Tasks
    <3> QED BY <1>1, <1>11, <3>2, <3>3, <3>4, SlotPassed
  <2> QED BY <1>7, <2>2, <2>3, <2>4, <2>6, <2>8, <2>9 DEF Inv
<1>12. CASE ~(~InQueue(s, ch.putters) /\ Raw!HasSpace(ch) /\ ch.putters # <<>>)
  <2>1. ch' = [ch EXCEPT !.putters = D] /\ inflight' = inflight
    <3>1. Raw!HasSpace([ch EXCEPT !.putters = D]) <=> Raw!HasSpace(ch)
      BY <1>1 DEF Raw!HasSpace, Raw!ChannelState
    <3>2. s \in Elems(ch.putters) <=> InQueue(s, ch.putters)
      BY RawOperators
    <3>3. ~InQueue(s, ch.putters) => D = ch.putters
      BY <1>4 DEF Discard
    <3> QED BY <1>1, <1>4, <1>12, <3>1, <3>2, <3>3, RawOperators
            DEF Raw!unregister_putter, Raw!Reply, Apply, Raw!ChannelState
  <2>2. /\ ch' \in Raw!ChannelState /\ ch'.buffer = ch.buffer /\ ch'.is_closed = ch.is_closed
        /\ ch'.getters = ch.getters /\ ch'.putters = D /\ ch'.watchers = ch.watchers
    BY <1>1, <1>9, <2>1 DEF Raw!ChannelState
  <2>3. SlotsAnnounced(ch.buffer, D, P, inflight)
    <3>1. CASE InQueue(s, ch.putters)
      <4>1. ch.putters # <<>>
        BY <3>1, Nobody
      <4>2. Remembers(ch.putters, pc, inflight, D, P, inflight, {})
        BY <1>2, <1>3, <1>5, <1>10, <3>1 DEF Remembers, Woken, Tasks
      <4>3. AsLong(ch.buffer, ch.buffer)
        BY <1>1 DEF AsLong
      <4> QED BY <1>1, <4>1, <4>2, <4>3, SlotsKept
    <3>2. CASE ~InQueue(s, ch.putters)
      <4>1. D = ch.putters
        BY <1>4, <3>2 DEF Discard
      <4>2. D = <<>> \/ IsFull(ch.buffer)
        BY <1>1, <1>12, <3>2, <4>1, ChannelAssumption DEF Raw!HasSpace, IsFull
      <4> QED BY <1>1, <4>2, SlotsFull
    <3> QED BY <3>1, <3>2
  <2> QED BY <1>7, <1>8, <2>1, <2>2, <2>3 DEF Inv
<1> QED BY <1>11, <1>12

\* A receiver takes the oldest item.
LEMMA TakeInv ==
    ASSUME Inv, NEW t \in Receivers, pc[t] \in {"start", "register"}, ch.buffer # <<>>,
           Apply(Raw!TakeItem(ch)), Receive(Raw!TakeItem(ch), t), Goto(t, "done"),
           UNCHANGED accepted
    PROVE  Inv'
<1>1. /\ Sound(ch.buffer, ch.is_closed, ch.getters, ch.putters, pc, val, inflight)
      /\ SlotsAnnounced(ch.buffer, ch.putters, pc, inflight) /\ ch \in Raw!ChannelState
      /\ ch.buffer \in Seq(Senders) /\ ch.is_closed \in BOOLEAN /\ Len(ch.buffer) \in Nat
      /\ accepted \in Seq(Senders) /\ taken \in Seq(Senders)
  BY FieldTypes, LenProperties DEF Inv
<1>2. /\ t \in Tasks /\ t \notin Senders /\ pc \in [Tasks -> PCs] /\ "done" \in PCs
      /\ pc' = [pc EXCEPT ![t] = "done"]
  BY <1>1, ChannelAssumption DEF Sound, TasksSound, Tasks, PCs, Returned, Goto
<1>3. ~InQueue(t, ch.getters) /\ ~InQueue(t, ch.putters) /\ \A m \in inflight : m.to # t
  <2>1. Sound(ch.buffer, ch.is_closed, ch.getters, ch.putters, pc, val, inflight)
    BY <1>1
  <2>2. t \in Tasks /\ pc[t] \notin {"await", "unwind", "cancelled"}
    BY <1>2
  <2> QED BY <2>1, <2>2, Unreached
<1>4. PICK P : P = pc'
  OBVIOUS
<1>5. P[t] = "done" /\ \A u \in Tasks \ {t} : P[u] = pc[u]
  BY <1>2, <1>4
<1>6. Sound(ch.buffer, ch.is_closed, ch.getters, ch.putters, P, val, inflight)
  <2>1. Sound(ch.buffer, ch.is_closed, ch.getters, ch.putters, pc, val, inflight)
    BY <1>1
  <2>2. P = [pc EXCEPT ![t] = "done"] /\ t \in Tasks /\ "done" \in PCs
    BY <1>2, <1>4
  <2> QED BY <1>3, <2>1, <2>2, Moves
<1>7. PICK B : B = Tail(ch.buffer)
  OBVIOUS
<1>8. PICK i : i = Head(ch.buffer)
  OBVIOUS
<1>9. /\ Sound(B, ch.is_closed, ch.getters, ch.putters, P, val, inflight)
      /\ Len(B) = Len(ch.buffer) - 1
      /\ i \in Senders /\ P[i] = "done" /\ Nowhere(i, B, val, inflight)
  BY <1>6, <1>7, <1>8, Unbuffers
<1>10. PICK r : r = Raw!TakeItem(ch)
  OBVIOUS
<1>11. /\ r.ret = "item" /\ r.item = i
       /\ \/ /\ Maxsize > 0 /\ ch.putters # <<>>
             /\ r.st = [ch EXCEPT !.buffer = Tail(@), !.putters = Tail(@)]
             /\ r.wakes = {Raw!Wake(Head(ch.putters), "go")}
          \/ /\ Maxsize = 0 \/ ch.putters = <<>>
             /\ r.st = [ch EXCEPT !.buffer = Tail(@)] /\ r.wakes = {}
  BY <1>1, <1>8, <1>10, TakeCases
<1>12. /\ ch' = r.st /\ inflight' = inflight \cup r.wakes
       /\ val' = [val EXCEPT ![t] = i] /\ taken' = Append(taken, i)
  BY <1>10, <1>11 DEF Apply, Receive
<1>13. taken' \in Seq(Senders) /\ accepted' \in Seq(Senders)
  BY <1>1, <1>9, <1>12, AppendProperties
<1>14. PICK V : V = val'
  OBVIOUS
<1>15. Sound(B, ch.is_closed, ch.getters, ch.putters, P, V, inflight)
  BY <1>5, <1>9, <1>12, <1>14, Holds
<1>16. B \in Seq(Senders)
  BY <1>9 DEF Sound, ItemsSound
<1>17. CASE Maxsize > 0 /\ ch.putters # <<>>
  <2>1. ch' = [ch EXCEPT !.buffer = Tail(@), !.putters = Tail(@)]
        /\ inflight' = inflight \cup {Raw!Wake(Head(ch.putters), "go")}
    BY <1>11, <1>12, <1>17
  <2>2. PICK h : h = Head(ch.putters)
    OBVIOUS
  <2>3. PICK m : m = Raw!Wake(h, "go")
    OBVIOUS
  <2>4. PICK q : q = Tail(ch.putters)
    OBVIOUS
  <2>5. /\ Sound(B, ch.is_closed, ch.getters, q, P, V, inflight \cup {m})
        /\ h \in Senders /\ InQueue(h, ch.putters) /\ m.to = h
        /\ \A x : InQueue(x, q) <=> InQueue(x, ch.putters) /\ x # h
    <3>1. ch.putters # <<>>
      BY <1>17
    <3>2. PICK o : o = ch.putters
      OBVIOUS
    <3>3. Sound(B, ch.is_closed, ch.getters, o, P, V, inflight) /\ o # <<>>
      BY <1>15, <3>1, <3>2
    <3>4. /\ Sound(B, ch.is_closed, ch.getters, Tail(o), P, V,
                   inflight \cup {Raw!Wake(Head(o), "go")})
          /\ Head(o) \in Senders /\ InQueue(Head(o), o) /\ Raw!Wake(Head(o), "go").to = Head(o)
          /\ \A x : InQueue(x, Tail(o)) <=> InQueue(x, o) /\ x # Head(o)
      BY <3>3, WakesPutter
    <3> QED BY <2>2, <2>3, <2>4, <3>2, <3>4
  <2>6. q \in Seq(Tasks)
    BY <2>5 DEF Sound, Registered
  <2>7. /\ ch' \in Raw!ChannelState /\ ch'.buffer = B /\ ch'.is_closed = ch.is_closed
        /\ ch'.getters = ch.getters /\ ch'.putters = q /\ ch'.watchers = ch.watchers
    BY <1>1, <1>7, <1>16, <2>1, <2>4, <2>6 DEF Raw!ChannelState
  <2>8. SlotsAnnounced(B, q, P, inflight \cup {m})
    <3>1. /\ h \in Tasks /\ h # t /\ P[h] = pc[h] /\ pc[h] \in {"await", "unwind"}
          /\ \A n \in inflight : n.to # h
      BY <1>1, <1>2, <1>5, <2>5 DEF Tasks, Sound, Registered
    <3>2. h \notin Woken(ch.putters, pc, inflight)
      BY <2>5, <3>1 DEF Woken
    <3>3. h \in Woken(q, P, inflight \cup {m})
      BY <2>5, <3>1 DEF Woken
    <3>4. Remembers(ch.putters, pc, inflight, q, P, inflight \cup {m}, {})
      BY <1>2, <1>5, <2>5 DEF Remembers, Woken, Tasks
    <3>5. OneShorter(B, ch.buffer)
      BY <1>9 DEF OneShorter
    <3> QED BY <1>1, <1>16, <1>17, <3>2, <3>3, <3>4, <3>5, SlotFreed
  <2> QED BY <1>4, <1>13, <1>14, <2>1, <2>2, <2>3, <2>5, <2>7, <2>8 DEF Inv
<1>18. CASE Maxsize = 0 \/ ch.putters = <<>>
  <2>1. ch' = [ch EXCEPT !.buffer = Tail(@)] /\ inflight' = inflight
    BY <1>11, <1>12, <1>18
  <2>2. /\ ch' \in Raw!ChannelState /\ ch'.buffer = B /\ ch'.is_closed = ch.is_closed
        /\ ch'.getters = ch.getters /\ ch'.putters = ch.putters /\ ch'.watchers = ch.watchers
    BY <1>1, <1>7, <1>16, <2>1 DEF Raw!ChannelState
  <2>3. ch.putters = <<>> \/ IsFull(B)
    BY <1>16, <1>18, LenProperties DEF IsFull
  <2>4. SlotsAnnounced(B, ch.putters, P, inflight)
    BY <1>16, <2>3, SlotsFull
  <2> QED BY <1>4, <1>13, <1>14, <1>15, <2>1, <2>2, <2>4 DEF Inv
<1> QED BY <1>17, <1>18, ChannelAssumption

\* try_recv.
LEMMA RecvTryInv == ASSUME Inv, NEW t \in Receivers, RecvTry(t) PROVE Inv'
<1>1. /\ Sound(ch.buffer, ch.is_closed, ch.getters, ch.putters, pc, val, inflight)
      /\ ch.is_closed \in BOOLEAN
  BY FieldTypes DEF Inv
<1>2. /\ t \in Tasks /\ pc[t] = "start" /\ val[t] = NoItem /\ val \in [Tasks -> Senders \cup {NoItem}]
  BY <1>1 DEF RecvTry, Sound, TasksSound, Tasks
<1>3. ~InQueue(t, ch.getters) /\ ~InQueue(t, ch.putters) /\ \A m \in inflight : m.to # t
  BY <1>1, <1>2, Unreached
<1>4. CASE ch.buffer # <<>>
  <2>1. Raw!try_recv(ch) = Raw!TakeItem(ch) /\ Raw!TakeItem(ch).ret = "item"
    BY <1>4, TakeCases DEF Raw!try_recv, Inv
  <2>2. Apply(Raw!TakeItem(ch)) /\ Receive(Raw!TakeItem(ch), t) /\ Goto(t, "done") /\ UNCHANGED accepted
    BY <2>1 DEF RecvTry, Goto
  <2> QED BY <1>2, <1>4, <2>2, TakeInv
<1>5. CASE ch.buffer = <<>>
  <2>1. PICK w \in {"closed", "register", "empty"} : pc' = [pc EXCEPT ![t] = w]
    BY <1>1, <1>5 DEF RecvTry, Raw!try_recv, Raw!Reply, Goto
  <2>2. UNCHANGED <<ch, inflight, accepted, taken>> /\ val' = [val EXCEPT ![t] = NoItem]
    BY <1>1, <1>5 DEF RecvTry, Raw!try_recv, Raw!Reply, Apply, Receive
  <2>3. val' = val
    BY <1>2, <2>2
  <2>4. w \in PCs /\ w # "failed" /\ pc[t] # "done"
    BY <1>2, <2>1 DEF PCs, Running, Returned
  <2> QED BY <1>2, <1>3, <2>1, <2>2, <2>3, <2>4, MoveInv
<1> QED BY <1>4, <1>5

\* The slots do not depend on where a receiver is.
LEMMA ReceiverMoves ==
    ASSUME Inv, NEW t \in Receivers, NEW P, NEW w, P = [pc EXCEPT ![t] = w]
    PROVE  SlotsAnnounced(ch.buffer, ch.putters, P, inflight)
<1>1. /\ SlotsAnnounced(ch.buffer, ch.putters, pc, inflight) /\ ch.buffer \in Seq(Senders)
      /\ pc \in [Tasks -> PCs]
  BY FieldTypes DEF Inv, Sound, TasksSound
<1>2. \A u \in Senders : P[u] = pc[u]
  BY <1>1, ChannelAssumption DEF Tasks
<1>3. Remembers(ch.putters, pc, inflight, ch.putters, P, inflight, {})
  BY <1>2 DEF Remembers, Woken
<1>4. AsLong(ch.buffer, ch.buffer)
  BY <1>1, LenProperties DEF AsLong
<1> QED BY <1>1, <1>3, <1>4, SlotsKept

\* register_getter.
LEMMA RecvRegisterInv == ASSUME Inv, NEW t \in Receivers, RecvRegister(t) PROVE Inv'
<1>1. /\ Sound(ch.buffer, ch.is_closed, ch.getters, ch.putters, pc, val, inflight)
      /\ ch.is_closed \in BOOLEAN /\ ch \in Raw!ChannelState
  BY FieldTypes DEF Inv
<1>2. /\ t \in Tasks /\ pc[t] = "register" /\ val[t] = NoItem
      /\ val \in [Tasks -> Senders \cup {NoItem}] /\ pc \in [Tasks -> PCs]
  BY <1>1 DEF RecvRegister, Sound, TasksSound, Tasks
<1>3. ~InQueue(t, ch.getters) /\ ~InQueue(t, ch.putters) /\ \A m \in inflight : m.to # t
  BY <1>1, <1>2, Unreached
<1>4. ch.getters # <<>> => ch.buffer = <<>> /\ ~ch.is_closed
  BY <1>1 DEF Sound
<1>5. CASE ch.buffer # <<>>
  <2>1. Raw!register_getter(ch, t) = Raw!TakeItem(ch) /\ Raw!TakeItem(ch).ret = "item"
    BY <1>1, <1>4, <1>5, TakeCases DEF Raw!register_getter
  <2>2. Apply(Raw!TakeItem(ch)) /\ Receive(Raw!TakeItem(ch), t) /\ Goto(t, "done") /\ UNCHANGED accepted
    BY <2>1 DEF RecvRegister, Goto
  <2> QED BY <1>2, <1>5, <2>2, TakeInv
<1>6. CASE ch.buffer = <<>> /\ ch.is_closed
  <2>1. /\ pc' = [pc EXCEPT ![t] = "closed"] /\ UNCHANGED <<ch, inflight, accepted, taken>>
        /\ val' = [val EXCEPT ![t] = NoItem]
    BY <1>6 DEF RecvRegister, Raw!register_getter, Raw!Reply, Apply, Receive, Goto
  <2>2. val' = val
    BY <1>2, <2>1
  <2>3. "closed" \in PCs /\ pc[t] # "done"
    BY <1>2 DEF PCs, Returned
  <2> QED BY <1>2, <1>3, <2>1, <2>2, <2>3, MoveInv
<1>7. CASE ch.buffer = <<>> /\ ~ch.is_closed
  <2>1. /\ pc' = [pc EXCEPT ![t] = "await"] /\ UNCHANGED <<inflight, accepted, taken>>
        /\ ch' = [ch EXCEPT !.getters = Append(@, t)] /\ val' = [val EXCEPT ![t] = NoItem]
    BY <1>7 DEF RecvRegister, Raw!register_getter, Raw!Reply, Apply, Receive, Goto
  <2>2. val' = val
    BY <1>2, <2>1
  <2>3. PICK P : P = pc'
    OBVIOUS
  <2>4. P = [pc EXCEPT ![t] = "await"] /\ P[t] = "await" /\ "await" \in PCs
    BY <1>2, <2>1, <2>3 DEF PCs, Suspended
  <2>5. Sound(ch.buffer, ch.is_closed, ch.getters, ch.putters, P, val, inflight)
    BY <1>1, <1>2, <1>3, <2>4, Moves
  <2>6. Sound(ch.buffer, FALSE, ch.getters, ch.putters, P, val, inflight) /\ ch.is_closed = FALSE
    BY <1>1, <1>7, <2>5
  <2>7. PICK g : g = Append(ch.getters, t)
    OBVIOUS
  <2>8. Sound(ch.buffer, FALSE, g, ch.putters, P, val, inflight)
    BY <1>3, <1>7, <2>4, <2>6, <2>7, JoinsGetters
  <2>9. g \in Seq(Tasks)
    BY <2>8 DEF Sound, Registered
  <2>10. /\ ch' \in Raw!ChannelState /\ ch'.buffer = ch.buffer /\ ch'.is_closed = FALSE
         /\ ch'.getters = g /\ ch'.putters = ch.putters /\ ch'.watchers = ch.watchers
    BY <1>1, <2>1, <2>6, <2>7, <2>9 DEF Raw!ChannelState
  <2>11. SlotsAnnounced(ch.buffer, ch.putters, P, inflight)
    BY <2>4, ReceiverMoves
  <2> QED BY <2>1, <2>2, <2>3, <2>8, <2>10, <2>11 DEF Inv
<1> QED BY <1>5, <1>6, <1>7

\* unregister_getter, by a receiver that gives up: with an item buffered no
\* getter is queued, so there is nobody to pass the item on to.
LEMMA UnregisterGetterInv ==
    ASSUME Inv, NEW t \in Receivers, NEW w \in {"closed", "cancelled"},
           \/ pc[t] = "failed" /\ w = "closed"
           \/ pc[t] = "unwind" /\ w = "cancelled",
           Apply(Raw!unregister_getter(ch, t)), Goto(t, w), UNCHANGED <<val, accepted, taken>>
    PROVE  Inv' /\ ch'.buffer = ch.buffer /\ inflight' = inflight
<1>1. /\ Sound(ch.buffer, ch.is_closed, ch.getters, ch.putters, pc, val, inflight)
      /\ ch \in Raw!ChannelState /\ ch.watchers = <<>>
  BY DEF Inv
<1>2. /\ t \in Tasks /\ t \notin Senders /\ pc \in [Tasks -> PCs] /\ w \in PCs
      /\ pc' = [pc EXCEPT ![t] = w]
  BY <1>1, ChannelAssumption DEF Sound, TasksSound, Tasks, PCs, Returned, Goto
<1>3. PICK D : D = Discard(ch.getters, t)
  OBVIOUS
<1>4. /\ Sound(ch.buffer, ch.is_closed, D, ch.putters, pc, val, inflight)
      /\ D # <<>> => ch.getters # <<>>
      /\ \A x : InQueue(x, D) <=> InQueue(x, ch.getters) /\ x # t
  BY <1>1, <1>2, <1>3, Leaves
<1>5. ch' = [ch EXCEPT !.getters = D] /\ inflight' = inflight
  <2>1. D # <<>> => ch.buffer = <<>>
    BY <1>1, <1>4 DEF Sound
  <2> QED BY <1>1, <1>3, <2>1, RawOperators
          DEF Raw!unregister_getter, Raw!Reply, Apply, Raw!ChannelState
<1>6. \A m \in inflight : m.to = t => w \in {"await", "unwind", "cancelled"}
  <2>1. CASE pc[t] = "failed"
    BY <1>1, <1>2, <2>1, Unreached
  <2>2. CASE w = "cancelled"
    BY <2>2
  <2> QED BY <2>1, <2>2
<1>7. PICK P : P = pc'
  OBVIOUS
<1>8. Sound(ch.buffer, ch.is_closed, D, ch.putters, P, val, inflight)
  <2>1. ~InQueue(t, D) /\ w \notin {"failed", "start", "register", "await"} /\ pc[t] # "done"
    BY <1>4
  <2>2. ~InQueue(t, ch.putters) /\ P = [pc EXCEPT ![t] = w]
    BY <1>1, <1>2, <1>7 DEF Sound, Registered
  <2> QED BY <1>2, <1>4, <1>6, <2>1, <2>2, Moves
<1>9. D \in Seq(Tasks)
  BY <1>8 DEF Sound, Registered
<1>10. /\ ch' \in Raw!ChannelState /\ ch'.buffer = ch.buffer /\ ch'.is_closed = ch.is_closed
       /\ ch'.getters = D /\ ch'.putters = ch.putters /\ ch'.watchers = ch.watchers
  BY <1>1, <1>5, <1>9 DEF Raw!ChannelState
<1>11. SlotsAnnounced(ch.buffer, ch.putters, P, inflight)
  BY <1>2, <1>7, ReceiverMoves
<1> QED BY <1>5, <1>7, <1>8, <1>10, <1>11 DEF Inv

\* close.
LEMMA CloseInv == ASSUME Inv, Close PROVE Inv' /\ ch'.buffer = ch.buffer
<1>1. /\ Sound(ch.buffer, ch.is_closed, ch.getters, ch.putters, pc, val, inflight)
      /\ ch \in Raw!ChannelState /\ ch.watchers = <<>> /\ ch.buffer \in Seq(Senders)
      /\ ~ch.is_closed
  BY FieldTypes DEF Inv, Close
<1>2. PICK f : f = inflight \cup {Raw!Wake(w, "closed") : w \in Elems(ch.getters) \cup Elems(ch.putters)}
  OBVIOUS
<1>3. Sound(ch.buffer, TRUE, <<>>, <<>>, pc, val, f)
  BY <1>1, <1>2, Closes
<1>4. /\ ch' = [ch EXCEPT !.is_closed = TRUE, !.getters = <<>>, !.putters = <<>>, !.watchers = <<>>]
      /\ inflight' = f /\ UNCHANGED <<pc, val, accepted, taken>>
  <2>1. {Raw!Wake(w, "ready") : w \in Elems(<<>>)} = {}
    BY EmptySeq DEF Elems
  <2> QED BY <1>1, <1>2, <2>1, RawOperators DEF Close, Apply, Raw!close, Raw!Reply
<1>5. <<>> \in Seq(Tasks)
  BY EmptySeq
<1>6. /\ ch' \in Raw!ChannelState /\ ch'.buffer = ch.buffer /\ ch'.is_closed = TRUE
      /\ ch'.getters = <<>> /\ ch'.putters = <<>> /\ ch'.watchers = <<>>
  BY <1>1, <1>4, <1>5 DEF Raw!ChannelState
<1>7. SlotsAnnounced(ch.buffer, <<>>, pc, f)
  BY <1>1, SlotsFull
<1> QED BY <1>3, <1>4, <1>6, <1>7 DEF Inv

\* All senders but t stay where they are; t is no longer expected at a slot, or
\* is on its way without the wake.
OthersKept(P, p, t) == \A u \in Senders \ {t} : P[u] = p[u]
Settled(P, p, t, q) ==
    q = <<>> \/ t \notin Senders \/ P[t] = "woken" \/ (P[t] = p[t] /\ p[t] \in {"unwind", "cancelled"})

\* A wake that leaves the loop's queue takes no announcement with it.
LEMMA SlotsRemain ==
    ASSUME Inv, NEW m \in inflight, NEW P,
           OthersKept(P, pc, m.to), Settled(P, pc, m.to, ch.putters)
    PROVE  SlotsAnnounced(ch.buffer, ch.putters, P, inflight \ {m})
<1>1. /\ SlotsAnnounced(ch.buffer, ch.putters, pc, inflight) /\ ch.buffer \in Seq(Senders)
      /\ Sound(ch.buffer, ch.is_closed, ch.getters, ch.putters, pc, val, inflight)
  BY FieldTypes DEF Inv
<1>2. CASE ch.putters = <<>>
  BY <1>1, <1>2, SlotsFull
<1>3. CASE ch.putters # <<>>
  <2>1. ~InQueue(m.to, ch.putters)
    BY <1>1, Drops
  <2>2. Remembers(ch.putters, pc, inflight, ch.putters, P, inflight \ {m}, {})
    BY <1>3, <2>1 DEF Remembers, Woken, OthersKept, Settled
  <2>3. AsLong(ch.buffer, ch.buffer)
    BY <1>1, LenProperties DEF AsLong
  <2> QED BY <1>1, <2>2, <2>3, SlotsKept
<1> QED BY <1>2, <1>3

\* _wake_fut on a future that waits.
LEMMA WakeFutInv == ASSUME Inv, NEW m \in inflight, WakeFut(m) PROVE Inv'
<1>1. /\ Sound(ch.buffer, ch.is_closed, ch.getters, ch.putters, pc, val, inflight)
      /\ ch.is_closed \in BOOLEAN
  BY FieldTypes DEF Inv
<1>2. PICK f : f = inflight \ {m}
  OBVIOUS
<1>3. PICK t : t = m.to
  OBVIOUS
<1>4. /\ Sound(ch.buffer, ch.is_closed, ch.getters, ch.putters, pc, val, f)
      /\ t \in Tasks /\ \A n \in f : n.to # t
      /\ ~InQueue(t, ch.getters) /\ ~InQueue(t, ch.putters)
      /\ m.kind = "item" =>
           m.item \in Senders /\ pc[m.item] = "done" /\ Nowhere(m.item, ch.buffer, val, f)
  BY <1>1, <1>2, <1>3, Drops
<1>5. PICK w \in {"failed", "woken"} :
        pc' = [pc EXCEPT ![t] = w] /\ (w = "failed" <=> m.kind = "closed")
  BY <1>3 DEF WakeFut, Goto
<1>6. /\ pc[t] = "await" /\ inflight' = f /\ UNCHANGED <<ch, accepted, taken>>
      /\ val' = [val EXCEPT ![t] = m.item]
  BY <1>2, <1>3 DEF WakeFut
<1>7. /\ m.kind = "item" => t \in Receivers
      /\ m.kind # "item" => m.item = NoItem
      /\ m.kind = "closed" => ch.is_closed
      /\ pc \in [Tasks -> PCs] /\ val \in [Tasks -> Senders \cup {NoItem}] /\ val[t] = NoItem
      /\ (ch.is_closed => ch.putters = <<>>)
  BY <1>1, <1>3, <1>4, <1>6 DEF Sound, WakesSound, TasksSound
<1>8. w \in PCs
  BY <1>5 DEF PCs, Suspended
<1>9. PICK P : P = pc'
  OBVIOUS
<1>10. P = [pc EXCEPT ![t] = w] /\ P[t] = w /\ \A u \in Tasks \ {t} : P[u] = pc[u]
  BY <1>4, <1>5, <1>7, <1>9
<1>11. Sound(ch.buffer, ch.is_closed, ch.getters, ch.putters, P, val, f)
  <2>1. w = "failed" => ch.is_closed
    BY <1>5, <1>7
  <2>2. w \notin {"start", "register", "await"} /\ pc[t] # "done"
    BY <1>5, <1>6
  <2>3. Sound(ch.buffer, ch.is_closed, ch.getters, ch.putters, pc, val, f)
        /\ t \in Tasks /\ ~InQueue(t, ch.getters) /\ ~InQueue(t, ch.putters)
        /\ \A n \in f : n.to # t
    BY <1>4
  <2>4. P = [pc EXCEPT ![t] = w]
    BY <1>10
  <2> QED BY <1>8, <2>1, <2>2, <2>3, <2>4, Moves
<1>12. PICK V : V = val'
  OBVIOUS
<1>13. Sound(ch.buffer, ch.is_closed, ch.getters, ch.putters, P, V, f)
  <2>1. CASE m.kind = "item"
    <3>1. PICK i : i = m.item
      OBVIOUS
    <3>2. i \in Senders /\ pc[i] = "done" /\ Nowhere(i, ch.buffer, val, f)
      BY <1>4, <2>1, <3>1
    <3>3. P[i] = "done"
      BY <1>6, <1>10, <3>2 DEF Tasks
    <3>4. t \in Receivers /\ P[t] \notin {"start", "register", "await"} /\ V = [val EXCEPT ![t] = i]
      BY <1>5, <1>6, <1>7, <1>10, <1>12, <2>1, <3>1
    <3> QED BY <1>11, <3>2, <3>3, <3>4, Holds
  <2>2. CASE m.kind # "item"
    <3>1. V = val
      BY <1>6, <1>7, <1>12, <2>2
    <3> QED BY <1>11, <3>1
  <2> QED BY <2>1, <2>2
<1>14. SlotsAnnounced(ch.buffer, ch.putters, P, inflight \ {m})
  <2>1. OthersKept(P, pc, m.to)
    BY <1>3, <1>10 DEF Tasks, OthersKept
  <2>2. Settled(P, pc, m.to, ch.putters)
    BY <1>3, <1>5, <1>7, <1>10 DEF Settled
  <2> QED BY <2>1, <2>2, SlotsRemain
<1> QED BY <1>2, <1>6, <1>9, <1>12, <1>13, <1>14 DEF Inv

\* _wake_fut on a future that was cancelled.
LEMMA WakeDeadFutInv ==
    ASSUME Inv, NEW m \in inflight, WakeDeadFut(m)
    PROVE  Inv'
<1>1. /\ Sound(ch.buffer, ch.is_closed, ch.getters, ch.putters, pc, val, inflight)
      /\ ch \in Raw!ChannelState /\ ch.watchers = <<>> /\ ch.buffer \in Seq(Senders)
  BY FieldTypes DEF Inv
<1>2. PICK f : f = inflight \ {m}
  OBVIOUS
<1>3. /\ Sound(ch.buffer, ch.is_closed, ch.getters, ch.putters, pc, val, f)
      /\ m.kind = "item" =>
           m.item \in Senders /\ pc[m.item] = "done" /\ Nowhere(m.item, ch.buffer, val, f)
  <2>1. Sound(ch.buffer, ch.is_closed, ch.getters, ch.putters, pc, val, inflight)
    BY <1>1
  <2> QED BY <1>2, <2>1, Drops
<1>4. pc[m.to] \in {"unwind", "cancelled"} /\ (m.kind = "item" => m.to \in Receivers)
  BY <1>1 DEF WakeDeadFut, Sound, WakesSound
<1>5. SlotsAnnounced(ch.buffer, ch.putters, pc, f)
  <2>1. OthersKept(pc, pc, m.to) /\ Settled(pc, pc, m.to, ch.putters)
    BY <1>4 DEF OthersKept, Settled
  <2> QED BY <1>2, <2>1, SlotsRemain
<1>6. CASE m.kind = "item" /\ ~ch.is_closed
  <2>1. PICK i : i = m.item
    OBVIOUS
  <2>2. PICK r : r = Raw!try_send(ch, i)
    OBVIOUS
  <2>3. ch' = r.st /\ inflight' = f \cup r.wakes /\ UNCHANGED <<pc, val, accepted, taken>>
    BY <1>2, <1>6, <2>1, <2>2 DEF WakeDeadFut
  <2>4. i \in Senders /\ pc[i] = "done" /\ Nowhere(i, ch.buffer, val, f)
    BY <1>3, <1>6, <2>1
  <2>5. /\ r.st \in Raw!ChannelState /\ r.st.watchers = <<>>
        /\ Sound(r.st.buffer, r.st.is_closed, r.st.getters, r.st.putters, pc, val, f \cup r.wakes)
        /\ r.st.putters = <<>> \/ r.st.putters = ch.putters
        /\ r.st.putters = <<>> \/ IsFull(r.st.buffer) \/ OneLonger(r.st.buffer, ch.buffer)
    <3>1. Sendable(ch, i, pc, val, f)
      BY <1>1, <1>3, <2>4 DEF Sendable
    <3>2. Sent(ch, r, pc, val, f)
      BY <2>2, <3>1, SendSound
    <3> QED BY <3>2 DEF Sent
  <2>6. r.st.buffer \in Seq(Senders)
    BY <2>5, FieldTypes
  <2>7. SlotsAnnounced(r.st.buffer, r.st.putters, pc, f \cup r.wakes)
    <3>1. CASE r.st.putters = <<>> \/ IsFull(r.st.buffer)
      BY <2>6, <3>1, SlotsFull
    <3>2. CASE r.st.putters = ch.putters /\ OneLonger(r.st.buffer, ch.buffer)
      <4>1. Remembers(ch.putters, pc, f, r.st.putters, pc, f \cup r.wakes, {i})
        BY <3>2 DEF Remembers, Woken
      <4> QED BY <1>1, <1>5, <2>6, <3>2, <4>1, SlotFilled
    <3> QED BY <2>5, <3>1, <3>2
  <2> QED BY <2>3, <2>5, <2>7 DEF Inv
<1>7. CASE ~(m.kind = "item" /\ ~ch.is_closed)
  <2>1. inflight' = f /\ UNCHANGED <<ch, pc, val, accepted, taken>>
    BY <1>2, <1>7 DEF WakeDeadFut
  <2> QED BY <1>1, <1>3, <1>5, <2>1 DEF Inv
<1> QED BY <1>6, <1>7

\* Every sender's step.
LEMMA SenderInv == ASSUME Inv, NEW s \in Senders, SenderStep(s) PROVE Inv'
<1>1. CASE SendTry(s)
  BY <1>1, AttemptInv DEF SendTry
<1>2. CASE SendRegister(s)
  BY <1>2, SendRegisterInv
<1>3. CASE SendRetry(s)
  BY <1>3, AttemptInv DEF SendRetry
<1>4. CASE SendResume(s)
  <2>1. CASE pc[s] = "woken" /\ AttemptSend(s, "register")
    BY <2>1, AttemptInv
  <2>2. CASE /\ pc[s] = "failed" /\ Apply(Raw!unregister_putter(ch, s))
             /\ Goto(s, "closed") /\ UNCHANGED <<val, accepted, taken>>
    BY <2>2, UnregisterPutterInv
  <2> QED BY <1>4, <2>1, <2>2 DEF SendResume
<1>5. CASE SendUnwind(s)
  BY <1>5, UnregisterPutterInv DEF SendUnwind
<1> QED BY <1>1, <1>2, <1>3, <1>4, <1>5 DEF SenderStep

\* Every receiver's step.
LEMMA ReceiverInv == ASSUME Inv, NEW t \in Receivers, ReceiverStep(t) PROVE Inv'
<1>1. CASE RecvTry(t)
  BY <1>1, RecvTryInv
<1>2. CASE RecvRegister(t)
  BY <1>2, RecvRegisterInv
<1>3. CASE RecvResume(t)
  <2>1. CASE pc[t] = "woken" /\ Goto(t, "done") /\ UNCHANGED <<ch, inflight>>
    <3>1. /\ Sound(ch.buffer, ch.is_closed, ch.getters, ch.putters, pc, val, inflight)
          /\ t \in Tasks /\ "done" \in PCs /\ pc' = [pc EXCEPT ![t] = "done"]
          /\ UNCHANGED <<ch, val, inflight, accepted, taken>>
      BY <1>3, <2>1 DEF Inv, RecvResume, Goto, Tasks, PCs, Returned
    <3>2. pc[t] \notin {"await", "unwind", "cancelled"}
      BY <2>1
    <3>3. ~InQueue(t, ch.getters) /\ ~InQueue(t, ch.putters) /\ \A m \in inflight : m.to # t
      BY <3>1, <3>2, Unreached
    <3> QED BY <3>1, <3>3, MoveInv
  <2>2. CASE /\ pc[t] = "failed" /\ Apply(Raw!unregister_getter(ch, t)) /\ Goto(t, "closed")
    BY <1>3, <2>2, UnregisterGetterInv DEF RecvResume
  <2> QED BY <1>3, <2>1, <2>2 DEF RecvResume
<1>4. CASE RecvUnwind(t)
  BY <1>4, UnregisterGetterInv DEF RecvUnwind
<1> QED BY <1>1, <1>2, <1>3, <1>4 DEF ReceiverStep

\* Every step.
LEMMA NextInv == ASSUME Inv, [Next]_vars PROVE Inv'
<1>1. CASE \E s \in Senders : SenderStep(s)
  BY <1>1, SenderInv
<1>2. CASE \E t \in Receivers : ReceiverStep(t)
  BY <1>2, ReceiverInv
<1>3. CASE \E t \in Tasks : Cancel(t)
  <2>1. PICK t \in Tasks : Cancel(t)
    BY <1>3
  <2>2. /\ pc' = [pc EXCEPT ![t] = "unwind"] /\ UNCHANGED <<ch, val, inflight, accepted, taken>>
        /\ pc[t] # "done" /\ "unwind" \in PCs
    BY <2>1 DEF Cancel, Goto, PCs, Suspended
  <2> QED BY <2>2, MoveInv
<1>4. CASE Close
  BY <1>4, CloseInv
<1>5. CASE Callback
  BY <1>5, WakeFutInv, WakeDeadFutInv DEF Callback
<1>6. CASE UNCHANGED vars
  BY <1>6 DEF vars, Inv
<1> QED BY <1>1, <1>2, <1>3, <1>4, <1>5, <1>6 DEF Next

-----------------------------------------------------------------------------
(* The theorems *)

\* What the invariant says of the properties of Channel.
LEMMA Consequences ==
    ASSUME Inv
    PROVE  TypeOK /\ NoIdleItem /\ NoLeakedWaiter /\ CapacityRespected /\ NoIdleSlot
<1>1. /\ Sound(ch.buffer, ch.is_closed, ch.getters, ch.putters, pc, val, inflight)
      /\ SlotsAnnounced(ch.buffer, ch.putters, pc, inflight)
  BY DEF Inv
<1>2. TypeOK
  BY <1>1 DEF Inv, Sound, TasksSound, WakesSound, TypeOK, PCs
<1>3. NoIdleItem /\ CapacityRespected
  BY <1>1 DEF Sound, NoIdleItem, CapacityRespected
<1>4. \A t \in Tasks : pc[t] \in Returned => ~InQueue(t, ch.getters) /\ ~InQueue(t, ch.putters)
  BY <1>1 DEF Sound, Registered, Returned
<1>5. \A t, q : t \in Queued(q) <=> InQueue(t, q)
  BY RawOperators DEF Queued
<1>6. NoLeakedWaiter
  BY <1>4, <1>5 DEF NoLeakedWaiter
<1>7. WokenSenders = Woken(ch.putters, pc, inflight)
  BY <1>5 DEF WokenSenders, Woken
<1>8. NoIdleSlot
  BY <1>1, <1>7 DEF NoIdleSlot, SlotsAnnounced
<1> QED BY <1>2, <1>3, <1>6, <1>8

\* An item that is in one place only is delivered at most once.
LEMMA OnePlace == ASSUME Inv PROVE NoDuplicate
<1>1. ItemsSound(ch.buffer, pc, val, inflight) /\ Receivers \subseteq Tasks
  BY DEF Inv, Sound, Tasks
<1> SUFFICES ASSUME NEW i \in Senders
             PROVE  Cardinality({k \in DOMAIN ch.buffer : ch.buffer[k] = i}
                                \cup {m \in inflight : m.item = i}
                                \cup {t \in Receivers : val[t] = i}) <= 1
  BY DEF NoDuplicate
<1>2. PICK K : K = {k \in DOMAIN ch.buffer : ch.buffer[k] = i}
  OBVIOUS
<1>3. PICK M : M = {m \in inflight : m.item = i}
  OBVIOUS
<1>4. PICK T : T = {t \in Receivers : val[t] = i}
  OBVIOUS
<1>5. \A x, y \in K : x = y
  BY <1>1, <1>2 DEF ItemsSound, NoRepeat
<1>6. \A x, y \in M : x = y
  BY <1>1, <1>3 DEF ItemsSound
<1>7. \A x, y \in T : x = y
  BY <1>1, <1>4 DEF ItemsSound
<1>8. K # {} <=> InQueue(i, ch.buffer)
  BY <1>2 DEF InQueue
<1>9. M # {} => K = {}
  BY <1>1, <1>3, <1>8 DEF ItemsSound
<1>10. T # {} => K = {} /\ M = {}
  BY <1>1, <1>3, <1>4, <1>8 DEF ItemsSound
<1>11. \A x, y \in K \cup M \cup T : x = y
  BY <1>5, <1>6, <1>7, <1>9, <1>10
<1>12. K \cup M \cup T = {} \/ \E x : K \cup M \cup T = {x}
  BY <1>11
<1>13. Cardinality({}) = 0 /\ \A x : Cardinality({x}) = 1
  BY FS_EmptySet, FS_Singleton
<1>14. Cardinality(K \cup M \cup T) \in {0, 1}
  BY <1>12, <1>13
<1>15. Cardinality(K \cup M \cup T) <= 1
  BY <1>14
<1> QED BY <1>2, <1>3, <1>4, <1>15

\* The invariant holds in every reachable state.
THEOREM InvTheorem == Spec => []Inv
<1>1. Init => Inv
  BY InitInv
<1>2. Inv /\ [Next]_vars => Inv'
  BY NextInv
<1> QED BY <1>1, <1>2, PTL DEF Spec

-----------------------------------------------------------------------------
(* Receivers that are not cancelled: the channel is a FIFO queue *)

\* A step that moves no item.
LEMMA CalmRest ==
    ASSUME CalmInv, ch'.buffer = ch.buffer, UNCHANGED <<val, accepted, taken>>,
           \A m \in inflight : m.item \in Senders => m \in inflight',
           \A t \in Receivers : pc'[t] \notin {"unwind", "cancelled"}
    PROVE  CalmInv' /\ UNCHANGED Fifo!qvars
<1>1. \A i \in Senders : Nowhere(i, ch.buffer, val, inflight') => Nowhere(i, ch.buffer, val, inflight)
  BY DEF Nowhere
<1> QED BY <1>1 DEF CalmInv, Fifo!qvars

\* A send puts its item into the buffer, or gives it to a waiting receiver.
LEMMA AttemptCalm ==
    ASSUME Inv, CalmInv, NEW s \in Senders, NEW onFull, AttemptSend(s, onFull)
    PROVE  CalmInv' /\ [Fifo!Next]_(Fifo!qvars)
<1>1. /\ ch \in Raw!ChannelState /\ ch.watchers = <<>> /\ accepted \in Seq(Senders)
      /\ ch.getters # <<>> => ch.buffer = <<>>
      /\ ch.buffer \in Seq(Senders)
  BY FieldTypes DEF Inv, Sound
<1>2. PICK r : r = Raw!try_send(ch, s)
  OBVIOUS
<1>3. /\ ch' = r.st /\ inflight' = inflight \cup r.wakes /\ val' = val
      /\ accepted' = IF r.ret = "ok" THEN Append(accepted, s) ELSE accepted
      /\ taken' = IF \E m \in r.wakes : m.kind = "item" THEN Append(taken, s) ELSE taken
  BY <1>2 DEF AttemptSend, Apply, Record
<1>4. \A t \in Receivers : pc'[t] \notin {"unwind", "cancelled"}
  BY ChannelAssumption DEF AttemptSend, Goto, CalmInv, Inv, Sound, TasksSound, Tasks
<1>5. \A i : InQueue(i, Append(accepted, s)) => InQueue(i, accepted) \/ i = s
  BY <1>1, AppendProperties DEF InQueue
<1>6. CASE Hands(ch, s, r) \/ HandsAndWakes(ch, s, r)
  <2>1. /\ r.ret = "ok" /\ ch'.buffer = ch.buffer /\ ch.buffer = <<>>
        /\ Raw!Handoff(Head(ch.getters), s) \in r.wakes
    BY <1>1, <1>3, <1>6 DEF Hands, HandsAndWakes, Raw!ChannelState
  <2>2. Raw!Handoff(Head(ch.getters), s).kind = "item" /\ Raw!Handoff(Head(ch.getters), s).item = s
    BY DEF Raw!Handoff
  <2>3. accepted' = Append(accepted, s) /\ taken' = Append(taken, s)
    BY <1>3, <2>1, <2>2
  <2>4. ~Nowhere(s, ch.buffer, val, inflight')
    BY <1>3, <2>1, <2>2 DEF Nowhere
  <2>5. \A i : Nowhere(i, ch.buffer, val, inflight') => Nowhere(i, ch.buffer, val, inflight)
    BY <1>3 DEF Nowhere
  <2>6. CalmInv'
    BY <1>3, <1>4, <1>5, <2>1, <2>3, <2>4, <2>5 DEF CalmInv
  <2>7. Fifo!PassThrough(s)
    BY <2>1, <2>3 DEF Fifo!PassThrough
  <2> QED BY <2>6, <2>7 DEF Fifo!Next
<1>7. CASE Keeps(ch, s, r)
  <2>1. /\ r.ret = "ok" /\ ch'.buffer = Append(ch.buffer, s) /\ inflight' = inflight
        /\ Maxsize = 0 \/ Len(ch.buffer) < Maxsize
    BY <1>1, <1>3, <1>7 DEF Keeps, Raw!ChannelState
  <2>2. accepted' = Append(accepted, s) /\ taken' = taken
    BY <1>3, <1>7, <2>1 DEF Keeps
  <2>3. \A i : InQueue(i, ch'.buffer) <=> InQueue(i, ch.buffer) \/ i = s
    <3>1. PICK c : c = Append(ch.buffer, s)
      OBVIOUS
    <3>2. /\ Len(ch.buffer) \in Nat /\ Len(c) = Len(ch.buffer) + 1
          /\ c[Len(ch.buffer) + 1] = s /\ \A k \in 1..Len(ch.buffer) : c[k] = ch.buffer[k]
          /\ DOMAIN c = 1..Len(c) /\ DOMAIN ch.buffer = 1..Len(ch.buffer)
      BY <1>1, <3>1, AppendProperties, LenProperties
    <3>3. \A i : InQueue(i, c) <=> InQueue(i, ch.buffer) \/ i = s
      BY <3>2 DEF InQueue
    <3> QED BY <2>1, <3>1, <3>3
  <2>4. CalmInv'
    BY <1>3, <1>4, <1>5, <2>1, <2>2, <2>3 DEF CalmInv, Nowhere
  <2>5. Fifo!Put(s)
    BY <2>1, <2>2 DEF Fifo!Put
  <2> QED BY <2>4, <2>5 DEF Fifo!Next
<1>8. CASE Refuses(ch, r) \/ Overflows(ch, r)
  <2>1. ch' = ch /\ inflight' = inflight /\ accepted' = accepted /\ taken' = taken
    BY <1>3, <1>8 DEF Refuses, Overflows
  <2> QED BY <1>3, <1>4, <2>1, CalmRest
<1> QED BY <1>1, <1>2, <1>6, <1>7, <1>8, SendCases

\* A receiver takes the oldest item.
LEMMA TakeCalm ==
    ASSUME Inv, CalmInv, NEW t \in Receivers, val[t] = NoItem, ch.buffer # <<>>,
           Apply(Raw!TakeItem(ch)), Receive(Raw!TakeItem(ch), t), Goto(t, "done"),
           UNCHANGED accepted
    PROVE  CalmInv' /\ [Fifo!Next]_(Fifo!qvars)
<1>1. /\ ch \in Raw!ChannelState /\ pc \in [Tasks -> PCs] /\ ch.buffer \in Seq(Senders)
      /\ val \in [Tasks -> Senders \cup {NoItem}] /\ t \in Tasks /\ NoItem \notin Senders
  BY FieldTypes, ChannelAssumption DEF Inv, Sound, TasksSound, Tasks
<1>2. PICK r : r = Raw!TakeItem(ch)
  OBVIOUS
<1>3. PICK i : i = Head(ch.buffer)
  OBVIOUS
<1>4. /\ r.ret = "item" /\ r.item = i /\ r.st.buffer = Tail(ch.buffer)
  <2>1. /\ r.ret = "item" /\ r.item = i
        /\ \/ r.st = [ch EXCEPT !.buffer = Tail(@), !.putters = Tail(@)]
           \/ r.st = [ch EXCEPT !.buffer = Tail(@)]
    BY <1>1, <1>2, <1>3, TakeCases
  <2>2. r.st.buffer = Tail(ch.buffer)
    BY <1>1, <2>1 DEF Raw!ChannelState
  <2> QED BY <2>1, <2>2
<1>5. /\ ch'.buffer = Tail(ch.buffer) /\ inflight \subseteq inflight'
      /\ val' = [val EXCEPT ![t] = i] /\ taken' = Append(taken, i) /\ accepted' = accepted
  BY <1>2, <1>4 DEF Apply, Receive
<1>6. \A u \in Receivers : pc'[u] \notin {"unwind", "cancelled"}
  BY <1>1 DEF Goto, CalmInv, Tasks
<1>7. \A x : InQueue(x, ch.buffer) => InQueue(x, Tail(ch.buffer)) \/ x = i
  <2>1. PICK b, c : b = ch.buffer /\ c = Tail(ch.buffer)
    OBVIOUS
  <2>2. b \in Seq(Senders) /\ b # <<>> /\ NoRepeat(b) /\ c = Tail(b)
    BY <1>1, <2>1 DEF Inv, Sound, ItemsSound
  <2>3. i = b[1]
    BY <1>3, <2>1, <2>2
  <2>4. \A x : InQueue(x, c) <=> InQueue(x, b) /\ x # i
    BY <2>2, <2>3, TailQueue
  <2> QED BY <2>1, <2>4
<1>8. \A x \in Senders : Nowhere(x, ch'.buffer, val', inflight') => Nowhere(x, ch.buffer, val, inflight)
  <2>1. val'[t] = i /\ \A u \in Tasks \ {t} : val'[u] = val[u]
    BY <1>1, <1>5
  <2> QED BY <1>1, <1>5, <1>7, <2>1 DEF Nowhere
<1>9. CalmInv'
  BY <1>5, <1>6, <1>8 DEF CalmInv
<1>10. Fifo!Get
  BY <1>3, <1>5 DEF Fifo!Get
<1> QED BY <1>9, <1>10 DEF Fifo!Next

\* A sender's step.
LEMMA SenderCalm ==
    ASSUME Inv, CalmInv, NEW s \in Senders, SenderStep(s)
    PROVE  CalmInv' /\ [Fifo!Next]_(Fifo!qvars)
<1>1. /\ ch \in Raw!ChannelState /\ pc \in [Tasks -> PCs] /\ s \notin Receivers /\ s \in Tasks
  BY ChannelAssumption DEF Inv, Sound, TasksSound, Tasks
<1>2. \A w : pc' = [pc EXCEPT ![s] = w] =>
        \A t \in Receivers : pc'[t] \notin {"unwind", "cancelled"}
  BY <1>1 DEF CalmInv, Tasks
<1>3. Apply(Raw!unregister_putter(ch, s)) => ch'.buffer = ch.buffer /\ inflight \subseteq inflight'
  BY <1>1 DEF Apply, Raw!unregister_putter, Raw!Reply, Raw!ChannelState
<1>4. ASSUME NEW onFull, AttemptSend(s, onFull) PROVE CalmInv' /\ [Fifo!Next]_(Fifo!qvars)
  BY <1>4, AttemptCalm
<1>5. CASE SendTry(s) \/ SendRetry(s)
  BY <1>4, <1>5 DEF SendTry, SendRetry
<1>6. CASE SendRegister(s)
  <2>1. ch'.buffer = ch.buffer /\ inflight \subseteq inflight' /\ UNCHANGED <<val, accepted, taken>>
    BY <1>1, <1>6 DEF SendRegister, Apply, Raw!register_putter, Raw!Reply, Raw!ChannelState
  <2>2. \A t \in Receivers : pc'[t] \notin {"unwind", "cancelled"}
    BY <1>2, <1>6 DEF SendRegister, Goto
  <2> QED BY <2>1, <2>2, CalmRest
<1>7. CASE SendResume(s)
  <2>1. CASE AttemptSend(s, "register")
    BY <1>4, <2>1
  <2>2. CASE /\ Apply(Raw!unregister_putter(ch, s)) /\ Goto(s, "closed")
             /\ UNCHANGED <<val, accepted, taken>>
    BY <1>2, <1>3, <2>2, CalmRest DEF Goto
  <2> QED BY <1>7, <2>1, <2>2 DEF SendResume
<1>8. CASE SendUnwind(s)
  BY <1>2, <1>3, <1>8, CalmRest DEF SendUnwind, Goto
<1> QED BY <1>5, <1>6, <1>7, <1>8 DEF SenderStep

\* A receiver's step.
LEMMA ReceiverCalm ==
    ASSUME Inv, CalmInv, NEW t \in Receivers, ReceiverStep(t)
    PROVE  CalmInv' /\ [Fifo!Next]_(Fifo!qvars)
<1>1. /\ ch \in Raw!ChannelState /\ pc \in [Tasks -> PCs] /\ t \in Tasks
      /\ val \in [Tasks -> Senders \cup {NoItem}] /\ ch.is_closed \in BOOLEAN
      /\ pc[t] \in {"start", "register"} => val[t] = NoItem
      /\ ch.getters # <<>> => ch.buffer = <<>>
  BY FieldTypes DEF Inv, Sound, TasksSound, Tasks
<1>2. \A w : pc' = [pc EXCEPT ![t] = w] /\ w \notin {"unwind", "cancelled"} =>
        \A u \in Receivers : pc'[u] \notin {"unwind", "cancelled"}
  BY <1>1 DEF CalmInv, Tasks
<1>3. CASE RecvTry(t) /\ ch.buffer # <<>>
  <2>1. Raw!try_recv(ch) = Raw!TakeItem(ch) /\ Raw!TakeItem(ch).ret = "item"
    BY <1>1, <1>3, TakeCases DEF Raw!try_recv
  <2>2. Apply(Raw!TakeItem(ch)) /\ Receive(Raw!TakeItem(ch), t) /\ Goto(t, "done") /\ UNCHANGED accepted
    BY <1>3, <2>1 DEF RecvTry, Goto
  <2>3. val[t] = NoItem
    BY <1>1, <1>3 DEF RecvTry
  <2> QED BY <1>3, <2>2, <2>3, TakeCalm
<1>4. CASE RecvRegister(t) /\ ch.buffer # <<>>
  <2>1. Raw!register_getter(ch, t) = Raw!TakeItem(ch) /\ Raw!TakeItem(ch).ret = "item"
    BY <1>1, <1>4, TakeCases DEF Raw!register_getter
  <2>2. Apply(Raw!TakeItem(ch)) /\ Receive(Raw!TakeItem(ch), t) /\ Goto(t, "done") /\ UNCHANGED accepted
    BY <1>4, <2>1 DEF RecvRegister, Goto
  <2>3. val[t] = NoItem
    BY <1>1, <1>4 DEF RecvRegister
  <2> QED BY <1>4, <2>2, <2>3, TakeCalm
<1>5. CASE RecvTry(t) /\ ch.buffer = <<>>
  <2>1. PICK w \in {"closed", "register", "empty"} : pc' = [pc EXCEPT ![t] = w]
    BY <1>1, <1>5 DEF RecvTry, Raw!try_recv, Raw!Reply, Goto
  <2>2. UNCHANGED <<ch, inflight, accepted, taken>> /\ val' = [val EXCEPT ![t] = NoItem]
    BY <1>1, <1>5 DEF RecvTry, Raw!try_recv, Raw!Reply, Apply, Receive
  <2>3. val' = val
    BY <1>1, <1>5, <2>2 DEF RecvTry
  <2>4. \A u \in Receivers : pc'[u] \notin {"unwind", "cancelled"}
    BY <1>2, <2>1
  <2> QED BY <2>2, <2>3, <2>4, CalmRest
<1>6. CASE RecvRegister(t) /\ ch.buffer = <<>>
  <2>1. PICK w \in {"closed", "await"} : pc' = [pc EXCEPT ![t] = w]
    BY <1>1, <1>6 DEF RecvRegister, Raw!register_getter, Raw!Reply, Goto
  <2>2. /\ ch'.buffer = ch.buffer /\ UNCHANGED <<inflight, accepted, taken>>
        /\ val' = [val EXCEPT ![t] = NoItem]
    BY <1>1, <1>6 DEF RecvRegister, Raw!register_getter, Raw!Reply, Apply, Receive, Raw!ChannelState
  <2>3. val' = val
    BY <1>1, <1>6, <2>2 DEF RecvRegister
  <2>4. \A u \in Receivers : pc'[u] \notin {"unwind", "cancelled"}
    BY <1>2, <2>1
  <2> QED BY <2>2, <2>3, <2>4, CalmRest
<1>7. CASE RecvResume(t)
  <2>1. CASE pc[t] = "woken" /\ Goto(t, "done") /\ UNCHANGED <<ch, inflight>>
    <3>1. \A u \in Receivers : pc'[u] \notin {"unwind", "cancelled"}
      <4>1. pc' = [pc EXCEPT ![t] = "done"]
        BY <2>1 DEF Goto
      <4> QED BY <1>1, <4>1 DEF CalmInv, Tasks
    <3> QED BY <1>7, <2>1, <3>1, CalmRest DEF RecvResume
  <2>2. CASE pc[t] = "failed" /\ Apply(Raw!unregister_getter(ch, t)) /\ Goto(t, "closed")
    <3>1. ch'.buffer = ch.buffer /\ inflight' = inflight
      BY <1>7, <2>2, UnregisterGetterInv DEF RecvResume
    <3>2. \A u \in Receivers : pc'[u] \notin {"unwind", "cancelled"}
      <4>1. pc' = [pc EXCEPT ![t] = "closed"]
        BY <2>2 DEF Goto
      <4> QED BY <1>1, <4>1 DEF CalmInv, Tasks
    <3> QED BY <1>7, <3>1, <3>2, CalmRest DEF RecvResume
  <2> QED BY <1>7, <2>1, <2>2 DEF RecvResume
<1>8. CASE RecvUnwind(t)
  BY <1>8 DEF RecvUnwind, CalmInv
<1> QED BY <1>3, <1>4, <1>5, <1>6, <1>7, <1>8 DEF ReceiverStep

\* A wake finds its receiver waiting.
LEMMA WakeCalm ==
    ASSUME Inv, CalmInv, NEW m \in inflight, WakeFut(m) \/ WakeDeadFut(m)
    PROVE  CalmInv' /\ [Fifo!Next]_(Fifo!qvars)
<1>1. /\ ch \in Raw!ChannelState /\ pc \in [Tasks -> PCs] /\ m.to \in Tasks
      /\ val \in [Tasks -> Senders \cup {NoItem}] /\ NoItem \notin Senders
      /\ m.kind = "item" => m.to \in Receivers
      /\ m.kind # "item" => m.item = NoItem
      /\ pc[m.to] = "await" => val[m.to] = NoItem
      /\ pc[m.to] \in {"await", "unwind", "cancelled"}
  BY ChannelAssumption DEF Inv, Sound, TasksSound, WakesSound, Raw!Wakes, Tasks
<1>2. CASE WakeFut(m)
  <2>1. PICK w \in {"failed", "woken"} : pc' = [pc EXCEPT ![m.to] = w]
    BY <1>2 DEF WakeFut, Goto
  <2>2. \A u \in Receivers : pc'[u] \notin {"unwind", "cancelled"}
    BY <1>1, <2>1 DEF CalmInv, Tasks
  <2>3. /\ val' = [val EXCEPT ![m.to] = m.item] /\ inflight' = inflight \ {m}
        /\ UNCHANGED <<ch, accepted, taken>> /\ val[m.to] = NoItem
    BY <1>1, <1>2 DEF WakeFut
  <2>4. val'[m.to] = m.item /\ \A u \in Tasks \ {m.to} : val'[u] = val[u]
    BY <1>1, <2>3
  <2>5. \A i \in Senders : Nowhere(i, ch.buffer, val', inflight') => Nowhere(i, ch.buffer, val, inflight)
    BY <1>1, <2>3, <2>4 DEF Nowhere
  <2>6. CalmInv'
    BY <2>2, <2>3, <2>5 DEF CalmInv
  <2>7. UNCHANGED Fifo!qvars
    BY <2>3 DEF Fifo!qvars
  <2> QED BY <2>6, <2>7
<1>3. CASE WakeDeadFut(m)
  <2>1. m.kind # "item"
    BY <1>1, <1>3 DEF WakeDeadFut, CalmInv
  <2>2. inflight' = inflight \ {m} /\ UNCHANGED <<ch, pc, val, accepted, taken>>
    BY <1>3, <2>1 DEF WakeDeadFut
  <2>3. \A n \in inflight : n.item \in Senders => n \in inflight'
    BY <1>1, <2>1, <2>2
  <2>4. \A u \in Receivers : pc'[u] \notin {"unwind", "cancelled"}
    BY <2>2 DEF CalmInv
  <2> QED BY <2>2, <2>3, <2>4, CalmRest
<1> QED BY <1>2, <1>3

\* Every step, when no receiver can be cancelled.
LEMMA CalmNext ==
    ASSUME Cancellable \cap Receivers = {}, Inv, CalmInv, [Next]_vars
    PROVE  CalmInv' /\ [Fifo!Next]_(Fifo!qvars)
<1>1. CASE \E s \in Senders : SenderStep(s)
  BY <1>1, SenderCalm
<1>2. CASE \E t \in Receivers : ReceiverStep(t)
  BY <1>2, ReceiverCalm
<1>3. CASE \E t \in Tasks : Cancel(t)
  <2>1. PICK t \in Tasks : Cancel(t)
    BY <1>3
  <2>2. /\ pc' = [pc EXCEPT ![t] = "unwind"] /\ UNCHANGED <<ch, val, inflight, accepted, taken>>
        /\ t \notin Receivers /\ pc \in [Tasks -> PCs]
    BY <2>1 DEF Cancel, Goto, Inv, Sound, TasksSound
  <2>3. \A u \in Receivers : pc'[u] \notin {"unwind", "cancelled"}
    BY <2>2 DEF CalmInv, Tasks
  <2> QED BY <2>2, <2>3, CalmRest
<1>4. CASE Close
  <2>1. ch'.buffer = ch.buffer /\ inflight \subseteq inflight' /\ UNCHANGED <<pc, val, accepted, taken>>
    BY <1>4, CloseInv DEF Close, Apply
  <2>2. \A u \in Receivers : pc'[u] \notin {"unwind", "cancelled"}
    BY <2>1 DEF CalmInv
  <2> QED BY <2>1, <2>2, CalmRest
<1>5. CASE Callback
  BY <1>5, WakeCalm DEF Callback
<1>6. CASE UNCHANGED vars
  BY <1>6 DEF vars, CalmInv, Fifo!qvars
<1> QED BY <1>1, <1>2, <1>3, <1>4, <1>5, <1>6 DEF Next

\* A new channel has accepted nothing.
LEMMA CalmInit == Init => CalmInv /\ Fifo!Init
<1> SUFFICES ASSUME Init PROVE CalmInv /\ Fifo!Init
  OBVIOUS
<1>1. \A i : ~InQueue(i, accepted)
  BY Nobody DEF Init
<1>2. \A t \in Receivers : pc[t] = "start"
  BY DEF Init, Tasks
<1>3. ch.buffer = <<>>
  BY DEF Init, Raw!NewChannel
<1> QED BY <1>1, <1>2, <1>3 DEF Init, CalmInv, Fifo!Init

\* What was accepted is somewhere.
LEMMA CalmKeeps == ASSUME Inv, CalmInv PROVE NoItemLost
<1>1. accepted \in Seq(Senders) /\ \A t \in Senders : val[t] = NoItem
  BY DEF Inv, Sound, TasksSound
<1>2. \A t, q : t \in Queued(q) <=> InQueue(t, q)
  BY RawOperators DEF Queued
<1>3. \A i \in Queued(accepted) : i \in Senders
  BY <1>1, <1>2, LenProperties, ElementOfSeq DEF InQueue
<1>4. NoItem \notin Senders
  BY ChannelAssumption DEF Tasks
<1> SUFFICES ASSUME NEW i \in Queued(accepted)
             PROVE  \/ i \in Queued(ch.buffer)
                    \/ \E m \in inflight : m.item = i
                    \/ \E t \in Receivers : val[t] = i /\ pc[t] # "cancelled"
  BY DEF NoItemLost
<1>5. i \in Senders /\ ~Nowhere(i, ch.buffer, val, inflight)
  BY <1>2, <1>3 DEF CalmInv
<1> QED BY <1>1, <1>2, <1>4, <1>5 DEF Nowhere, CalmInv, Tasks

\* When no receiver can be cancelled or time out, a channel of any capacity with
\* any number of senders (which may be cancelled) and receivers implements the
\* bounded FIFO queue: what is received is what was sent, in the same order.
THEOREM FifoTheorem == ASSUME Cancellable \cap Receivers = {} PROVE Spec => ImplementsFifo
<1>1. Init => Inv /\ CalmInv /\ Fifo!Init
  BY InitInv, CalmInit
<1>2. Inv /\ CalmInv /\ [Next]_vars => Inv' /\ CalmInv' /\ [Fifo!Next]_(Fifo!qvars)
  BY NextInv, CalmNext
<1> QED BY <1>1, <1>2, PTL DEF Spec, ImplementsFifo, Fifo!Spec

\* A channel of any capacity, with any number of senders and receivers that are
\* cancelled at will: no getter queues while an item is buffered, the buffer
\* keeps to its capacity, a free slot is announced to the queued senders, a call
\* that ended has left no future behind, and no item is delivered twice.
THEOREM SoundTheorem ==
    Spec => []( /\ TypeOK /\ NoIdleItem /\ NoLeakedWaiter /\ CapacityRespected /\ NoIdleSlot
                /\ NoDuplicate)
<1>1. Inv => /\ TypeOK /\ NoIdleItem /\ NoLeakedWaiter /\ CapacityRespected /\ NoIdleSlot
             /\ NoDuplicate
  BY Consequences, OnePlace
<1> QED BY <1>1, InvTheorem, PTL

\* When no receiver can be cancelled, no accepted item is ever lost.
THEOREM KeptTheorem == ASSUME Cancellable \cap Receivers = {} PROVE Spec => []NoItemLost
<1>1. Init => Inv /\ CalmInv
  BY InitInv, CalmInit
<1>2. Inv /\ CalmInv /\ [Next]_vars => Inv' /\ CalmInv'
  BY NextInv, CalmNext
<1>3. Inv /\ CalmInv => NoItemLost
  BY CalmKeeps
<1> QED BY <1>1, <1>2, <1>3, PTL DEF Spec
=============================================================================
