----------------------------- MODULE PoolProofs -----------------------------
(***************************************************************************)
(* Proofs about EventLoopThreadPool for any number of workers and jobs,    *)
(* any capacity and batch, whichever jobs block their thread, and any      *)
(* sequence of shutdowns.                                                  *)
(***************************************************************************)
EXTENDS MCPool, QueueLemmas

-----------------------------------------------------------------------------
(* The queues: g is the shared queue, l the dedicated ones, b the buffers *)

Somewhere(j, g, l, b) ==
    InQueue(j, g) \/ \E w \in Workers : InQueue(j, l[w]) \/ InQueue(j, b[w])

\* A job is queued once, and in a dedicated queue only if it is pinned to it.
Lined(g, l, b) ==
    /\ g \in Seq(Jobs) /\ l \in [Workers -> Seq(Jobs)] /\ b \in [Workers -> Seq(Jobs)]
    /\ NoRepeat(g) /\ \A w \in Workers : NoRepeat(l[w]) /\ NoRepeat(b[w])
    /\ \A j \in Jobs, w \in Workers : InQueue(j, g) => ~InQueue(j, l[w]) /\ ~InQueue(j, b[w])
    /\ \A j \in Jobs, w \in Workers :
         InQueue(j, l[w]) => Pin[j] = w /\ \A v \in Workers : ~InQueue(j, b[v])
    /\ \A j \in Jobs, w \in Workers, v \in Workers :
         InQueue(j, b[w]) /\ InQueue(j, b[v]) => w = v

\* A pull from a shared queue that is not empty takes at least one job.
LEMMA BatchSize ==
    ASSUME global \in Seq(Jobs), global # <<>>
    PROVE  Batch \in 1..Len(global)
<1>1. Len(global) \in Nat /\ Len(global) # 0
  BY EmptySeq, LenProperties
<1>2. Cardinality(Workers) \in Nat /\ Cardinality(Workers) # 0
  BY PoolAssumption, FS_CardinalityType, FS_EmptySet
<1>3. BatchMax \in Nat /\ BatchMax # 0
  BY PoolAssumption
<1>4. Len(global) \div Cardinality(Workers) + 1 \in Nat \ {0}
  BY <1>1, <1>2
<1> QED BY <1>1, <1>3, <1>4 DEF Batch

\* What the first k of a queue without repetitions are.
LEMMA PrefixQueue ==
    ASSUME NEW q \in Seq(Jobs), NoRepeat(q), NEW k \in 1..Len(q), NEW s, s = SubSeq(q, 2, k)
    PROVE  /\ s \in Seq(Jobs) /\ NoRepeat(s)
           /\ \A x : InQueue(x, s) <=> x \in Front(q, k) /\ x # q[1]
<1>1. /\ Len(q) \in Nat /\ DOMAIN q = 1..Len(q) /\ \A i \in 1..Len(q) : q[i] \in Jobs
  BY LenProperties, ElementOfSeq
<1>2. /\ s \in Seq(Jobs)
      /\ Len(s) = k - 1
      /\ \A i \in 1..(k - 1) : s[i] = q[i + 1]
  BY <1>1, SubSeqProperties
<1>3. DOMAIN s = 1..(k - 1)
  BY <1>2, LenProperties
<1>4. NoRepeat(s)
  BY <1>1, <1>2, <1>3 DEF NoRepeat
<1>5. ASSUME NEW x PROVE InQueue(x, s) <=> x \in Front(q, k) /\ x # q[1]
  <2>1. ASSUME InQueue(x, s) PROVE x \in Front(q, k) /\ x # q[1]
    <3>1. PICK i \in 1..(k - 1) : s[i] = x
      BY <2>1, <1>3 DEF InQueue
    <3>2. i + 1 \in 1..k /\ q[i + 1] = x /\ i + 1 # 1 /\ i + 1 \in 1..Len(q) /\ 1 \in 1..Len(q)
      BY <3>1, <1>2, <1>1
    <3> QED BY <3>2, <1>1 DEF Front, NoRepeat
  <2>2. ASSUME x \in Front(q, k), x # q[1] PROVE InQueue(x, s)
    <3>1. PICK i \in 1..k : q[i] = x
      BY <2>2 DEF Front
    <3>2. i - 1 \in 1..(k - 1) /\ (i - 1) + 1 = i
      BY <3>1, <2>2
    <3>3. s[i - 1] = x
      BY <3>1, <3>2, <1>2
    <3> QED BY <3>2, <3>3, <1>3 DEF InQueue
  <2> QED BY <2>1, <2>2
<1> QED BY <1>2, <1>4, <1>5

\* pop_work takes one job out of the queues; the others may change their place,
\* but never into a dedicated queue.
LEMMA PopEffect ==
    ASSUME Lined(global, local, buffer), NEW w \in Workers, NEW j \in Jobs, pop_work(w, j)
    PROVE  /\ Lined(global', local', buffer')
           /\ Somewhere(j, global, local, buffer)
           /\ \A x \in Jobs : Somewhere(x, global', local', buffer')
                                <=> Somewhere(x, global, local, buffer) /\ x # j
           /\ \A v \in Workers : v # w => local'[v] = local[v]
<1>1. CASE PopBuffered(w, j)
  <2>1. /\ buffer[w] \in Seq(Jobs) /\ buffer[w] # <<>> /\ NoRepeat(buffer[w])
        /\ j = buffer[w][1]
        /\ global' = global /\ local' = local
        /\ buffer' = [buffer EXCEPT ![w] = Tail(buffer[w])]
    BY <1>1 DEF PopBuffered, Lined
  <2>2. /\ Tail(buffer[w]) \in Seq(Jobs) /\ NoRepeat(Tail(buffer[w])) /\ InQueue(j, buffer[w])
        /\ \A x : InQueue(x, Tail(buffer[w])) <=> InQueue(x, buffer[w]) /\ x # j
    BY <2>1, TailQueue
  <2>3. /\ buffer' \in [Workers -> Seq(Jobs)]
        /\ \A v \in Workers : NoRepeat(buffer'[v])
        /\ \A v \in Workers, x \in Jobs : InQueue(x, buffer'[v]) <=> InQueue(x, buffer[v]) /\ x # j
    BY <2>1, <2>2 DEF Lined
  <2> QED BY <2>1, <2>2, <2>3 DEF Lined, Somewhere
<1>2. CASE PopGlobal(w, j)
  <2> DEFINE head == SubSeq(global, 2, Batch)
             rest == SubSeq(global, Batch + 1, Len(global))
  <2>1. /\ global \in Seq(Jobs) /\ global # <<>> /\ NoRepeat(global)
        /\ j = global[1] /\ buffer[w] = <<>>
        /\ local' = local /\ global' = rest
        /\ buffer' = [buffer EXCEPT ![w] = head]
    BY <1>2 DEF PopGlobal, Lined
  <2>2. Batch \in 1..Len(global) /\ Batch \in Nat /\ Batch <= Len(global) /\ Len(global) \in Nat
    BY <2>1, BatchSize, LenProperties
  <2>3. /\ head \in Seq(Jobs) /\ NoRepeat(head)
        /\ \A x : InQueue(x, head) <=> x \in Front(global, Batch) /\ x # j
    BY <2>1, <2>2, PrefixQueue
  <2>4. /\ rest \in Seq(Jobs) /\ NoRepeat(rest)
        /\ \A x : InQueue(x, rest) <=> InQueue(x, global) /\ x \notin Front(global, Batch)
    <3>1. rest = SubSeq(global, Batch + 1, Len(global))
      OBVIOUS
    <3> HIDE DEF rest
    <3>2. ASSUME NEW k \in Nat, k <= Len(global), NEW r, r = SubSeq(global, k + 1, Len(global))
          PROVE  /\ r \in Seq(Jobs) /\ NoRepeat(r)
                 /\ \A x : InQueue(x, r) <=> InQueue(x, global) /\ x \notin Front(global, k)
      BY <2>1, <3>2, SuffixQueue
    <3> QED BY <2>2, <3>1, <3>2
  <2>5. /\ j \in Front(global, Batch) /\ InQueue(j, global)
        /\ \A x : x \in Front(global, Batch) => InQueue(x, global)
    <3>1. DOMAIN global = 1..Len(global)
      BY <2>1, LenProperties
    <3> QED BY <2>1, <2>2, <3>1 DEF Front, InQueue
  <2>6. \A x \in Jobs : ~InQueue(x, buffer[w])
    BY <2>1, EmptyQueue DEF Lined
  <2> HIDE DEF head, rest
  <2>7. /\ buffer' \in [Workers -> Seq(Jobs)] /\ buffer'[w] = head
        /\ \A v \in Workers : v # w => buffer'[v] = buffer[v]
        /\ \A v \in Workers : NoRepeat(buffer'[v])
    BY <2>1, <2>3 DEF Lined
  <2>8. \A x \in Jobs, v \in Workers :
          InQueue(x, buffer'[v]) <=> IF v = w THEN x \in Front(global, Batch) /\ x # j
                                     ELSE InQueue(x, buffer[v])
    BY <2>3, <2>7
  <2>9. Lined(global', local', buffer')
    BY <2>1, <2>4, <2>5, <2>6, <2>7, <2>8 DEF Lined
  <2>10. \A x \in Jobs : Somewhere(x, global', local', buffer')
                           <=> Somewhere(x, global, local, buffer) /\ x # j
    BY <2>1, <2>4, <2>5, <2>6, <2>8 DEF Lined, Somewhere
  <2> QED BY <2>1, <2>5, <2>9, <2>10 DEF Somewhere
<1>3. CASE PopLocal(w, j)
  <2>1. /\ local[w] \in Seq(Jobs) /\ local[w] # <<>> /\ NoRepeat(local[w])
        /\ j = local[w][1]
        /\ global' = global /\ buffer' = buffer
        /\ local' = [local EXCEPT ![w] = Tail(local[w])]
    BY <1>3 DEF PopLocal, Lined
  <2>2. /\ Tail(local[w]) \in Seq(Jobs) /\ NoRepeat(Tail(local[w])) /\ InQueue(j, local[w])
        /\ \A x : InQueue(x, Tail(local[w])) <=> InQueue(x, local[w]) /\ x # j
    BY <2>1, TailQueue
  <2>3. /\ local' \in [Workers -> Seq(Jobs)]
        /\ \A v \in Workers : NoRepeat(local'[v])
        /\ \A v \in Workers, x \in Jobs : InQueue(x, local'[v]) <=> InQueue(x, local[v]) /\ x # j
        /\ \A v \in Workers : v # w => local'[v] = local[v]
    <3>1. /\ local' \in [Workers -> Seq(Jobs)] /\ local'[w] = Tail(local[w])
          /\ \A v \in Workers : v # w => local'[v] = local[v]
      BY <2>1, <2>2 DEF Lined
    <3>2. \A v \in Workers : InQueue(j, local[v]) => v = w
      BY <2>2 DEF Lined
    <3>3. \A v \in Workers : NoRepeat(local'[v])
      BY <2>2, <3>1 DEF Lined
    <3> QED BY <2>2, <3>1, <3>2, <3>3
  <2>4. Lined(global', local', buffer')
    BY <2>1, <2>2, <2>3 DEF Lined
  <2>5. /\ Somewhere(j, global, local, buffer)
        /\ ~InQueue(j, global) /\ \A v \in Workers : ~InQueue(j, buffer[v])
    BY <2>2 DEF Lined, Somewhere
  <2>6. \A x \in Jobs : Somewhere(x, global', local', buffer')
                           <=> Somewhere(x, global, local, buffer) /\ x # j
    BY <2>1, <2>3, <2>5 DEF Somewhere
  <2> QED BY <2>3, <2>4, <2>5, <2>6
<1> QED BY <1>1, <1>2, <1>3 DEF pop_work

\* A push puts a job that was nowhere in one queue.
LEMMA PushEffect ==
    ASSUME Lined(global, local, buffer), NEW j \in Jobs, ~Somewhere(j, global, local, buffer),
           \/ global' = Append(global, j) /\ local' = local
           \/ /\ Pin[j] \in Workers /\ global' = global
              /\ local' = [local EXCEPT ![Pin[j]] = Append(local[Pin[j]], j)],
           buffer' = buffer
    PROVE  /\ Lined(global', local', buffer')
           /\ \A x \in Jobs : Somewhere(x, global', local', buffer')
                                <=> Somewhere(x, global, local, buffer) \/ x = j
<1>1. /\ ~InQueue(j, global)
      /\ \A w \in Workers : ~InQueue(j, local[w]) /\ ~InQueue(j, buffer[w])
  BY DEF Somewhere
<1>2. CASE global' = Append(global, j) /\ local' = local
  <2>1. /\ global' \in Seq(Jobs) /\ NoRepeat(global')
        /\ \A x : InQueue(x, global') <=> InQueue(x, global) \/ x = j
    BY <1>1, <1>2, AppendQueue DEF Lined
  <2>2. Lined(global', local', buffer')
    BY <1>1, <1>2, <2>1 DEF Lined
  <2> QED BY <1>2, <2>1, <2>2 DEF Somewhere
<1>3. CASE /\ Pin[j] \in Workers /\ global' = global
           /\ local' = [local EXCEPT ![Pin[j]] = Append(local[Pin[j]], j)]
  <2>1. /\ Append(local[Pin[j]], j) \in Seq(Jobs) /\ NoRepeat(Append(local[Pin[j]], j))
        /\ \A x : InQueue(x, Append(local[Pin[j]], j)) <=> InQueue(x, local[Pin[j]]) \/ x = j
    <3>1. local[Pin[j]] \in Seq(Jobs) /\ NoRepeat(local[Pin[j]])
      BY <1>3 DEF Lined
    <3> QED BY <1>1, <1>3, <3>1, AppendQueue
  <2>2. /\ local' \in [Workers -> Seq(Jobs)] /\ local'[Pin[j]] = Append(local[Pin[j]], j)
        /\ \A v \in Workers : v # Pin[j] => local'[v] = local[v]
        /\ \A v \in Workers : NoRepeat(local'[v])
    BY <1>3, <2>1 DEF Lined
  <2>3. \A x \in Jobs, v \in Workers :
          InQueue(x, local'[v]) <=> InQueue(x, local[v]) \/ (x = j /\ v = Pin[j])
    BY <2>1, <2>2
  <2>4. Lined(global', local', buffer')
    BY <1>1, <1>3, <2>2, <2>3 DEF Lined
  <2> QED BY <1>3, <2>3, <2>4 DEF Somewhere
<1> QED BY <1>2, <1>3

-----------------------------------------------------------------------------
(* The inductive invariant *)

\* A job is in a queue exactly while it is accepted and no worker has it; a future
\* exists from the moment it is tracked, and is completed before its job is over.
JobsOK ==
    \A j \in Jobs :
        /\ spc[j] \in {"new", "resolved"} => fut[j] = "none"
        /\ spc[j] \in {"tracked", "overflow", "notify", "returned"} => fut[j] # "none"
        /\ spc[j] = "overflow" => Pin[j] # NoWorker
        /\ Somewhere(j, global, local, buffer) <=> Accepted(j) /\ job[j] = "queued"
        /\ job[j] # "queued" => Accepted(j) /\ at[j] \in Workers
        /\ job[j] = "queued" => at[j] = NoWorker
        /\ job[j] \in {"reported", "over"} => fut[j] \notin {"none", "pending"}

Early == {"off", "native", "drain", "stop"}
Late == {"sweep", "done", "raised"}

\* How far the shutdown is, and what it has done so far to the native queues and
\* to the loops.
PhaseOK ==
    /\ cpc = "off" <=> mode = "none"
    /\ running => cpc = "off" /\ \A w \in Workers : loop[w] = "up"
    /\ cpc = "off" => nclose = 0
    /\ cpc = "native" => nclose < 3
    /\ cpc \notin {"off", "native"} => nclose = 3
    /\ cpc # "off" => \A w \in Workers : loop[w] # "none"
    /\ cpc \in Early => stops = {} /\ \A w \in Workers : loop[w] \in {"none", "up"}
    /\ cpc \in Late => joined = Workers
    /\ clean => cpc \notin {"off", "native", "drain"}

\* A thread that ended has no job left; one that was joined has ended, or was
\* blocked by a job.
ThreadsOK ==
    /\ \A w \in Workers, j \in Jobs : at[j] = w /\ loop[w] = "down" => job[j] = "over"
    /\ \A w \in joined : \/ loop[w] = "down"
                         \/ \E k \in Stubborn : job[k] # "queued" /\ at[k] = w

\* Who completes a future that is pending, when it is close() that ends the pool;
\* and when a future may be completed by anything but its job.
FuturesOK ==
    /\ \A j \in Jobs :
         /\ fut[j] = "closed" => cpc \in Late
         /\ fut[j] = "cancelled" => cpc \notin Early
         /\ mode # "abort" /\ fut[j] = "pending" /\ spc[j] # "refused" =>
              IF cpc \in Late /\ Accepted(j) THEN j \in swept ELSE j \in outstanding \cup swept
    /\ mode # "abort" /\ cpc \notin Late => swept = {}
    /\ cpc = "done" => swept = {}
    /\ cpc = "raised" => Coroutines \cap Stubborn # {}

PoolInv ==
    /\ TypeOK /\ Lined(global, local, buffer) /\ JobsOK /\ PhaseOK /\ ThreadsOK /\ FuturesOK
    /\ ClosedMeansNeverRan /\ GracefulDrain /\ NoLostWakeup

-----------------------------------------------------------------------------
(* One lemma per part of the invariant, one step per action *)

\* The queues and the jobs in them keep in step.
LEMMA QueueStep ==
    ASSUME PoolInv, Next
    PROVE  Lined(global', local', buffer') /\ JobsOK'
<1> USE DEF queues, dispatch, execution, shutdown
<1>1. ASSUME Start PROVE Lined(global', local', buffer') /\ JobsOK'
  BY <1>1 DEF PoolInv, TypeOK, JobsOK, Accepted, Start
<1>2. ASSUME ShutdownAgain PROVE Lined(global', local', buffer') /\ JobsOK'
  BY <1>2 DEF PoolInv, TypeOK, JobsOK, Accepted, ShutdownAgain
<1>3. ASSUME NEW m \in Modes, ShutdownBegin(m) PROVE Lined(global', local', buffer') /\ JobsOK'
  BY <1>3 DEF PoolInv, TypeOK, JobsOK, Accepted, ShutdownBegin, CGoto
<1>4. ASSUME NativeClose PROVE Lined(global', local', buffer') /\ JobsOK'
  BY <1>4 DEF PoolInv, TypeOK, JobsOK, Accepted, NativeClose
<1>5. ASSUME DrainEnd PROVE Lined(global', local', buffer') /\ JobsOK'
  BY <1>5 DEF PoolInv, TypeOK, JobsOK, Accepted, DrainEnd, CGoto
<1>6. ASSUME PostStops PROVE Lined(global', local', buffer') /\ JobsOK'
  BY <1>6 DEF PoolInv, TypeOK, JobsOK, Accepted, PostStops, CGoto
<1>7. ASSUME SweepBegin PROVE Lined(global', local', buffer') /\ JobsOK'
  BY <1>7 DEF PoolInv, TypeOK, JobsOK, Accepted, SweepBegin, CGoto, Leftover
<1>8. ASSUME SweepEnd PROVE Lined(global', local', buffer') /\ JobsOK'
  BY <1>8 DEF PoolInv, TypeOK, JobsOK, Accepted, SweepEnd, CGoto
<1>9. ASSUME NEW w \in Workers, Join(w) PROVE Lined(global', local', buffer') /\ JobsOK'
  BY <1>9 DEF PoolInv, TypeOK, JobsOK, Accepted, Join, ThreadOver, Blocked
<1>10. ASSUME NEW j \in Jobs, Sweep(j) PROVE Lined(global', local', buffer') /\ JobsOK'
  BY <1>10 DEF PoolInv, TypeOK, JobsOK, Accepted, Sweep, CGoto, Complete
<1>11. ASSUME NEW j \in Jobs, SubmitResolve(j) PROVE Lined(global', local', buffer') /\ JobsOK'
  BY <1>11 DEF PoolInv, TypeOK, JobsOK, Accepted, SubmitResolve, SGoto
<1>12. ASSUME NEW j \in Jobs, SubmitTrack(j) PROVE Lined(global', local', buffer') /\ JobsOK'
  BY <1>12 DEF PoolInv, TypeOK, JobsOK, Accepted, SubmitTrack, SGoto
<1>13. ASSUME NEW j \in Jobs, SubmitPush(j) PROVE Lined(global', local', buffer') /\ JobsOK'
  <2>0. /\ fut' = fut /\ job' = job /\ at' = at
        /\ spc[j] \in {"tracked", "overflow"}
    BY <1>13 DEF SubmitPush, PoolInv, TypeOK
  <2>1. ~Somewhere(j, global, local, buffer) /\ job[j] = "queued"
    BY <2>0 DEF PoolInv, JobsOK, Accepted
  <2>2. ASSUME \/ global' = Append(global, j) /\ local' = local
               \/ /\ Pin[j] \in Workers /\ global' = global
                  /\ local' = [local EXCEPT ![Pin[j]] = Append(local[Pin[j]], j)],
               buffer' = buffer, spc' = [spc EXCEPT ![j] = "notify"]
        PROVE  Lined(global', local', buffer') /\ JobsOK'
    <3>1. /\ Lined(global', local', buffer')
          /\ \A x \in Jobs : Somewhere(x, global', local', buffer')
                               <=> Somewhere(x, global, local, buffer) \/ x = j
      BY <2>1, <2>2, PushEffect DEF PoolInv
    <3>2. JobsOK'
      BY <2>0, <2>1, <2>2, <3>1 DEF PoolInv, TypeOK, JobsOK, Accepted
    <3> QED BY <3>1, <3>2
  <2>3. ASSUME UNCHANGED queues, NEW to \in {"overflow", "refused"},
               spc' = [spc EXCEPT ![j] = to], to = "overflow" => Pin[j] # NoWorker
        PROVE  Lined(global', local', buffer') /\ JobsOK'
    BY <2>0, <2>1, <2>3 DEF PoolInv, TypeOK, JobsOK, Accepted
  <2>4. Pin[j] # NoWorker => Pin[j] \in Workers
    BY PoolAssumption
  <2> QED BY <1>13, <2>2, <2>3, <2>4 DEF SubmitPush, push_global, push_local, Refuse, SGoto
<1>14. ASSUME NEW j \in Jobs, SubmitNotify(j) PROVE Lined(global', local', buffer') /\ JobsOK'
  BY <1>14 DEF PoolInv, TypeOK, JobsOK, Accepted, SubmitNotify, SGoto
<1>15. ASSUME NEW j \in Jobs, JobStart(j) PROVE Lined(global', local', buffer') /\ JobsOK'
  BY <1>15 DEF PoolInv, TypeOK, JobsOK, Accepted, JobStart, JGoto, JobStep
<1>16. ASSUME NEW j \in Jobs, JobEnd(j) PROVE Lined(global', local', buffer') /\ JobsOK'
  BY <1>16 DEF PoolInv, TypeOK, JobsOK, Accepted, JobEnd, JGoto, JobStep, Complete
<1>17. ASSUME NEW j \in Jobs, JobCancelled(j) PROVE Lined(global', local', buffer') /\ JobsOK'
  BY <1>17 DEF PoolInv, TypeOK, JobsOK, Accepted, JobCancelled, JGoto, JobStep, Complete
<1>18. ASSUME NEW j \in Jobs, JobDiscard(j) PROVE Lined(global', local', buffer') /\ JobsOK'
  BY <1>18 DEF PoolInv, TypeOK, JobsOK, Accepted, JobDiscard, JGoto, JobStep
<1>19. ASSUME NEW w \in Workers, Drain(w) PROVE Lined(global', local', buffer') /\ JobsOK'
  <2>1. ASSUME NEW j \in Jobs, pop_work(w, j), Spawn(w, j), UNCHANGED <<spc, fut>>
       PROVE  Lined(global', local', buffer') /\ JobsOK'
    <3>1. /\ Lined(global', local', buffer')
          /\ Somewhere(j, global, local, buffer)
          /\ \A x \in Jobs : Somewhere(x, global', local', buffer')
                               <=> Somewhere(x, global, local, buffer) /\ x # j
      BY <2>1, PopEffect DEF PoolInv
    <3>2. Accepted(j) /\ job[j] = "queued"
      BY <3>1 DEF PoolInv, JobsOK
    <3>3. /\ job' = [job EXCEPT ![j] = "created"] /\ at' = [at EXCEPT ![j] = w]
          /\ spc' = spc /\ fut' = fut
      BY <2>1 DEF Spawn
    <3>4. JobsOK'
      BY <3>1, <3>2, <3>3 DEF PoolInv, TypeOK, JobsOK, Accepted
    <3> QED BY <3>1, <3>4
  <2>2. ASSUME UNCHANGED <<queues, execution, spc, fut>>
       PROVE  Lined(global', local', buffer') /\ JobsOK'
    BY <2>2 DEF PoolInv, JobsOK, Accepted
  <2> QED BY <1>19, <2>1, <2>2 DEF Drain, PopNone
<1>20. ASSUME NEW w \in Workers, Check(w) PROVE Lined(global', local', buffer') /\ JobsOK'
  BY <1>20 DEF PoolInv, TypeOK, JobsOK, Accepted, Check, DGoto
<1>21. ASSUME NEW w \in Workers, Quiesce(w) PROVE Lined(global', local', buffer') /\ JobsOK'
  <2>1. ASSUME NEW j \in Jobs, pop_work(w, j), Spawn(w, j), UNCHANGED <<spc, fut>>
       PROVE  Lined(global', local', buffer') /\ JobsOK'
    <3>1. /\ Lined(global', local', buffer')
          /\ Somewhere(j, global, local, buffer)
          /\ \A x \in Jobs : Somewhere(x, global', local', buffer')
                               <=> Somewhere(x, global, local, buffer) /\ x # j
      BY <2>1, PopEffect DEF PoolInv
    <3>2. Accepted(j) /\ job[j] = "queued"
      BY <3>1 DEF PoolInv, JobsOK
    <3>3. /\ job' = [job EXCEPT ![j] = "created"] /\ at' = [at EXCEPT ![j] = w]
          /\ spc' = spc /\ fut' = fut
      BY <2>1 DEF Spawn
    <3>4. JobsOK'
      BY <3>1, <3>2, <3>3 DEF PoolInv, TypeOK, JobsOK, Accepted
    <3> QED BY <3>1, <3>4
  <2>2. ASSUME UNCHANGED <<queues, execution, spc, fut>>
       PROVE  Lined(global', local', buffer') /\ JobsOK'
    BY <2>2 DEF PoolInv, JobsOK, Accepted
  <2> QED BY <1>21, <2>1, <2>2 DEF Quiesce, PopNone
<1>22. ASSUME NEW w \in Workers, Park(w) PROVE Lined(global', local', buffer') /\ JobsOK'
  BY <1>22 DEF PoolInv, TypeOK, JobsOK, Accepted, Park, DGoto
<1>23. ASSUME NEW w \in Workers, Unpark(w) PROVE Lined(global', local', buffer') /\ JobsOK'
  BY <1>23 DEF PoolInv, TypeOK, JobsOK, Accepted, Unpark, DGoto
<1>24. ASSUME NEW w \in Workers, SetEvent(w) PROVE Lined(global', local', buffer') /\ JobsOK'
  BY <1>24 DEF PoolInv, TypeOK, JobsOK, Accepted, SetEvent
<1>25. ASSUME NEW w \in Workers, LoopStop(w) PROVE Lined(global', local', buffer') /\ JobsOK'
  BY <1>25 DEF PoolInv, TypeOK, JobsOK, Accepted, LoopStop, DGoto
<1>26. ASSUME NEW w \in Workers, LoopClose(w) PROVE Lined(global', local', buffer') /\ JobsOK'
  BY <1>26 DEF PoolInv, TypeOK, JobsOK, Accepted, LoopClose
<1> QED BY <1>1, <1>2, <1>3, <1>4, <1>5, <1>6, <1>7, <1>8, <1>9, <1>10, <1>11, <1>12, <1>13, <1>14, <1>15, <1>16, <1>17, <1>18, <1>19, <1>20, <1>21, <1>22, <1>23, <1>24, <1>25, <1>26 DEF Next, Closer, Submit, Execute, Dispatcher, Thread

\* Every variable keeps its type.
LEMMA TypeStep ==
    ASSUME PoolInv, Next
    PROVE  TypeOK'
<1> USE DEF queues, dispatch, execution, shutdown
<1>1. ASSUME Start PROVE TypeOK'
  BY <1>1 DEF PoolInv, TypeOK, Start
<1>2. ASSUME ShutdownAgain PROVE TypeOK'
  BY <1>2 DEF PoolInv, TypeOK, ShutdownAgain
<1>3. ASSUME NEW m \in Modes, ShutdownBegin(m) PROVE TypeOK'
  BY <1>3, PoolAssumption DEF PoolInv, TypeOK, ShutdownBegin, CGoto
<1>4. ASSUME NativeClose PROVE TypeOK'
  BY <1>4 DEF PoolInv, TypeOK, PhaseOK, NativeClose
<1>5. ASSUME DrainEnd PROVE TypeOK'
  BY <1>5 DEF PoolInv, TypeOK, DrainEnd, CGoto
<1>6. ASSUME PostStops PROVE TypeOK'
  BY <1>6 DEF PoolInv, TypeOK, PostStops, CGoto
<1>7. ASSUME SweepBegin PROVE TypeOK'
  BY <1>7 DEF PoolInv, TypeOK, SweepBegin, CGoto, Leftover
<1>8. ASSUME SweepEnd PROVE TypeOK'
  BY <1>8 DEF PoolInv, TypeOK, SweepEnd, CGoto
<1>9. ASSUME NEW w \in Workers, Join(w) PROVE TypeOK'
  BY <1>9 DEF PoolInv, TypeOK, Join, ThreadOver, Blocked
<1>10. ASSUME NEW j \in Jobs, Sweep(j) PROVE TypeOK'
  BY <1>10 DEF PoolInv, TypeOK, Sweep, CGoto, Complete
<1>11. ASSUME NEW j \in Jobs, SubmitResolve(j) PROVE TypeOK'
  BY <1>11 DEF PoolInv, TypeOK, SubmitResolve, SGoto
<1>12. ASSUME NEW j \in Jobs, SubmitTrack(j) PROVE TypeOK'
  BY <1>12 DEF PoolInv, TypeOK, SubmitTrack, SGoto
<1>13. ASSUME NEW j \in Jobs, SubmitPush(j) PROVE TypeOK'
  <2>1. /\ global' \in Seq(Jobs) /\ local' \in [Workers -> Seq(Jobs)]
        /\ buffer' \in [Workers -> Seq(Jobs)]
    BY QueueStep DEF Lined
  <2> QED BY <1>13, <2>1 DEF PoolInv, TypeOK, SubmitPush, push_global, push_local, Refuse, SGoto
<1>14. ASSUME NEW j \in Jobs, SubmitNotify(j) PROVE TypeOK'
  <2>1. NotifyTargets(j) \subseteq Workers
    BY PoolAssumption DEF PoolInv, TypeOK, NotifyTargets
  <2> QED BY <1>14, <2>1 DEF PoolInv, TypeOK, SubmitNotify, SGoto
<1>15. ASSUME NEW j \in Jobs, JobStart(j) PROVE TypeOK'
  BY <1>15 DEF PoolInv, TypeOK, JobStart, JGoto, JobStep
<1>16. ASSUME NEW j \in Jobs, JobEnd(j) PROVE TypeOK'
  BY <1>16 DEF PoolInv, TypeOK, JobEnd, JGoto, JobStep, Complete
<1>17. ASSUME NEW j \in Jobs, JobCancelled(j) PROVE TypeOK'
  BY <1>17 DEF PoolInv, TypeOK, JobCancelled, JGoto, JobStep, Complete
<1>18. ASSUME NEW j \in Jobs, JobDiscard(j) PROVE TypeOK'
  BY <1>18 DEF PoolInv, TypeOK, JobDiscard, JGoto, JobStep
<1>19. ASSUME NEW w \in Workers, Drain(w) PROVE TypeOK'
  <2>1. /\ global' \in Seq(Jobs) /\ local' \in [Workers -> Seq(Jobs)]
        /\ buffer' \in [Workers -> Seq(Jobs)]
    BY QueueStep DEF Lined
  <2> QED BY <1>19, <2>1 DEF PoolInv, TypeOK, Drain, Spawn, DGoto, PopNone
<1>20. ASSUME NEW w \in Workers, Check(w) PROVE TypeOK'
  BY <1>20 DEF PoolInv, TypeOK, Check, DGoto
<1>21. ASSUME NEW w \in Workers, Quiesce(w) PROVE TypeOK'
  <2>1. /\ global' \in Seq(Jobs) /\ local' \in [Workers -> Seq(Jobs)]
        /\ buffer' \in [Workers -> Seq(Jobs)]
    BY QueueStep DEF Lined
  <2>2. /\ event' \subseteq Workers
        /\ disp' \in [Workers -> {"off", "drain", "check", "quiesce", "parking", "idle", "exited"}]
    BY <1>21 DEF PoolInv, TypeOK, Quiesce, DGoto
  <2>3. /\ job' \in [Jobs -> {"queued", "created", "running", "reported", "over"}]
        /\ at' \in [Jobs -> Workers \cup {NoWorker}]
    BY <1>21 DEF PoolInv, TypeOK, Quiesce, Spawn
  <2> QED BY <1>21, <2>1, <2>2, <2>3 DEF PoolInv, TypeOK, Quiesce
<1>22. ASSUME NEW w \in Workers, Park(w) PROVE TypeOK'
  BY <1>22 DEF PoolInv, TypeOK, Park, DGoto
<1>23. ASSUME NEW w \in Workers, Unpark(w) PROVE TypeOK'
  BY <1>23 DEF PoolInv, TypeOK, Unpark, DGoto
<1>24. ASSUME NEW w \in Workers, SetEvent(w) PROVE TypeOK'
  BY <1>24 DEF PoolInv, TypeOK, SetEvent
<1>25. ASSUME NEW w \in Workers, LoopStop(w) PROVE TypeOK'
  BY <1>25 DEF PoolInv, TypeOK, LoopStop, DGoto
<1>26. ASSUME NEW w \in Workers, LoopClose(w) PROVE TypeOK'
  BY <1>26 DEF PoolInv, TypeOK, LoopClose
<1> QED BY <1>1, <1>2, <1>3, <1>4, <1>5, <1>6, <1>7, <1>8, <1>9, <1>10, <1>11, <1>12, <1>13, <1>14, <1>15, <1>16, <1>17, <1>18, <1>19, <1>20, <1>21, <1>22, <1>23, <1>24, <1>25, <1>26 DEF Next, Closer, Submit, Execute, Dispatcher, Thread

\* The phases of a shutdown follow each other.
LEMMA PhaseStep ==
    ASSUME PoolInv, Next
    PROVE  PhaseOK'
<1> USE DEF queues, dispatch, execution, shutdown
<1>1. ASSUME Start PROVE PhaseOK'
  BY <1>1, PoolAssumption DEF PoolInv, TypeOK, PhaseOK, Early, Late, Start
<1>2. ASSUME ShutdownAgain PROVE PhaseOK'
  BY <1>2, PoolAssumption DEF PoolInv, TypeOK, PhaseOK, Early, Late, ShutdownAgain
<1>3. ASSUME NEW m \in Modes, ShutdownBegin(m) PROVE PhaseOK'
  BY <1>3, PoolAssumption DEF PoolInv, TypeOK, PhaseOK, Early, Late, ShutdownBegin, CGoto
<1>4. ASSUME NativeClose PROVE PhaseOK'
  BY <1>4, PoolAssumption DEF PoolInv, TypeOK, PhaseOK, Early, Late, NativeClose
<1>5. ASSUME DrainEnd PROVE PhaseOK'
  BY <1>5, PoolAssumption DEF PoolInv, TypeOK, PhaseOK, Early, Late, DrainEnd, CGoto
<1>6. ASSUME PostStops PROVE PhaseOK'
  BY <1>6, PoolAssumption DEF PoolInv, TypeOK, PhaseOK, Early, Late, PostStops, CGoto
<1>7. ASSUME SweepBegin PROVE PhaseOK'
  BY <1>7, PoolAssumption DEF PoolInv, TypeOK, PhaseOK, Early, Late, SweepBegin, CGoto, Leftover
<1>8. ASSUME SweepEnd PROVE PhaseOK'
  BY <1>8, PoolAssumption DEF PoolInv, TypeOK, PhaseOK, Early, Late, SweepEnd, CGoto
<1>9. ASSUME NEW w \in Workers, Join(w) PROVE PhaseOK'
  BY <1>9, PoolAssumption DEF PoolInv, TypeOK, PhaseOK, Early, Late, Join, ThreadOver, Blocked
<1>10. ASSUME NEW j \in Jobs, Sweep(j) PROVE PhaseOK'
  BY <1>10, PoolAssumption DEF PoolInv, TypeOK, PhaseOK, Early, Late, Sweep, CGoto, Complete
<1>11. ASSUME NEW j \in Jobs, SubmitResolve(j) PROVE PhaseOK'
  BY <1>11, PoolAssumption DEF PoolInv, TypeOK, PhaseOK, Early, Late, SubmitResolve, SGoto
<1>12. ASSUME NEW j \in Jobs, SubmitTrack(j) PROVE PhaseOK'
  BY <1>12, PoolAssumption DEF PoolInv, TypeOK, PhaseOK, Early, Late, SubmitTrack, SGoto
<1>13. ASSUME NEW j \in Jobs, SubmitPush(j) PROVE PhaseOK'
  BY <1>13 DEF PoolInv, TypeOK, PhaseOK, Early, Late, SubmitPush
<1>14. ASSUME NEW j \in Jobs, SubmitNotify(j) PROVE PhaseOK'
  BY <1>14, PoolAssumption DEF PoolInv, TypeOK, PhaseOK, Early, Late, SubmitNotify, SGoto
<1>15. ASSUME NEW j \in Jobs, JobStart(j) PROVE PhaseOK'
  BY <1>15, PoolAssumption DEF PoolInv, TypeOK, PhaseOK, Early, Late, JobStart, JGoto, JobStep
<1>16. ASSUME NEW j \in Jobs, JobEnd(j) PROVE PhaseOK'
  BY <1>16, PoolAssumption DEF PoolInv, TypeOK, PhaseOK, Early, Late, JobEnd, JGoto, JobStep, Complete
<1>17. ASSUME NEW j \in Jobs, JobCancelled(j) PROVE PhaseOK'
  BY <1>17, PoolAssumption DEF PoolInv, TypeOK, PhaseOK, Early, Late, JobCancelled, JGoto, JobStep, Complete
<1>18. ASSUME NEW j \in Jobs, JobDiscard(j) PROVE PhaseOK'
  BY <1>18, PoolAssumption DEF PoolInv, TypeOK, PhaseOK, Early, Late, JobDiscard, JGoto, JobStep
<1>19. ASSUME NEW w \in Workers, Drain(w) PROVE PhaseOK'
  BY <1>19 DEF PoolInv, TypeOK, PhaseOK, Early, Late, Drain
<1>20. ASSUME NEW w \in Workers, Check(w) PROVE PhaseOK'
  BY <1>20, PoolAssumption DEF PoolInv, TypeOK, PhaseOK, Early, Late, Check, DGoto
<1>21. ASSUME NEW w \in Workers, Quiesce(w) PROVE PhaseOK'
  BY <1>21 DEF PoolInv, TypeOK, PhaseOK, Early, Late, Quiesce
<1>22. ASSUME NEW w \in Workers, Park(w) PROVE PhaseOK'
  BY <1>22, PoolAssumption DEF PoolInv, TypeOK, PhaseOK, Early, Late, Park, DGoto
<1>23. ASSUME NEW w \in Workers, Unpark(w) PROVE PhaseOK'
  BY <1>23, PoolAssumption DEF PoolInv, TypeOK, PhaseOK, Early, Late, Unpark, DGoto
<1>24. ASSUME NEW w \in Workers, SetEvent(w) PROVE PhaseOK'
  BY <1>24, PoolAssumption DEF PoolInv, TypeOK, PhaseOK, Early, Late, SetEvent
<1>25. ASSUME NEW w \in Workers, LoopStop(w) PROVE PhaseOK'
  BY <1>25, PoolAssumption DEF PoolInv, TypeOK, PhaseOK, Early, Late, LoopStop, DGoto
<1>26. ASSUME NEW w \in Workers, LoopClose(w) PROVE PhaseOK'
  BY <1>26, PoolAssumption DEF PoolInv, TypeOK, PhaseOK, Early, Late, LoopClose
<1> QED BY <1>1, <1>2, <1>3, <1>4, <1>5, <1>6, <1>7, <1>8, <1>9, <1>10, <1>11, <1>12, <1>13, <1>14, <1>15, <1>16, <1>17, <1>18, <1>19, <1>20, <1>21, <1>22, <1>23, <1>24, <1>25, <1>26 DEF Next, Closer, Submit, Execute, Dispatcher, Thread

\* A thread that ended, or was joined, is not given a job.
LEMMA ThreadsStep ==
    ASSUME PoolInv, Next
    PROVE  ThreadsOK'
<1> USE DEF queues, dispatch, execution, shutdown
<1>1. ASSUME Start PROVE ThreadsOK'
  BY <1>1 DEF PoolInv, TypeOK, ThreadsOK, Start
<1>2. ASSUME ShutdownAgain PROVE ThreadsOK'
  BY <1>2 DEF PoolInv, TypeOK, ThreadsOK, ShutdownAgain
<1>3. ASSUME NEW m \in Modes, ShutdownBegin(m) PROVE ThreadsOK'
  BY <1>3 DEF PoolInv, TypeOK, ThreadsOK, ShutdownBegin, CGoto
<1>4. ASSUME NativeClose PROVE ThreadsOK'
  BY <1>4 DEF PoolInv, TypeOK, ThreadsOK, NativeClose
<1>5. ASSUME DrainEnd PROVE ThreadsOK'
  BY <1>5 DEF PoolInv, TypeOK, ThreadsOK, DrainEnd, CGoto
<1>6. ASSUME PostStops PROVE ThreadsOK'
  BY <1>6 DEF PoolInv, TypeOK, ThreadsOK, PostStops, CGoto
<1>7. ASSUME SweepBegin PROVE ThreadsOK'
  BY <1>7 DEF PoolInv, TypeOK, ThreadsOK, SweepBegin, CGoto
<1>8. ASSUME SweepEnd PROVE ThreadsOK'
  BY <1>8 DEF PoolInv, TypeOK, ThreadsOK, SweepEnd, CGoto
<1>9. ASSUME NEW w \in Workers, Join(w) PROVE ThreadsOK'
  BY <1>9 DEF PoolInv, TypeOK, ThreadsOK, Join, ThreadOver, Blocked
<1>10. ASSUME NEW j \in Jobs, Sweep(j) PROVE ThreadsOK'
  BY <1>10 DEF PoolInv, TypeOK, ThreadsOK, Sweep, CGoto, Complete
<1>11. ASSUME NEW j \in Jobs, SubmitResolve(j) PROVE ThreadsOK'
  BY <1>11 DEF PoolInv, TypeOK, ThreadsOK, SubmitResolve, SGoto
<1>12. ASSUME NEW j \in Jobs, SubmitTrack(j) PROVE ThreadsOK'
  BY <1>12 DEF PoolInv, TypeOK, ThreadsOK, SubmitTrack, SGoto
<1>13. ASSUME NEW j \in Jobs, SubmitPush(j) PROVE ThreadsOK'
  BY <1>13 DEF PoolInv, TypeOK, ThreadsOK, SubmitPush
<1>14. ASSUME NEW j \in Jobs, SubmitNotify(j) PROVE ThreadsOK'
  BY <1>14 DEF PoolInv, TypeOK, ThreadsOK, SubmitNotify, SGoto
<1>15. ASSUME NEW j \in Jobs, JobStart(j) PROVE ThreadsOK'
  <2>1. /\ loop' = loop /\ joined' = joined /\ at' = at /\ Stubborn \subseteq Jobs
        /\ job[j] = "created" /\ job' = [job EXCEPT ![j] = "running"]
    BY <1>15, PoolAssumption DEF JobStart, JGoto, JobStep
  <2> QED BY <2>1 DEF PoolInv, TypeOK, ThreadsOK
<1>16. ASSUME NEW j \in Jobs, JobEnd(j) PROVE ThreadsOK'
  <2>1. /\ loop' = loop /\ joined' = joined /\ at' = at /\ Stubborn \subseteq Jobs
        /\ job[j] = "running" /\ job' = [job EXCEPT ![j] = "reported"]
    BY <1>16, PoolAssumption DEF JobEnd, JGoto, JobStep
  <2> QED BY <2>1 DEF PoolInv, TypeOK, ThreadsOK
<1>17. ASSUME NEW j \in Jobs, JobCancelled(j) PROVE ThreadsOK'
  <2>1. /\ loop' = loop /\ joined' = joined /\ at' = at /\ Stubborn \subseteq Jobs
        /\ job[j] = "running" /\ job' = [job EXCEPT ![j] = "reported"]
    BY <1>17, PoolAssumption DEF JobCancelled, JGoto, JobStep
  <2> QED BY <2>1 DEF PoolInv, TypeOK, ThreadsOK
<1>18. ASSUME NEW j \in Jobs, JobDiscard(j) PROVE ThreadsOK'
  <2>1. /\ loop' = loop /\ joined' = joined /\ at' = at /\ Stubborn \subseteq Jobs
        /\ job[j] = "reported" /\ job' = [job EXCEPT ![j] = "over"]
    BY <1>18, PoolAssumption DEF JobDiscard, JGoto, JobStep
  <2> QED BY <2>1 DEF PoolInv, TypeOK, ThreadsOK
<1>19. ASSUME NEW w \in Workers, Drain(w) PROVE ThreadsOK'
  <2>1. loop' = loop /\ joined' = joined /\ loop[w] # "down"
    BY <1>19 DEF Drain, Turn
  <2>2. ASSUME NEW j \in Jobs, pop_work(w, j), Spawn(w, j) PROVE ThreadsOK'
    <3>1. job[j] = "queued"
      <4>1. Somewhere(j, global, local, buffer)
        BY <2>2, PopEffect DEF PoolInv
      <4> QED BY <4>1 DEF PoolInv, JobsOK
    <3>2. /\ \A x \in Jobs : job[x] # "queued" => job'[x] = job[x] /\ at'[x] = at[x]
          /\ \A x \in Jobs : x # j => job'[x] = job[x] /\ at'[x] = at[x]
          /\ at'[j] = w /\ Stubborn \subseteq Jobs
      BY <2>2, <3>1, PoolAssumption DEF PoolInv, TypeOK, Spawn
    <3> QED BY <2>1, <3>2 DEF PoolInv, ThreadsOK
  <2>3. ASSUME UNCHANGED execution PROVE ThreadsOK'
    BY <2>1, <2>3 DEF PoolInv, ThreadsOK
  <2> QED BY <1>19, <2>2, <2>3 DEF Drain
<1>20. ASSUME NEW w \in Workers, Check(w) PROVE ThreadsOK'
  BY <1>20 DEF PoolInv, TypeOK, ThreadsOK, Check, DGoto
<1>21. ASSUME NEW w \in Workers, Quiesce(w) PROVE ThreadsOK'
  <2>1. loop' = loop /\ joined' = joined /\ loop[w] # "down"
    BY <1>21 DEF Quiesce, Turn
  <2>2. ASSUME NEW j \in Jobs, pop_work(w, j), Spawn(w, j) PROVE ThreadsOK'
    <3>1. job[j] = "queued"
      <4>1. Somewhere(j, global, local, buffer)
        BY <2>2, PopEffect DEF PoolInv
      <4> QED BY <4>1 DEF PoolInv, JobsOK
    <3>2. /\ \A x \in Jobs : job[x] # "queued" => job'[x] = job[x] /\ at'[x] = at[x]
          /\ \A x \in Jobs : x # j => job'[x] = job[x] /\ at'[x] = at[x]
          /\ at'[j] = w /\ Stubborn \subseteq Jobs
      BY <2>2, <3>1, PoolAssumption DEF PoolInv, TypeOK, Spawn
    <3> QED BY <2>1, <3>2 DEF PoolInv, ThreadsOK
  <2>3. ASSUME UNCHANGED execution PROVE ThreadsOK'
    BY <2>1, <2>3 DEF PoolInv, ThreadsOK
  <2> QED BY <1>21, <2>2, <2>3 DEF Quiesce
<1>22. ASSUME NEW w \in Workers, Park(w) PROVE ThreadsOK'
  BY <1>22 DEF PoolInv, TypeOK, ThreadsOK, Park, DGoto
<1>23. ASSUME NEW w \in Workers, Unpark(w) PROVE ThreadsOK'
  BY <1>23 DEF PoolInv, TypeOK, ThreadsOK, Unpark, DGoto
<1>24. ASSUME NEW w \in Workers, SetEvent(w) PROVE ThreadsOK'
  BY <1>24 DEF PoolInv, TypeOK, ThreadsOK, SetEvent
<1>25. ASSUME NEW w \in Workers, LoopStop(w) PROVE ThreadsOK'
  BY <1>25 DEF PoolInv, TypeOK, ThreadsOK, LoopStop, DGoto
<1>26. ASSUME NEW w \in Workers, LoopClose(w) PROVE ThreadsOK'
  BY <1>26 DEF PoolInv, TypeOK, ThreadsOK, LoopClose
<1> QED BY <1>1, <1>2, <1>3, <1>4, <1>5, <1>6, <1>7, <1>8, <1>9, <1>10, <1>11, <1>12, <1>13, <1>14, <1>15, <1>16, <1>17, <1>18, <1>19, <1>20, <1>21, <1>22, <1>23, <1>24, <1>25, <1>26 DEF Next, Closer, Submit, Execute, Dispatcher, Thread

\* A pending future stays with those who must complete it.
LEMMA FuturesStep ==
    ASSUME PoolInv, Next
    PROVE  FuturesOK'
<1> USE DEF queues, dispatch, execution, shutdown
<1>1. ASSUME Start PROVE FuturesOK'
  BY <1>1 DEF PoolInv, TypeOK, PhaseOK, FuturesOK, Accepted, Early, Late, Start
<1>2. ASSUME ShutdownAgain PROVE FuturesOK'
  BY <1>2 DEF PoolInv, TypeOK, PhaseOK, FuturesOK, Accepted, Early, Late, ShutdownAgain
<1>3. ASSUME NEW m \in Modes, ShutdownBegin(m) PROVE FuturesOK'
  BY <1>3 DEF PoolInv, TypeOK, PhaseOK, FuturesOK, Accepted, Early, Late, ShutdownBegin, CGoto
<1>4. ASSUME NativeClose PROVE FuturesOK'
  BY <1>4 DEF PoolInv, TypeOK, PhaseOK, FuturesOK, Accepted, Early, Late, NativeClose
<1>5. ASSUME DrainEnd PROVE FuturesOK'
  BY <1>5 DEF PoolInv, TypeOK, PhaseOK, FuturesOK, Accepted, Early, Late, DrainEnd, CGoto
<1>6. ASSUME PostStops PROVE FuturesOK'
  BY <1>6 DEF PoolInv, TypeOK, PhaseOK, FuturesOK, Accepted, Early, Late, PostStops, CGoto
<1>7. ASSUME SweepBegin PROVE FuturesOK'
  BY <1>7 DEF PoolInv, TypeOK, PhaseOK, FuturesOK, Accepted, Early, Late, SweepBegin, CGoto, Leftover
<1>8. ASSUME SweepEnd PROVE FuturesOK'
  BY <1>8 DEF PoolInv, TypeOK, PhaseOK, FuturesOK, Accepted, Early, Late, SweepEnd, CGoto
<1>9. ASSUME NEW w \in Workers, Join(w) PROVE FuturesOK'
  BY <1>9 DEF PoolInv, TypeOK, PhaseOK, FuturesOK, Accepted, Early, Late, Join, ThreadOver, Blocked
<1>10. ASSUME NEW j \in Jobs, Sweep(j) PROVE FuturesOK'
  <2>1. CASE cpc' = "raised" /\ j \in Coroutines \cap Stubborn /\ UNCHANGED <<fut, swept>>
    <3>1. UNCHANGED <<mode, spc, outstanding>> /\ cpc = "sweep"
      BY <1>10 DEF Sweep
    <3> QED BY <2>1, <3>1 DEF PoolInv, FuturesOK, Accepted, Early, Late
  <2>2. CASE Complete(j, "closed") /\ swept' = swept \ {j} /\ UNCHANGED cpc
    <3>1. UNCHANGED <<mode, cpc, spc, outstanding>> /\ cpc = "sweep"
      BY <1>10, <2>2 DEF Sweep
    <3>2. /\ \A x \in Jobs : x # j => fut'[x] = fut[x]
          /\ fut'[j] # "pending" /\ (fut'[j] = "cancelled" => fut[j] = "cancelled")
      BY <2>2 DEF PoolInv, TypeOK, Complete
    <3> QED BY <2>2, <3>1, <3>2 DEF PoolInv, FuturesOK, Accepted, Late
  <2> QED BY <1>10, <2>1, <2>2 DEF Sweep, CGoto
<1>11. ASSUME NEW j \in Jobs, SubmitResolve(j) PROVE FuturesOK'
  BY <1>11 DEF PoolInv, TypeOK, PhaseOK, FuturesOK, Accepted, Early, Late, SubmitResolve, SGoto
<1>12. ASSUME NEW j \in Jobs, SubmitTrack(j) PROVE FuturesOK'
  <2>1. UNCHANGED <<mode, cpc, swept>> /\ outstanding' = outstanding \cup {j}
    BY <1>12 DEF SubmitTrack
  <2>2. /\ \A x \in Jobs : x # j => spc'[x] = spc[x] /\ fut'[x] = fut[x]
        /\ spc'[j] = "tracked" /\ fut'[j] = "pending"
    BY <1>12 DEF PoolInv, TypeOK, SubmitTrack, SGoto
  <2> QED BY <2>1, <2>2 DEF PoolInv, FuturesOK, Accepted
<1>13. ASSUME NEW j \in Jobs, SubmitPush(j) PROVE FuturesOK'
  <2>1. UNCHANGED <<fut, mode, cpc, swept>>
    BY <1>13 DEF SubmitPush
  <2>2. cpc \in Late => nclose = 3
    BY DEF PoolInv, PhaseOK, Late
  <2>3. /\ \A x \in Jobs : x # j => spc'[x] = spc[x] /\ (x \in outstanding => x \in outstanding')
        /\ \/ spc'[j] = "refused"
           \/ spc'[j] = "overflow" /\ outstanding' = outstanding
           \/ spc'[j] = "notify" /\ outstanding' = outstanding /\ nclose # 3
    BY <1>13 DEF PoolInv, TypeOK, SubmitPush, push_global, push_local, Refuse, SGoto
  <2>4. spc[j] \in {"tracked", "overflow"}
    BY <1>13 DEF SubmitPush
  <2> QED BY <2>1, <2>2, <2>3, <2>4 DEF PoolInv, FuturesOK, Accepted
<1>14. ASSUME NEW j \in Jobs, SubmitNotify(j) PROVE FuturesOK'
  <2>1. UNCHANGED <<fut, mode, cpc, swept, outstanding>>
    BY <1>14 DEF SubmitNotify
  <2>2. /\ \A x \in Jobs : x # j => spc'[x] = spc[x]
        /\ spc'[j] = "returned" /\ spc[j] = "notify"
    BY <1>14 DEF PoolInv, TypeOK, SubmitNotify, SGoto
  <2> QED BY <2>1, <2>2 DEF PoolInv, FuturesOK, Accepted
<1>15. ASSUME NEW j \in Jobs, JobStart(j) PROVE FuturesOK'
  BY <1>15 DEF PoolInv, TypeOK, PhaseOK, FuturesOK, Accepted, Early, Late, JobStart, JGoto, JobStep
<1>16. ASSUME NEW j \in Jobs, JobEnd(j) PROVE FuturesOK'
  <2>1. UNCHANGED <<mode, cpc, swept, spc, outstanding>>
    BY <1>16 DEF JobEnd, JobStep
  <2>2. /\ \A x \in Jobs : x # j => fut'[x] = fut[x]
        /\ fut'[j] = fut[j] \/ fut'[j] = "result"
    BY <1>16 DEF PoolInv, TypeOK, JobEnd, Complete
  <2> QED BY <2>1, <2>2 DEF PoolInv, FuturesOK, Accepted
<1>17. ASSUME NEW j \in Jobs, JobCancelled(j) PROVE FuturesOK'
  <2>1. UNCHANGED <<mode, cpc, swept, spc, outstanding>>
    BY <1>17 DEF JobCancelled, JobStep
  <2>2. /\ \A x \in Jobs : x # j => fut'[x] = fut[x]
        /\ fut'[j] = fut[j] \/ fut'[j] = "cancelled"
    BY <1>17 DEF PoolInv, TypeOK, JobCancelled, Complete
  <2>3. cpc \notin Early
    BY <1>17 DEF PoolInv, PhaseOK, JobsOK, JobCancelled
  <2> QED BY <2>1, <2>2, <2>3 DEF PoolInv, FuturesOK, Accepted
<1>18. ASSUME NEW j \in Jobs, JobDiscard(j) PROVE FuturesOK'
  <2>1. UNCHANGED <<fut, mode, cpc, swept, spc>> /\ outstanding' = outstanding \ {j}
    BY <1>18 DEF JobDiscard, JobStep
  <2>2. fut[j] # "pending"
    BY <1>18 DEF PoolInv, JobsOK, JobDiscard
  <2> QED BY <2>1, <2>2 DEF PoolInv, FuturesOK, Accepted
<1>19. ASSUME NEW w \in Workers, Drain(w) PROVE FuturesOK'
  BY <1>19 DEF PoolInv, FuturesOK, Accepted, Drain
<1>20. ASSUME NEW w \in Workers, Check(w) PROVE FuturesOK'
  BY <1>20 DEF PoolInv, TypeOK, PhaseOK, FuturesOK, Accepted, Early, Late, Check, DGoto
<1>21. ASSUME NEW w \in Workers, Quiesce(w) PROVE FuturesOK'
  BY <1>21 DEF PoolInv, FuturesOK, Accepted, Quiesce
<1>22. ASSUME NEW w \in Workers, Park(w) PROVE FuturesOK'
  BY <1>22 DEF PoolInv, TypeOK, PhaseOK, FuturesOK, Accepted, Early, Late, Park, DGoto
<1>23. ASSUME NEW w \in Workers, Unpark(w) PROVE FuturesOK'
  BY <1>23 DEF PoolInv, TypeOK, PhaseOK, FuturesOK, Accepted, Early, Late, Unpark, DGoto
<1>24. ASSUME NEW w \in Workers, SetEvent(w) PROVE FuturesOK'
  BY <1>24 DEF PoolInv, TypeOK, PhaseOK, FuturesOK, Accepted, Early, Late, SetEvent
<1>25. ASSUME NEW w \in Workers, LoopStop(w) PROVE FuturesOK'
  BY <1>25 DEF PoolInv, TypeOK, PhaseOK, FuturesOK, Accepted, Early, Late, LoopStop, DGoto
<1>26. ASSUME NEW w \in Workers, LoopClose(w) PROVE FuturesOK'
  BY <1>26 DEF PoolInv, TypeOK, PhaseOK, FuturesOK, Accepted, Early, Late, LoopClose
<1> QED BY <1>1, <1>2, <1>3, <1>4, <1>5, <1>6, <1>7, <1>8, <1>9, <1>10, <1>11, <1>12, <1>13, <1>14, <1>15, <1>16, <1>17, <1>18, <1>19, <1>20, <1>21, <1>22, <1>23, <1>24, <1>25, <1>26 DEF Next, Closer, Submit, Execute, Dispatcher, Thread

\* A job whose future was closed does not start on a thread that was joined.
LEMMA ClosedStep ==
    ASSUME PoolInv, Next
    PROVE  ClosedMeansNeverRan'
<1> USE DEF queues, dispatch, execution, shutdown
<1>1. ASSUME Start PROVE ClosedMeansNeverRan'
  BY <1>1 DEF PoolInv, ClosedMeansNeverRan, Start
<1>2. ASSUME ShutdownAgain PROVE ClosedMeansNeverRan'
  BY <1>2 DEF PoolInv, ClosedMeansNeverRan, ShutdownAgain
<1>3. ASSUME NEW m \in Modes, ShutdownBegin(m) PROVE ClosedMeansNeverRan'
  BY <1>3 DEF PoolInv, ClosedMeansNeverRan, ShutdownBegin
<1>4. ASSUME NativeClose PROVE ClosedMeansNeverRan'
  BY <1>4 DEF PoolInv, ClosedMeansNeverRan, NativeClose
<1>5. ASSUME DrainEnd PROVE ClosedMeansNeverRan'
  BY <1>5 DEF PoolInv, ClosedMeansNeverRan, DrainEnd
<1>6. ASSUME PostStops PROVE ClosedMeansNeverRan'
  BY <1>6 DEF PoolInv, ClosedMeansNeverRan, PostStops
<1>7. ASSUME SweepBegin PROVE ClosedMeansNeverRan'
  BY <1>7 DEF PoolInv, ClosedMeansNeverRan, SweepBegin
<1>8. ASSUME SweepEnd PROVE ClosedMeansNeverRan'
  BY <1>8 DEF PoolInv, ClosedMeansNeverRan, SweepEnd
<1>9. ASSUME NEW w \in Workers, Join(w) PROVE ClosedMeansNeverRan'
  BY <1>9 DEF PoolInv, ClosedMeansNeverRan, Join
<1>10. ASSUME NEW j \in Jobs, Sweep(j) PROVE ClosedMeansNeverRan'
  <2>1. UNCHANGED execution /\ cpc = "sweep"
    BY <1>10 DEF Sweep
  <2>2. /\ \A x \in Jobs : x # j /\ fut'[x] = "closed" => fut[x] = "closed"
        /\ fut'[j] = "closed" => fut[j] \in {"pending", "closed"}
    BY <1>10 DEF PoolInv, TypeOK, Sweep, Complete
  <2>3. fut[j] = "pending" => \/ job[j] = "queued"
                              \/ \E k \in Stubborn : job[k] # "queued" /\ at[k] = at[j]
    BY <2>1 DEF PoolInv, PhaseOK, ThreadsOK, JobsOK, Late
  <2> QED BY <2>1, <2>2, <2>3 DEF PoolInv, ClosedMeansNeverRan
<1>11. ASSUME NEW j \in Jobs, SubmitResolve(j) PROVE ClosedMeansNeverRan'
  BY <1>11 DEF PoolInv, ClosedMeansNeverRan, SubmitResolve
<1>12. ASSUME NEW j \in Jobs, SubmitTrack(j) PROVE ClosedMeansNeverRan'
  <2>1. UNCHANGED execution /\ \A x \in Jobs : fut'[x] = "closed" => fut[x] = "closed"
    BY <1>12 DEF PoolInv, TypeOK, SubmitTrack
  <2> QED BY <2>1 DEF PoolInv, ClosedMeansNeverRan
<1>13. ASSUME NEW j \in Jobs, SubmitPush(j) PROVE ClosedMeansNeverRan'
  BY <1>13 DEF PoolInv, ClosedMeansNeverRan, SubmitPush
<1>14. ASSUME NEW j \in Jobs, SubmitNotify(j) PROVE ClosedMeansNeverRan'
  BY <1>14 DEF PoolInv, ClosedMeansNeverRan, SubmitNotify
<1>15. ASSUME NEW j \in Jobs, JobStart(j) PROVE ClosedMeansNeverRan'
  <2>1. /\ at' = at /\ Stubborn \subseteq Jobs
        /\ \A x \in Jobs : x # j => job'[x] = job[x]
        /\ job[j] # "queued" /\ job'[j] # "queued"
    BY <1>15, PoolAssumption DEF PoolInv, TypeOK, JobStart, JGoto, JobStep
  <2>2. \A x \in Jobs : fut'[x] = "closed" => fut[x] = "closed"
    BY <1>15 DEF PoolInv, TypeOK, JobStart
  <2> QED BY <2>1, <2>2 DEF PoolInv, ClosedMeansNeverRan
<1>16. ASSUME NEW j \in Jobs, JobEnd(j) PROVE ClosedMeansNeverRan'
  <2>1. /\ at' = at /\ Stubborn \subseteq Jobs
        /\ \A x \in Jobs : x # j => job'[x] = job[x]
        /\ job[j] # "queued" /\ job'[j] # "queued"
    BY <1>16, PoolAssumption DEF PoolInv, TypeOK, JobEnd, JGoto, JobStep
  <2>2. \A x \in Jobs : fut'[x] = "closed" => fut[x] = "closed"
    BY <1>16 DEF PoolInv, TypeOK, JobEnd, Complete
  <2> QED BY <2>1, <2>2 DEF PoolInv, ClosedMeansNeverRan
<1>17. ASSUME NEW j \in Jobs, JobCancelled(j) PROVE ClosedMeansNeverRan'
  <2>1. /\ at' = at /\ Stubborn \subseteq Jobs
        /\ \A x \in Jobs : x # j => job'[x] = job[x]
        /\ job[j] # "queued" /\ job'[j] # "queued"
    BY <1>17, PoolAssumption DEF PoolInv, TypeOK, JobCancelled, JGoto, JobStep
  <2>2. \A x \in Jobs : fut'[x] = "closed" => fut[x] = "closed"
    BY <1>17 DEF PoolInv, TypeOK, JobCancelled, Complete
  <2> QED BY <2>1, <2>2 DEF PoolInv, ClosedMeansNeverRan
<1>18. ASSUME NEW j \in Jobs, JobDiscard(j) PROVE ClosedMeansNeverRan'
  <2>1. /\ at' = at /\ Stubborn \subseteq Jobs
        /\ \A x \in Jobs : x # j => job'[x] = job[x]
        /\ job[j] # "queued" /\ job'[j] # "queued"
    BY <1>18, PoolAssumption DEF PoolInv, TypeOK, JobDiscard, JGoto, JobStep
  <2>2. \A x \in Jobs : fut'[x] = "closed" => fut[x] = "closed"
    BY <1>18 DEF PoolInv, TypeOK, JobDiscard
  <2> QED BY <2>1, <2>2 DEF PoolInv, ClosedMeansNeverRan
<1>19. ASSUME NEW w \in Workers, Drain(w) PROVE ClosedMeansNeverRan'
  <2>1. UNCHANGED <<fut, loop, joined>> /\ loop[w] # "down"
    BY <1>19 DEF Drain, Turn
  <2>2. ASSUME NEW j \in Jobs, pop_work(w, j), Spawn(w, j) PROVE ClosedMeansNeverRan'
    <3>1. job[j] = "queued"
      <4>1. Somewhere(j, global, local, buffer)
        BY <2>2, PopEffect DEF PoolInv
      <4> QED BY <4>1 DEF PoolInv, JobsOK
    <3>2. /\ \A x \in Jobs : x # j => job'[x] = job[x] /\ at'[x] = at[x]
          /\ at'[j] = w /\ job'[j] = "created" /\ Stubborn \subseteq Jobs
      BY <2>2, PoolAssumption DEF PoolInv, TypeOK, Spawn
    <3>3. fut[j] = "closed" => \E k \in Stubborn : job[k] # "queued" /\ at[k] = w
      BY <2>1 DEF PoolInv, FuturesOK, PhaseOK, ThreadsOK
    <3> QED BY <2>1, <3>1, <3>2, <3>3 DEF PoolInv, ClosedMeansNeverRan
  <2>3. ASSUME UNCHANGED execution PROVE ClosedMeansNeverRan'
    BY <2>1, <2>3 DEF PoolInv, ClosedMeansNeverRan
  <2> QED BY <1>19, <2>2, <2>3 DEF Drain
<1>20. ASSUME NEW w \in Workers, Check(w) PROVE ClosedMeansNeverRan'
  BY <1>20 DEF PoolInv, ClosedMeansNeverRan, Check
<1>21. ASSUME NEW w \in Workers, Quiesce(w) PROVE ClosedMeansNeverRan'
  <2>1. UNCHANGED <<fut, loop, joined>> /\ loop[w] # "down"
    BY <1>21 DEF Quiesce, Turn
  <2>2. ASSUME NEW j \in Jobs, pop_work(w, j), Spawn(w, j) PROVE ClosedMeansNeverRan'
    <3>1. job[j] = "queued"
      <4>1. Somewhere(j, global, local, buffer)
        BY <2>2, PopEffect DEF PoolInv
      <4> QED BY <4>1 DEF PoolInv, JobsOK
    <3>2. /\ \A x \in Jobs : x # j => job'[x] = job[x] /\ at'[x] = at[x]
          /\ at'[j] = w /\ job'[j] = "created" /\ Stubborn \subseteq Jobs
      BY <2>2, PoolAssumption DEF PoolInv, TypeOK, Spawn
    <3>3. fut[j] = "closed" => \E k \in Stubborn : job[k] # "queued" /\ at[k] = w
      BY <2>1 DEF PoolInv, FuturesOK, PhaseOK, ThreadsOK
    <3> QED BY <2>1, <3>1, <3>2, <3>3 DEF PoolInv, ClosedMeansNeverRan
  <2>3. ASSUME UNCHANGED execution PROVE ClosedMeansNeverRan'
    BY <2>1, <2>3 DEF PoolInv, ClosedMeansNeverRan
  <2> QED BY <1>21, <2>2, <2>3 DEF Quiesce
<1>22. ASSUME NEW w \in Workers, Park(w) PROVE ClosedMeansNeverRan'
  BY <1>22 DEF PoolInv, ClosedMeansNeverRan, Park
<1>23. ASSUME NEW w \in Workers, Unpark(w) PROVE ClosedMeansNeverRan'
  BY <1>23 DEF PoolInv, ClosedMeansNeverRan, Unpark
<1>24. ASSUME NEW w \in Workers, SetEvent(w) PROVE ClosedMeansNeverRan'
  BY <1>24 DEF PoolInv, ClosedMeansNeverRan, SetEvent
<1>25. ASSUME NEW w \in Workers, LoopStop(w) PROVE ClosedMeansNeverRan'
  BY <1>25 DEF PoolInv, ClosedMeansNeverRan, LoopStop
<1>26. ASSUME NEW w \in Workers, LoopClose(w) PROVE ClosedMeansNeverRan'
  BY <1>26 DEF PoolInv, ClosedMeansNeverRan, LoopClose
<1> QED BY <1>1, <1>2, <1>3, <1>4, <1>5, <1>6, <1>7, <1>8, <1>9, <1>10, <1>11, <1>12, <1>13, <1>14, <1>15, <1>16, <1>17, <1>18, <1>19, <1>20, <1>21, <1>22, <1>23, <1>24, <1>25, <1>26 DEF Next, Closer, Submit, Execute, Dispatcher, Thread

\* What close() found done stays done.
LEMMA GracefulStep ==
    ASSUME PoolInv, Next
    PROVE  GracefulDrain'
<1> USE DEF queues, dispatch, execution, shutdown
<1>1. ASSUME Start PROVE GracefulDrain'
  BY <1>1 DEF PoolInv, GracefulDrain, Accepted, Start
<1>2. ASSUME ShutdownAgain PROVE GracefulDrain'
  BY <1>2 DEF PoolInv, GracefulDrain, Accepted, ShutdownAgain
<1>3. ASSUME NEW m \in Modes, ShutdownBegin(m) PROVE GracefulDrain'
  BY <1>3 DEF PoolInv, GracefulDrain, Accepted, ShutdownBegin
<1>4. ASSUME NativeClose PROVE GracefulDrain'
  BY <1>4 DEF PoolInv, GracefulDrain, Accepted, NativeClose
<1>5. ASSUME DrainEnd PROVE GracefulDrain'
  <2>1. UNCHANGED <<spc, fut, job>> /\ cpc = "drain"
    BY <1>5 DEF DrainEnd
  <2>2. ASSUME AllDone, NEW x \in Jobs, Accepted(x) PROVE fut[x] = "result" /\ job[x] = "over"
    <3>1. ~Somewhere(x, global, local, buffer)
      BY <2>2, EmptyQueue DEF PoolInv, TypeOK, AllDone, is_drained, Somewhere
    <3>2. job[x] = "over"
      BY <2>2, <3>1 DEF PoolInv, JobsOK, AllDone
    <3>3. fut[x] \notin {"none", "pending", "cancelled", "closed"}
      BY <2>1, <3>2 DEF PoolInv, JobsOK, FuturesOK, Early, Late
    <3> QED BY <3>2, <3>3 DEF PoolInv, TypeOK
  <2> QED BY <1>5, <2>1, <2>2 DEF PoolInv, GracefulDrain, Accepted, DrainEnd
<1>6. ASSUME PostStops PROVE GracefulDrain'
  BY <1>6 DEF PoolInv, GracefulDrain, Accepted, PostStops
<1>7. ASSUME SweepBegin PROVE GracefulDrain'
  BY <1>7 DEF PoolInv, GracefulDrain, Accepted, SweepBegin
<1>8. ASSUME SweepEnd PROVE GracefulDrain'
  BY <1>8 DEF PoolInv, GracefulDrain, Accepted, SweepEnd
<1>9. ASSUME NEW w \in Workers, Join(w) PROVE GracefulDrain'
  BY <1>9 DEF PoolInv, GracefulDrain, Accepted, Join
<1>10. ASSUME NEW j \in Jobs, Sweep(j) PROVE GracefulDrain'
  <2>1. UNCHANGED <<clean, spc, job>> /\ cpc = "sweep"
    BY <1>10 DEF Sweep
  <2>2. \A x \in Jobs : fut[x] = "result" => fut'[x] = "result"
    BY <1>10 DEF PoolInv, TypeOK, Sweep, Complete
  <2> QED BY <2>1, <2>2 DEF PoolInv, GracefulDrain, Accepted
<1>11. ASSUME NEW j \in Jobs, SubmitResolve(j) PROVE GracefulDrain'
  <2>1. UNCHANGED <<clean, fut, job>> /\ \A x \in Jobs : Accepted(x)' => Accepted(x)
    BY <1>11 DEF PoolInv, TypeOK, SubmitResolve, SGoto, Accepted
  <2> QED BY <2>1 DEF PoolInv, GracefulDrain
<1>12. ASSUME NEW j \in Jobs, SubmitTrack(j) PROVE GracefulDrain'
  <2>1. /\ UNCHANGED <<clean, job>> /\ ~Accepted(j)
        /\ \A x \in Jobs : Accepted(x)' => Accepted(x)
        /\ \A x \in Jobs : x # j => fut'[x] = fut[x]
    BY <1>12 DEF PoolInv, TypeOK, SubmitTrack, SGoto, Accepted
  <2> QED BY <2>1 DEF PoolInv, GracefulDrain
<1>13. ASSUME NEW j \in Jobs, SubmitPush(j) PROVE GracefulDrain'
  <2>1. UNCHANGED <<clean, fut, job>>
    BY <1>13 DEF SubmitPush
  <2>2. clean => nclose = 3
    BY DEF PoolInv, PhaseOK
  <2>3. nclose = 3 => \A x \in Jobs : Accepted(x)' => Accepted(x)
    BY <1>13 DEF PoolInv, TypeOK, SubmitPush, push_global, push_local, Refuse, SGoto, Accepted
  <2> QED BY <2>1, <2>2, <2>3 DEF PoolInv, GracefulDrain
<1>14. ASSUME NEW j \in Jobs, SubmitNotify(j) PROVE GracefulDrain'
  <2>1. UNCHANGED <<clean, fut, job>> /\ \A x \in Jobs : Accepted(x)' => Accepted(x)
    BY <1>14 DEF PoolInv, TypeOK, SubmitNotify, SGoto, Accepted
  <2> QED BY <2>1 DEF PoolInv, GracefulDrain
<1>15. ASSUME NEW j \in Jobs, JobStart(j) PROVE GracefulDrain'
  <2>1. UNCHANGED <<clean, spc>> /\ job[j] # "over"
    BY <1>15 DEF JobStart, JobStep
  <2>2. \A x \in Jobs : x # j => job'[x] = job[x] /\ fut'[x] = fut[x]
    BY <1>15 DEF PoolInv, TypeOK, JobStart, JGoto
  <2>3. clean => ~Accepted(j)
    BY <2>1 DEF PoolInv, GracefulDrain
  <2> QED BY <2>1, <2>2, <2>3 DEF PoolInv, GracefulDrain, Accepted
<1>16. ASSUME NEW j \in Jobs, JobEnd(j) PROVE GracefulDrain'
  <2>1. UNCHANGED <<clean, spc>> /\ job[j] # "over"
    BY <1>16 DEF JobEnd, JobStep
  <2>2. \A x \in Jobs : x # j => job'[x] = job[x] /\ fut'[x] = fut[x]
    BY <1>16 DEF PoolInv, TypeOK, JobEnd, Complete, JGoto
  <2>3. clean => ~Accepted(j)
    BY <2>1 DEF PoolInv, GracefulDrain
  <2> QED BY <2>1, <2>2, <2>3 DEF PoolInv, GracefulDrain, Accepted
<1>17. ASSUME NEW j \in Jobs, JobCancelled(j) PROVE GracefulDrain'
  <2>1. UNCHANGED <<clean, spc>> /\ job[j] # "over"
    BY <1>17 DEF JobCancelled, JobStep
  <2>2. \A x \in Jobs : x # j => job'[x] = job[x] /\ fut'[x] = fut[x]
    BY <1>17 DEF PoolInv, TypeOK, JobCancelled, Complete, JGoto
  <2>3. clean => ~Accepted(j)
    BY <2>1 DEF PoolInv, GracefulDrain
  <2> QED BY <2>1, <2>2, <2>3 DEF PoolInv, GracefulDrain, Accepted
<1>18. ASSUME NEW j \in Jobs, JobDiscard(j) PROVE GracefulDrain'
  <2>1. UNCHANGED <<clean, spc>> /\ job[j] # "over"
    BY <1>18 DEF JobDiscard, JobStep
  <2>2. \A x \in Jobs : x # j => job'[x] = job[x] /\ fut'[x] = fut[x]
    BY <1>18 DEF PoolInv, TypeOK, JobDiscard, JGoto
  <2>3. clean => ~Accepted(j)
    BY <2>1 DEF PoolInv, GracefulDrain
  <2> QED BY <2>1, <2>2, <2>3 DEF PoolInv, GracefulDrain, Accepted
<1>19. ASSUME NEW w \in Workers, Drain(w) PROVE GracefulDrain'
  <2>1. UNCHANGED <<clean, spc, fut>>
    BY <1>19 DEF Drain
  <2>2. ASSUME NEW j \in Jobs, pop_work(w, j), Spawn(w, j) PROVE GracefulDrain'
    <3>1. Accepted(j) /\ job[j] = "queued"
      <4>1. Somewhere(j, global, local, buffer)
        BY <2>2, PopEffect DEF PoolInv
      <4> QED BY <4>1 DEF PoolInv, JobsOK
    <3> QED BY <2>1, <3>1 DEF PoolInv, GracefulDrain
  <2>3. ASSUME UNCHANGED execution PROVE GracefulDrain'
    BY <2>1, <2>3 DEF PoolInv, GracefulDrain, Accepted
  <2> QED BY <1>19, <2>2, <2>3 DEF Drain
<1>20. ASSUME NEW w \in Workers, Check(w) PROVE GracefulDrain'
  BY <1>20 DEF PoolInv, GracefulDrain, Accepted, Check
<1>21. ASSUME NEW w \in Workers, Quiesce(w) PROVE GracefulDrain'
  <2>1. UNCHANGED <<clean, spc, fut>>
    BY <1>21 DEF Quiesce
  <2>2. ASSUME NEW j \in Jobs, pop_work(w, j), Spawn(w, j) PROVE GracefulDrain'
    <3>1. Accepted(j) /\ job[j] = "queued"
      <4>1. Somewhere(j, global, local, buffer)
        BY <2>2, PopEffect DEF PoolInv
      <4> QED BY <4>1 DEF PoolInv, JobsOK
    <3> QED BY <2>1, <3>1 DEF PoolInv, GracefulDrain
  <2>3. ASSUME UNCHANGED execution PROVE GracefulDrain'
    BY <2>1, <2>3 DEF PoolInv, GracefulDrain, Accepted
  <2> QED BY <1>21, <2>2, <2>3 DEF Quiesce
<1>22. ASSUME NEW w \in Workers, Park(w) PROVE GracefulDrain'
  BY <1>22 DEF PoolInv, GracefulDrain, Accepted, Park
<1>23. ASSUME NEW w \in Workers, Unpark(w) PROVE GracefulDrain'
  BY <1>23 DEF PoolInv, GracefulDrain, Accepted, Unpark
<1>24. ASSUME NEW w \in Workers, SetEvent(w) PROVE GracefulDrain'
  BY <1>24 DEF PoolInv, GracefulDrain, Accepted, SetEvent
<1>25. ASSUME NEW w \in Workers, LoopStop(w) PROVE GracefulDrain'
  BY <1>25 DEF PoolInv, GracefulDrain, Accepted, LoopStop
<1>26. ASSUME NEW w \in Workers, LoopClose(w) PROVE GracefulDrain'
  BY <1>26 DEF PoolInv, GracefulDrain, Accepted, LoopClose
<1> QED BY <1>1, <1>2, <1>3, <1>4, <1>5, <1>6, <1>7, <1>8, <1>9, <1>10, <1>11, <1>12, <1>13, <1>14, <1>15, <1>16, <1>17, <1>18, <1>19, <1>20, <1>21, <1>22, <1>23, <1>24, <1>25, <1>26 DEF Next, Closer, Submit, Execute, Dispatcher, Thread

\* A dedicated queue holds jobs.
LEMMA LocalJobs ==
    ASSUME TypeOK
    PROVE  \A v \in Workers : Elems(local[v]) \subseteq Jobs
<1>1. ASSUME NEW v \in Workers PROVE Elems(local[v]) \subseteq Jobs
  <2>1. local[v] \in Seq(Jobs)
    BY DEF TypeOK
  <2>2. \A i \in DOMAIN local[v] : local[v][i] \in Jobs
    BY <2>1, ElementOfSeq, LenProperties
  <2> QED BY <2>2 DEF Elems
<1> QED BY <1>1

\* A push to the queue of a worker that sleeps is followed by its notification.
LEMMA WakeupStep ==
    ASSUME PoolInv, Next
    PROVE  NoLostWakeup'
<1> USE DEF queues, dispatch, execution, shutdown
<1>1. ASSUME Start PROVE NoLostWakeup'
  BY <1>1 DEF PoolInv, NoLostWakeup, TypeOK, Start
<1>2. ASSUME ShutdownAgain PROVE NoLostWakeup'
  BY <1>2 DEF PoolInv, NoLostWakeup, ShutdownAgain
<1>3. ASSUME NEW m \in Modes, ShutdownBegin(m) PROVE NoLostWakeup'
  BY <1>3 DEF PoolInv, NoLostWakeup, ShutdownBegin
<1>4. ASSUME NativeClose PROVE NoLostWakeup'
  BY <1>4 DEF PoolInv, NoLostWakeup, NativeClose
<1>5. ASSUME DrainEnd PROVE NoLostWakeup'
  BY <1>5 DEF PoolInv, NoLostWakeup, DrainEnd
<1>6. ASSUME PostStops PROVE NoLostWakeup'
  BY <1>6 DEF PoolInv, NoLostWakeup, PostStops
<1>7. ASSUME SweepBegin PROVE NoLostWakeup'
  BY <1>7 DEF PoolInv, NoLostWakeup, SweepBegin
<1>8. ASSUME SweepEnd PROVE NoLostWakeup'
  BY <1>8 DEF PoolInv, NoLostWakeup, SweepEnd
<1>9. ASSUME NEW w \in Workers, Join(w) PROVE NoLostWakeup'
  BY <1>9 DEF PoolInv, NoLostWakeup, Join
<1>10. ASSUME NEW j \in Jobs, Sweep(j) PROVE NoLostWakeup'
  BY <1>10 DEF PoolInv, NoLostWakeup, Sweep
<1>11. ASSUME NEW j \in Jobs, SubmitResolve(j) PROVE NoLostWakeup'
  <2>1. /\ UNCHANGED <<running, local, event, posted, disp>>
        /\ \A x \in Jobs : spc[x] = "notify" => spc'[x] = "notify"
    BY <1>11 DEF PoolInv, TypeOK, SubmitResolve, SGoto
  <2>2. \A v \in Workers : Elems(local[v]) \subseteq Jobs
    BY LocalJobs DEF PoolInv
  <2> QED BY <2>1, <2>2 DEF PoolInv, NoLostWakeup
<1>12. ASSUME NEW j \in Jobs, SubmitTrack(j) PROVE NoLostWakeup'
  <2>1. /\ UNCHANGED <<running, local, event, posted, disp>>
        /\ \A x \in Jobs : spc[x] = "notify" => spc'[x] = "notify"
    BY <1>12 DEF PoolInv, TypeOK, SubmitTrack, SGoto
  <2>2. \A v \in Workers : Elems(local[v]) \subseteq Jobs
    BY LocalJobs DEF PoolInv
  <2> QED BY <2>1, <2>2 DEF PoolInv, NoLostWakeup
<1>13. ASSUME NEW j \in Jobs, SubmitPush(j) PROVE NoLostWakeup'
  <2>1. /\ UNCHANGED <<running, event, posted, disp>>
        /\ \A x \in Jobs : spc[x] = "notify" => spc'[x] = "notify"
    BY <1>13 DEF PoolInv, TypeOK, SubmitPush, push_global, push_local, Refuse, SGoto
  <2>2. \A v \in Workers : Elems(local[v]) \subseteq Jobs
    BY LocalJobs DEF PoolInv
  <2>3. CASE local' = local
    BY <2>1, <2>2, <2>3 DEF PoolInv, NoLostWakeup
  <2>4. CASE /\ Pin[j] \in Workers /\ spc' = [spc EXCEPT ![j] = "notify"]
             /\ local' = [local EXCEPT ![Pin[j]] = Append(local[Pin[j]], j)]
    <3>1. \A v \in Workers : v # Pin[j] => local'[v] = local[v]
      BY <2>4
    <3>2. j \in Elems(local'[Pin[j]]) /\ spc'[j] = "notify"
      <4>1. local'[Pin[j]] = Append(local[Pin[j]], j) /\ local[Pin[j]] \in Seq(Jobs)
        BY <2>4 DEF PoolInv, TypeOK
      <4> DEFINE q == local[Pin[j]]
      <4>2. /\ Append(q, j)[Len(q) + 1] = j
            /\ Len(q) + 1 \in DOMAIN Append(q, j)
        BY <4>1, AppendProperties, LenProperties
      <4> QED BY <2>4, <4>1, <4>2 DEF Elems, PoolInv, TypeOK
    <3> QED BY <2>1, <2>2, <2>4, <3>1, <3>2 DEF PoolInv, NoLostWakeup
  <2>5. Pin[j] # NoWorker => Pin[j] \in Workers
    BY PoolAssumption
  <2> QED BY <1>13, <2>3, <2>4, <2>5 DEF SubmitPush, push_global, push_local, Refuse, SGoto
<1>14. ASSUME NEW j \in Jobs, SubmitNotify(j) PROVE NoLostWakeup'
  <2>1. /\ UNCHANGED <<running, local, event, disp>>
        /\ \A x \in Jobs : x # j /\ spc[x] = "notify" => spc'[x] = "notify"
        /\ posted \subseteq posted'
    BY <1>14 DEF PoolInv, TypeOK, SubmitNotify, SGoto
  <2>2. \A v \in Workers : Elems(local[v]) \subseteq Jobs
    BY LocalJobs DEF PoolInv
  <2>3. ASSUME NEW v \in Workers, running, j \in Elems(local[v]) PROVE v \in posted'
    <3>1. Pin[j] = v /\ v # NoWorker
      <4>1. InQueue(j, local[v])
        BY <2>3 DEF Elems, InQueue
      <4> QED BY <4>1, PoolAssumption DEF PoolInv, Lined
    <3>2. NotifyTargets(j) = {v} /\ loop[v] = "up"
      BY <2>3, <3>1 DEF NotifyTargets, PoolInv, PhaseOK
    <3> QED BY <1>14, <2>3, <3>2 DEF SubmitNotify
  <2> QED BY <2>1, <2>2, <2>3 DEF PoolInv, NoLostWakeup
<1>15. ASSUME NEW j \in Jobs, JobStart(j) PROVE NoLostWakeup'
  BY <1>15 DEF PoolInv, NoLostWakeup, JobStart, JobStep
<1>16. ASSUME NEW j \in Jobs, JobEnd(j) PROVE NoLostWakeup'
  BY <1>16 DEF PoolInv, NoLostWakeup, JobEnd, JobStep
<1>17. ASSUME NEW j \in Jobs, JobCancelled(j) PROVE NoLostWakeup'
  BY <1>17 DEF PoolInv, NoLostWakeup, JobCancelled, JobStep
<1>18. ASSUME NEW j \in Jobs, JobDiscard(j) PROVE NoLostWakeup'
  BY <1>18 DEF PoolInv, NoLostWakeup, JobDiscard, JobStep
<1>19. ASSUME NEW w \in Workers, Drain(w) PROVE NoLostWakeup'
  <2>1. /\ UNCHANGED <<running, event, posted, spc>>
        /\ \A v \in Workers : v # w => disp'[v] = disp[v]
        /\ disp'[w] \notin {"parking", "idle"}
    BY <1>19 DEF PoolInv, TypeOK, Drain, DGoto
  <2>2. \A v \in Workers : v # w => local'[v] = local[v]
    BY <1>19, PopEffect DEF PoolInv, Drain, PopNone
  <2> QED BY <2>1, <2>2 DEF PoolInv, NoLostWakeup
<1>20. ASSUME NEW w \in Workers, Check(w) PROVE NoLostWakeup'
  <2>1. /\ UNCHANGED <<running, local, event, posted, spc>>
        /\ \A v \in Workers : disp'[v] \in {"parking", "idle"} => disp[v] \in {"parking", "idle"}
    BY <1>20 DEF PoolInv, TypeOK, Check, DGoto
  <2> QED BY <2>1 DEF PoolInv, NoLostWakeup
<1>21. ASSUME NEW w \in Workers, Quiesce(w) PROVE NoLostWakeup'
  <2>1. /\ UNCHANGED <<running, posted, spc>> /\ event' = event \ {w}
        /\ \A v \in Workers : v # w => disp'[v] = disp[v]
        /\ local'[w] = <<>> \/ disp'[w] \notin {"parking", "idle"}
    BY <1>21 DEF PoolInv, TypeOK, Quiesce, DGoto, PopNone
  <2>2. \A v \in Workers : v # w => local'[v] = local[v]
    BY <1>21, PopEffect DEF PoolInv, Quiesce, PopNone
  <2> QED BY <2>1, <2>2 DEF PoolInv, NoLostWakeup
<1>22. ASSUME NEW w \in Workers, Park(w) PROVE NoLostWakeup'
  <2>1. /\ UNCHANGED <<running, local, event, posted, spc>>
        /\ \A v \in Workers : disp'[v] \in {"parking", "idle"} => disp[v] \in {"parking", "idle"}
    BY <1>22 DEF PoolInv, TypeOK, Park, DGoto
  <2> QED BY <2>1 DEF PoolInv, NoLostWakeup
<1>23. ASSUME NEW w \in Workers, Unpark(w) PROVE NoLostWakeup'
  <2>1. /\ UNCHANGED <<running, local, event, posted, spc>>
        /\ \A v \in Workers : disp'[v] \in {"parking", "idle"} => disp[v] \in {"parking", "idle"}
    BY <1>23 DEF PoolInv, TypeOK, Unpark, DGoto
  <2> QED BY <2>1 DEF PoolInv, NoLostWakeup
<1>24. ASSUME NEW w \in Workers, SetEvent(w) PROVE NoLostWakeup'
  BY <1>24 DEF PoolInv, NoLostWakeup, SetEvent
<1>25. ASSUME NEW w \in Workers, LoopStop(w) PROVE NoLostWakeup'
  <2>1. /\ UNCHANGED <<running, local, event, posted, spc>>
        /\ \A v \in Workers : disp'[v] \in {"parking", "idle"} => disp[v] \in {"parking", "idle"}
    BY <1>25 DEF PoolInv, TypeOK, LoopStop, DGoto
  <2> QED BY <2>1 DEF PoolInv, NoLostWakeup
<1>26. ASSUME NEW w \in Workers, LoopClose(w) PROVE NoLostWakeup'
  BY <1>26 DEF PoolInv, NoLostWakeup, LoopClose
<1> QED BY <1>1, <1>2, <1>3, <1>4, <1>5, <1>6, <1>7, <1>8, <1>9, <1>10, <1>11, <1>12, <1>13, <1>14, <1>15, <1>16, <1>17, <1>18, <1>19, <1>20, <1>21, <1>22, <1>23, <1>24, <1>25, <1>26 DEF Next, Closer, Submit, Execute, Dispatcher, Thread


-----------------------------------------------------------------------------
(* The theorems *)

\* A new pool, not started yet.
LEMMA PoolInit ==
    ASSUME Init
    PROVE  PoolInv
<1>0. \A x : ~InQueue(x, <<>>)
  BY DEF InQueue
<1>1. TypeOK
  <2>1. <<>> \in Seq(Jobs)
    BY EmptySeq
  <2>2. /\ global \in Seq(Jobs)
        /\ local \in [Workers -> Seq(Jobs)] /\ buffer \in [Workers -> Seq(Jobs)]
    BY <2>1 DEF Init
  <2>3. /\ spc \in [Jobs -> {"new", "resolved", "tracked", "overflow", "notify", "returned", "refused"}]
        /\ fut \in [Jobs -> {"none", "pending", "result", "cancelled", "closed"}]
        /\ job \in [Jobs -> {"queued", "created", "running", "reported", "over"}]
        /\ at \in [Jobs -> Workers \cup {NoWorker}]
    BY DEF Init
  <2>4. /\ disp \in [Workers -> {"off", "drain", "check", "quiesce", "parking", "idle", "exited"}]
        /\ processed \in [Workers -> BOOLEAN]
        /\ loop \in [Workers -> {"none", "up", "stopping", "down"}]
    BY DEF Init
  <2>5. running \in BOOLEAN /\ clean \in BOOLEAN /\ closedEvent \in BOOLEAN
    BY DEF Init
  <2>6. /\ nclose \in 0..3
        /\ outstanding \subseteq Jobs /\ swept \subseteq Jobs
        /\ idle \subseteq Workers /\ event \subseteq Workers /\ posted \subseteq Workers
        /\ stops \subseteq Workers /\ joined \subseteq Workers
        /\ cpc \in {"off", "native", "drain", "stop", "join", "sweep", "done", "raised"}
        /\ mode \in {"none", "close", "abort"}
    BY DEF Init
  <2> QED BY <2>2, <2>3, <2>4, <2>5, <2>6 DEF TypeOK
<1>2. Lined(global, local, buffer) /\ \A j \in Jobs : ~Somewhere(j, global, local, buffer)
  BY <1>0 DEF Init, Lined, Somewhere, NoRepeat
<1>3. JobsOK
  BY <1>2 DEF Init, JobsOK, Accepted
<1>4. PhaseOK /\ ThreadsOK
  BY DEF Init, PhaseOK, ThreadsOK, Early, Late
<1>5. FuturesOK /\ ClosedMeansNeverRan
  BY DEF Init, FuturesOK, ClosedMeansNeverRan, Early, Late
<1>6. GracefulDrain /\ NoLostWakeup
  BY DEF Init, GracefulDrain, NoLostWakeup
<1> QED BY <1>1, <1>2, <1>3, <1>4, <1>5, <1>6 DEF PoolInv

\* Every step of the pool keeps all parts of the invariant.
LEMMA PoolStep ==
    ASSUME PoolInv, [Next]_vars
    PROVE  PoolInv'
<1>1. CASE Next
  <2>1. TypeOK' /\ Lined(global', local', buffer') /\ JobsOK'
    BY <1>1, TypeStep, QueueStep
  <2>2. PhaseOK' /\ ThreadsOK' /\ FuturesOK'
    BY <1>1, PhaseStep, ThreadsStep, FuturesStep
  <2>3. ClosedMeansNeverRan' /\ GracefulDrain' /\ NoLostWakeup'
    BY <1>1, ClosedStep, GracefulStep, WakeupStep
  <2> QED BY <2>1, <2>2, <2>3 DEF PoolInv
<1>2. CASE UNCHANGED vars
  <2>1. TypeOK' /\ Lined(global', local', buffer') /\ JobsOK'
    BY <1>2 DEF PoolInv, vars, queues, execution, dispatch, shutdown, TypeOK, JobsOK, Accepted
  <2>2. PhaseOK' /\ ThreadsOK' /\ FuturesOK'
    BY <1>2 DEF PoolInv, vars, execution, shutdown, PhaseOK, ThreadsOK, FuturesOK, Accepted
  <2>3. ClosedMeansNeverRan' /\ GracefulDrain' /\ NoLostWakeup'
    BY <1>2 DEF PoolInv, vars, queues, execution, dispatch, shutdown, ClosedMeansNeverRan,
                GracefulDrain, Accepted, NoLostWakeup
  <2> QED BY <2>1, <2>2, <2>3 DEF PoolInv
<1> QED BY <1>1, <1>2


\* The places a job is queued in are counted by NoDuplicateWork.
LEMMA OnePlace ==
    ASSUME Lined(global, local, buffer), JobsOK
    PROVE  NoDuplicateWork
<1> SUFFICES ASSUME NEW j \in Jobs
             PROVE  Cardinality(Places(j)) <= (IF job[j] = "queued" THEN 1 ELSE 0)
  BY DEF NoDuplicateWork
<1> DEFINE G == SharedPlaces(j)
           L == LocalPlaces(j)
           B == BufferPlaces(j)
<1>0. Places(j) = G \cup L \cup B
  BY DEF Places
<1> USE DEF SharedPlaces, LocalPlaces, BufferPlaces
<1>1. ~InQueue(j, global) => G = {}
  BY DEF InQueue
<1>2. (\A w \in Workers : ~InQueue(j, local[w])) => L = {}
  BY DEF InQueue
<1>3. (\A w \in Workers : ~InQueue(j, buffer[w])) => B = {}
  BY DEF InQueue
<1>4. ASSUME InQueue(j, global) PROVE \E x : G = {x}
  <2>1. PICK k \in DOMAIN global : global[k] = j
    BY <1>4 DEF InQueue
  <2>2. {i \in DOMAIN global : global[i] = j} = {k}
    BY <2>1 DEF Lined, NoRepeat
  <2>3. G = {<<"global", k>>}
    BY <2>2
  <2> QED BY <2>3
<1>5. ASSUME NEW w \in Workers, InQueue(j, local[w]) PROVE \E x : L = {x}
  <2>1. PICK k \in DOMAIN local[w] : local[w][k] = j
    BY <1>5 DEF InQueue
  <2>2. {i \in DOMAIN local[w] : local[w][i] = j} = {k}
    BY <2>1 DEF Lined, NoRepeat
  <2>3. \A v \in Workers : v # w => {i \in DOMAIN local[v] : local[v][i] = j} = {}
    <3>1. \A v \in Workers : v # w => ~InQueue(j, local[v])
      BY <1>5 DEF Lined
    <3> QED BY <3>1 DEF InQueue
  <2>4. L = {<<w, "local", k>>}
    <3>1. <<w, "local", k>> \in L
      BY <2>2
    <3>2. ASSUME NEW x \in L PROVE x = <<w, "local", k>>
      <4>1. PICK v \in Workers : x \in {<<v, "local", i>> : i \in {n \in DOMAIN local[v] : local[v][n] = j}}
        OBVIOUS
      <4>2. v = w
        BY <4>1, <2>3
      <4> QED BY <4>1, <4>2, <2>2
    <3> QED BY <3>1, <3>2
  <2> QED BY <2>4
<1>6. ASSUME NEW w \in Workers, InQueue(j, buffer[w]) PROVE \E x : B = {x}
  <2>1. PICK k \in DOMAIN buffer[w] : buffer[w][k] = j
    BY <1>6 DEF InQueue
  <2>2. {i \in DOMAIN buffer[w] : buffer[w][i] = j} = {k}
    BY <2>1 DEF Lined, NoRepeat
  <2>3. \A v \in Workers : v # w => {i \in DOMAIN buffer[v] : buffer[v][i] = j} = {}
    <3>1. \A v \in Workers : v # w => ~InQueue(j, buffer[v])
      BY <1>6 DEF Lined
    <3> QED BY <3>1 DEF InQueue
  <2>4. B = {<<w, "buffer", k>>}
    <3>1. <<w, "buffer", k>> \in B
      BY <2>2
    <3>2. ASSUME NEW x \in B PROVE x = <<w, "buffer", k>>
      <4>1. PICK v \in Workers : x \in {<<v, "buffer", i>> : i \in {n \in DOMAIN buffer[v] : buffer[v][n] = j}}
        OBVIOUS
      <4>2. v = w
        BY <4>1, <2>3
      <4> QED BY <4>1, <4>2, <2>2
    <3> QED BY <3>1, <3>2
  <2> QED BY <2>4
<1> HIDE DEF SharedPlaces, LocalPlaces, BufferPlaces
<1>7. ~Somewhere(j, global, local, buffer) => Places(j) = {}
  BY <1>0, <1>1, <1>2, <1>3 DEF Somewhere
<1>8. Somewhere(j, global, local, buffer) => \E x : Places(j) = {x}
  BY <1>0, <1>1, <1>2, <1>3, <1>4, <1>5, <1>6 DEF Somewhere, Lined
<1>9. job[j] # "queued" => Places(j) = {}
  BY <1>7 DEF JobsOK
<1>10. Cardinality(Places(j)) = 0 \/ (Cardinality(Places(j)) = 1 /\ job[j] = "queued")
  <2>1. Cardinality({}) = 0 /\ \A x : Cardinality({x}) = 1
    BY FS_EmptySet, FS_Singleton
  <2> QED BY <2>1, <1>7, <1>8, <1>9
<1> QED BY <1>10

\* The inductive invariant holds throughout.
THEOREM PoolInvariant == Spec => []PoolInv
<1>1. Init => PoolInv
  BY PoolInit
<1>2. PoolInv /\ [Next]_vars => PoolInv'
  BY PoolStep
<1> QED BY <1>1, <1>2, PTL DEF Spec

\* A scene restricts the steps of the pool and adds none.
LEMMA SceneIsPool == MSpec => Spec
<1>1. MInit => Init
  BY DEF MInit
<1>2. [MNext]_mvars => [Next]_vars
  BY DEF MNext, mvars
<1> QED BY <1>1, <1>2, PTL DEF MSpec, Spec

\* For any number of workers and jobs, any capacity and batch size: a job is
\* queued in at most one place, and in none once a worker has popped it.
THEOREM PoolIsSound == MSpec => []PoolSound
<1>1. PoolInv => PoolSound
  BY OnePlace DEF PoolInv, PoolSound
<1> QED BY <1>1, PoolInvariant, SceneIsPool, PTL

\* For any jobs, also ones that block their thread past the join: a future that
\* failed with ThreadPoolClosedError belongs to a job that never ran and never
\* will (but on such a thread), and a close() that saw the pool drained left
\* every accepted job its own result.
THEOREM PoolOutcomesHonest == MSpec => []OutcomesHonest
<1>1. PoolInv => OutcomesHonest
  BY DEF PoolInv, OutcomesHonest
<1> QED BY <1>1, PoolInvariant, SceneIsPool, PTL

\* No worker sleeps beside a job pinned to it without being notified, however
\* submissions, pops and the clearing of the event interleave.
THEOREM PoolPinnedWake == MSpec => []PinnedWakeKept
<1>1. PoolInv => PinnedWakeKept
  BY DEF PoolInv, PinnedWakeKept
<1> QED BY <1>1, PoolInvariant, SceneIsPool, PTL

\* When close() returns, every future that submit() gave out is completed, also
\* those of submissions that raced with it.
THEOREM PoolCloseResolves == MSpec => []CloseResolves
<1>1. PoolInv => CloseResolves
  <2>1. ASSUME PoolInv, mode = "close", Coroutines \cap Stubborn = {}, cpc \in {"done", "raised"},
               NEW j \in Jobs, Accepted(j)
        PROVE  fut[j] # "pending"
    BY <2>1 DEF PoolInv, FuturesOK, Accepted, Late
  <2> QED BY <2>1 DEF CloseResolves, CloseResolvesAll, ShutdownResolvesAll
<1> QED BY <1>1, PoolInvariant, SceneIsPool, PTL
=============================================================================
