----------------------------- MODULE SyncProofs -----------------------------
(***************************************************************************)
(* Proofs about the synchronisation primitives of MCSync, for any number   *)
(* of tasks, permits, jobs, readers, writers and parties, and whoever is   *)
(* cancelled, dies as owner or loses its loop while it waits.  Lock comes  *)
(* first; Condition builds on its invariant.                               *)
(***************************************************************************)
EXTENDS MCSync, QueueLemmas

-----------------------------------------------------------------------------
(* The inductive invariant *)

Gone == {"finished", "stranded"}

\* A task is queued at most once, only while its acquire is suspended, and
\* never while it owns the lock.
QueueOK ==
    /\ NoRepeat(waiters)
    /\ \A t \in Tasks : InQueue(t, waiters) =>
            pc[t] \in {"waiting", "unwind", "stranded"} /\ owner # t

IInv == TypeOK /\ QueueOK /\ MutualExclusion /\ NoLostOwnership

-----------------------------------------------------------------------------
(* Passing the lock on *)

\* _release_locked: the new owner was queued and is not any more; nobody else
\* who is alive leaves the queue; a free lock leaves nobody queued.
LEMMA HandoverQueue ==
    ASSUME NEW q \in Seq(Tasks), NEW o, NEW rest, NoRepeat(q), Handover(q, o, rest)
    PROVE  /\ rest \in Seq(Tasks)
           /\ NoRepeat(rest)
           /\ \A x : InQueue(x, rest) => InQueue(x, q) /\ x # o
           /\ \A x : InQueue(x, q) /\ pc[x] \notin Gone => InQueue(x, rest) \/ x = o
           /\ o # NoTask => o \in Tasks /\ InQueue(o, q) /\ pc[o] \notin Gone
           /\ o = NoTask \/ o \in Tasks
           /\ o = NoTask => rest = <<>>
<1>1. Len(q) \in Nat /\ DOMAIN q = 1..Len(q) /\ \A i \in 1..Len(q) : q[i] \in Tasks
  BY LenProperties, ElementOfSeq
<1>2. CASE /\ \A k \in DOMAIN q : pc[q[k]] \in Gone
           /\ o = NoTask /\ rest = <<>>
  <2>1. rest \in Seq(Tasks) /\ DOMAIN rest = {}
    BY <1>2, EmptySeq
  <2> QED BY <1>2, <2>1 DEF NoRepeat, InQueue
<1>3. CASE \E k \in DOMAIN q : /\ pc[q[k]] \notin Gone
                               /\ \A j \in 1..(k - 1) : pc[q[j]] \in Gone
                               /\ o = q[k] /\ rest = SubSeq(q, k + 1, Len(q))
  <2>1. PICK k \in 1..Len(q) : /\ pc[q[k]] \notin Gone
                               /\ \A j \in 1..(k - 1) : pc[q[j]] \in Gone
                               /\ o = q[k] /\ rest = SubSeq(q, k + 1, Len(q))
    BY <1>1, <1>3
  <2>2. /\ rest \in Seq(Tasks) /\ NoRepeat(rest)
        /\ \A x : InQueue(x, rest) <=> InQueue(x, q) /\ x \notin Front(q, k)
    <3>1. k \in Nat /\ k <= Len(q) /\ rest = SubSeq(q, k + 1, Len(q))
      BY <1>1, <2>1
    <3> QED BY <3>1, SuffixQueue
  <2>3. o \in Front(q, k) /\ \A x \in Front(q, k) : pc[x] \notin Gone => x = o
    BY <1>1, <2>1 DEF Front
  <2>4. /\ \A x : InQueue(x, rest) => InQueue(x, q) /\ x # o
        /\ \A x : InQueue(x, q) /\ pc[x] \notin Gone => InQueue(x, rest) \/ x = o
    BY <2>2, <2>3
  <2>5. o \in Tasks /\ InQueue(o, q) /\ pc[o] \notin Gone
    BY <1>1, <2>1 DEF InQueue
  <2>6. o # NoTask
    BY <2>5, LockAssumption
  <2> QED BY <2>2, <2>4, <2>5, <2>6
<1> QED BY <1>2, <1>3 DEF Handover, Gone

-----------------------------------------------------------------------------
(* The invariant is inductive *)

\* A new lock, free and with an empty queue, satisfies the invariant.
LEMMA InitInv == Init => IInv
<1> SUFFICES ASSUME Init PROVE IInv
  OBVIOUS
<1>1. DOMAIN waiters = {} /\ waiters \in Seq(Tasks)
  BY EmptySeq DEF Init
<1> QED BY <1>1 DEF Init, IInv, TypeOK, PCs, QueueOK, NoRepeat, InQueue,
                    MutualExclusion, Granted, NoLostOwnership

\* What _release_locked leaves when t, the owner, gives the lock up.
LEMMA ReleaseInv ==
    ASSUME IInv, NEW t \in Tasks, owner = t,
           pc[t] \in {"holding", "unwind"}, ReleaseLocked(waiters), Goto(t, "idle")
    PROVE  IInv'
<1>1. /\ waiters \in Seq(Tasks) /\ NoRepeat(waiters) /\ Handover(waiters, owner', waiters')
      /\ pc \in [Tasks -> PCs] /\ pc' = [pc EXCEPT ![t] = "idle"]
  BY DEF IInv, TypeOK, QueueOK, ReleaseLocked, Goto
<1>2. /\ waiters' \in Seq(Tasks) /\ NoRepeat(waiters')
      /\ \A x : InQueue(x, waiters') => InQueue(x, waiters) /\ x # owner'
      /\ \A x : InQueue(x, waiters) /\ pc[x] \notin Gone => InQueue(x, waiters') \/ x = owner'
      /\ owner' # NoTask => owner' \in Tasks /\ InQueue(owner', waiters) /\ pc[owner'] \notin Gone
      /\ owner' = NoTask \/ owner' \in Tasks
      /\ owner' = NoTask => waiters' = <<>>
  BY <1>1, HandoverQueue
<1>3. ~InQueue(t, waiters) /\ ~InQueue(t, waiters') /\ owner' # t
  BY <1>2, LockAssumption DEF IInv, QueueOK
<1>4. TypeOK'
  BY <1>1, <1>2 DEF TypeOK, PCs
<1>5. QueueOK'
  BY <1>1, <1>2, <1>3 DEF QueueOK, IInv
<1>6. MutualExclusion'
  <2> SUFFICES ASSUME NEW u \in Tasks, pc'[u] = "holding" \/ Granted(u)' PROVE owner' = u
    BY DEF MutualExclusion
  <2>1. u # t /\ pc'[u] = pc[u]
    BY <1>1 DEF Granted
  <2>2. CASE pc'[u] = "holding"
    BY <2>1, <2>2 DEF IInv, MutualExclusion
  <2>3. CASE Granted(u)'
    BY <1>2, <2>1, <2>3 DEF Granted, IInv, MutualExclusion, Gone
  <2> QED BY <2>2, <2>3
<1>7. NoLostOwnership'
  <2>1. ASSUME owner' # NoTask PROVE Granted(owner)'
    <3>1. pc[owner'] \in {"waiting", "unwind"} /\ ~InQueue(owner', waiters')
      BY <1>2, <2>1 DEF IInv, QueueOK, Gone
    <3> QED BY <1>1, <1>2, <1>3, <2>1, <3>1 DEF Granted
  <2> QED BY <1>2, <2>1 DEF NoLostOwnership
<1> QED BY <1>4, <1>5, <1>6, <1>7 DEF IInv

\* A step that leaves the owner and the queue alone and moves a task t to where
\* it may be keeps the invariant.
LEMMA MoveInv ==
    ASSUME IInv, NEW t \in Tasks, NEW where \in PCs, UNCHANGED <<owner, waiters>>,
           Goto(t, where),
           InQueue(t, waiters) => where \in {"waiting", "unwind", "stranded"},
           where \in {"holding", "waiting", "unwind"} /\ ~InQueue(t, waiters) => owner = t,
           owner = t => where \in {"holding", "finished", "waiting", "unwind"}
    PROVE  IInv'
<1>1. pc' = [pc EXCEPT ![t] = where] /\ pc \in [Tasks -> PCs]
  BY DEF Goto, IInv, TypeOK
<1>2. owner' = owner /\ waiters' = waiters
  OBVIOUS
<1>3. TypeOK'
  BY <1>1, <1>2 DEF IInv, TypeOK, PCs
<1>4. QueueOK'
  BY <1>1, <1>2 DEF IInv, QueueOK
<1>5. MutualExclusion'
  BY <1>1, <1>2 DEF IInv, MutualExclusion, Granted
<1>6. NoLostOwnership'
  <2>1. ASSUME owner # NoTask
        PROVE  pc'[owner] \in {"holding", "finished"} \/ Granted(owner)'
    <3>1. owner \in Tasks /\ ~InQueue(owner, waiters)
      BY <2>1 DEF IInv, TypeOK, QueueOK
    <3> QED BY <1>1, <1>2, <2>1, <3>1 DEF IInv, NoLostOwnership, Granted
  <2> QED BY <1>2, <2>1 DEF IInv, NoLostOwnership
<1> QED BY <1>3, <1>4, <1>5, <1>6 DEF IInv

\* Every step of acquire, release, cancellation and task death preserves it.
LEMMA NextInv == IInv /\ [Next]_lvars => IInv'
<1> SUFFICES ASSUME IInv, [Next]_lvars PROVE IInv'
  OBVIOUS
<1>0. /\ waiters \in Seq(Tasks) /\ NoRepeat(waiters)
      /\ pc \in [Tasks -> PCs] /\ owner \in Tasks \cup {NoTask}
  BY DEF IInv, TypeOK, QueueOK
<1>1. ASSUME NEW t \in Tasks, Acquire(t) PROVE IInv'
  <2>0. pc[t] = "idle" /\ owner # t /\ ~InQueue(t, waiters)
    BY <1>1 DEF Acquire, IInv, QueueOK
  <2>1. CASE owner = NoTask /\ owner' = t /\ UNCHANGED waiters /\ Goto(t, "holding")
    <3>1. waiters = <<>> /\ \A x : ~InQueue(x, waiters)
      BY <2>1 DEF IInv, NoLostOwnership, InQueue
    <3>2. TypeOK'
      BY <1>0, <2>1 DEF TypeOK, PCs, Goto
    <3>3. QueueOK'
      BY <1>0, <2>1, <3>1 DEF QueueOK
    <3>4. MutualExclusion'
      BY <1>0, <2>0, <2>1, <3>1, LockAssumption DEF IInv, MutualExclusion, Granted, Goto
    <3>5. NoLostOwnership'
      BY <1>0, <2>1, LockAssumption DEF NoLostOwnership, Goto
    <3> QED BY <3>2, <3>3, <3>4, <3>5 DEF IInv
  <2>2. CASE /\ owner # NoTask /\ UNCHANGED owner
             /\ waiters' = Append(waiters, t) /\ Goto(t, "waiting")
    <3>1. /\ waiters' \in Seq(Tasks) /\ NoRepeat(waiters')
          /\ \A x : InQueue(x, waiters') <=> InQueue(x, waiters) \/ x = t
      BY <1>0, <2>0, <2>2, AppendQueue
    <3>2. TypeOK'
      BY <1>0, <2>2, <3>1 DEF TypeOK, PCs, Goto
    <3>3. QueueOK'
      BY <1>0, <2>0, <2>2, <3>1 DEF IInv, QueueOK, Goto
    <3>4. MutualExclusion'
      BY <1>0, <2>0, <2>2, <3>1 DEF IInv, MutualExclusion, Granted, Goto
    <3>5. NoLostOwnership'
      BY <1>0, <2>0, <2>2, <3>1 DEF IInv, NoLostOwnership, Granted, Goto
    <3> QED BY <3>2, <3>3, <3>4, <3>5 DEF IInv
  <2>3. CASE /\ OwnerDead /\ Handover(waiters, NoTask, <<>>)
             /\ owner' = t /\ waiters' = <<>> /\ Goto(t, "holding")
    <3>1. /\ <<>> \in Seq(Tasks) /\ NoRepeat(<<>>) /\ \A x : ~InQueue(x, <<>>)
      BY EmptySeq DEF InQueue, NoRepeat
    <3>a. \A x : InQueue(x, waiters) => pc[x] \in Gone \/ x = NoTask
      BY <1>0, <2>3, <3>1, HandoverQueue
    <3>2. \A u \in Tasks : pc[u] \notin {"holding", "waiting", "unwind"}
      BY <1>0, <2>3, <3>a, LockAssumption DEF OwnerDead, IInv, MutualExclusion, Granted, Gone
    <3>3. TypeOK'
      BY <1>0, <2>3, <3>1 DEF TypeOK, PCs, Goto
    <3>4. QueueOK'
      BY <2>3, <3>1 DEF QueueOK
    <3>5. MutualExclusion'
      BY <1>0, <2>3, <3>2 DEF MutualExclusion, Granted, Goto
    <3>6. NoLostOwnership'
      BY <1>0, <2>3, LockAssumption DEF NoLostOwnership, Goto
    <3> QED BY <3>3, <3>4, <3>5, <3>6 DEF IInv
  <2>4. CASE /\ OwnerDead /\ Goto(t, "waiting")
             /\ \E k \in DOMAIN waiters :
                  LET rest == SubSeq(waiters, k + 1, Len(waiters)) IN
                  /\ Handover(waiters, waiters[k], rest)
                  /\ owner' = waiters[k]
                  /\ waiters' = Append(rest, t)
    <3>1. PICK k \in DOMAIN waiters :
            /\ Handover(waiters, owner', SubSeq(waiters, k + 1, Len(waiters)))
            /\ owner' = waiters[k]
            /\ waiters' = Append(SubSeq(waiters, k + 1, Len(waiters)), t)
      BY <2>4
    <3> DEFINE rest == SubSeq(waiters, k + 1, Len(waiters))
    <3>2. /\ rest \in Seq(Tasks) /\ NoRepeat(rest)
          /\ \A x : InQueue(x, rest) => InQueue(x, waiters) /\ x # owner'
          /\ \A x : InQueue(x, waiters) /\ pc[x] \notin Gone => InQueue(x, rest) \/ x = owner'
          /\ owner' # NoTask => owner' \in Tasks /\ InQueue(owner', waiters) /\ pc[owner'] \notin Gone
      BY <1>0, <3>1, HandoverQueue
    <3>3. waiters' = Append(rest, t)
      BY <3>1
    <3>4. owner' \in Tasks
      BY <1>0, <3>1, ElementOfSeq, LenProperties
    <3> HIDE DEF rest
    <3>5. /\ waiters' \in Seq(Tasks) /\ NoRepeat(waiters')
          /\ \A x : InQueue(x, waiters') <=> InQueue(x, rest) \/ x = t
      BY <2>0, <3>2, <3>3, AppendQueue
    <3>6. /\ owner' # NoTask /\ owner' # t
          /\ pc[owner'] \in {"waiting", "unwind"} /\ ~InQueue(owner', waiters')
      BY <2>0, <3>2, <3>4, <3>5, LockAssumption DEF IInv, QueueOK, Gone
    <3>7. TypeOK'
      BY <1>0, <2>4, <3>4, <3>5 DEF TypeOK, PCs, Goto
    <3>8. QueueOK'
      BY <1>0, <2>4, <3>2, <3>5, <3>6 DEF IInv, QueueOK, Goto
    <3>9. MutualExclusion'
      BY <1>0, <2>0, <2>4, <3>2, <3>5
         DEF OwnerDead, IInv, MutualExclusion, Granted, Goto, Gone
    <3>10. NoLostOwnership'
      BY <1>0, <2>4, <3>4, <3>6 DEF NoLostOwnership, Granted, Goto
    <3> QED BY <3>7, <3>8, <3>9, <3>10 DEF IInv
  <2> QED BY <1>1, <2>1, <2>2, <2>3, <2>4 DEF Acquire
<1>2. ASSUME NEW t \in Tasks, Resume(t) PROVE IInv'
  <2>1. owner = t
    BY <1>2 DEF Resume, IInv, MutualExclusion, Granted
  <2> QED BY <1>2, <2>1, MoveInv DEF Resume, PCs
<1>3. ASSUME NEW t \in Tasks, Cancel(t) PROVE IInv'
  <2>1. ~InQueue(t, waiters) => owner = t
    BY <1>3 DEF Cancel, IInv, MutualExclusion, Granted
  <2> QED BY <1>3, <2>1, MoveInv DEF Cancel, PCs
<1>4. ASSUME NEW t \in Tasks, Unwind(t) PROVE IInv'
  <2>1. CASE InQueue(t, waiters) /\ waiters' = Discard(waiters, t) /\ UNCHANGED owner
    <3>1. /\ waiters' \in Seq(Tasks) /\ NoRepeat(waiters')
          /\ \A x : InQueue(x, waiters') <=> InQueue(x, waiters) /\ x # t
      BY <1>0, <2>1, DiscardQueue
    <3>2. owner # t /\ owner # NoTask
      BY <2>1 DEF IInv, QueueOK, NoLostOwnership, InQueue
    <3>3. pc' = [pc EXCEPT ![t] = "idle"]
      BY <1>4 DEF Unwind, Goto
    <3>4. TypeOK'
      BY <1>0, <2>1, <3>1, <3>3 DEF TypeOK, PCs
    <3>5. QueueOK'
      BY <1>0, <2>1, <3>1, <3>3 DEF IInv, QueueOK
    <3>6. MutualExclusion'
      BY <1>0, <2>1, <3>1, <3>3 DEF IInv, MutualExclusion, Granted
    <3>7. NoLostOwnership'
      BY <1>0, <2>1, <3>1, <3>2, <3>3 DEF IInv, NoLostOwnership, Granted
    <3> QED BY <3>4, <3>5, <3>6, <3>7 DEF IInv
  <2>2. CASE owner = t /\ ReleaseLocked(waiters)
    BY <1>4, <2>2, ReleaseInv DEF Unwind
  <2>3. CASE ~InQueue(t, waiters) /\ owner # t
    BY <1>4, <2>3 DEF Unwind, IInv, MutualExclusion, Granted
  <2> QED BY <1>4, <2>1, <2>2, <2>3 DEF Unwind
<1>5. ASSUME NEW t \in Tasks, Release(t) PROVE IInv'
  BY <1>5, ReleaseInv DEF Release
<1>6. ASSUME NEW t \in Tasks, Finish(t) PROVE IInv'
  <2>1. owner = t /\ ~InQueue(t, waiters)
    BY <1>6 DEF Finish, IInv, MutualExclusion, QueueOK
  <2> QED BY <1>6, <2>1, MoveInv DEF Finish, PCs
<1>7. ASSUME NEW t \in Tasks, Strand(t) PROVE IInv'
  <2>1. owner # t
    BY <1>7 DEF Strand, IInv, QueueOK
  <2> QED BY <1>7, <2>1, MoveInv DEF Strand, PCs
<1>8. CASE UNCHANGED lvars
  BY <1>8 DEF lvars, IInv, TypeOK, QueueOK, NoRepeat, InQueue, MutualExclusion,
              Granted, NoLostOwnership
<1> QED BY <1>1, <1>2, <1>3, <1>4, <1>5, <1>6, <1>7, <1>8 DEF Next, Step

-----------------------------------------------------------------------------
(* The theorems *)

\* Every variable keeps its type in every execution of the lock.
THEOREM TypeCorrect == Spec => []TypeOK
<1>1. IInv => TypeOK
  BY DEF IInv
<1> QED BY InitInv, NextInv, <1>1, PTL DEF Spec

\* A task in the critical section, or with a grant on its way to it, is the
\* owner: at most one task is ever inside.
THEOREM MutexTheorem == Spec => []MutualExclusion
<1>1. IInv => MutualExclusion
  BY DEF IInv
<1> QED BY InitInv, NextInv, <1>1, PTL DEF Spec

\* Neither release, nor a cancelled grant, nor the recovery of a dead owner
\* loses the ownership: a free lock has no waiters, and a living owner knows,
\* or is about to learn, that it owns the lock.
THEOREM OwnershipTheorem == Spec => []NoLostOwnership
<1>1. IInv => NoLostOwnership
  BY DEF IInv
<1> QED BY InitInv, NextInv, <1>1, PTL DEF Spec

\* _release_locked passes no living waiter over.
LEMMA HandoverOrder ==
    ASSUME NEW q \in Seq(Tasks), NEW o \in Tasks, NEW rest, Handover(q, o, rest)
    PROVE  \A m \in DOMAIN q : q[m] # o /\ pc[q[m]] \in {"waiting", "unwind"} =>
               \E j \in 1..(m - 1) : q[j] = o
<1>1. Len(q) \in Nat /\ DOMAIN q = 1..Len(q)
  BY LenProperties
<1>2. PICK k \in DOMAIN q : /\ \A j \in 1..(k - 1) : pc[q[j]] \in {"finished", "stranded"}
                            /\ o = q[k]
  BY LockAssumption DEF Handover
<1>3. ASSUME NEW m \in DOMAIN q, q[m] # o, pc[q[m]] \in {"waiting", "unwind"}
      PROVE  k \in 1..(m - 1)
  <2>1. m \notin 1..(k - 1)
    BY <1>2, <1>3
  <2>2. m # k
    BY <1>2, <1>3
  <2>3. m \in 1..Len(q) /\ k \in 1..Len(q)
    BY <1>1
  <2> QED BY ONLY <1>1, <2>1, <2>2, <2>3
<1> QED BY <1>2, <1>3

\* The lock is never given to a task ahead of a living waiter that queued
\* before it, by acquire, release or the unwinding of a cancelled grant.
THEOREM FifoTheorem == Spec => NoBarging
<1> DEFINE Passes(u) ==
        \A k \in DOMAIN waiters :
            waiters[k] # u /\ pc[waiters[k]] \in {"waiting", "unwind"} =>
                \E j \in 1..(k - 1) : waiters[j] = u
    Fair == \A u \in Tasks : owner' = u /\ owner # u => Passes(u)
<1>1. IInv /\ [Next]_lvars => [Fair]_lvars
  <2> SUFFICES ASSUME IInv, Next, NEW u \in Tasks, owner' = u, owner # u PROVE Passes(u)
    OBVIOUS
  <2>1. waiters \in Seq(Tasks)
    BY DEF IInv, TypeOK
  <2>2. PICK t \in Tasks : \/ Acquire(t) \/ Resume(t) \/ Unwind(t) \/ Release(t)
                           \/ Cancel(t) \/ Finish(t) \/ Strand(t)
    BY DEF Next, Step
  <2>3. CASE owner = NoTask
    BY <2>3 DEF IInv, NoLostOwnership
  <2>4. CASE Handover(waiters, NoTask, <<>>)
    BY <2>1, <2>4, LockAssumption, LenProperties, ElementOfSeq DEF Handover
  <2>5. CASE \E rest : Handover(waiters, u, rest)
    BY <2>1, <2>5, HandoverOrder
  <2>6. CASE Acquire(t)
    <3>1. ASSUME NEW k \in DOMAIN waiters, owner' = waiters[k],
                 Handover(waiters, waiters[k], SubSeq(waiters, k + 1, Len(waiters)))
          PROVE  \E rest : Handover(waiters, u, rest)
      BY <3>1
    <3> QED BY <2>3, <2>4, <2>5, <2>6, <3>1 DEF Acquire
  <2>7. CASE ReleaseLocked(waiters)
    <3>1. Handover(waiters, owner', waiters')
      BY <2>7 DEF ReleaseLocked
    <3>2. \E rest : Handover(waiters, u, rest)
      BY <3>1
    <3> QED BY <2>5, <3>2
  <2> QED BY <2>2, <2>6, <2>7 DEF Resume, Unwind, Release, Cancel, Finish, Strand
<1>2. NoBarging <=> [][Fair]_lvars
  BY DEF NoBarging
<1> QED BY InitInv, NextInv, <1>1, <1>2, PTL DEF Spec

-----------------------------------------------------------------------------
(* Condition *)

\* A task is registered with the condition at most once and only while it waits
\* for a notification; the notifications owed are the carriers.  The lock keeps
\* its own invariant, IInv.
WaitersOK ==
    /\ cwaiters \in Seq(Tasks)
    /\ wpc \in [Tasks -> WPCs]
    /\ interrupted \in [Tasks -> BOOLEAN]
    /\ calls \in 0..MaxNotify
    /\ NoRepeat(cwaiters)
    /\ \A t \in Tasks : InQueue(t, cwaiters) => wpc[t] \in {"enlisted", "asleep", "kicked"}
    /\ NoLostNotification

CInv == IInv /\ WaitersOK

\* The carriers are finitely many.
LEMMA CarriersFinite == IsFiniteSet(Carriers) /\ Cardinality(Carriers) \in 0..Cardinality(Tasks)
<1>1. Carriers \in SUBSET Tasks
  BY DEF Carriers
<1>2. IsFiniteSet(Carriers) /\ Cardinality(Carriers) <= Cardinality(Tasks)
  BY <1>1, FS_Subset, ConditionAssumption
<1>3. Cardinality(Carriers) \in Nat /\ Cardinality(Tasks) \in Nat
  BY <1>2, FS_CardinalityType, ConditionAssumption
<1> QED BY <1>2, <1>3

\* Nobody waits on a new condition.
LEMMA CInvInit == CInit => CInv
<1> SUFFICES ASSUME CInit PROVE CInv
  OBVIOUS
<1>1. IInv
  BY InitInv DEF CInit
<1>2. cwaiters \in Seq(Tasks) /\ DOMAIN cwaiters = {}
  BY EmptySeq DEF CInit
<1>3. Carriers = {}
  BY DEF CInit, Carriers
<1>4. NoLostNotification
  BY <1>3, FS_EmptySet DEF NoLostNotification, CInit
<1> QED BY <1>1, <1>2, <1>4, ConditionAssumption
        DEF CInv, WaitersOK, CInit, WPCs, NoRepeat, InQueue

\* _forward_notify, called by a carrier t that stops being one: the notification
\* goes to the first task registered, or is dropped because there is none.
LEMMA ForwardInv ==
    ASSUME WaitersOK, NEW t \in Tasks, t \in Carriers, ~InQueue(t, cwaiters), Forward,
           NEW where \in {"raising", "none"}, WGoto(t, where),
           interrupted' \in [Tasks -> BOOLEAN], UNCHANGED calls
    PROVE  WaitersOK'
<1>0. /\ cwaiters \in Seq(Tasks) /\ NoRepeat(cwaiters) /\ wpc \in [Tasks -> WPCs]
      /\ wpc' = [wpc EXCEPT ![t] = where] /\ where \in WPCs
      /\ owed = Cardinality(Carriers) /\ IsFiniteSet(Carriers)
  BY CarriersFinite DEF WaitersOK, WGoto, WPCs, NoLostNotification
<1>1. CASE cwaiters = <<>>
  <2>1. cwaiters' = cwaiters /\ owed' = owed - 1 /\ \A x : ~InQueue(x, cwaiters)
    BY <1>1 DEF Forward, InQueue
  <2>2. Carriers' = Carriers \ {t}
    BY <1>0, <2>1 DEF Carriers, WPCs
  <2>3. NoLostNotification'
    BY <1>0, <2>1, <2>2, CountRemove DEF NoLostNotification
  <2> QED BY <1>0, <2>1, <2>3 DEF WaitersOK
<1>2. CASE cwaiters # <<>>
  <2> DEFINE h == cwaiters[1]
  <2>1. /\ cwaiters' \in Seq(Tasks) /\ NoRepeat(cwaiters') /\ owed' = owed
        /\ h \in Tasks /\ InQueue(h, cwaiters)
        /\ \A x : InQueue(x, cwaiters') <=> InQueue(x, cwaiters) /\ x # h
    BY <1>0, <1>2, TailQueue DEF Forward
  <2> HIDE DEF h
  <2>2. h # t /\ h \notin Carriers /\ wpc[h] \in {"enlisted", "asleep", "kicked"}
    BY <2>1 DEF WaitersOK, Carriers
  <2>3. Carriers' = (Carriers \ {t}) \cup {h}
    <3>1. ASSUME NEW x \in Tasks PROVE x \in Carriers' <=> x \in (Carriers \ {t}) \cup {h}
      <4>1. CASE x = t
        BY <1>0, <2>2, <4>1 DEF Carriers
      <4>2. CASE x # t
        BY <1>0, <2>1, <2>2, <4>2 DEF Carriers
      <4> QED BY <4>1, <4>2
    <3> QED BY <2>1, <3>1 DEF Carriers
  <2>4. NoLostNotification'
    BY <1>0, <2>1, <2>2, <2>3, CountSwap DEF NoLostNotification
  <2>5. \A x \in Tasks : InQueue(x, cwaiters') => wpc'[x] \in {"enlisted", "asleep", "kicked"}
    BY <1>0, <2>1 DEF WaitersOK
  <2> QED BY <1>0, <2>1, <2>4, <2>5 DEF WaitersOK
<1> QED BY <1>1, <1>2

\* A step that leaves who carries a notification as it is.
LEMMA SameCarriers ==
    ASSUME NoLostNotification, Carriers' = Carriers, owed' = owed PROVE NoLostNotification'
BY DEF NoLostNotification

\* Every step of wait and notify keeps the notifications.
LEMMA WaitersNext == WaitersOK /\ [CNext]_vars => WaitersOK'
<1> SUFFICES ASSUME WaitersOK, [CNext]_vars PROVE WaitersOK'
  OBVIOUS
<1>0. /\ cwaiters \in Seq(Tasks) /\ NoRepeat(cwaiters) /\ wpc \in [Tasks -> WPCs]
      /\ interrupted \in [Tasks -> BOOLEAN] /\ calls \in 0..MaxNotify
      /\ \A t \in Tasks : InQueue(t, cwaiters) => wpc[t] \in {"enlisted", "asleep", "kicked"}
      /\ NoLostNotification
  BY DEF WaitersOK
<1>1. CASE UNCHANGED cvars
  BY <1>1 DEF cvars, WaitersOK, NoRepeat, InQueue, NoLostNotification, Carriers
<1>2. ASSUME NEW t \in Tasks, WaitEnlist(t) PROVE WaitersOK'
  <2>1. wpc[t] = "none" /\ ~InQueue(t, cwaiters)
    BY <1>0, <1>2 DEF WaitEnlist
  <2>2. /\ cwaiters' \in Seq(Tasks) /\ NoRepeat(cwaiters')
        /\ \A x : InQueue(x, cwaiters') <=> InQueue(x, cwaiters) \/ x = t
    BY <1>0, <1>2, <2>1, AppendQueue DEF WaitEnlist
  <2>3. Carriers' = Carriers
    BY <1>0, <1>2, <2>1, <2>2 DEF WaitEnlist, WGoto, Carriers
  <2> QED BY <1>0, <1>2, <2>2, <2>3, SameCarriers DEF WaitersOK, WaitEnlist, WGoto, WPCs
<1>3. ASSUME NEW t \in Tasks, WaitRelease(t) \/ WaitNotified(t) \/ WaitCancel(t)
      PROVE  WaitersOK'
  <2>1. Carriers' = Carriers
    BY <1>0, <1>3 DEF WaitRelease, WaitNotified, WaitCancel, WGoto, Carriers
  <2> QED BY <1>0, <1>3, <2>1, SameCarriers
          DEF WaitersOK, WaitRelease, WaitNotified, WaitCancel, WGoto, WPCs
<1>4. ASSUME NEW t \in Tasks, WaitUnwind(t) PROVE WaitersOK'
  <2>1. CASE InQueue(t, cwaiters)
    <3>1. /\ cwaiters' \in Seq(Tasks) /\ NoRepeat(cwaiters') /\ owed' = owed
          /\ \A x : InQueue(x, cwaiters') <=> InQueue(x, cwaiters) /\ x # t
      BY <1>0, <1>4, <2>1, DiscardQueue DEF WaitUnwind
    <3>2. Carriers' = Carriers
      BY <1>0, <1>4, <2>1, <3>1 DEF WaitUnwind, WGoto, Carriers
    <3> QED BY <1>0, <1>4, <3>1, <3>2, SameCarriers DEF WaitersOK, WaitUnwind, WGoto, WPCs
  <2>2. CASE ~InQueue(t, cwaiters)
    <3>1. t \in Carriers
      BY <1>4, <2>2 DEF WaitUnwind, Carriers
    <3> QED BY <1>0, <1>4, <2>2, <3>1, ForwardInv DEF WaitUnwind
  <2> QED BY <2>1, <2>2
<1>5. ASSUME NEW t \in Tasks, ReacquireUnwind(t) PROVE WaitersOK'
  BY <1>0, <1>5 DEF ReacquireUnwind, WaitersOK, NoLostNotification, Carriers
<1>6. ASSUME NEW t \in Tasks, WaitExit(t) PROVE WaitersOK'
  <2>0. ~InQueue(t, cwaiters) /\ interrupted' \in [Tasks -> BOOLEAN]
    BY <1>0, <1>6 DEF WaitExit
  <2>1. CASE wpc[t] = "notified" /\ interrupted[t] /\ Forward
    <3>1. t \in Carriers
      BY <2>1 DEF Carriers
    <3> QED BY <1>0, <1>6, <2>0, <2>1, <3>1, ForwardInv DEF WaitExit
  <2>2. CASE wpc[t] = "notified" /\ owed' = owed - 1 /\ cwaiters' = cwaiters
    <3>1. Carriers' = Carriers \ {t} /\ t \in Carriers /\ IsFiniteSet(Carriers)
      BY <1>0, <1>6, <2>2, CarriersFinite DEF WaitExit, WGoto, Carriers
    <3>2. NoLostNotification'
      BY <1>0, <2>2, <3>1, CountRemove DEF NoLostNotification
    <3> QED BY <1>0, <1>6, <2>0, <2>2, <3>2 DEF WaitersOK, WaitExit, WGoto, WPCs
  <2>3. CASE wpc[t] = "raising"
    <3>1. Carriers' = Carriers
      BY <1>0, <1>6, <2>3 DEF WaitExit, WGoto, Carriers
    <3> QED BY <1>0, <1>6, <2>0, <2>3, <3>1, SameCarriers DEF WaitersOK, WaitExit, WGoto, WPCs
  <2> QED BY <1>6, <2>1, <2>2, <2>3 DEF WaitExit
<1>7. ASSUME NEW n \in 1..Cardinality(Tasks), Notify(n) PROVE WaitersOK'
  <2>1. Len(cwaiters) \in Nat /\ DOMAIN cwaiters = 1..Len(cwaiters)
    BY <1>0, LenProperties
  <2>2. PICK k \in Nat : /\ k <= Len(cwaiters) /\ owed' = owed + k
                         /\ cwaiters' = SubSeq(cwaiters, k + 1, Len(cwaiters))
    <3> DEFINE j == IF n < Len(cwaiters) THEN n ELSE Len(cwaiters)
    <3>1. j \in Nat /\ j <= Len(cwaiters)
      BY <2>1
    <3>2. owed' = owed + j /\ cwaiters' = SubSeq(cwaiters, j + 1, Len(cwaiters))
      BY <1>7 DEF Notify
    <3> QED BY <3>1, <3>2
  <2>3. calls' \in 0..MaxNotify /\ UNCHANGED <<wpc, interrupted>>
    BY <1>0, <1>7, ConditionAssumption DEF Notify
  <2> DEFINE F == Front(cwaiters, k)
  <2>4. /\ cwaiters' \in Seq(Tasks) /\ NoRepeat(cwaiters')
        /\ \A x : InQueue(x, cwaiters') <=> InQueue(x, cwaiters) /\ x \notin F
    <3> HIDE DEF F
    <3>1. cwaiters \in Seq(Tasks) /\ NoRepeat(cwaiters)
      BY <1>0
    <3>2. k <= Len(cwaiters) /\ cwaiters' = SubSeq(cwaiters, k + 1, Len(cwaiters))
      BY <2>2
    <3> QED BY ONLY k \in Nat, <3>1, <3>2, SuffixQueue DEF F
  <2>5. IsFiniteSet(F) /\ Cardinality(F) = k
    BY <1>0, <2>2, CountPrefix
  <2>6. \A x \in F : InQueue(x, cwaiters) /\ x \in Tasks
    <3>1. \A i \in 1..k : i \in DOMAIN cwaiters /\ cwaiters[i] \in Tasks
      BY <1>0, <2>1, <2>2, ElementOfSeq
    <3> QED BY <3>1 DEF Front, InQueue
  <2> HIDE DEF F
  <2>7. Carriers' = Carriers \cup F /\ Carriers \cap F = {}
    BY <1>0, <2>3, <2>4, <2>6 DEF Carriers
  <2>8. NoLostNotification'
    <3>1. Cardinality(Carriers') = Cardinality(Carriers) + Cardinality(F)
      BY <2>5, <2>7, CarriersFinite, CountUnion
    <3> QED BY <1>0, <2>2, <2>5, <3>1 DEF NoLostNotification
  <2> QED BY <1>0, <2>3, <2>4, <2>8 DEF WaitersOK
<1>8. CASE UNCHANGED vars
  BY <1>1, <1>8 DEF vars
<1> QED BY <1>1, <1>2, <1>3, <1>4, <1>5, <1>6, <1>7, <1>8
        DEF CNext, WaitStep, Reacquire, LockStep

\* wait, notify and plain use of the lock are steps of the lock, or leave it alone.
LEMMA CStepsLock == [CNext]_vars => [Next]_lvars
BY DEF CNext, vars, WaitEnlist, WaitCancel, WaitStep, WaitRelease, WaitNotified, WaitUnwind,
       Reacquire, ReacquireUnwind, WaitExit, LockStep, Notify, Next, Step

\* A notification that notify() gave is never lost and never multiplied.
THEOREM NotificationTheorem == CSpec => []NoLostNotification
<1>1. CInv /\ [CNext]_vars => CInv'
  BY WaitersNext, CStepsLock, NextInv DEF CInv
<1>2. CInv => NoLostNotification
  BY DEF CInv, WaitersOK
<1> QED BY CInvInit, <1>1, <1>2, PTL DEF CSpec

\* wait() gives control back only to the owner of the lock, and then nobody else
\* is in the critical section.
THEOREM WaitTheorem == CSpec => WaitReturnsLocked
<1> DEFINE Locked == \A t \in Tasks : wpc[t] # "none" /\ wpc'[t] = "none" =>
                         owner' = t /\ \A u \in Tasks \ {t} : pc'[u] # "holding"
<1>1. CInv /\ [CNext]_vars => CInv'
  BY WaitersNext, CStepsLock, NextInv DEF CInv
<1>2. CInv /\ [CNext]_vars => [Locked]_vars
  <2> SUFFICES ASSUME CInv, CNext, NEW t \in Tasks, wpc[t] # "none", wpc'[t] = "none"
               PROVE  owner' = t /\ \A u \in Tasks \ {t} : pc'[u] # "holding"
    OBVIOUS
  <2>1. wpc \in [Tasks -> WPCs] /\ MutualExclusion
    BY DEF CInv, WaitersOK, IInv
  <2>2. WaitExit(t)
    BY <2>1 DEF CNext, WaitEnlist, WaitCancel, WaitStep, WaitRelease, WaitNotified, WaitUnwind,
       Reacquire, ReacquireUnwind, WaitExit, LockStep, Notify, WGoto, cvars
  <2> QED BY <2>1, <2>2 DEF WaitExit, lvars, MutualExclusion
<1>3. WaitReturnsLocked <=> [][Locked]_vars
  BY DEF WaitReturnsLocked
<1> QED BY CInvInit, <1>1, <1>2, <1>3, PTL DEF CSpec

-----------------------------------------------------------------------------
(* AsyncOnce *)

\* One caller leads, at most; it is still at it until done is set; before the
\* outcome is stored nobody publishes, afterwards nobody leads; a follower that
\* is registered no more finds the run done.
OnceInv ==
    /\ One!TypeOK
    /\ \A t \in Peers : oPc[t] = "leading" => oExecuting /\ oStored = "none" /\ ~oDone
    /\ \A t \in Peers : oPc[t] = "publishing" =>
         /\ oExecuting /\ oStored # "none" /\ ~oDone
         /\ oAnswer[t] \in {oStored, "cancelled"}
    /\ \A t, u \in Peers : oPc[t] \in {"leading", "publishing"} /\ oPc[u] \in {"leading", "publishing"} => t = u
    /\ \A t \in Peers : oPc[t] = "following" => oExecuting /\ (t \in oWaiters \/ oDone)
    /\ oStored # "none" => oExecuting
    /\ oDone => oStored # "none"
    /\ One!Agreement

\* A new AsyncOnce.
LEMMA OnceInit == One!Init => OnceInv
BY DEF One!Init, OnceInv, One!TypeOK, One!PCs, One!Answers, One!Agreement

\* Every step of do() and every cancellation preserves it.
LEMMA OnceNext == OnceInv /\ [One!Next]_once => OnceInv'
<1> SUFFICES ASSUME OnceInv, [One!Next]_once PROVE OnceInv'
  OBVIOUS
<1> USE DEF OnceInv, One!TypeOK, One!PCs, One!Answers, One!Agreement
<1>1. ASSUME NEW t \in Peers, One!Enter(t) PROVE OnceInv'
  BY <1>1 DEF One!Enter, One!Return
<1>2. ASSUME NEW t \in Peers, One!Settle(t) PROVE OnceInv'
  BY <1>2 DEF One!Settle
<1>3. ASSUME NEW t \in Peers, One!Publish(t) PROVE OnceInv'
  BY <1>3 DEF One!Publish
<1>4. ASSUME NEW t \in Peers, One!Resume(t) PROVE OnceInv'
  BY <1>4 DEF One!Resume, One!Return
<1>5. ASSUME NEW t \in Peers, One!Unwind(t) PROVE OnceInv'
  BY <1>5 DEF One!Unwind, One!Return
<1>6. ASSUME NEW t \in Peers, One!Cancel(t) PROVE OnceInv'
  BY <1>6 DEF One!Cancel
<1>7. CASE UNCHANGED once
  BY <1>7 DEF once
<1> QED BY <1>1, <1>2, <1>3, <1>4, <1>5, <1>6, <1>7 DEF One!Next, One!Step

-----------------------------------------------------------------------------
(* Event *)

\* Nobody is registered with an event that is set, and who waits is registered
\* or in the list of a set() that is still notifying.
EventInv ==
    /\ Ev!TypeOK
    /\ eFlag => eWaiters = {}
    /\ \A t \in Peers : ePc[t] = "wait" => t \in eWaiters \cup eUnposted

\* A new Event.
LEMMA EventInit == Ev!Init => EventInv
BY DEF Ev!Init, EventInv, Ev!TypeOK

\* Every step of set(), wait() and of the loops that die preserves it.
LEMMA EventNext == EventInv /\ [Ev!Next]_event => EventInv'
<1> SUFFICES ASSUME EventInv, [Ev!Next]_event PROVE EventInv'
  OBVIOUS
<1> USE DEF EventInv, Ev!TypeOK, Ev!Goto
<1>1. CASE Ev!Set
  BY <1>1 DEF Ev!Set
<1>2. ASSUME NEW t \in Peers, Ev!Wait(t) PROVE EventInv'
  BY <1>2 DEF Ev!Wait
<1>3. ASSUME NEW t \in Peers, Ev!Post(t) PROVE EventInv'
  BY <1>3 DEF Ev!Post
<1>4. ASSUME NEW t \in Peers, Ev!Resume(t) \/ Ev!Cancel(t) \/ Ev!Die(t) PROVE EventInv'
  BY <1>4 DEF Ev!Resume, Ev!Cancel, Ev!Die
<1>5. ASSUME NEW t \in Peers, Ev!Unwind(t) PROVE EventInv'
  BY <1>5 DEF Ev!Unwind
<1>6. CASE UNCHANGED event
  BY <1>6 DEF event
<1> QED BY <1>1, <1>2, <1>3, <1>4, <1>5, <1>6 DEF Ev!Next, Ev!Step

-----------------------------------------------------------------------------
(* AsyncWaitGroup *)

\* The jobs on the counter: the outstanding ones and the leaked ones.
Counted == WG!Outstanding \cup gLeaked

\* The counter is the counted jobs, because a wrapper is stepped from its first
\* send() or throw() on; whoever suspended on the group and is registered no
\* more was woken when all it waited for had ended, and a job never starts over.
GroupInv ==
    /\ gCounter \in Nat /\ gWaiting \subseteq JobWaiters
    /\ gJob \in [TrackedJobs -> {"new", "tracked", "running", "ended", "gone"}]
    /\ gStepped \in [TrackedJobs -> BOOLEAN]
    /\ gWpc \in [JobWaiters -> {"start", "suspended", "unwind", "returned", "cancelled"}]
    /\ gCovers \in [JobWaiters -> SUBSET TrackedJobs]
    /\ gLeaked \subseteq HastyJobs
    /\ \A j \in gLeaked : gJob[j] \in {"ended", "gone"}
    /\ gCounter = Cardinality(Counted)
    /\ \A j \in TrackedJobs : /\ gJob[j] \in {"running", "ended"} => gStepped[j]
                              /\ gJob[j] \in {"new", "tracked"} => ~gStepped[j]
    /\ \A w \in JobWaiters : \A j \in gCovers[w] : gJob[j] # "new"
    /\ \A w \in JobWaiters : gWpc[w] = "returned" \/ (gWpc[w] = "suspended" /\ w \notin gWaiting) =>
            gCovers[w] \cap WG!Outstanding = {}

\* The operators of FiniteSets are the same inside an instance.
LEMMA GroupCounts ==
    \A S : WG!Cardinality(S) = Cardinality(S) /\ WG!IsFiniteSet(S) = IsFiniteSet(S)
BY DEF WG!Cardinality, Cardinality, WG!IsFiniteSet, IsFiniteSet

\* There are finitely many jobs, so they can be counted.
LEMMA CountedFinite ==
    ASSUME gLeaked \subseteq HastyJobs
    PROVE  IsFiniteSet(Counted) /\ Cardinality(Counted) \in 0..Cardinality(TrackedJobs)
<1>1. Counted \in SUBSET TrackedJobs /\ IsFiniteSet(TrackedJobs)
  BY InstanceAssumptions, GroupCounts DEF Counted, WG!Outstanding, WG!WaitGroupParams
<1>2. /\ IsFiniteSet(Counted)
      /\ Cardinality(Counted) <= Cardinality(TrackedJobs)
  BY <1>1, FS_Subset
<1>3. Cardinality(Counted) \in Nat /\ Cardinality(TrackedJobs) \in Nat
  BY <1>1, <1>2, FS_CardinalityType
<1> QED BY <1>2, <1>3

\* The initial state has no job to count.
LEMMA GroupInit == WG!Init => GroupInv
<1> SUFFICES ASSUME WG!Init PROVE GroupInv
  OBVIOUS
<1>1. Counted = {} /\ WG!Outstanding = {}
  BY DEF WG!Init, WG!Outstanding, Counted
<1> QED BY <1>1, FS_EmptySet DEF WG!Init, GroupInv

\* done() for an outstanding job j that ends or goes away.
LEMMA DoneInv ==
    ASSUME GroupInv, NEW j \in TrackedJobs, gJob[j] \in {"tracked", "running"}, WG!done,
           NEW where \in {"ended", "gone"}, gJob' = [gJob EXCEPT ![j] = where],
           gStepped' \in [TrackedJobs -> BOOLEAN], gStepped'[j],
           \A i \in TrackedJobs \ {j} : gStepped'[i] = gStepped[i],
           UNCHANGED <<gWpc, gCovers, gLeaked>>
    PROVE  GroupInv'
<1>1. PICK Out : Out = Counted
  OBVIOUS
<1>2. j \in Out /\ Counted' = Out \ {j} /\ WG!Outstanding' = WG!Outstanding \ {j}
  <2>1. j \in WG!Outstanding /\ WG!Outstanding' = WG!Outstanding \ {j}
    BY DEF GroupInv, WG!Outstanding
  <2>2. j \notin gLeaked
    BY DEF GroupInv
  <2> QED BY <1>1, <2>1, <2>2 DEF Counted
<1>3. IsFiniteSet(Out) /\ gCounter = Cardinality(Out)
  BY <1>1, CountedFinite DEF GroupInv
<1>4. /\ IsFiniteSet(Out \ {j}) /\ Cardinality(Out \ {j}) = gCounter - 1 
      /\ gCounter \in Nat /\ gCounter # 0
  <2>1. Cardinality(Out \ {j}) = Cardinality(Out) - 1 /\ IsFiniteSet(Out \ {j})
    BY <1>2, <1>3, FS_RemoveElement
  <2>2. Cardinality(Out \ {j}) \in Nat /\ Cardinality(Out) \in Nat
    BY <1>3, <2>1, FS_CardinalityType
  <2> QED BY <1>3, <2>1, <2>2
<1>5. gCounter' = gCounter - 1 /\ gWaiting' = IF gCounter = 1 THEN {} ELSE gWaiting
  BY <1>4 DEF WG!done
<1>6. gCounter = 1 => Out \ {j} = {}
  BY <1>4, FS_EmptySet
<1>7. gCounter' = Cardinality(Counted') /\ gCounter' \in Nat
  BY <1>2, <1>4, <1>5
<1>8. \A w \in JobWaiters : gWpc[w] = "returned" \/ (gWpc[w] = "suspended" /\ w \notin gWaiting') =>
          gCovers[w] \cap WG!Outstanding' = {}
  <2>1. gCounter = 1 => WG!Outstanding' = {}
    BY <1>1, <1>2, <1>6 DEF Counted
  <2> QED BY <1>2, <1>5, <2>1 DEF GroupInv
<1>9. gWaiting' \subseteq JobWaiters
  BY <1>5 DEF GroupInv
<1>10. gLeaked' \subseteq HastyJobs /\ \A i \in gLeaked' : gJob'[i] \in {"ended", "gone"}
  BY InstanceAssumptions DEF GroupInv, WG!WaitGroupParams
<1>11. /\ gJob' \in [TrackedJobs -> {"new", "tracked", "running", "ended", "gone"}]
       /\ \A i \in TrackedJobs : /\ gJob'[i] \in {"running", "ended"} => gStepped'[i]
                                 /\ gJob'[i] \in {"new", "tracked"} => ~gStepped'[i]
       /\ \A i \in TrackedJobs : gJob[i] # "new" => gJob'[i] # "new"
  BY DEF GroupInv
<1>12. \A w \in JobWaiters : \A i \in gCovers'[w] : gJob'[i] # "new"
  BY <1>11 DEF GroupInv
<1>13. /\ gWpc' \in [JobWaiters -> {"start", "suspended", "unwind", "returned", "cancelled"}]
       /\ gCovers' \in [JobWaiters -> SUBSET TrackedJobs]
       /\ \A w \in JobWaiters :
            gWpc'[w] = "returned" \/ (gWpc'[w] = "suspended" /\ w \notin gWaiting') =>
                gCovers'[w] \cap WG!Outstanding' = {}
  BY <1>8 DEF GroupInv
<1> QED BY <1>7, <1>9, <1>10, <1>11, <1>12, <1>13 DEF GroupInv

\* A step that leaves the counted jobs and the counter alone, and by which
\* nobody stops waiting for them.
LEMMA SameJobsInv ==
    ASSUME GroupInv, Counted' = Counted, UNCHANGED gCounter,
           WG!Outstanding' \subseteq WG!Outstanding,
           gLeaked' \subseteq HastyJobs,
           \A j \in gLeaked' : gJob'[j] \in {"ended", "gone"},
           gJob' \in [TrackedJobs -> {"new", "tracked", "running", "ended", "gone"}],
           gStepped' \in [TrackedJobs -> BOOLEAN], gWaiting' \subseteq JobWaiters,
           gWpc' \in [JobWaiters -> {"start", "suspended", "unwind", "returned", "cancelled"}],
           gCovers' \in [JobWaiters -> SUBSET TrackedJobs],
           \A j \in TrackedJobs : /\ gJob[j] # "new" => gJob'[j] # "new"
                                  /\ gJob'[j] \in {"running", "ended"} => gStepped'[j]
                                  /\ gJob'[j] \in {"new", "tracked"} => ~gStepped'[j],
           \A w \in JobWaiters : \/ gCovers'[w] = gCovers[w]
                                 \/ gCovers'[w] = WG!Outstanding,
           \A w \in JobWaiters :
                gWpc'[w] = "returned" \/ (gWpc'[w] = "suspended" /\ w \notin gWaiting') =>
                    \/ gCovers'[w] = {}
                    \/ /\ gCovers'[w] = gCovers[w]
                       /\ gWpc[w] = "returned" \/ (gWpc[w] = "suspended" /\ w \notin gWaiting)
    PROVE  GroupInv'
<1>1. \A j \in WG!Outstanding : j \in TrackedJobs /\ gJob[j] # "new"
  BY DEF WG!Outstanding
<1>2. \A w \in JobWaiters : \A j \in gCovers'[w] : gJob'[j] # "new"
  BY <1>1 DEF GroupInv
<1>3. gCounter' \in Nat /\ gCounter' = Cardinality(Counted')
  BY DEF GroupInv
<1>4. \A w \in JobWaiters :
        gWpc'[w] = "returned" \/ (gWpc'[w] = "suspended" /\ w \notin gWaiting') =>
            gCovers'[w] \cap WG!Outstanding' = {}
  BY DEF GroupInv
<1> QED BY <1>2, <1>3, <1>4 DEF GroupInv

\* Every step of a tracked coroutine and of wait() preserves it.
LEMMA GroupNext == GroupInv /\ [WG!Next]_waitgroup => GroupInv'
<1> SUFFICES ASSUME GroupInv, [WG!Next]_waitgroup PROVE GroupInv'
  OBVIOUS
<1>1. ASSUME NEW j \in TrackedJobs, WG!Track(j) PROVE GroupInv'
  <2>1. PICK Out : Out = Counted
    OBVIOUS
  <2>2. /\ j \notin Out /\ Counted' = Out \cup {j}
        /\ WG!Outstanding' = WG!Outstanding \cup {j}
    <3>1. j \notin WG!Outstanding /\ WG!Outstanding' = WG!Outstanding \cup {j}
      BY <1>1 DEF GroupInv, WG!Outstanding, WG!Track
    <3>2. j \notin gLeaked /\ gLeaked' = gLeaked
      BY <1>1 DEF GroupInv, WG!Track
    <3> QED BY <2>1, <3>1, <3>2 DEF Counted
  <2>3. IsFiniteSet(Out) /\ gCounter = Cardinality(Out)
    BY <2>1, CountedFinite DEF GroupInv
  <2>4. Cardinality(Out \cup {j}) = gCounter + 1
    BY <2>2, <2>3, FS_AddElement
  <2>5. gCounter' = Cardinality(Counted') /\ gCounter' \in Nat
    BY <1>1, <2>2, <2>4 DEF WG!Track, WG!add, GroupInv
  <2>6. \A w \in JobWaiters : j \notin gCovers[w]
    BY <1>1 DEF GroupInv, WG!Track
  <2>7. \A w \in JobWaiters : gWpc'[w] = "returned" \/ (gWpc'[w] = "suspended" /\ w \notin gWaiting') =>
          gCovers'[w] \cap WG!Outstanding' = {}
    BY <1>1, <2>2, <2>6 DEF GroupInv, WG!Track, WG!add
  <2>8. gLeaked' \subseteq HastyJobs /\ \A i \in gLeaked' : gJob'[i] \in {"ended", "gone"}
    BY <1>1, InstanceAssumptions DEF GroupInv, WG!Track, WG!WaitGroupParams
  <2> QED BY <1>1, <2>5, <2>7, <2>8 DEF GroupInv, WG!Track, WG!add
<1>2. ASSUME NEW j \in TrackedJobs, WG!Start(j) PROVE GroupInv'
  <2>1. WG!Outstanding' = WG!Outstanding
    BY <1>2 DEF GroupInv, WG!Outstanding, WG!Start
  <2>2. Counted' = Counted
    BY <1>2, <2>1 DEF Counted, WG!Start
  <2>3. \A i \in gLeaked' : i \in TrackedJobs /\ i # j /\ gJob'[i] \in {"ended", "gone"}
    BY <1>2, InstanceAssumptions DEF GroupInv, WG!Start, WG!WaitGroupParams
  <2> QED BY <1>2, <2>1, <2>2, <2>3, SameJobsInv DEF GroupInv, WG!Start
<1>3. ASSUME NEW j \in TrackedJobs, WG!End(j) \/ WG!Close(j) PROVE GroupInv'
  <2>1. /\ gStepped \in [TrackedJobs -> BOOLEAN] /\ gJob[j] \in {"tracked", "running"}
        /\ gJob[j] = "running" => gStepped[j]
    BY <1>3 DEF GroupInv, WG!TypeOK, WG!End, WG!Close
  <2>2. /\ WG!done /\ gJob' = [gJob EXCEPT ![j] = "ended"]
        /\ UNCHANGED <<gWpc, gCovers, gLeaked>>
    BY <1>3 DEF WG!End, WG!Close
  <2>3. /\ gStepped' \in [TrackedJobs -> BOOLEAN] /\ gStepped'[j]
        /\ \A i \in TrackedJobs \ {j} : gStepped'[i] = gStepped[i]
    BY <1>3, <2>1 DEF WG!End, WG!Close
  <2> QED BY <2>1, <2>2, <2>3, DoneInv
<1>4. ASSUME NEW j \in TrackedJobs, WG!Delete(j) PROVE GroupInv'
  <2>1. CASE gJob[j] = "tracked"
    <3>1. gStepped \in [TrackedJobs -> BOOLEAN] /\ ~gStepped[j]
      BY <2>1 DEF GroupInv, WG!TypeOK
    <3>2. /\ WG!done /\ gJob' = [gJob EXCEPT ![j] = "gone"]
          /\ UNCHANGED <<gWpc, gCovers, gLeaked>>
      BY <1>4, <3>1 DEF WG!Delete
    <3>3. /\ gStepped' \in [TrackedJobs -> BOOLEAN] /\ gStepped'[j]
          /\ \A i \in TrackedJobs \ {j} : gStepped'[i] = gStepped[i]
      BY <1>4, <3>1 DEF WG!Delete
    <3> QED BY <2>1, <3>2, <3>3, DoneInv
  <2>2. CASE gJob[j] = "ended"
    <3>1. WG!Outstanding' = WG!Outstanding
      BY <1>4, <2>2 DEF GroupInv, WG!Outstanding, WG!Delete
    <3>2. Counted' = Counted
      BY <1>4, <3>1 DEF Counted, WG!Delete
    <3>3. \A i \in gLeaked' : gJob'[i] \in {"ended", "gone"}
      BY <1>4, InstanceAssumptions DEF GroupInv, WG!Delete, WG!WaitGroupParams
    <3> QED BY <1>4, <2>2, <3>1, <3>2, <3>3, SameJobsInv DEF GroupInv, WG!Delete
  <2> QED BY <1>4, <2>1, <2>2 DEF WG!Delete
<1>5. ASSUME NEW w \in JobWaiters, WG!Wait(w) PROVE GroupInv'
  <2>1. WG!Outstanding' = WG!Outstanding /\ WG!Outstanding \subseteq TrackedJobs
    BY <1>5 DEF WG!Wait, WG!Outstanding
  <2>2. gCounter = 0 => WG!Outstanding = {}
    BY CountedFinite, FS_EmptySet DEF GroupInv, Counted
  <2>3. Counted' = Counted
    BY <1>5, <2>1 DEF Counted, WG!Wait
  <2> QED BY <1>5, <2>1, <2>2, <2>3, SameJobsInv DEF GroupInv, WG!Wait
<1>6. ASSUME NEW w \in JobWaiters, WG!Resume(w) \/ WG!Cancel(w) \/ WG!Unwind(w) PROVE GroupInv'
  <2>1. WG!Outstanding' = WG!Outstanding
    BY <1>6 DEF WG!Resume, WG!Cancel, WG!Unwind, WG!Outstanding
  <2>2. Counted' = Counted
    BY <1>6, <2>1 DEF Counted, WG!Resume, WG!Cancel, WG!Unwind
  <2> QED BY <1>6, <2>1, <2>2, SameJobsInv DEF GroupInv, WG!Resume, WG!Cancel, WG!Unwind
<1>7. CASE UNCHANGED waitgroup
  <2>1. WG!Outstanding' = WG!Outstanding
    BY <1>7 DEF waitgroup, WG!Outstanding
  <2>2. Counted' = Counted
    BY <1>7, <2>1 DEF waitgroup, Counted
  <2> QED BY <1>7, <2>1, <2>2 DEF waitgroup, GroupInv
<1>8. ASSUME NEW j \in TrackedJobs, WG!ThrowFirst(j) PROVE GroupInv'
  <2>1. /\ j \in WG!Outstanding /\ WG!Outstanding' = WG!Outstanding \ {j}
        /\ gLeaked' = gLeaked \cup {j}
    BY <1>8 DEF GroupInv, WG!Outstanding, WG!ThrowFirst
  <2>2. Counted' = Counted
    BY <2>1 DEF Counted
  <2>3. gLeaked' \subseteq HastyJobs /\ \A i \in gLeaked' : gJob'[i] \in {"ended", "gone"}
    BY <1>8, <2>1, InstanceAssumptions DEF GroupInv, WG!ThrowFirst, WG!WaitGroupParams
  <2> QED BY <1>8, <2>1, <2>2, <2>3, SameJobsInv DEF GroupInv, WG!ThrowFirst
<1> QED BY <1>1, <1>2, <1>3, <1>4, <1>5, <1>6, <1>7, <1>8 DEF WG!Next, WG!JobStep

\* AsyncWaitGroup (primitives.py): the counter is the number of jobs that were
\* tracked and have not ended, and of those that were thrown into before they
\* began and stay on it for good; and wait() returns only when every job that
\* was outstanding at its call has ended.
THEOREM WaitGroupTheorem == SSpec => []WaitCoversJobs
<1>1. SInit => GroupInv
  BY GroupInit DEF SInit
<1>2. SNext \/ UNCHANGED svars => [WG!Next]_waitgroup
  BY DEF SNext, svars, OthersStill, LockRuns, ConditionRuns, SemaphoreRuns, LimiterRuns,
         BarrierRuns, RWMutexRuns, WaitGroupRuns, OnceRuns, EventRuns
<1>3. GroupInv => WaitCoversJobs
  BY GroupCounts DEF GroupInv, Counted, WaitCoversJobs, WG!WaitCoversJobs, WG!CountKept
<1> QED BY <1>1, <1>2, <1>3, GroupNext, PTL DEF SSpec

\* AsyncOnce (primitives.py): whoever is answered gets the outcome of the one run, and
\* the run is done.  Event (_sync.py): a task that waits for an event that is set
\* is about to be told.
THEOREM AgreementTheorem == SSpec => []Agreement
<1>1. SInit => OnceInv /\ EventInv
  BY OnceInit, EventInit DEF SInit
<1>2. SNext \/ UNCHANGED svars => [One!Next]_once /\ [Ev!Next]_event
  BY DEF SNext, svars, OthersStill, LockRuns, ConditionRuns, SemaphoreRuns, LimiterRuns,
         BarrierRuns, RWMutexRuns, WaitGroupRuns, OnceRuns, EventRuns
<1>3. OnceInv /\ EventInv => Agreement
  BY DEF OnceInv, EventInv, Agreement, Ev!NobodyStranded
<1> QED BY <1>1, <1>2, <1>3, OnceNext, EventNext, PTL DEF SSpec

\* Who may stand in a queue of permits: a suspended acquire, its loop open or
\* closed, or one that was cancelled and has not unwound.
Queueing == {"waiting", "unwind", "stranded"}

-----------------------------------------------------------------------------
(* Semaphore *)

\* The operators of FiniteSets and Queues are the same inside the instance.
LEMMA SemOperators ==
    /\ \A S : Sem!Cardinality(S) = Cardinality(S) /\ Sem!IsFiniteSet(S) = IsFiniteSet(S)
    /\ \A t, q : Sem!InQueue(t, q) = InQueue(t, q)
    /\ \A t, q : Sem!Discard(q, t) = Discard(q, t)
<1>1. \A S : Sem!Cardinality(S) = Cardinality(S) /\ Sem!IsFiniteSet(S) = IsFiniteSet(S)
  BY DEF Sem!Cardinality, Cardinality, Sem!IsFiniteSet, IsFiniteSet
<1>2. \A t, q : Sem!InQueue(t, q) = InQueue(t, q)
  BY DEF Sem!InQueue, InQueue
<1>3. \A t, q : Sem!Discard(q, t) = Discard(q, t)
  BY <1>2 DEF Sem!Discard, Discard
<1> QED BY <1>1, <1>2, <1>3

\* The permits are conserved, none idles beside a waiter, and a task is queued
\* at most once and only while its acquire has not ended.
SemInv ==
    /\ sValue \in Nat /\ sWaiters \in Seq(Peers) /\ sPc \in [Peers -> Sem!PCs]
    /\ NoRepeat(sWaiters)
    /\ \A t \in Peers : InQueue(t, sWaiters) => sPc[t] \in Queueing
    /\ sValue + Cardinality(Sem!Holders) = Permits
    /\ sValue > 0 => sWaiters = <<>>

\* Membership in Holders, in the words of Queues.
LEMMA SemHolders ==
    /\ Sem!Holders \subseteq Peers
    /\ \A t \in Peers : t \in Sem!Holders <=>
          \/ sPc[t] = "holding"
          \/ sPc[t] \in {"waiting", "unwind"} /\ ~InQueue(t, sWaiters)
BY SemOperators DEF Sem!Holders

\* The same of the next state.
LEMMA SemHoldersNext ==
    /\ Sem!Holders' \subseteq Peers
    /\ \A t \in Peers : t \in Sem!Holders' <=>
          \/ sPc'[t] = "holding"
          \/ sPc'[t] \in {"waiting", "unwind"} /\ ~InQueue(t, sWaiters')
BY SemOperators DEF Sem!Holders

\* There are finitely many holders, so they can be counted.
LEMMA SemFinite == IsFiniteSet(Sem!Holders) /\ Cardinality(Sem!Holders) \in Nat
<1>1. IsFiniteSet(Peers) /\ Sem!Holders \in SUBSET Peers
  BY InstanceAssumptions, SemOperators, SemHolders DEF Sem!SemaphoreParams
<1>2. IsFiniteSet(Sem!Holders)
  BY <1>1, FS_Subset
<1> QED BY <1>2, FS_CardinalityType

\* release and _cancel_waiter: the permit goes to a waiter that is alive and
\* leaves the queue for it, and to no one else; or nobody alive is queued and
\* the permit returns to the counter.
LEMMA PassPermitQueue ==
    ASSUME sWaiters \in Seq(Peers), NoRepeat(sWaiters), Sem!PassPermit
    PROVE  /\ sWaiters' \in Seq(Peers) /\ NoRepeat(sWaiters')
           /\ \A x : InQueue(x, sWaiters') => InQueue(x, sWaiters)
           /\ \/ /\ \A x : InQueue(x, sWaiters) => sPc[x] = "stranded"
                 /\ sWaiters' = <<>> /\ sValue' = sValue + 1
              \/ /\ sWaiters # <<>> /\ sValue' = sValue
                 /\ \E o \in Peers :
                      /\ InQueue(o, sWaiters) /\ ~InQueue(o, sWaiters') /\ sPc[o] # "stranded"
                      /\ \A x : InQueue(x, sWaiters) /\ sPc[x] # "stranded" =>
                                    x = o \/ InQueue(x, sWaiters')
<1>1. PICK q : q = sWaiters
  OBVIOUS
<1>2. PICK rest : rest = sWaiters'
  OBVIOUS
<1>3. /\ q \in Seq(Peers) /\ NoRepeat(q)
      /\ Len(q) \in Nat /\ DOMAIN q = 1..Len(q) /\ \A i \in 1..Len(q) : q[i] \in Peers
  BY <1>1, LenProperties, ElementOfSeq
<1>4. CASE /\ \A k \in DOMAIN q : sPc[q[k]] = "stranded"
           /\ rest = <<>> /\ sValue' = sValue + 1
  <2>1. rest \in Seq(Peers) /\ DOMAIN rest = {}
    BY <1>4, EmptySeq
  <2> QED BY <1>1, <1>2, <1>4, <2>1 DEF NoRepeat, InQueue
<1>5. CASE \E k \in DOMAIN q : /\ sPc[q[k]] # "stranded"
                               /\ \A j \in 1..(k - 1) : sPc[q[j]] = "stranded"
                               /\ rest = SubSeq(q, k + 1, Len(q)) /\ sValue' = sValue
  <2>1. PICK k \in 1..Len(q) : /\ sPc[q[k]] # "stranded"
                               /\ \A j \in 1..(k - 1) : sPc[q[j]] = "stranded"
                               /\ rest = SubSeq(q, k + 1, Len(q)) /\ sValue' = sValue
    BY <1>3, <1>5
  <2>2. PICK o : o = q[k]
    OBVIOUS
  <2>3. /\ rest \in Seq(Peers) /\ NoRepeat(rest)
        /\ \A x : InQueue(x, rest) <=> InQueue(x, q) /\ x \notin Front(q, k)
    <3>1. k \in Nat /\ k <= Len(q) /\ rest = SubSeq(q, k + 1, Len(q))
      BY <1>3, <2>1
    <3>2. q \in Seq(Peers) /\ NoRepeat(q)
      BY <1>3
    <3> QED BY <3>1, <3>2, SuffixQueue
  <2>4. o \in Front(q, k) /\ \A x \in Front(q, k) : sPc[x] # "stranded" => x = o
    BY <1>3, <2>1, <2>2 DEF Front
  <2>5. o \in Peers /\ InQueue(o, q) /\ sPc[o] # "stranded" /\ q # <<>>
    BY <1>3, <2>1, <2>2, EmptySeq DEF InQueue
  <2> QED BY <1>1, <1>2, <2>1, <2>3, <2>4, <2>5
<1> QED BY <1>1, <1>2, <1>4, <1>5 DEF Sem!PassPermit

\* A new semaphore has all its permits.
LEMMA SemInit == Sem!Init => SemInv
<1> SUFFICES ASSUME Sem!Init PROVE SemInv
  OBVIOUS
<1>1. sWaiters = <<>> /\ sWaiters \in Seq(Peers) /\ DOMAIN sWaiters = {}
  BY EmptySeq DEF Sem!Init
<1>2. Sem!Holders = {}
  BY SemHolders DEF Sem!Init
<1> QED BY <1>1, <1>2, FS_EmptySet, InstanceAssumptions
        DEF Sem!Init, SemInv, Sem!PCs, NoRepeat, InQueue, Sem!SemaphoreParams

\* The permit of t, which ends holding it, is passed on.
LEMMA PassInv ==
    ASSUME SemInv, NEW t \in Peers, t \in Sem!Holders, Sem!PassPermit, Sem!Goto(t, "idle")
    PROVE  SemInv'
<1>1. /\ sWaiters \in Seq(Peers) /\ NoRepeat(sWaiters)
      /\ sPc \in [Peers -> Sem!PCs] /\ sPc' = [sPc EXCEPT ![t] = "idle"]
      /\ ~InQueue(t, sWaiters)
  BY SemHolders DEF SemInv, Sem!Goto, Queueing
<1>2. PICK H : H = Sem!Holders
  OBVIOUS
<1>3. t \in H /\ IsFiniteSet(H) /\ sValue + Cardinality(H) = Permits /\ sValue \in Nat
  BY <1>2, SemFinite DEF SemInv
<1>4. /\ sWaiters' \in Seq(Peers) /\ NoRepeat(sWaiters')
      /\ \A x : InQueue(x, sWaiters') => InQueue(x, sWaiters)
  BY <1>1, PassPermitQueue
<1>5. \A x \in Peers : InQueue(x, sWaiters') => sPc'[x] \in Queueing
  BY <1>1, <1>4 DEF SemInv
<1>6. sPc' \in [Peers -> Sem!PCs]
  BY <1>1 DEF Sem!PCs
<1>7. CASE /\ \A x : InQueue(x, sWaiters) => sPc[x] = "stranded"
           /\ sWaiters' = <<>> /\ sValue' = sValue + 1
  <2>1. Sem!Holders' = H \ {t}
    <3>1. \A x \in Peers : ~InQueue(x, sWaiters')
      BY <1>4, <1>7, EmptyQueue
    <3>2. \A x \in Peers : x \in Sem!Holders' <=> x \in H /\ x # t
      BY <1>1, <1>2, <1>7, <3>1, SemHolders, SemHoldersNext
    <3> QED BY <1>2, <3>2, SemHolders, SemHoldersNext
  <2>2. Cardinality(H \ {t}) = Cardinality(H) - 1 /\ Cardinality(H) \in Nat
    BY <1>3, FS_RemoveElement, FS_CardinalityType
  <2> QED BY <1>3, <1>4, <1>5, <1>6, <1>7, <2>1, <2>2 DEF SemInv
<1>8. CASE /\ sWaiters # <<>> /\ sValue' = sValue
           /\ \E o \in Peers :
                /\ InQueue(o, sWaiters) /\ ~InQueue(o, sWaiters') /\ sPc[o] # "stranded"
                /\ \A x : InQueue(x, sWaiters) /\ sPc[x] # "stranded" =>
                              x = o \/ InQueue(x, sWaiters')
  <2>1. PICK o \in Peers :
                /\ InQueue(o, sWaiters) /\ ~InQueue(o, sWaiters') /\ sPc[o] # "stranded"
                /\ \A x : InQueue(x, sWaiters) /\ sPc[x] # "stranded" =>
                              x = o \/ InQueue(x, sWaiters')
    BY <1>8
  <2>2. o \notin H /\ o # t /\ sPc[o] \in {"waiting", "unwind"}
    BY <1>1, <1>2, <2>1, SemHolders DEF SemInv, Queueing
  <2>3. Sem!Holders' = (H \ {t}) \cup {o}
    <3>1. \A x \in Peers : x \in Sem!Holders' <=> (x \in H /\ x # t) \/ x = o
      BY <1>1, <1>2, <1>4, <2>1, <2>2, SemHolders, SemHoldersNext
    <3> QED BY <1>2, <2>1, <3>1, SemHolders, SemHoldersNext
  <2>4. Cardinality(Sem!Holders') = Cardinality(H)
    BY <1>3, <2>2, <2>3, CountSwap
  <2>5. sValue = 0
    BY <1>8, <1>3 DEF SemInv
  <2> QED BY <1>3, <1>4, <1>5, <1>6, <1>8, <2>4, <2>5 DEF SemInv
<1> QED BY <1>1, <1>7, <1>8, PassPermitQueue

\* A step that only moves t and leaves the holders as they are.
LEMMA SemMoveInv ==
    ASSUME SemInv, NEW t \in Peers, NEW where \in Sem!PCs, Sem!Goto(t, where),
           UNCHANGED <<sValue, sWaiters>>,
           InQueue(t, sWaiters) => where \in Queueing,
           t \in Sem!Holders <=>
              where = "holding" \/ (where \in {"waiting", "unwind"} /\ ~InQueue(t, sWaiters))
    PROVE  SemInv'
<1>1. sPc \in [Peers -> Sem!PCs] /\ sPc' = [sPc EXCEPT ![t] = where]
  BY DEF SemInv, Sem!Goto
<1>2. Sem!Holders' = Sem!Holders
  <2>1. \A x \in Peers : x \in Sem!Holders' <=> x \in Sem!Holders
    BY <1>1, SemHolders, SemHoldersNext
  <2> QED BY <2>1, SemHolders, SemHoldersNext
<1> QED BY <1>1, <1>2 DEF SemInv

\* Every step of acquire, release, cancellation and a closed loop preserves it.
LEMMA SemNext == SemInv /\ [Sem!Next]_semaphore => SemInv'
<1> SUFFICES ASSUME SemInv, [Sem!Next]_semaphore PROVE SemInv'
  OBVIOUS
<1>0. /\ sWaiters \in Seq(Peers) /\ NoRepeat(sWaiters) /\ sPc \in [Peers -> Sem!PCs]
      /\ sValue \in Nat
  BY DEF SemInv
<1>1. ASSUME NEW t \in Peers, Sem!Acquire(t) PROVE SemInv'
  <2>1. PICK H : H = Sem!Holders
    OBVIOUS
  <2>2. /\ t \notin H /\ IsFiniteSet(H) /\ ~InQueue(t, sWaiters)
        /\ sValue + Cardinality(H) = Permits /\ sValue \in Nat /\ Cardinality(H) \in Nat
    BY <1>1, <2>1, SemFinite, SemHolders DEF SemInv, Sem!Acquire, Queueing
  <2>3. CASE sValue > 0
    <3>1. /\ sValue' = sValue - 1 /\ sWaiters' = sWaiters /\ sWaiters = <<>>
          /\ sPc' = [sPc EXCEPT ![t] = "holding"]
      BY <1>1, <2>3 DEF Sem!Acquire, Sem!Goto, SemInv
    <3>2. Sem!Holders' = H \cup {t}
      <4>1. \A x \in Peers : x \in Sem!Holders' <=> x \in H \/ x = t
        BY <1>0, <2>1, <2>2, <3>1, SemHolders, SemHoldersNext
      <4> QED BY <2>1, <4>1, SemHolders, SemHoldersNext
    <3>3. Cardinality(H \cup {t}) = Cardinality(H) + 1
      BY <2>2, FS_AddElement
    <3>4. sPc' \in [Peers -> Sem!PCs]
      BY <1>0, <3>1 DEF Sem!PCs
    <3>5. \A x \in Peers : InQueue(x, sWaiters') => sPc'[x] \in Queueing
      BY <1>0, <2>2, <3>1 DEF SemInv
    <3> QED BY <1>0, <2>2, <2>3, <3>1, <3>2, <3>3, <3>4, <3>5 DEF SemInv
  <2>4. CASE sValue = 0
    <3>1. /\ sValue' = sValue /\ sWaiters' = Append(sWaiters, t)
          /\ sPc' = [sPc EXCEPT ![t] = "waiting"]
      BY <1>1, <2>4 DEF Sem!Acquire, Sem!Goto
    <3>2. /\ sWaiters' \in Seq(Peers) /\ NoRepeat(sWaiters')
          /\ \A x : InQueue(x, sWaiters') <=> InQueue(x, sWaiters) \/ x = t
      BY <1>0, <2>2, <3>1, AppendQueue
    <3>3. Sem!Holders' = H
      <4>1. \A x \in Peers : x \in Sem!Holders' <=> x \in H
        BY <1>0, <2>1, <2>2, <3>1, <3>2, SemHolders, SemHoldersNext
      <4> QED BY <2>1, <4>1, SemHolders, SemHoldersNext
    <3>4. sPc' \in [Peers -> Sem!PCs]
      BY <1>0, <3>1 DEF Sem!PCs
    <3>5. \A x \in Peers : InQueue(x, sWaiters') => sPc'[x] \in Queueing
      BY <1>0, <3>1, <3>2 DEF SemInv, Queueing
    <3> QED BY <2>2, <2>4, <3>1, <3>2, <3>3, <3>4, <3>5 DEF SemInv
  <2> QED BY <1>0, <2>3, <2>4
<1>2. ASSUME NEW t \in Peers, Sem!Resume(t) \/ Sem!Cancel(t) \/ Sem!Strand(t) PROVE SemInv'
  BY <1>2, SemMoveInv, SemHolders, SemOperators
     DEF Sem!Resume, Sem!Cancel, Sem!Strand, Sem!PCs, Queueing
<1>3. ASSUME NEW t \in Peers, Sem!CancelWaiter(t) PROVE SemInv'
  <2>1. CASE InQueue(t, sWaiters)
    <3>1. /\ sValue' = sValue /\ sWaiters' = Discard(sWaiters, t)
          /\ sPc' = [sPc EXCEPT ![t] = "idle"] /\ sPc[t] = "unwind"
      BY <1>3, <2>1, SemOperators DEF Sem!CancelWaiter, Sem!Goto
    <3>2. /\ sWaiters' \in Seq(Peers) /\ NoRepeat(sWaiters')
          /\ \A x : InQueue(x, sWaiters') <=> InQueue(x, sWaiters) /\ x # t
      BY <1>0, <2>1, <3>1, DiscardQueue
    <3>3. Sem!Holders' = Sem!Holders
      <4>1. \A x \in Peers : x \in Sem!Holders' <=> x \in Sem!Holders
        BY <1>0, <2>1, <3>1, <3>2, SemHolders, SemHoldersNext
      <4> QED BY <4>1, SemHolders, SemHoldersNext
    <3>4. sPc' \in [Peers -> Sem!PCs]
      BY <1>0, <3>1 DEF Sem!PCs
    <3>5. \A x \in Peers : InQueue(x, sWaiters') => sPc'[x] \in Queueing
      BY <1>0, <3>1, <3>2 DEF SemInv
    <3>6. sValue' > 0 => sWaiters' = <<>>
      <4>1. \E x \in Peers : InQueue(x, sWaiters)
        BY <2>1
      <4> QED BY <1>0, <3>1, <4>1, EmptyQueue DEF SemInv
    <3> QED BY <3>1, <3>2, <3>3, <3>4, <3>5, <3>6 DEF SemInv
  <2>2. CASE ~InQueue(t, sWaiters)
    BY <1>3, <2>2, PassInv, SemHolders, SemOperators DEF Sem!CancelWaiter
  <2> QED BY <2>1, <2>2
<1>4. ASSUME NEW t \in Peers, Sem!Release(t) PROVE SemInv'
  BY <1>4, PassInv, SemHolders DEF Sem!Release
<1>5. CASE UNCHANGED semaphore
  <2>1. Sem!Holders' = Sem!Holders
    BY <1>5 DEF Sem!Holders, semaphore
  <2> QED BY <1>5, <2>1 DEF semaphore, SemInv
<1> QED BY <1>1, <1>2, <1>3, <1>4, <1>5 DEF Sem!Next

-----------------------------------------------------------------------------
(* CapacityLimiter *)

\* The operators of FiniteSets and Queues are the same inside the instance.
LEMMA LimOperators ==
    /\ \A S : Lim!Cardinality(S) = Cardinality(S) /\ Lim!IsFiniteSet(S) = IsFiniteSet(S)
    /\ \A t, q : Lim!InQueue(t, q) = InQueue(t, q)
    /\ \A t, q : Lim!Discard(q, t) = Discard(q, t)
<1>1. \A S : Lim!Cardinality(S) = Cardinality(S) /\ Lim!IsFiniteSet(S) = IsFiniteSet(S)
  BY DEF Lim!Cardinality, Cardinality, Lim!IsFiniteSet, IsFiniteSet
<1>2. \A t, q : Lim!InQueue(t, q) = InQueue(t, q)
  BY DEF Lim!InQueue, InQueue
<1>3. \A t, q : Lim!Discard(q, t) = Discard(q, t)
  BY <1>2 DEF Lim!Discard, Discard
<1> QED BY <1>1, <1>2, <1>3

\* The places of the waiters whose loop is open, and those waiters.
LivePlaces == {k \in DOMAIN lWaiters : lPc[lWaiters[k]] # "stranded"}
LiveWaiters == {t \in Peers : InQueue(t, lWaiters) /\ lPc[t] # "stranded"}

\* The live waiters that are no longer in the queue q.
Woken(q) == {t \in LiveWaiters : ~InQueue(t, q)}

\* The count of borrowed tokens is exact, no token idles beside a live waiter,
\* and a task is queued at most once and only while its acquire has not ended.
LimInv ==
    /\ lCapacity \in Budgets /\ lBorrowed \in Nat
    /\ lWaiters \in Seq(Peers) /\ lPc \in [Peers -> Lim!PCs]
    /\ NoRepeat(lWaiters)
    /\ \A t \in Peers : InQueue(t, lWaiters) => lPc[t] \in Queueing
    /\ lBorrowed = Cardinality(Lim!Holders)
    /\ LiveWaiters # {} => lBorrowed >= lCapacity

\* Membership in Holders, in the words of Queues.
LEMMA LimHolders ==
    /\ Lim!Holders \subseteq Peers
    /\ \A t \in Peers : t \in Lim!Holders <=>
          \/ lPc[t] = "holding"
          \/ lPc[t] \in {"waiting", "unwind"} /\ ~InQueue(t, lWaiters)
BY LimOperators DEF Lim!Holders

\* The same of the next state.
LEMMA LimHoldersNext ==
    /\ Lim!Holders' \subseteq Peers
    /\ \A t \in Peers : t \in Lim!Holders' <=>
          \/ lPc'[t] = "holding"
          \/ lPc'[t] \in {"waiting", "unwind"} /\ ~InQueue(t, lWaiters')
BY LimOperators DEF Lim!Holders

\* There are finitely many holders, so they can be counted.
LEMMA LimFinite == IsFiniteSet(Lim!Holders) /\ Cardinality(Lim!Holders) \in Nat
<1>1. IsFiniteSet(Peers) /\ Lim!Holders \in SUBSET Peers
  BY InstanceAssumptions, LimOperators, LimHolders DEF Lim!LimiterParams
<1>2. IsFiniteSet(Lim!Holders)
  BY <1>1, FS_Subset
<1> QED BY <1>2, FS_CardinalityType

\* LiveCount is the number of live waiters.
LEMMA LiveCounted ==
    ASSUME lWaiters \in Seq(Peers), NoRepeat(lWaiters)
    PROVE  /\ IsFiniteSet(LiveWaiters)
           /\ Lim!LiveCount = Cardinality(LivePlaces) /\ Lim!LiveCount = Cardinality(LiveWaiters)
           /\ Lim!LiveCount \in Nat /\ (Lim!LiveCount = 0 <=> LiveWaiters = {})
<1>1. Len(lWaiters) \in Nat /\ DOMAIN lWaiters = 1..Len(lWaiters)
      /\ \A i \in 1..Len(lWaiters) : lWaiters[i] \in Peers
  BY LenProperties, ElementOfSeq
<1>2. LivePlaces \subseteq DOMAIN lWaiters
  BY DEF LivePlaces
<1>3. Standing(lWaiters, LivePlaces) = LiveWaiters
  BY <1>1 DEF Standing, LivePlaces, LiveWaiters, InQueue
<1>4. IsFiniteSet(LiveWaiters) /\ Cardinality(LiveWaiters) = Cardinality(LivePlaces)
  BY <1>2, <1>3, CountStanding
<1>5. Lim!LiveCount = Cardinality(LivePlaces)
  BY LimOperators DEF Lim!LiveCount, Lim!Live, LivePlaces
<1> QED BY <1>4, <1>5, FS_CardinalityType, FS_EmptySet

\* The queue that is emptied: all live waiters are woken.
LEMMA EmptiedQueue ==
    ASSUME lWaiters \in Seq(Peers), NoRepeat(lWaiters), NEW rest, rest = <<>>
    PROVE  /\ rest \in Seq(Peers) /\ NoRepeat(rest)
           /\ \A x : ~InQueue(x, rest)
           /\ Woken(rest) = LiveWaiters
<1>1. rest \in Seq(Peers) /\ DOMAIN rest = {}
  BY EmptySeq
<1> QED BY <1>1 DEF NoRepeat, InQueue, Woken

\* PopLive wakes exactly the number of live waiters it is asked for.
LEMMA PopLiveQueue ==
    ASSUME lWaiters \in Seq(Peers), NoRepeat(lWaiters),
           NEW n \in Nat, n <= Lim!LiveCount, NEW rest, rest = Lim!PopLive(n)
    PROVE  /\ rest \in Seq(Peers) /\ NoRepeat(rest)
           /\ \A x : InQueue(x, rest) => InQueue(x, lWaiters)
           /\ n = 0 => rest = lWaiters
           /\ Cardinality(Woken(rest)) = n
<1>1. PICK q : q = lWaiters
  OBVIOUS
<1>2. PICK L : L = LivePlaces
  OBVIOUS
<1>3. /\ q \in Seq(Peers) /\ NoRepeat(q)
      /\ Len(q) \in Nat /\ DOMAIN q = 1..Len(q) /\ \A i \in 1..Len(q) : q[i] \in Peers
  BY <1>1, LenProperties, ElementOfSeq
<1>4. CASE n = 0
  <2>1. rest = lWaiters
    BY <1>4 DEF Lim!PopLive
  <2>2. Woken(rest) = {}
    BY <2>1 DEF Woken, LiveWaiters
  <2> QED BY <1>4, <2>1, <2>2, FS_EmptySet
<1>5. CASE n # 0
  <2>1. L \subseteq 1..Len(q) /\ n <= Cardinality(L)
    BY <1>1, <1>2, <1>3, LiveCounted DEF LivePlaces
  <2>2. \E k \in L : Cardinality(UpTo(L, k)) = n
    BY <1>3, <1>5, <2>1, CountCut
  <2>3. PICK cut : cut = {k \in L : Cardinality(UpTo(L, k)) = n}
    OBVIOUS
  <2>4. PICK k : k = CHOOSE i \in cut : TRUE
    OBVIOUS
  <2>5. k \in cut
    BY <2>2, <2>3, <2>4
  <2>6. rest = SubSeq(q, k + 1, Len(q))
    <3>1. cut = {i \in {j \in DOMAIN lWaiters : Lim!Live(j)} :
                   Lim!Cardinality({j \in {j \in DOMAIN lWaiters : Lim!Live(j)} : j <= i}) = n}
      BY <1>2, <2>3, LimOperators DEF LivePlaces, Lim!Live, UpTo
    <3> QED BY <1>1, <1>5, <2>4, <2>5, <3>1 DEF Lim!PopLive
  <2>7. /\ k \in L /\ k \in Nat /\ k <= Len(q) /\ k \in 1..Len(q)
        /\ Cardinality(UpTo(L, k)) = n
    BY <1>3, <2>1, <2>3, <2>5
  <2>8. /\ rest \in Seq(Peers) /\ NoRepeat(rest)
        /\ \A x : InQueue(x, rest) <=> InQueue(x, q) /\ x \notin Front(q, k)
    <3>1. q \in Seq(Peers) /\ NoRepeat(q)
      BY <1>3
    <3> QED BY <2>6, <2>7, <3>1, SuffixQueue
  <2>9. Woken(rest) = Standing(q, UpTo(L, k))
    <3>1. \A x \in Peers : x \in Woken(rest) <=>
              InQueue(x, q) /\ lPc[x] # "stranded" /\ x \in Front(q, k)
      BY <1>1, <2>8 DEF Woken, LiveWaiters
    <3>2. \A i \in UpTo(L, k) : i \in 1..k /\ i \in DOMAIN q /\ lPc[q[i]] # "stranded" /\ q[i] \in Peers
      BY <1>1, <1>2, <1>3, <2>7 DEF UpTo, LivePlaces
    <3>3. ASSUME NEW x, x \in Standing(q, UpTo(L, k)) PROVE x \in Woken(rest)
      BY <3>1, <3>2, <3>3 DEF Standing, Front, InQueue
    <3>4. ASSUME NEW x, x \in Woken(rest) PROVE x \in Standing(q, UpTo(L, k))
      <4>1. x \in Peers
        BY <3>4 DEF Woken, LiveWaiters
      <4>2. lPc[x] # "stranded" /\ x \in Front(q, k)
        BY <3>1, <3>4, <4>1
      <4>3. PICK i \in 1..k : x = q[i]
        BY <4>2 DEF Front
      <4>4. i \in DOMAIN q /\ i <= k
        BY <1>3, <2>7, <4>3
      <4>5. i \in UpTo(L, k)
        BY <1>1, <1>2, <4>2, <4>3, <4>4 DEF UpTo, LivePlaces
      <4> QED BY <4>3, <4>5 DEF Standing
    <3> QED BY <3>3, <3>4
  <2>10. Cardinality(Woken(rest)) = n
    <3>1. PICK J : J = UpTo(L, k)
      OBVIOUS
    <3>2. J \subseteq DOMAIN q
      BY <1>3, <2>1, <3>1 DEF UpTo
    <3>3. Cardinality(Standing(q, J)) = Cardinality(J)
      <4>1. q \in Seq(Peers) /\ NoRepeat(q)
        BY <1>3
      <4> QED BY <3>2, <4>1, CountStanding
    <3> QED BY <2>7, <2>9, <3>1, <3>3
  <2> QED BY <1>1, <1>5, <2>8, <2>10
<1> QED BY <1>4, <1>5

\* A new limiter has lent nothing.
LEMMA LimInit == Lim!Init => LimInv
<1> SUFFICES ASSUME Lim!Init PROVE LimInv
  OBVIOUS
<1>1. lWaiters = <<>> /\ lWaiters \in Seq(Peers) /\ DOMAIN lWaiters = {}
  BY EmptySeq DEF Lim!Init
<1>2. Lim!Holders = {} /\ LiveWaiters = {}
  BY <1>1, LimHolders DEF Lim!Init, LiveWaiters, InQueue
<1> QED BY <1>1, <1>2, FS_EmptySet, InstanceAssumptions
        DEF Lim!Init, LimInv, Lim!PCs, NoRepeat, InQueue, Lim!LimiterParams

\* A holder t ends, and waiters leave the queue: its token is theirs if there
\* is one of them.
LEMMA LimTransfer ==
    ASSUME LimInv, NEW t \in Peers, t \in Lim!Holders, Lim!Goto(t, "idle"),
           \A x : InQueue(x, lWaiters') => InQueue(x, lWaiters)
    PROVE  /\ Lim!Holders' = (Lim!Holders \ {t}) \cup Woken(lWaiters')
           /\ Lim!Holders \cap Woken(lWaiters') = {}
           /\ LiveWaiters' \subseteq LiveWaiters
           /\ lPc' \in [Peers -> Lim!PCs]
           /\ \A x \in Peers : InQueue(x, lWaiters') => lPc'[x] \in Queueing
<1>1. lPc \in [Peers -> Lim!PCs] /\ lPc' = [lPc EXCEPT ![t] = "idle"] /\ ~InQueue(t, lWaiters)
  BY LimHolders DEF LimInv, Lim!Goto, Queueing
<1>2. \A x \in Peers : x \in Lim!Holders' <=> (x \in Lim!Holders /\ x # t) \/ x \in Woken(lWaiters')
  BY <1>1, LimHolders, LimHoldersNext DEF Woken, LiveWaiters, LimInv, Queueing
<1>3. Woken(lWaiters') \subseteq Peers
  BY DEF Woken, LiveWaiters
<1>4. Lim!Holders \cap Woken(lWaiters') = {}
  BY LimHolders DEF Woken, LiveWaiters, LimInv, Queueing
<1>5. LiveWaiters' \subseteq LiveWaiters
  BY <1>1 DEF LiveWaiters
<1>6. \A x \in Peers : InQueue(x, lWaiters') => lPc'[x] \in Queueing
  BY <1>1 DEF LimInv
<1> QED BY <1>1, <1>2, <1>3, <1>4, <1>5, <1>6, LimHolders, LimHoldersNext DEF Lim!PCs

\* The token of t is passed on to a live waiter, or given back if there is none.
LEMMA LimPassInv ==
    ASSUME LimInv, NEW t \in Peers, t \in Lim!Holders, Lim!Goto(t, "idle"),
           lWaiters' = Lim!PopLive(1), UNCHANGED lCapacity,
           lBorrowed' = IF Lim!LiveCount > 0 THEN lBorrowed ELSE lBorrowed - 1
    PROVE  LimInv'
<1>1. PICK H : H = Lim!Holders
  OBVIOUS
<1>2. PICK W : W = Woken(lWaiters')
  OBVIOUS
<1>3. t \in H /\ IsFiniteSet(H) /\ lBorrowed = Cardinality(H) /\ lBorrowed \in Nat
  BY <1>1, LimFinite DEF LimInv
<1>4. /\ lWaiters \in Seq(Peers) /\ NoRepeat(lWaiters) /\ IsFiniteSet(LiveWaiters)
      /\ Lim!LiveCount \in Nat /\ (Lim!LiveCount = 0 <=> LiveWaiters = {})
  BY LiveCounted DEF LimInv
<1>5. IsFiniteSet(H \ {t}) /\ Cardinality(H \ {t}) = lBorrowed - 1 /\ lBorrowed - 1 \in Nat
  <2>1. IsFiniteSet(H \ {t}) /\ Cardinality(H \ {t}) = lBorrowed - 1
    BY <1>3, FS_RemoveElement
  <2> QED BY <2>1, FS_CardinalityType
<1>6. CASE Lim!LiveCount > 0
  <2>1. /\ lWaiters' \in Seq(Peers) /\ NoRepeat(lWaiters')
        /\ \A x : InQueue(x, lWaiters') => InQueue(x, lWaiters)
        /\ Cardinality(W) = 1
    <3>1. 1 \in Nat /\ 1 <= Lim!LiveCount
      BY <1>4, <1>6
    <3> QED BY <1>2, <1>4, <3>1, PopLiveQueue
  <2>2. /\ Lim!Holders' = (H \ {t}) \cup W /\ H \cap W = {}
        /\ lPc' \in [Peers -> Lim!PCs]
        /\ \A x \in Peers : InQueue(x, lWaiters') => lPc'[x] \in Queueing
    BY <1>1, <1>2, <2>1, LimTransfer
  <2>3. W \in SUBSET LiveWaiters
    BY <1>2 DEF Woken
  <2>4. IsFiniteSet(W)
    BY <1>4, <2>3, FS_Subset
  <2>5. PICK A : A = H \ {t}
    OBVIOUS
  <2>6. IsFiniteSet(A) /\ A \cap W = {} /\ Lim!Holders' = A \cup W
    BY <1>5, <2>2, <2>5
  <2>7. Cardinality(Lim!Holders') = Cardinality(A) + Cardinality(W)
    BY <2>4, <2>6, CountUnion
  <2>8. Cardinality(Lim!Holders') = lBorrowed
    BY <1>3, <1>5, <2>1, <2>5, <2>7
  <2>9. lBorrowed >= lCapacity
    BY <1>4, <1>6 DEF LimInv
  <2> QED BY <1>6, <2>1, <2>2, <2>8, <2>9 DEF LimInv
<1>7. CASE Lim!LiveCount = 0
  <2>1. LivePlaces = {}
    <3>1. Len(lWaiters) \in Nat /\ DOMAIN lWaiters = 1..Len(lWaiters)
          /\ \A i \in 1..Len(lWaiters) : lWaiters[i] \in Peers
      BY <1>4, LenProperties, ElementOfSeq
    <3> QED BY <1>4, <1>7, <3>1 DEF LivePlaces, LiveWaiters, InQueue
  <2>2. lWaiters' = <<>>
    BY <2>1 DEF Lim!PopLive, Lim!Live, LivePlaces
  <2>3. /\ lWaiters' \in Seq(Peers) /\ NoRepeat(lWaiters')
        /\ \A x : ~InQueue(x, lWaiters') /\ W = {}
    BY <1>2, <1>4, <1>7, <2>2, EmptiedQueue
  <2>4. /\ Lim!Holders' = H \ {t} /\ LiveWaiters' = {}
        /\ lPc' \in [Peers -> Lim!PCs]
        /\ \A x \in Peers : InQueue(x, lWaiters') => lPc'[x] \in Queueing
    BY <1>1, <1>2, <1>4, <1>7, <2>3, LimTransfer
  <2> QED BY <1>5, <1>7, <2>3, <2>4 DEF LimInv
<1> QED BY <1>4, <1>6, <1>7

\* The token of t is given back, to a budget that was exceeded.
LEMMA LimReturnInv ==
    ASSUME LimInv, NEW t \in Peers, t \in Lim!Holders, Lim!Goto(t, "idle"),
           UNCHANGED <<lWaiters, lCapacity>>, lBorrowed' = lBorrowed - 1,
           lBorrowed - 1 >= lCapacity
    PROVE  LimInv'
<1>1. PICK H : H = Lim!Holders
  OBVIOUS
<1>2. t \in H /\ IsFiniteSet(H) /\ lBorrowed = Cardinality(H)
  BY <1>1, LimFinite DEF LimInv
<1>3. Cardinality(H \ {t}) = lBorrowed - 1 /\ lBorrowed - 1 \in Nat
  <2>1. IsFiniteSet(H \ {t}) /\ Cardinality(H \ {t}) = lBorrowed - 1
    BY <1>2, FS_RemoveElement
  <2> QED BY <2>1, FS_CardinalityType
<1>4. Woken(lWaiters') = {}
  BY DEF Woken, LiveWaiters
<1>5. /\ Lim!Holders' = H \ {t}
      /\ lPc' \in [Peers -> Lim!PCs]
      /\ \A x \in Peers : InQueue(x, lWaiters') => lPc'[x] \in Queueing
  BY <1>1, <1>4, LimTransfer
<1> QED BY <1>3, <1>5 DEF LimInv

\* A step that only moves t and leaves the holders as they are.
LEMMA LimMoveInv ==
    ASSUME LimInv, NEW t \in Peers, NEW where \in Lim!PCs, Lim!Goto(t, where),
           UNCHANGED <<lCapacity, lBorrowed, lWaiters>>,
           InQueue(t, lWaiters) => where \in Queueing /\ lPc[t] # "stranded",
           t \in Lim!Holders <=>
              where = "holding" \/ (where \in {"waiting", "unwind"} /\ ~InQueue(t, lWaiters))
    PROVE  LimInv' /\ Lim!Holders' = Lim!Holders
<1>1. lPc \in [Peers -> Lim!PCs] /\ lPc' = [lPc EXCEPT ![t] = where]
  BY DEF LimInv, Lim!Goto
<1>2. Lim!Holders' = Lim!Holders
  <2>1. \A x \in Peers : x \in Lim!Holders' <=> x \in Lim!Holders
    BY <1>1, LimHolders, LimHoldersNext
  <2> QED BY <2>1, LimHolders, LimHoldersNext
<1>3. LiveWaiters' \subseteq LiveWaiters
  BY <1>1 DEF LiveWaiters
<1> QED BY <1>1, <1>2, <1>3 DEF LimInv

\* acquire, which takes a token below the budget and queues otherwise.
LEMMA LimAcquireInv ==
    ASSUME LimInv, NEW t \in Peers, Lim!Acquire(t)
    PROVE  LimInv' /\ (lBorrowed >= lCapacity => Lim!Holders' = Lim!Holders)
<1>1. PICK H : H = Lim!Holders
  OBVIOUS
<1>2. /\ t \notin H /\ IsFiniteSet(H) /\ ~InQueue(t, lWaiters)
      /\ lBorrowed = Cardinality(H) /\ lBorrowed \in Nat /\ lCapacity \in Nat
      /\ lWaiters \in Seq(Peers) /\ NoRepeat(lWaiters) /\ lPc \in [Peers -> Lim!PCs]
  BY <1>1, LimFinite, LimHolders, InstanceAssumptions
     DEF LimInv, Lim!Acquire, Queueing, Lim!LimiterParams
<1>3. CASE lBorrowed < lCapacity
  <2>1. /\ lBorrowed' = lBorrowed + 1 /\ lWaiters' = lWaiters /\ lCapacity' = lCapacity
        /\ lPc' = [lPc EXCEPT ![t] = "holding"]
    BY <1>2, <1>3 DEF Lim!Acquire, Lim!Goto
  <2>2. Lim!Holders' = H \cup {t}
    <3>1. \A x \in Peers : x \in Lim!Holders' <=> x \in H \/ x = t
      BY <1>1, <1>2, <2>1, LimHolders, LimHoldersNext
    <3> QED BY <1>1, <3>1, LimHolders, LimHoldersNext
  <2>3. Cardinality(H \cup {t}) = Cardinality(H) + 1
    BY <1>2, FS_AddElement
  <2>4. lPc' \in [Peers -> Lim!PCs]
    BY <1>2, <2>1 DEF Lim!PCs
  <2>5. \A x \in Peers : InQueue(x, lWaiters') => lPc'[x] \in Queueing
    BY <1>2, <2>1 DEF LimInv
  <2>6. LiveWaiters' = LiveWaiters
    BY <1>2, <2>1 DEF LiveWaiters
  <2> QED BY <1>2, <1>3, <2>1, <2>2, <2>3, <2>4, <2>5, <2>6 DEF LimInv
<1>4. CASE lBorrowed >= lCapacity
  <2>1. /\ lBorrowed' = lBorrowed /\ lWaiters' = Append(lWaiters, t) /\ lCapacity' = lCapacity
        /\ lPc' = [lPc EXCEPT ![t] = "waiting"]
    BY <1>2, <1>4 DEF Lim!Acquire, Lim!Goto
  <2>2. /\ lWaiters' \in Seq(Peers) /\ NoRepeat(lWaiters')
        /\ \A x : InQueue(x, lWaiters') <=> InQueue(x, lWaiters) \/ x = t
    BY <1>2, <2>1, AppendQueue
  <2>3. Lim!Holders' = H
    <3>1. \A x \in Peers : x \in Lim!Holders' <=> x \in H
      BY <1>1, <1>2, <2>1, <2>2, LimHolders, LimHoldersNext
    <3> QED BY <1>1, <3>1, LimHolders, LimHoldersNext
  <2>4. lPc' \in [Peers -> Lim!PCs]
    BY <1>2, <2>1 DEF Lim!PCs
  <2>5. \A x \in Peers : InQueue(x, lWaiters') => lPc'[x] \in Queueing
    BY <1>2, <2>1, <2>2 DEF LimInv, Queueing
  <2> QED BY <1>1, <1>2, <1>4, <2>1, <2>2, <2>3, <2>4, <2>5 DEF LimInv
<1> QED BY <1>2, <1>3, <1>4

\* The total_tokens setter wakes as many live waiters as the new budget covers.
LEMMA SetTotalInv ==
    ASSUME LimInv, NEW c \in Budgets, Lim!SetTotal(c)
    PROVE  /\ LimInv' /\ (lBorrowed >= c => Lim!Holders' = Lim!Holders)
           /\ lBorrowed' > lBorrowed => lBorrowed' <= lCapacity'
<1>1. PICK H : H = Lim!Holders
  OBVIOUS
<1>2. PICK W : W = Woken(lWaiters')
  OBVIOUS
<1>3. /\ IsFiniteSet(H) /\ lBorrowed = Cardinality(H) /\ lBorrowed \in Nat /\ c \in Nat
      /\ lCapacity' = c /\ lPc' = lPc
  BY <1>1, LimFinite, InstanceAssumptions DEF LimInv, Lim!LimiterParams, Lim!SetTotal
<1>4. /\ lWaiters \in Seq(Peers) /\ NoRepeat(lWaiters) /\ IsFiniteSet(LiveWaiters)
      /\ Lim!LiveCount = Cardinality(LiveWaiters)
      /\ Lim!LiveCount \in Nat /\ (Lim!LiveCount = 0 <=> LiveWaiters = {})
  BY LiveCounted DEF LimInv
<1>5. PICK n : n = IF lBorrowed < c THEN Lim!Lower(Lim!LiveCount, c - lBorrowed) ELSE 0
  OBVIOUS
<1>6. /\ n \in Nat /\ n <= Lim!LiveCount /\ lBorrowed' = lBorrowed + n
      /\ lBorrowed >= c => n = 0
      /\ lBorrowed < c => n <= c - lBorrowed
      /\ lBorrowed < c /\ n < c - lBorrowed => n = Lim!LiveCount
  BY <1>3, <1>4, <1>5 DEF Lim!SetTotal, Lim!Lower
<1>7. lWaiters' = IF lBorrowed < c /\ n < c - lBorrowed THEN <<>> ELSE Lim!PopLive(n)
  BY <1>5 DEF Lim!SetTotal
<1>8. /\ lWaiters' \in Seq(Peers) /\ NoRepeat(lWaiters')
      /\ \A x : InQueue(x, lWaiters') => InQueue(x, lWaiters)
      /\ Cardinality(W) = n
      /\ lBorrowed < c /\ n < c - lBorrowed => \A x : ~InQueue(x, lWaiters')
  <2>1. CASE lBorrowed < c /\ n < c - lBorrowed
    BY <1>2, <1>4, <1>6, <1>7, <2>1, EmptiedQueue
  <2>2. CASE ~(lBorrowed < c /\ n < c - lBorrowed)
    <3>1. lWaiters' = Lim!PopLive(n)
      BY <1>7, <2>2
    <3>2. n \in Nat /\ n <= Lim!LiveCount
      BY <1>6
    <3> QED BY <1>2, <1>4, <2>2, <3>1, <3>2, PopLiveQueue
  <2> QED BY <2>1, <2>2
<1>9. Lim!Holders' = H \cup W /\ H \cap W = {}
  <2>1. W \subseteq Peers /\ H \subseteq Peers
    BY <1>1, <1>2, LimHolders DEF Woken, LiveWaiters
  <2>2. \A x \in Peers : x \in Lim!Holders' <=> x \in H \/ x \in W
    BY <1>1, <1>2, <1>3, <1>8, LimHolders, LimHoldersNext DEF Woken, LiveWaiters, LimInv, Queueing
  <2>3. H \cap W = {}
    BY <1>1, <1>2, LimHolders DEF Woken, LiveWaiters, LimInv, Queueing
  <2> QED BY <2>1, <2>2, <2>3, LimHoldersNext
<1>10. IsFiniteSet(W)
  <2>1. W \in SUBSET LiveWaiters
    BY <1>2 DEF Woken
  <2> QED BY <1>4, <2>1, FS_Subset
<1>11. Cardinality(Lim!Holders') = lBorrowed'
  <2>1. PICK B : B = Lim!Holders'
    OBVIOUS
  <2>2. Cardinality(B) = Cardinality(H) + Cardinality(W)
    BY <1>3, <1>9, <1>10, <2>1, CountUnion
  <2> QED BY <1>3, <1>6, <1>8, <2>1, <2>2
<1>12. LiveWaiters' # {} => lBorrowed' >= c
  <2>1. CASE lBorrowed < c /\ n < c - lBorrowed
    BY <1>8, <2>1 DEF LiveWaiters
  <2>2. CASE ~(lBorrowed < c /\ n < c - lBorrowed)
    BY <1>3, <1>6, <2>2
  <2> QED BY <2>1, <2>2
<1>13. \A x \in Peers : InQueue(x, lWaiters') => lPc'[x] \in Queueing
  BY <1>3, <1>8 DEF LimInv
<1>14. LimInv'
  BY <1>3, <1>6, <1>8, <1>11, <1>12, <1>13 DEF LimInv
<1>15. lBorrowed >= c => W = {}
  BY <1>6, <1>8, <1>10, FS_EmptySet
<1>16. lBorrowed' > lBorrowed => lBorrowed' <= c
  BY <1>3, <1>6
<1> QED BY <1>1, <1>3, <1>9, <1>14, <1>15, <1>16

\* Every step preserves the invariant; no step lends past the budget; and while
\* the budget is exceeded nobody new gets a token.
LEMMA LimNext ==
    ASSUME LimInv, [Lim!Next]_limiter
    PROVE  /\ LimInv'
           /\ lBorrowed' > lBorrowed => lBorrowed' <= lCapacity'
           /\ lBorrowed > lCapacity /\ lCapacity' = lCapacity => Lim!Holders' \subseteq Lim!Holders
<1>0. /\ lWaiters \in Seq(Peers) /\ NoRepeat(lWaiters) /\ lPc \in [Peers -> Lim!PCs]
      /\ lBorrowed \in Nat /\ lCapacity \in Nat
  BY InstanceAssumptions DEF LimInv, Lim!LimiterParams
<1> DEFINE Goal == /\ LimInv'
                   /\ lBorrowed' > lBorrowed => lBorrowed' <= lCapacity'
                   /\ lBorrowed > lCapacity /\ lCapacity' = lCapacity => Lim!Holders' \subseteq Lim!Holders
<1>1. ASSUME NEW t \in Peers, Lim!Acquire(t) PROVE Goal
  <2>1. lBorrowed' > lBorrowed => lBorrowed' <= lCapacity'
    BY <1>0, <1>1 DEF Lim!Acquire
  <2>2. LimInv' /\ (lBorrowed >= lCapacity => Lim!Holders' = Lim!Holders)
    BY <1>1, LimAcquireInv
  <2> QED BY <1>0, <2>1, <2>2
<1>2. ASSUME NEW t \in Peers, Lim!Resume(t) \/ Lim!Cancel(t) \/ Lim!Strand(t) PROVE Goal
  <2>1. lBorrowed' = lBorrowed
    BY <1>2 DEF Lim!Resume, Lim!Cancel, Lim!Strand
  <2>2. LimInv' /\ Lim!Holders' = Lim!Holders
    BY <1>2, LimMoveInv, LimHolders, LimOperators
       DEF Lim!Resume, Lim!Cancel, Lim!Strand, Lim!PCs, Queueing
  <2> QED BY <1>0, <2>1, <2>2
<1>3. ASSUME NEW t \in Peers, Lim!CancelWaiter(t) PROVE Goal
  <2>1. CASE InQueue(t, lWaiters)
    <3>1. /\ lBorrowed' = lBorrowed /\ lWaiters' = Discard(lWaiters, t) /\ lCapacity' = lCapacity
          /\ lPc' = [lPc EXCEPT ![t] = "idle"] /\ lPc[t] = "unwind"
      BY <1>3, <2>1, LimOperators DEF Lim!CancelWaiter, Lim!Goto
    <3>2. /\ lWaiters' \in Seq(Peers) /\ NoRepeat(lWaiters')
          /\ \A x : InQueue(x, lWaiters') <=> InQueue(x, lWaiters) /\ x # t
      BY <1>0, <2>1, <3>1, DiscardQueue
    <3>3. Lim!Holders' = Lim!Holders
      <4>1. \A x \in Peers : x \in Lim!Holders' <=> x \in Lim!Holders
        BY <1>0, <2>1, <3>1, <3>2, LimHolders, LimHoldersNext
      <4> QED BY <4>1, LimHolders, LimHoldersNext
    <3>4. lPc' \in [Peers -> Lim!PCs]
      BY <1>0, <3>1 DEF Lim!PCs
    <3>5. \A x \in Peers : InQueue(x, lWaiters') => lPc'[x] \in Queueing
      BY <1>0, <3>1, <3>2 DEF LimInv
    <3>6. LiveWaiters' \subseteq LiveWaiters
      BY <1>0, <3>1, <3>2 DEF LiveWaiters
    <3> QED BY <1>0, <3>1, <3>2, <3>3, <3>4, <3>5, <3>6 DEF LimInv
  <2>2. CASE ~InQueue(t, lWaiters)
    <3>1. t \in Lim!Holders /\ Lim!Goto(t, "idle") /\ lCapacity' = lCapacity
      BY <1>3, <2>2, LimHolders DEF Lim!CancelWaiter
    <3>2. CASE lBorrowed <= lCapacity
      <4>1. /\ lWaiters' = Lim!PopLive(1)
            /\ lBorrowed' = IF Lim!LiveCount > 0 THEN lBorrowed ELSE lBorrowed - 1
        BY <1>3, <2>2, <3>2, LimOperators DEF Lim!CancelWaiter
      <4>2. LimInv'
        BY <3>1, <4>1, LimPassInv
      <4> QED BY <1>0, <3>2, <4>1, <4>2
    <3>3. CASE ~(lBorrowed <= lCapacity)
      <4>1. lBorrowed' = lBorrowed - 1 /\ lWaiters' = lWaiters /\ lBorrowed - 1 >= lCapacity
        BY <1>0, <1>3, <2>2, <3>3, LimOperators DEF Lim!CancelWaiter
      <4>2. LimInv'
        BY <3>1, <4>1, LimReturnInv
      <4>3. Lim!Holders' \subseteq Lim!Holders
        <5>1. Woken(lWaiters') = {}
          BY <4>1 DEF Woken, LiveWaiters
        <5>2. Lim!Holders' = (Lim!Holders \ {t}) \cup Woken(lWaiters')
          BY <3>1, <4>1, LimTransfer
        <5> QED BY <5>1, <5>2
      <4> QED BY <1>0, <4>1, <4>2, <4>3
    <3> QED BY <3>2, <3>3
  <2> QED BY <2>1, <2>2
<1>4. ASSUME NEW t \in Peers, Lim!Release(t) PROVE Goal
  <2>1. t \in Lim!Holders /\ Lim!Goto(t, "idle") /\ lCapacity' = lCapacity
    BY <1>4, LimHolders DEF Lim!Release
  <2>2. CASE lBorrowed - 1 < lCapacity
    <3>1. /\ lWaiters' = Lim!PopLive(1)
          /\ lBorrowed' = IF Lim!LiveCount > 0 THEN lBorrowed ELSE lBorrowed - 1
      BY <1>4, <2>2 DEF Lim!Release
    <3>2. LimInv'
      BY <2>1, <3>1, LimPassInv
    <3> QED BY <1>0, <2>2, <3>1, <3>2
  <2>3. CASE ~(lBorrowed - 1 < lCapacity)
    <3>1. lBorrowed' = lBorrowed - 1 /\ lWaiters' = lWaiters /\ lBorrowed - 1 >= lCapacity
      BY <1>0, <1>4, <2>3 DEF Lim!Release
    <3>2. LimInv'
      BY <2>1, <3>1, LimReturnInv
    <3>3. Lim!Holders' \subseteq Lim!Holders
      <4>1. Woken(lWaiters') = {}
        BY <3>1 DEF Woken, LiveWaiters
      <4>2. Lim!Holders' = (Lim!Holders \ {t}) \cup Woken(lWaiters')
        BY <2>1, <3>1, LimTransfer
      <4> QED BY <4>1, <4>2
    <3> QED BY <1>0, <3>1, <3>2, <3>3
  <2> QED BY <2>2, <2>3
<1>5. ASSUME NEW c \in Budgets, Lim!SetTotal(c) PROVE Goal
  <2>1. lCapacity' = c
    BY <1>5 DEF Lim!SetTotal
  <2> QED BY <1>0, <1>5, <2>1, SetTotalInv
<1>6. CASE UNCHANGED limiter
  <2>1. Lim!Holders' = Lim!Holders /\ LiveWaiters' = LiveWaiters
    BY <1>6 DEF Lim!Holders, limiter, LiveWaiters
  <2> QED BY <1>0, <1>6, <2>1 DEF limiter, LimInv
<1> QED BY <1>1, <1>2, <1>3, <1>4, <1>5, <1>6 DEF Lim!Next

-----------------------------------------------------------------------------
(* The theorem *)

\* Permits and tokens are conserved by acquire, release, hand-over, resize,
\* cancellation before and after the hand-over, and closed loops (_sync.py:
\* Semaphore, CapacityLimiter); none idles beside a waiter; no step lends past
\* the budget, and a deficit is absorbed.
THEOREM PermitsTheorem == SSpec => PermitsConserved
<1>1. SInit => SemInv /\ LimInv
  BY SemInit, LimInit DEF SInit
<1>2. SNext \/ UNCHANGED svars => [Sem!Next]_semaphore /\ [Lim!Next]_limiter
  BY DEF SNext, svars, OthersStill, LockRuns, ConditionRuns, SemaphoreRuns, LimiterRuns,
         BarrierRuns, RWMutexRuns, WaitGroupRuns, OnceRuns, EventRuns
<1>3. SemInv => Sem!PermitsConserved /\ Sem!NoIdlePermit
  BY SemOperators DEF SemInv, Sem!PermitsConserved, Sem!NoIdlePermit
<1>4. LimInv => Lim!BorrowedExact /\ Lim!NoIdleToken
  BY LimOperators, LiveCounted DEF LimInv, Lim!BorrowedExact, Lim!NoIdleToken
<1>5. LimInv /\ (SNext \/ UNCHANGED svars) =>
        /\ [lBorrowed' > lBorrowed => lBorrowed' <= lCapacity']_(Lim!vars)
        /\ [lBorrowed > lCapacity /\ lCapacity' = lCapacity =>
              Lim!Holders' \subseteq Lim!Holders]_(Lim!vars)
  BY <1>2, LimNext
<1>6. LimInv /\ (SNext \/ UNCHANGED svars) => LimInv'
  BY <1>2, LimNext
<1> QED BY <1>1, <1>2, <1>3, <1>4, <1>5, <1>6, SemNext, PTL
        DEF SSpec, PermitsConserved, Lim!NeverOverlent, Lim!DeficitAbsorbed

-----------------------------------------------------------------------------
(* AsyncRWMutex *)

\* The operators of FiniteSets and Queues are the same inside the instance.
LEMMA RWOperators ==
    /\ \A S : RW!Cardinality(S) = Cardinality(S) /\ RW!IsFiniteSet(S) = IsFiniteSet(S)
    /\ \A t, q : RW!InQueue(t, q) = InQueue(t, q)
    /\ \A t, q : RW!Discard(q, t) = Discard(q, t)
<1>1. \A S : RW!Cardinality(S) = Cardinality(S) /\ RW!IsFiniteSet(S) = IsFiniteSet(S)
  BY DEF RW!Cardinality, Cardinality, RW!IsFiniteSet, IsFiniteSet
<1>2. \A t, q : RW!InQueue(t, q) = InQueue(t, q)
  BY DEF RW!InQueue, InQueue
<1>3. \A t, q : RW!Discard(q, t) = Discard(q, t)
  BY <1>2 DEF RW!Discard, Discard
<1> QED BY <1>1, <1>2, <1>3

\* The tasks inside, or popped from the queue q and on their way in.
Inside(t, q) == rPc[t] = "holding" \/ (rPc[t] \in {"waiting", "unwind"} /\ ~InQueue(t, q))
ReadHolders == {t \in RWReaders : Inside(t, rReadWaiters)}
WriteHolders == {t \in RWWriters : Inside(t, rWriteWaiters)}

RWTypes ==
    /\ rReaders \in Nat /\ rWriter \in BOOLEAN /\ rPending \in Nat
    /\ rReadWaiters \in Seq(RWReaders) /\ rWriteWaiters \in Seq(RWWriters)
    /\ rDepth \in [RWReaders -> 0..RWDepth]
    /\ rPc \in [RWReaders \cup RWWriters -> RW!PCs]

\* A task is queued at most once, and only while its acquire has not ended.
RWQueues ==
    /\ NoRepeat(rReadWaiters) /\ NoRepeat(rWriteWaiters)
    /\ \A t \in RWReaders : InQueue(t, rReadWaiters) => rPc[t] \in {"waiting", "unwind"}
    /\ \A t \in RWWriters : InQueue(t, rWriteWaiters) => rPc[t] \in {"waiting", "unwind"}

\* The lock counts at least its holders (a cancelled grant stays counted): so a
\* lock that counts no reader has none, and one that has no writer flag has none.
RWCounts ==
    /\ rReaders >= Cardinality(ReadHolders)
    /\ rWriter => rReaders = 0
    /\ WriteHolders # {} => rWriter
    /\ \A t, u \in WriteHolders : t = u
    /\ \A t \in RWReaders : rPc[t] = "holding" => rDepth[t] >= 1

\* Whoever queues is behind a holder or a queued writer.
RWPending ==
    /\ rPending = Len(rWriteWaiters)
    /\ rReadWaiters # <<>> => rWriter \/ rPending > 0
    /\ rWriteWaiters # <<>> => rWriter \/ rReaders > 0

RWInv == RWTypes /\ RWQueues /\ RWCounts /\ RWPending

\* What the constants are.
LEMMA RWConstants ==
    /\ RWReaders \cap RWWriters = {}
    /\ IsFiniteSet(RWReaders) /\ IsFiniteSet(RWWriters) /\ RWDepth \in Nat \ {0}
<1>1. /\ RWReaders \cap RWWriters = {} /\ IsFiniteSet(RWReaders \cup RWWriters)
      /\ RWDepth \in Nat \ {0}
  BY InstanceAssumptions, RWOperators DEF RW!RWParams, RW!Users
<1>2. PICK All : All = RWReaders \cup RWWriters
  OBVIOUS
<1>3. IsFiniteSet(All) /\ RWReaders \in SUBSET All /\ RWWriters \in SUBSET All
  BY <1>1, <1>2
<1>4. IsFiniteSet(RWReaders) /\ IsFiniteSet(RWWriters)
  BY <1>3, FS_Subset
<1> QED BY <1>1, <1>4

\* There are finitely many holders, so they can be counted.
LEMMA ReadFinite == IsFiniteSet(ReadHolders) /\ Cardinality(ReadHolders) \in Nat
<1>1. ReadHolders \in SUBSET RWReaders
  BY DEF ReadHolders
<1>2. IsFiniteSet(ReadHolders)
  BY <1>1, RWConstants, FS_Subset
<1> QED BY <1>2, FS_CardinalityType

\* Fewer holders never make the count too small.
LEMMA FewerReaders ==
    ASSUME NEW A, NEW B, IsFiniteSet(B), A \subseteq B, NEW n \in Nat, n >= Cardinality(B)
    PROVE  n >= Cardinality(A)
<1>1. IsFiniteSet(A) /\ Cardinality(A) <= Cardinality(B)
  BY FS_Subset
<1>2. Cardinality(A) \in Nat /\ Cardinality(B) \in Nat
  BY <1>1, FS_CardinalityType
<1> QED BY <1>1, <1>2

\* A new lock is free.
LEMMA RWInit == RW!Init => RWInv
<1> SUFFICES ASSUME RW!Init PROVE RWInv
  OBVIOUS
<1> USE DEF RW!Init, RW!Users
<1>1. /\ rReadWaiters = <<>> /\ rReadWaiters \in Seq(RWReaders) /\ DOMAIN rReadWaiters = {}
      /\ rWriteWaiters = <<>> /\ rWriteWaiters \in Seq(RWWriters) /\ DOMAIN rWriteWaiters = {}
      /\ Len(rWriteWaiters) = 0
  BY EmptySeq
<1>2. ReadHolders = {} /\ WriteHolders = {}
  BY DEF ReadHolders, WriteHolders, Inside
<1>3. RWTypes
  <2>1. 0 \in 0..RWDepth
    BY RWConstants
  <2> QED BY <1>1, <2>1 DEF RWTypes, RW!PCs
<1>4. RWQueues
  BY <1>1 DEF RWQueues, NoRepeat, InQueue
<1>5. RWCounts
  BY <1>2, FS_EmptySet DEF RWCounts
<1>6. RWPending
  BY <1>1 DEF RWPending
<1> QED BY <1>3, <1>4, <1>5, <1>6 DEF RWInv

\* A step of a reader t that leaves the writers alone.
LEMMA ReaderStep ==
    ASSUME RWInv, NEW t \in RWReaders, NEW where \in RW!PCs, RW!Goto(t, where),
           UNCHANGED rWriteWaiters
    PROVE  /\ rPc' \in [RWReaders \cup RWWriters -> RW!PCs]
           /\ rPc'[t] = where /\ \A x \in RWReaders \ {t} : rPc'[x] = rPc[x]
           /\ \A x \in RWWriters : rPc'[x] = rPc[x]
           /\ WriteHolders' = WriteHolders
<1>1. rPc' = [rPc EXCEPT ![t] = where] /\ rPc \in [RWReaders \cup RWWriters -> RW!PCs]
  BY DEF RW!Goto, RWInv, RWTypes
<1>2. \A x \in RWWriters : rPc'[x] = rPc[x]
  BY <1>1, RWConstants
<1> QED BY <1>1, <1>2 DEF WriteHolders, Inside

\* A step of a writer t that leaves the queued readers alone.
LEMMA WriterStep ==
    ASSUME RWInv, NEW t \in RWWriters, NEW where \in RW!PCs, RW!Goto(t, where)
    PROVE  /\ rPc' \in [RWReaders \cup RWWriters -> RW!PCs]
           /\ rPc'[t] = where /\ \A x \in RWWriters \ {t} : rPc'[x] = rPc[x]
           /\ \A x \in RWReaders : rPc'[x] = rPc[x]
           /\ rReadWaiters' = rReadWaiters => ReadHolders' = ReadHolders
<1>1. rPc' = [rPc EXCEPT ![t] = where] /\ rPc \in [RWReaders \cup RWWriters -> RW!PCs]
  BY DEF RW!Goto, RWInv, RWTypes
<1>2. \A x \in RWReaders : rPc'[x] = rPc[x]
  BY <1>1, RWConstants
<1> QED BY <1>1, <1>2 DEF ReadHolders, Inside

\* reader() enters a lock that is free for it, or tries again, or queues.
LEMMA ReadEnterInv == ASSUME RWInv, NEW t \in RWReaders, RW!ReadEnter(t) PROVE RWInv'
<1>1. /\ rPc[t] \in {"idle", "register"} /\ t \notin ReadHolders /\ ~InQueue(t, rReadWaiters)
      /\ UNCHANGED <<rWriter, rPending, rWriteWaiters>>
  BY DEF RW!ReadEnter, ReadHolders, Inside, RWInv, RWQueues
<1>2. CASE RW!ReadFree
  <2>1. /\ rReaders' = rReaders + 1 /\ rDepth' = [rDepth EXCEPT ![t] = 1]
        /\ RW!Goto(t, "holding") /\ rReadWaiters' = rReadWaiters /\ ~rWriter
    BY <1>2 DEF RW!ReadEnter, RW!ReadFree
  <2>2. "holding" \in RW!PCs
    BY DEF RW!PCs
  <2>3. /\ rPc' \in [RWReaders \cup RWWriters -> RW!PCs]
        /\ rPc'[t] = "holding" /\ \A x \in RWReaders \ {t} : rPc'[x] = rPc[x]
        /\ \A x \in RWWriters : rPc'[x] = rPc[x]
        /\ WriteHolders' = WriteHolders
    BY <1>1, <2>1, <2>2, ReaderStep
  <2>4. ReadHolders' = ReadHolders \cup {t}
    BY <2>1, <2>3 DEF ReadHolders, Inside
  <2>5. rReaders' >= Cardinality(ReadHolders') /\ rReaders' \in Nat
    <3>1. PICK H : H = ReadHolders
      OBVIOUS
    <3>2. IsFiniteSet(H) /\ Cardinality(H) \in Nat /\ t \notin H /\ rReaders >= Cardinality(H)
      BY <1>1, <3>1, ReadFinite DEF RWInv, RWCounts
    <3>3. Cardinality(H \cup {t}) = Cardinality(H) + 1
      BY <3>2, FS_AddElement
    <3> QED BY <2>1, <2>4, <3>1, <3>2, <3>3 DEF RWInv, RWTypes
  <2>6. rDepth' \in [RWReaders -> 0..RWDepth] /\ \A x \in RWReaders : rPc'[x] = "holding" => rDepth'[x] >= 1
    BY <2>1, <2>3, RWConstants DEF RWInv, RWTypes, RWCounts
  <2>7. RWTypes'
    BY <1>1, <2>1, <2>3, <2>5, <2>6 DEF RWInv, RWTypes
  <2>8. RWQueues'
    BY <1>1, <2>1, <2>3 DEF RWInv, RWQueues
  <2>9. RWCounts'
    BY <1>1, <2>1, <2>3, <2>5, <2>6 DEF RWInv, RWCounts
  <2>10. RWPending'
    BY <1>1, <2>1 DEF RWInv, RWPending, RWTypes
  <2> QED BY <2>7, <2>8, <2>9, <2>10 DEF RWInv
<1>3. CASE ~RW!ReadFree /\ rPc[t] = "idle"
  <2>1. RW!Goto(t, "register") /\ UNCHANGED <<rReaders, rReadWaiters, rDepth>> /\ "register" \in RW!PCs
    BY <1>3 DEF RW!ReadEnter, RW!PCs
  <2>2. /\ rPc' \in [RWReaders \cup RWWriters -> RW!PCs]
        /\ rPc'[t] = "register" /\ \A x \in RWReaders \ {t} : rPc'[x] = rPc[x]
        /\ \A x \in RWWriters : rPc'[x] = rPc[x]
        /\ WriteHolders' = WriteHolders
    BY <1>1, <2>1, ReaderStep
  <2>3. ReadHolders' = ReadHolders
    BY <1>1, <2>1, <2>2 DEF ReadHolders, Inside
  <2> QED BY <1>1, <2>1, <2>2, <2>3 DEF RWInv, RWTypes, RWQueues, RWCounts, RWPending
<1>4. CASE ~RW!ReadFree /\ rPc[t] = "register"
  <2>1. /\ RW!Goto(t, "waiting") /\ UNCHANGED <<rReaders, rDepth>> /\ "waiting" \in RW!PCs
        /\ rReadWaiters' = Append(rReadWaiters, t)
    BY <1>4 DEF RW!ReadEnter, RW!PCs
  <2>2. /\ rPc' \in [RWReaders \cup RWWriters -> RW!PCs]
        /\ rPc'[t] = "waiting" /\ \A x \in RWReaders \ {t} : rPc'[x] = rPc[x]
        /\ \A x \in RWWriters : rPc'[x] = rPc[x]
        /\ WriteHolders' = WriteHolders
    BY <1>1, <2>1, ReaderStep
  <2>3. /\ rReadWaiters' \in Seq(RWReaders) /\ NoRepeat(rReadWaiters')
        /\ \A x : InQueue(x, rReadWaiters') <=> InQueue(x, rReadWaiters) \/ x = t
    <3>1. rReadWaiters \in Seq(RWReaders) /\ NoRepeat(rReadWaiters)
      BY DEF RWInv, RWTypes, RWQueues
    <3> QED BY <1>1, <2>1, <3>1, AppendQueue
  <2>4. ReadHolders' = ReadHolders
    BY <1>1, <2>2, <2>3 DEF ReadHolders, Inside
  <2>5. rWriter \/ rPending > 0
    BY <1>4 DEF RW!ReadFree, RWInv, RWTypes
  <2>6. RWTypes' /\ RWQueues'
    BY <1>1, <2>1, <2>2, <2>3 DEF RWInv, RWTypes, RWQueues
  <2>7. RWCounts' /\ RWPending'
    BY <1>1, <2>1, <2>2, <2>4, <2>5 DEF RWInv, RWCounts, RWPending
  <2> QED BY <2>6, <2>7 DEF RWInv
<1> QED BY <1>1, <1>2, <1>3, <1>4

\* A popped reader runs, or a task opens a nested block.
LEMMA ReadResumeInv ==
    ASSUME RWInv, NEW t \in RWReaders, RW!ReadResume(t) \/ RW!ReadNest(t) PROVE RWInv'
<1>1. /\ t \in ReadHolders
      /\ UNCHANGED <<rReaders, rWriter, rPending, rReadWaiters, rWriteWaiters>>
  BY RWOperators DEF RW!ReadResume, RW!ReadNest, RW!raw, ReadHolders, Inside
<1>2. rPc' = [rPc EXCEPT ![t] = "holding"]
  BY DEF RW!ReadResume, RW!ReadNest, RW!Goto, RWInv, RWTypes
<1>3. /\ rPc' \in [RWReaders \cup RWWriters -> RW!PCs]
      /\ rPc'[t] = "holding" /\ \A x \in RWReaders \ {t} : rPc'[x] = rPc[x]
      /\ \A x \in RWWriters : rPc'[x] = rPc[x]
      /\ WriteHolders' = WriteHolders
  <2>1. "holding" \in RW!PCs /\ RW!Goto(t, "holding")
    BY <1>2 DEF RW!PCs, RW!Goto
  <2> QED BY <1>1, <2>1, ReaderStep
<1>4. ReadHolders' = ReadHolders
  BY <1>1, <1>3 DEF ReadHolders, Inside
<1>5. /\ rDepth' \in [RWReaders -> 0..RWDepth]
      /\ \A x \in RWReaders : rPc'[x] = "holding" => rDepth'[x] >= 1
  BY <1>3, RWConstants DEF RW!ReadResume, RW!ReadNest, RWInv, RWTypes, RWCounts
<1>6. ~InQueue(t, rReadWaiters)
  BY <1>1 DEF ReadHolders, Inside, RWInv, RWQueues
<1>7. RWTypes' /\ RWPending'
  BY <1>1, <1>3, <1>5 DEF RWInv, RWTypes, RWPending
<1>8. RWQueues'
  BY <1>1, <1>3, <1>6 DEF RWInv, RWQueues
<1>9. RWCounts'
  BY <1>1, <1>3, <1>4, <1>5 DEF RWInv, RWCounts
<1> QED BY <1>7, <1>8, <1>9 DEF RWInv

\* A cancelled reader leaves the queue, or drops a grant that stays counted.
LEMMA ReadUnwindInv == ASSUME RWInv, NEW t \in RWReaders, RW!ReadUnwind(t) PROVE RWInv'
<1>1. /\ rPc[t] = "unwind" /\ rReadWaiters' = Discard(rReadWaiters, t) /\ RW!Goto(t, "idle")
      /\ UNCHANGED <<rReaders, rWriter, rPending, rWriteWaiters, rDepth>> /\ "idle" \in RW!PCs
  BY RWOperators DEF RW!ReadUnwind, RW!PCs
<1>2. /\ rPc' \in [RWReaders \cup RWWriters -> RW!PCs]
      /\ rPc'[t] = "idle" /\ \A x \in RWReaders \ {t} : rPc'[x] = rPc[x]
      /\ \A x \in RWWriters : rPc'[x] = rPc[x]
      /\ WriteHolders' = WriteHolders
  BY <1>1, ReaderStep
<1>3. /\ rReadWaiters' \in Seq(RWReaders) /\ NoRepeat(rReadWaiters')
      /\ \A x : InQueue(x, rReadWaiters') <=> InQueue(x, rReadWaiters) /\ x # t
  <2>1. rReadWaiters \in Seq(RWReaders) /\ NoRepeat(rReadWaiters)
    BY DEF RWInv, RWTypes, RWQueues
  <2>2. CASE InQueue(t, rReadWaiters)
    BY <1>1, <2>1, <2>2, DiscardQueue
  <2>3. CASE ~InQueue(t, rReadWaiters)
    BY <1>1, <2>1, <2>3 DEF Discard
  <2> QED BY <2>2, <2>3
<1>4. ReadHolders' \subseteq ReadHolders
  BY <1>2, <1>3 DEF ReadHolders, Inside
<1>5. rReadWaiters' # <<>> => rReadWaiters # <<>>
  <2>1. rReadWaiters \in Seq(RWReaders)
    BY DEF RWInv, RWTypes
  <2>2. rReadWaiters = <<>> => \A x \in RWReaders : ~InQueue(x, rReadWaiters)
    BY <2>1, EmptyQueue
  <2>3. (\A x \in RWReaders : ~InQueue(x, rReadWaiters')) => rReadWaiters' = <<>>
    BY <1>3, EmptyQueue
  <2> QED BY <1>3, <2>2, <2>3
<1>6. rReaders' >= Cardinality(ReadHolders')
  BY <1>1, <1>4, ReadFinite, FewerReaders DEF RWInv, RWTypes, RWCounts
<1>7. RWTypes' /\ RWQueues'
  BY <1>1, <1>2, <1>3 DEF RWInv, RWTypes, RWQueues
<1>8. RWCounts' /\ RWPending'
  BY <1>1, <1>2, <1>5, <1>6 DEF RWInv, RWCounts, RWPending
<1> QED BY <1>7, <1>8 DEF RWInv

\* The first queued writer gets a lock that has no writer any more: t left it.
LEMMA GrantWriterInv ==
    ASSUME RWInv, rWriteWaiters # <<>>, RW!GrantWriter,
           NEW t \in RWReaders \cup RWWriters, rPc[t] = "holding", RW!Goto(t, "idle"),
           WriteHolders \subseteq {t}, UNCHANGED rReadWaiters, rReaders' = 0,
           ReadHolders \subseteq {t},
           rDepth' \in [RWReaders -> 0..RWDepth],
           \A x \in RWReaders \ {t} : rDepth'[x] = rDepth[x]
    PROVE  RWInv'
<1>1. PICK q : q = rWriteWaiters
  OBVIOUS
<1>2. /\ rWriter' = TRUE /\ rWriteWaiters' = Tail(q) /\ rPending' = RW!Minus1(rPending)
      /\ rPc' = [rPc EXCEPT ![t] = "idle"] /\ rPc \in [RWReaders \cup RWWriters -> RW!PCs]
      /\ rPending = Len(q) /\ q \in Seq(RWWriters) /\ NoRepeat(q) /\ q # <<>>
  BY <1>1 DEF RW!GrantWriter, RW!Goto, RWInv, RWTypes, RWPending, RWQueues
<1>3. /\ Tail(q) \in Seq(RWWriters) /\ NoRepeat(Tail(q)) /\ Len(Tail(q)) = Len(q) - 1
      /\ q[1] \in RWWriters /\ InQueue(q[1], q)
      /\ \A x : InQueue(x, Tail(q)) <=> InQueue(x, q) /\ x # q[1]
  BY <1>2, TailQueue
<1>4. Len(Tail(q)) \in Nat /\ Len(q) \in Nat
  BY <1>2, <1>3, LenProperties
<1>5. rPending' = Len(Tail(q)) /\ rPending' \in Nat
  BY <1>2, <1>3, <1>4 DEF RW!Minus1
<1>6. /\ rPc' \in [RWReaders \cup RWWriters -> RW!PCs] /\ rPc'[t] = "idle"
      /\ \A x \in (RWReaders \cup RWWriters) \ {t} : rPc'[x] = rPc[x]
  BY <1>2 DEF RW!PCs
<1>7. ~InQueue(t, rReadWaiters) \/ t \notin RWReaders
  BY DEF RWInv, RWQueues
<1>8. ~InQueue(t, q) \/ t \notin RWWriters
  BY <1>1 DEF RWInv, RWQueues
<1>9. WriteHolders' \subseteq {q[1]}
  <2> SUFFICES ASSUME NEW x \in WriteHolders' PROVE x = q[1]
    OBVIOUS
  <2>1. /\ x \in RWWriters
        /\ rPc'[x] = "holding" \/ (rPc'[x] \in {"waiting", "unwind"} /\ ~InQueue(x, rWriteWaiters'))
    BY DEF WriteHolders, Inside
  <2>2. x # t /\ rPc'[x] = rPc[x]
    BY <1>6, <2>1
  <2>3. x \notin WriteHolders
    BY <2>2
  <2>4. InQueue(x, q) /\ ~InQueue(x, Tail(q))
    BY <1>1, <1>2, <2>1, <2>2, <2>3 DEF WriteHolders, Inside
  <2> QED BY <1>3, <2>4
<1>10. ReadHolders' = {}
  BY <1>6 DEF ReadHolders, Inside
<1>11. RWTypes'
  BY <1>2, <1>3, <1>5, <1>6 DEF RWInv, RWTypes
<1>12. RWQueues'
  <2>1. \A x \in RWReaders : InQueue(x, rReadWaiters') => rPc'[x] \in {"waiting", "unwind"}
    BY <1>6, <1>7 DEF RWInv, RWQueues
  <2>2. \A x \in RWWriters : InQueue(x, rWriteWaiters') => rPc'[x] \in {"waiting", "unwind"}
    BY <1>1, <1>2, <1>3, <1>6, <1>8 DEF RWInv, RWQueues
  <2> QED BY <1>2, <1>3, <2>1, <2>2 DEF RWInv, RWQueues
<1>13. RWCounts'
  <2>1. \A x \in RWReaders : rPc'[x] = "holding" => rDepth'[x] >= 1
    BY <1>6 DEF RWInv, RWCounts
  <2> QED BY <1>2, <1>9, <1>10, <2>1, FS_EmptySet DEF RWCounts
<1>14. RWPending'
  BY <1>2, <1>5 DEF RWPending
<1> QED BY <1>11, <1>12, <1>13, <1>14 DEF RWInv

\* release_read: the last reader lets the first queued writer in.
LEMMA ReadExitInv == ASSUME RWInv, NEW t \in RWReaders, RW!ReadExit(t) PROVE RWInv'
<1>1. /\ rPc[t] = "holding" /\ rDepth' = [rDepth EXCEPT ![t] = @ - 1]
      /\ rDepth \in [RWReaders -> 0..RWDepth] /\ rDepth[t] >= 1 /\ rDepth[t] \in Nat
      /\ t \in ReadHolders /\ ~InQueue(t, rReadWaiters)
  <2>1. rPc[t] = "holding" /\ rDepth' = [rDepth EXCEPT ![t] = @ - 1]
    BY DEF RW!ReadExit
  <2>2. rDepth \in [RWReaders -> 0..RWDepth] /\ rDepth[t] >= 1
    BY <2>1 DEF RWInv, RWTypes, RWCounts
  <2>3. rDepth[t] \in Nat
    BY <2>2, RWConstants
  <2>4. t \in ReadHolders /\ ~InQueue(t, rReadWaiters)
    BY <2>1 DEF RWInv, ReadHolders, Inside, RWQueues
  <2> QED BY <2>1, <2>2, <2>3, <2>4
<1>2. rDepth' \in [RWReaders -> 0..RWDepth] /\ \A x \in RWReaders \ {t} : rDepth'[x] = rDepth[x]
  <2>1. rDepth[t] - 1 \in 0..RWDepth
    BY <1>1, RWConstants
  <2> QED BY <1>1, <2>1
<1>3. CASE rDepth[t] > 1
  <2>1. UNCHANGED <<rReaders, rWriter, rPending, rReadWaiters, rWriteWaiters, rPc>>
    BY <1>3 DEF RW!ReadExit, RW!raw
  <2>2. rDepth'[t] >= 1
    BY <1>1, <1>3
  <2>3. ReadHolders' = ReadHolders /\ WriteHolders' = WriteHolders
    BY <2>1 DEF ReadHolders, WriteHolders, Inside
  <2> QED BY <1>2, <2>1, <2>2, <2>3 DEF RWInv, RWTypes, RWQueues, RWCounts, RWPending
<1>4. CASE rDepth[t] = 1
  <2>1. /\ rReaders' = RW!Minus1(rReaders) /\ rReadWaiters' = rReadWaiters /\ RW!Goto(t, "idle")
        /\ \/ rReaders' = 0 /\ rWriteWaiters # <<>> /\ RW!GrantWriter
           \/ /\ ~(rReaders' = 0 /\ rWriteWaiters # <<>>)
              /\ UNCHANGED <<rWriter, rWriteWaiters, rPending>>
    BY <1>4 DEF RW!ReadExit
  <2>2. PICK H : H = ReadHolders
    OBVIOUS
  <2>3. /\ t \in H /\ IsFiniteSet(H) /\ rReaders \in Nat /\ rReaders >= Cardinality(H)
    BY <1>1, <2>2, ReadFinite DEF RWInv, RWTypes, RWCounts
  <2>4. /\ Cardinality(H \ {t}) = Cardinality(H) - 1 /\ IsFiniteSet(H \ {t})
        /\ Cardinality(H) \in Nat /\ Cardinality(H \ {t}) \in Nat
    <3>1. Cardinality(H \ {t}) = Cardinality(H) - 1 /\ IsFiniteSet(H \ {t})
      BY <2>3, FS_RemoveElement
    <3> QED BY <2>3, <3>1, FS_CardinalityType
  <2>5. rReaders' = rReaders - 1 /\ rReaders' \in Nat /\ rReaders' >= Cardinality(H \ {t}) /\ rReaders > 0
    BY <2>1, <2>3, <2>4 DEF RW!Minus1
  <2>6. ~rWriter /\ WriteHolders = {}
    BY <2>5 DEF RWInv, RWCounts, RWTypes
  <2>7. CASE rReaders' = 0 /\ rWriteWaiters # <<>> /\ RW!GrantWriter
    <3>1. ReadHolders \subseteq {t}
      <4>1. Cardinality(H \ {t}) = 0
        BY <2>4, <2>5, <2>7
      <4>2. H \ {t} = {}
        BY <2>4, <4>1, FS_EmptySet
      <4> QED BY <2>2, <4>2
    <3> QED BY <1>1, <1>2, <2>1, <2>6, <2>7, <3>1, GrantWriterInv
  <2>8. CASE /\ ~(rReaders' = 0 /\ rWriteWaiters # <<>>)
             /\ UNCHANGED <<rWriter, rWriteWaiters, rPending>>
    <3>1. /\ rPc' \in [RWReaders \cup RWWriters -> RW!PCs]
          /\ rPc'[t] = "idle" /\ \A x \in RWReaders \ {t} : rPc'[x] = rPc[x]
          /\ \A x \in RWWriters : rPc'[x] = rPc[x]
          /\ WriteHolders' = WriteHolders
      <4>1. "idle" \in RW!PCs
        BY DEF RW!PCs
      <4> QED BY <2>1, <2>8, <4>1, ReaderStep
    <3>2. ReadHolders' = H \ {t}
      BY <2>1, <2>2, <3>1 DEF ReadHolders, Inside
    <3>3. RWTypes'
      BY <1>2, <2>1, <2>5, <2>8, <3>1 DEF RWInv, RWTypes
    <3>4. RWQueues'
      BY <1>1, <2>1, <2>8, <3>1 DEF RWInv, RWQueues
    <3>5. RWCounts'
      <4>1. ~rWriter' /\ WriteHolders' = {} /\ rReaders' >= Cardinality(ReadHolders')
        BY <2>5, <2>6, <2>8, <3>1, <3>2
      <4>2. \A x \in RWReaders : rPc'[x] = "holding" => rDepth'[x] >= 1
        BY <1>2, <3>1 DEF RWInv, RWCounts
      <4> QED BY <4>1, <4>2 DEF RWCounts
    <3>6. RWPending'
      <4>0. rReaders' \in Nat
        BY <2>5
      <4>1. rWriteWaiters # <<>> => rReaders' > 0
        <5>1. rReaders' # 0 => rReaders' > 0
          BY <4>0
        <5> QED BY <2>8, <5>1
      <4> QED BY <2>1, <2>8, <4>1 DEF RWInv, RWPending
    <3> QED BY <3>3, <3>4, <3>5, <3>6 DEF RWInv
  <2> QED BY <2>1, <2>7, <2>8
<1> QED BY <1>1, <1>3, <1>4

\* writer() enters a free lock, or tries again, or queues.
LEMMA WriteEnterInv == ASSUME RWInv, NEW t \in RWWriters, RW!WriteEnter(t) PROVE RWInv'
<1>1. /\ rPc[t] \in {"idle", "register"} /\ t \notin WriteHolders /\ ~InQueue(t, rWriteWaiters)
      /\ UNCHANGED <<rReaders, rReadWaiters, rDepth>>
  BY DEF RW!WriteEnter, WriteHolders, Inside, RWInv, RWQueues
<1>2. CASE RW!WriteFree
  <2>1. /\ RW!Goto(t, "holding") /\ rWriter' = TRUE /\ ~rWriter /\ rReaders = 0
        /\ UNCHANGED <<rPending, rWriteWaiters>> /\ "holding" \in RW!PCs
    BY <1>2 DEF RW!WriteEnter, RW!WriteFree, RW!PCs
  <2>2. /\ rPc' \in [RWReaders \cup RWWriters -> RW!PCs]
        /\ rPc'[t] = "holding" /\ \A x \in RWWriters \ {t} : rPc'[x] = rPc[x]
        /\ \A x \in RWReaders : rPc'[x] = rPc[x]
        /\ ReadHolders' = ReadHolders
    BY <1>1, <2>1, WriterStep
  <2>3. WriteHolders = {}
    BY <2>1 DEF RWInv, RWCounts
  <2>4. WriteHolders' = {t}
    <3>1. \A x \in RWWriters \ {t} : ~Inside(x, rWriteWaiters)
      BY <2>3 DEF WriteHolders
    <3>2. \A x \in RWWriters \ {t} : x \notin WriteHolders'
      BY <2>1, <2>2, <3>1 DEF WriteHolders, Inside
    <3>3. t \in WriteHolders' /\ WriteHolders' \subseteq RWWriters
      BY <2>2 DEF WriteHolders, Inside
    <3> QED BY <3>2, <3>3
  <2>5. RWTypes' /\ RWQueues'
    BY <1>1, <2>1, <2>2 DEF RWInv, RWTypes, RWQueues
  <2>6. RWCounts' /\ RWPending'
    BY <1>1, <2>1, <2>2, <2>4 DEF RWInv, RWCounts, RWPending
  <2> QED BY <2>5, <2>6 DEF RWInv
<1>3. CASE ~RW!WriteFree /\ rPc[t] = "idle"
  <2>1. /\ RW!Goto(t, "register") /\ "register" \in RW!PCs
        /\ UNCHANGED <<rWriter, rPending, rWriteWaiters>>
    BY <1>3 DEF RW!WriteEnter, RW!PCs
  <2>2. /\ rPc' \in [RWReaders \cup RWWriters -> RW!PCs]
        /\ rPc'[t] = "register" /\ \A x \in RWWriters \ {t} : rPc'[x] = rPc[x]
        /\ \A x \in RWReaders : rPc'[x] = rPc[x]
        /\ ReadHolders' = ReadHolders
    BY <1>1, <2>1, WriterStep
  <2>3. WriteHolders' = WriteHolders
    BY <1>1, <2>1, <2>2 DEF WriteHolders, Inside
  <2>4. RWTypes' /\ RWQueues'
    BY <1>1, <2>1, <2>2 DEF RWInv, RWTypes, RWQueues
  <2>5. RWCounts' /\ RWPending'
    BY <1>1, <2>1, <2>2, <2>3 DEF RWInv, RWCounts, RWPending
  <2> QED BY <2>4, <2>5 DEF RWInv
<1>4. CASE ~RW!WriteFree /\ rPc[t] = "register"
  <2>1. /\ RW!Goto(t, "waiting") /\ "waiting" \in RW!PCs /\ rWriter' = rWriter
        /\ rWriteWaiters' = Append(rWriteWaiters, t) /\ rPending' = rPending + 1
    BY <1>4 DEF RW!WriteEnter, RW!PCs
  <2>2. /\ rPc' \in [RWReaders \cup RWWriters -> RW!PCs]
        /\ rPc'[t] = "waiting" /\ \A x \in RWWriters \ {t} : rPc'[x] = rPc[x]
        /\ \A x \in RWReaders : rPc'[x] = rPc[x]
        /\ ReadHolders' = ReadHolders
    BY <1>1, <2>1, WriterStep
  <2>3. rWriteWaiters \in Seq(RWWriters) /\ NoRepeat(rWriteWaiters) /\ rPending = Len(rWriteWaiters)
    BY DEF RWInv, RWTypes, RWQueues, RWPending
  <2>4. /\ rWriteWaiters' \in Seq(RWWriters) /\ NoRepeat(rWriteWaiters')
        /\ \A x : InQueue(x, rWriteWaiters') <=> InQueue(x, rWriteWaiters) \/ x = t
    BY <1>1, <2>1, <2>3, AppendQueue
  <2>5. rPending' = Len(rWriteWaiters') /\ rPending' \in Nat /\ rPending' > 0
    BY <2>1, <2>3, LenProperties
  <2>6. WriteHolders' = WriteHolders
    BY <1>1, <2>2, <2>4 DEF WriteHolders, Inside
  <2>7. rWriter \/ rReaders > 0
    <3>1. rPending # 0 => rWriteWaiters # <<>>
      BY <2>3, EmptySeq
    <3>2. rReaders # 0 => rReaders > 0
      BY DEF RWInv, RWTypes
    <3> QED BY <1>4, <3>1, <3>2 DEF RW!WriteFree, RWInv, RWPending
  <2>8. RWTypes' /\ RWQueues'
    BY <1>1, <2>1, <2>2, <2>4, <2>5 DEF RWInv, RWTypes, RWQueues
  <2>9. RWCounts' /\ RWPending'
    BY <1>1, <2>1, <2>2, <2>5, <2>6, <2>7 DEF RWInv, RWCounts, RWPending
  <2> QED BY <2>8, <2>9 DEF RWInv
<1> QED BY <1>1, <1>2, <1>3, <1>4

\* A popped writer runs, or a waiting task is cancelled.
LEMMA WriteResumeInv == ASSUME RWInv, NEW t \in RWWriters, RW!WriteResume(t) PROVE RWInv'
<1>1. /\ UNCHANGED <<rReaders, rWriter, rPending, rReadWaiters, rWriteWaiters, rDepth>>
      /\ RW!Goto(t, "holding") /\ "holding" \in RW!PCs
      /\ t \in WriteHolders /\ ~InQueue(t, rWriteWaiters)
  BY RWOperators DEF RW!WriteResume, RW!raw, RW!PCs, WriteHolders, Inside
<1>2. /\ rPc' \in [RWReaders \cup RWWriters -> RW!PCs]
      /\ rPc'[t] = "holding" /\ \A x \in RWWriters \ {t} : rPc'[x] = rPc[x]
      /\ \A x \in RWReaders : rPc'[x] = rPc[x]
      /\ ReadHolders' = ReadHolders
  BY <1>1, WriterStep
<1>3. WriteHolders' = WriteHolders
  BY <1>1, <1>2 DEF WriteHolders, Inside
<1>4. RWTypes' /\ RWQueues'
  BY <1>1, <1>2 DEF RWInv, RWTypes, RWQueues
<1>5. RWCounts' /\ RWPending'
  BY <1>1, <1>2, <1>3 DEF RWInv, RWCounts, RWPending
<1> QED BY <1>4, <1>5 DEF RWInv

\* Task.cancel() on a task that waits changes neither queues nor holders.
LEMMA RWCancelInv == ASSUME RWInv, NEW t \in RWReaders \cup RWWriters, RW!Cancel(t) PROVE RWInv'
<1>1. /\ UNCHANGED <<rReaders, rWriter, rPending, rReadWaiters, rWriteWaiters, rDepth>>
      /\ rPc[t] = "waiting" /\ rPc' = [rPc EXCEPT ![t] = "unwind"]
      /\ rPc \in [RWReaders \cup RWWriters -> RW!PCs]
  BY DEF RW!Cancel, RW!raw, RW!Goto, RWInv, RWTypes
<1>2. ReadHolders' = ReadHolders /\ WriteHolders' = WriteHolders
  BY <1>1 DEF ReadHolders, WriteHolders, Inside
<1>3. rPc' \in [RWReaders \cup RWWriters -> RW!PCs]
  BY <1>1 DEF RW!PCs
<1>4. RWTypes' /\ RWQueues'
  BY <1>1, <1>3 DEF RWInv, RWTypes, RWQueues
<1>5. RWCounts' /\ RWPending'
  BY <1>1, <1>2 DEF RWInv, RWCounts, RWPending
<1> QED BY <1>4, <1>5 DEF RWInv

\* All queued readers are let in: as many as are queued.
LEMMA GrantReadersCount ==
    ASSUME RWInv, RW!GrantReaders, \A x \in RWReaders : rPc'[x] = rPc[x]
    PROVE  /\ rReaders' \in Nat /\ rReaders' >= Cardinality(ReadHolders')
           /\ rReadWaiters' = <<>> /\ rReadWaiters' \in Seq(RWReaders) /\ NoRepeat(rReadWaiters')
           /\ \A x : ~InQueue(x, rReadWaiters')
<1>1. PICK q : q = rReadWaiters
  OBVIOUS
<1>2. PICK H : H = ReadHolders
  OBVIOUS
<1>3. /\ q \in Seq(RWReaders) /\ NoRepeat(q) /\ rReaders \in Nat /\ rReaders >= Cardinality(H)
      /\ IsFiniteSet(H) /\ Cardinality(H) \in Nat
      /\ rReaders' = rReaders + Len(q) /\ rReadWaiters' = <<>>
  BY <1>1, <1>2, ReadFinite DEF RWInv, RWTypes, RWQueues, RWCounts, RW!GrantReaders
<1>4. Len(q) \in Nat /\ DOMAIN q = 1..Len(q) /\ \A i \in 1..Len(q) : q[i] \in RWReaders
  BY <1>3, LenProperties, ElementOfSeq
<1>5. PICK F : F = Front(q, Len(q))
  OBVIOUS
<1>6. IsFiniteSet(F) /\ Cardinality(F) = Len(q)
  <2>1. PICK k : k = Len(q)
    OBVIOUS
  <2>2. q \in Seq(RWReaders) /\ NoRepeat(q) /\ k \in Nat /\ k <= Len(q)
    BY <1>3, <1>4, <2>1
  <2>3. IsFiniteSet(Front(q, k)) /\ Cardinality(Front(q, k)) = k
    BY <2>2, CountPrefix
  <2> QED BY <1>5, <2>1, <2>3
<1>7. \A x : InQueue(x, q) <=> x \in F
  BY <1>4, <1>5 DEF InQueue, Front
<1>8. H \cap F = {}
  BY <1>1, <1>2, <1>7 DEF ReadHolders, Inside, RWInv, RWQueues
<1>9. /\ rReadWaiters' \in Seq(RWReaders) /\ NoRepeat(rReadWaiters')
      /\ \A x : ~InQueue(x, rReadWaiters')
  <2>1. rReadWaiters' \in Seq(RWReaders) /\ DOMAIN rReadWaiters' = {}
    BY <1>3, EmptySeq
  <2> QED BY <2>1 DEF NoRepeat, InQueue
<1>10. ReadHolders' \subseteq H \cup F
  BY <1>1, <1>2, <1>7 DEF ReadHolders, Inside
<1>11. PICK B : B = H \cup F
  OBVIOUS
<1>12. IsFiniteSet(B) /\ Cardinality(B) = Cardinality(H) + Cardinality(F)
  BY <1>3, <1>6, <1>8, <1>11, CountUnion
<1>13. rReaders' \in Nat /\ rReaders' >= Cardinality(B)
  BY <1>3, <1>4, <1>6, <1>12
<1>14. rReaders' >= Cardinality(ReadHolders')
  BY <1>10, <1>11, <1>12, <1>13, FewerReaders
<1> QED BY <1>3, <1>9, <1>13, <1>14

\* A cancelled writer leaves the queue, and the last one to do so lets the
\* queued readers in; or it drops a grant, and the flag stays up.
LEMMA WriteUnwindInv == ASSUME RWInv, NEW t \in RWWriters, RW!WriteUnwind(t) PROVE RWInv'
<1>1. PICK q : q = rWriteWaiters
  OBVIOUS
<1>2. /\ rPc[t] = "unwind" /\ RW!Goto(t, "idle") /\ "idle" \in RW!PCs
      /\ rWriteWaiters' = Discard(q, t) /\ UNCHANGED <<rWriter, rDepth>>
      /\ rPending' = IF InQueue(t, q) THEN RW!Minus1(rPending) ELSE rPending
      /\ IF rPending' = 0 /\ ~rWriter THEN RW!GrantReaders ELSE UNCHANGED <<rReaders, rReadWaiters>>
  BY <1>1, RWOperators DEF RW!WriteUnwind, RW!PCs
<1>3. /\ rPc' \in [RWReaders \cup RWWriters -> RW!PCs]
      /\ rPc'[t] = "idle" /\ \A x \in RWWriters \ {t} : rPc'[x] = rPc[x]
      /\ \A x \in RWReaders : rPc'[x] = rPc[x]
      /\ rReadWaiters' = rReadWaiters => ReadHolders' = ReadHolders
  BY <1>2, WriterStep
<1>4. q \in Seq(RWWriters) /\ NoRepeat(q) /\ rPending = Len(q) /\ Len(q) \in Nat
  BY <1>1, LenProperties DEF RWInv, RWTypes, RWQueues, RWPending
<1>5. /\ rWriteWaiters' \in Seq(RWWriters) /\ NoRepeat(rWriteWaiters')
      /\ \A x : InQueue(x, rWriteWaiters') <=> InQueue(x, q) /\ x # t
      /\ rPending' = Len(rWriteWaiters') /\ rPending' \in Nat
  <2>1. CASE InQueue(t, q)
    <3>1. /\ rWriteWaiters' \in Seq(RWWriters) /\ NoRepeat(rWriteWaiters')
          /\ \A x : InQueue(x, rWriteWaiters') <=> InQueue(x, q) /\ x # t
      BY <1>2, <1>4, <2>1, DiscardQueue
    <3>2. Len(q) # 0
      BY <1>4, <2>1, LenProperties DEF InQueue
    <3>3. Len(Discard(q, t)) = Len(q) - 1
      <4>1. Discard(q, t) = [i \in 1..(Len(q) - 1) |->
                IF i < (CHOOSE k \in DOMAIN q : q[k] = t) THEN q[i] ELSE q[i + 1]]
        BY <2>1 DEF Discard
      <4>2. DOMAIN Discard(q, t) = 1..(Len(q) - 1) /\ Len(q) - 1 \in Nat
        BY <1>4, <3>2, <4>1
      <4>3. Discard(q, t) \in Seq(RWWriters)
        BY <1>2, <3>1
      <4> QED BY <4>2, <4>3, LenProperties
    <3> QED BY <1>2, <1>4, <2>1, <3>1, <3>2, <3>3 DEF RW!Minus1
  <2>2. CASE ~InQueue(t, q)
    <3>1. Discard(q, t) = q
      BY <2>2 DEF Discard
    <3> QED BY <1>2, <1>4, <2>2, <3>1
  <2> QED BY <2>1, <2>2
<1>6. WriteHolders' \subseteq WriteHolders
  BY <1>1, <1>3, <1>5 DEF WriteHolders, Inside
<1>7. ~InQueue(t, q) => rWriter
  BY <1>1, <1>2 DEF WriteHolders, Inside, RWInv, RWCounts
<1>8. \A x \in RWWriters : InQueue(x, rWriteWaiters') => rPc'[x] \in {"waiting", "unwind"}
  BY <1>1, <1>3, <1>5 DEF RWInv, RWQueues
<1>9. \A x \in RWReaders : rPc'[x] = "holding" => rDepth'[x] >= 1
  BY <1>2, <1>3 DEF RWInv, RWCounts
<1>10. CASE rPending' = 0 /\ ~rWriter
  <2>1. /\ rReaders' \in Nat /\ rReaders' >= Cardinality(ReadHolders')
        /\ rReadWaiters' = <<>> /\ rReadWaiters' \in Seq(RWReaders) /\ NoRepeat(rReadWaiters')
        /\ \A x : ~InQueue(x, rReadWaiters')
    BY <1>2, <1>3, <1>10, GrantReadersCount
  <2>2. rWriteWaiters' = <<>>
    BY <1>5, <1>10, EmptySeq
  <2>3. WriteHolders' = {} /\ ~rWriter'
    BY <1>2, <1>6, <1>10 DEF RWInv, RWCounts
  <2>4. RWTypes' /\ RWQueues'
    BY <1>2, <1>3, <1>5, <1>8, <2>1 DEF RWInv, RWTypes, RWQueues
  <2>5. RWCounts' /\ RWPending'
    BY <1>5, <1>9, <2>1, <2>2, <2>3 DEF RWCounts, RWPending
  <2> QED BY <2>4, <2>5 DEF RWInv
<1>11. CASE ~(rPending' = 0 /\ ~rWriter)
  <2>1. UNCHANGED <<rReaders, rReadWaiters>> /\ ReadHolders' = ReadHolders
    BY <1>2, <1>3, <1>11
  <2>2. rWriter \/ rPending' > 0
    BY <1>5, <1>11 DEF RWInv, RWTypes
  <2>3. rWriteWaiters' # <<>> => q # <<>>
    <3>1. q = <<>> => \A x \in RWWriters : ~InQueue(x, q)
      BY <1>4, EmptyQueue
    <3>2. (\A x \in RWWriters : ~InQueue(x, rWriteWaiters')) => rWriteWaiters' = <<>>
      BY <1>5, EmptyQueue
    <3> QED BY <1>5, <3>1, <3>2
  <2>4. RWTypes' /\ RWQueues'
    BY <1>2, <1>3, <1>5, <1>8, <2>1 DEF RWInv, RWTypes, RWQueues
  <2>5. RWCounts'
    BY <1>2, <1>6, <1>9, <2>1 DEF RWInv, RWCounts
  <2>6. RWPending'
    BY <1>1, <1>2, <1>5, <2>1, <2>2, <2>3 DEF RWInv, RWPending
  <2> QED BY <2>4, <2>5, <2>6 DEF RWInv
<1> QED BY <1>10, <1>11

\* release_write: the next queued writer, or else all queued readers.
LEMMA WriteExitInv == ASSUME RWInv, NEW t \in RWWriters, RW!WriteExit(t) PROVE RWInv'
<1>1. /\ rPc[t] = "holding" /\ RW!Goto(t, "idle") /\ "idle" \in RW!PCs /\ rDepth' = rDepth
      /\ t \in WriteHolders
  BY DEF RW!WriteExit, RW!PCs, WriteHolders, Inside
<1>2. rWriter /\ rReaders = 0 /\ WriteHolders = {t} /\ ReadHolders = {}
  <2>1. rWriter /\ rReaders = 0 /\ WriteHolders = {t}
    BY <1>1 DEF RWInv, RWCounts
  <2>2. Cardinality(ReadHolders) = 0
    BY <2>1, ReadFinite DEF RWInv, RWCounts
  <2> QED BY <2>1, <2>2, ReadFinite, FS_EmptySet
<1>3. CASE rWriteWaiters # <<>>
  <2>1. RW!GrantWriter /\ UNCHANGED <<rReaders, rReadWaiters>>
    BY <1>3 DEF RW!WriteExit
  <2>2. rDepth' \in [RWReaders -> 0..RWDepth] /\ \A x \in RWReaders \ {t} : rDepth'[x] = rDepth[x]
    BY <1>1 DEF RWInv, RWTypes
  <2>3. t \in RWReaders \cup RWWriters /\ rReaders' = 0
    BY <1>2, <2>1
  <2> QED BY <1>1, <1>2, <1>3, <2>1, <2>2, <2>3, GrantWriterInv
<1>4. CASE rWriteWaiters = <<>>
  <2>1. rWriter' = FALSE /\ RW!GrantReaders /\ UNCHANGED <<rPending, rWriteWaiters>>
    BY <1>4 DEF RW!WriteExit
  <2>2. /\ rPc' \in [RWReaders \cup RWWriters -> RW!PCs]
        /\ rPc'[t] = "idle" /\ \A x \in RWWriters \ {t} : rPc'[x] = rPc[x]
        /\ \A x \in RWReaders : rPc'[x] = rPc[x]
    BY <1>1, WriterStep
  <2>3. /\ rReaders' \in Nat /\ rReaders' >= Cardinality(ReadHolders')
        /\ rReadWaiters' = <<>> /\ rReadWaiters' \in Seq(RWReaders) /\ NoRepeat(rReadWaiters')
        /\ \A x : ~InQueue(x, rReadWaiters')
    BY <2>1, <2>2, GrantReadersCount
  <2>4. WriteHolders' = {}
    <3>1. \A x \in RWWriters \ {t} : ~Inside(x, rWriteWaiters)
      BY <1>2 DEF WriteHolders
    <3>2. \A x \in RWWriters : x \notin WriteHolders'
      BY <2>1, <2>2, <3>1 DEF WriteHolders, Inside
    <3> QED BY <3>2 DEF WriteHolders
  <2>5. ~InQueue(t, rWriteWaiters)
    BY <1>1 DEF RWInv, RWQueues
  <2>6. RWTypes' /\ RWQueues'
    BY <1>1, <2>1, <2>2, <2>3, <2>5 DEF RWInv, RWTypes, RWQueues
  <2>7. RWCounts' /\ RWPending'
    BY <1>1, <1>4, <2>1, <2>2, <2>3, <2>4 DEF RWInv, RWCounts, RWPending
  <2> QED BY <2>6, <2>7 DEF RWInv
<1> QED BY <1>3, <1>4

\* Every step of reader(), writer() and a cancellation preserves it.
LEMMA RWNext == RWInv /\ [RW!Next]_rwmutex => RWInv'
<1> SUFFICES ASSUME RWInv, [RW!Next]_rwmutex PROVE RWInv'
  OBVIOUS
<1>1. CASE UNCHANGED rwmutex
  <2>1. ReadHolders' = ReadHolders /\ WriteHolders' = WriteHolders
    BY <1>1 DEF rwmutex, ReadHolders, WriteHolders, Inside
  <2> QED BY <1>1, <2>1 DEF rwmutex, RWInv, RWTypes, RWQueues, RWCounts, RWPending
<1>2. CASE RW!Next
  BY <1>2, ReadEnterInv, ReadResumeInv, ReadUnwindInv, ReadExitInv, WriteEnterInv,
     WriteResumeInv, WriteUnwindInv, WriteExitInv, RWCancelInv DEF RW!Next, RW!Users
<1> QED BY <1>1, <1>2

\* AsyncRWMutex (rwlock.py, rwlock.rs): writers are alone, grants in transit
\* included, whoever is cancelled; nobody queues for a lock that is free for
\* them; and the pending count is the number of writers really queued.
THEOREM GrantsTheorem == SSpec => []GrantsSound
<1>1. SInit => RWInv
  BY RWInit DEF SInit
<1>2. SNext \/ UNCHANGED svars => [RW!Next]_rwmutex
  BY DEF SNext, svars, OthersStill, LockRuns, ConditionRuns, SemaphoreRuns, LimiterRuns,
         BarrierRuns, RWMutexRuns, WaitGroupRuns, OnceRuns, EventRuns
<1>3. RWInv => GrantsSound
  <2> SUFFICES ASSUME RWInv PROVE GrantsSound
    OBVIOUS
  <2>1. /\ RW!Reading \cup RW!GrantedReaders = ReadHolders
        /\ RW!Writing \cup RW!GrantedWriters = WriteHolders
    BY RWOperators DEF RW!Reading, RW!GrantedReaders, RW!Writing, RW!GrantedWriters,
                       ReadHolders, WriteHolders, Inside
  <2>2. Cardinality(WriteHolders) <= 1
    <3>1. CASE WriteHolders = {}
      BY <3>1, FS_EmptySet
    <3>2. CASE WriteHolders # {}
      <4>1. PICK x : x \in WriteHolders
        BY <3>2
      <4>2. WriteHolders = {x}
        BY <4>1 DEF RWInv, RWCounts
      <4>3. Cardinality({x}) = 1
        BY FS_Singleton
      <4> QED BY <4>2, <4>3
    <3> QED BY <3>1, <3>2
  <2>3. WriteHolders # {} => ReadHolders = {}
    <3>1. WriteHolders # {} => 0 >= Cardinality(ReadHolders)
      BY DEF RWInv, RWCounts
    <3>2. IsFiniteSet(ReadHolders) /\ Cardinality(ReadHolders) \in Nat
      BY ReadFinite
    <3>3. Cardinality(ReadHolders) = 0 <=> ReadHolders = {}
      BY <3>2, FS_EmptySet
    <3> QED BY <3>1, <3>2, <3>3
  <2> QED BY <2>1, <2>2, <2>3, RWOperators
          DEF GrantsSound, RW!Exclusion, RW!NoLostGrant, RWInv, RWPending
<1> QED BY <1>1, <1>2, <1>3, RWNext, PTL DEF SSpec

-----------------------------------------------------------------------------
(* Barrier *)

\* The operators of FiniteSets, and who waits, in the words of Queues.
LEMMA BarOperators ==
    /\ \A S : Bar!Cardinality(S) = Cardinality(S)
    /\ \A t : Bar!InQueue(t) = InQueue(t, bWaiters)
    /\ BarrierParties \in Nat \ {0} /\ BarrierControl \in Nat
<1>1. \A S : Bar!Cardinality(S) = Cardinality(S)
  BY DEF Bar!Cardinality, Cardinality
<1>2. \A t : Bar!InQueue(t) = InQueue(t, bWaiters)
  BY DEF Bar!InQueue, InQueue
<1>3. BarrierParties \in Nat \ {0} /\ BarrierControl \in Nat
  BY InstanceAssumptions DEF Bar!BarrierParams
<1> QED BY <1>1, <1>2, <1>3

BarTypes ==
    /\ bGeneration \in Nat /\ bAborted \in BOOLEAN /\ bBroken \in BOOLEAN
    /\ bWaiters \in Seq(Peers) /\ bPc \in [Peers -> Bar!PCs]
    /\ bBox \in [Peers -> -2..(BarrierParties - 1)] /\ bGen \in [Peers -> Nat]
    /\ bControl \in 0..BarrierControl

\* Those who wait are of the current generation and have no answer yet, and
\* they are too few to complete the round.
BarQueue ==
    /\ NoRepeat(bWaiters) /\ Len(bWaiters) < BarrierParties
    /\ \A t \in Peers : InQueue(t, bWaiters) =>
          bPc[t] \in {"waiting", "unwind"} /\ bBox[t] = -2 /\ bGen[t] = bGeneration

\* Generation g was completed by BarrierParties tasks with distinct indices.
RoundFull(g) ==
    /\ Cardinality(Bar!Members(g)) = BarrierParties
    /\ {bBox[u] : u \in Bar!Members(g)} = 0..(BarrierParties - 1)

\* An answer belongs to a generation that is over: it was completed, for all of
\* its parties, or broken, for all of them.
BarRounds ==
    /\ \A t \in Peers : bPc[t] = "start" => bBox[t] = -2
    /\ \A t \in Peers : bBox[t] # -2 => bGen[t] < bGeneration
    /\ \A g \in Nat : Bar!Members(g) # {} => RoundFull(g)
    /\ \A t \in Peers : bBox[t] >= 0 => bPc[t] \notin Bar!Failed
    /\ \A t, u \in Peers : bBox[u] = -1 /\ bBox[t] >= 0 => bGen[u] # bGen[t]
    /\ \A t \in Peers : bPc[t] = "ok" => bBox[t] >= 0

BarInv == BarTypes /\ BarQueue /\ BarRounds

\* A new barrier is in its first generation, with nobody waiting.
LEMMA BarInit == Bar!Init => BarInv
<1> SUFFICES ASSUME Bar!Init PROVE BarInv
  OBVIOUS
<1> USE DEF Bar!Init, Bar!Unset
<1>1. /\ bWaiters = <<>> /\ bWaiters \in Seq(Peers) /\ DOMAIN bWaiters = {} /\ Len(bWaiters) = 0
  BY EmptySeq
<1>2. -2 \in -2..(BarrierParties - 1) /\ 0 \in 0..BarrierControl /\ 0 < BarrierParties
  BY BarOperators
<1>3. BarTypes
  BY <1>1, <1>2 DEF BarTypes, Bar!PCs
<1>4. BarQueue
  BY <1>1, <1>2 DEF BarQueue, NoRepeat, InQueue
<1>5. BarRounds
  BY DEF BarRounds, Bar!Members
<1> QED BY <1>3, <1>4, <1>5 DEF BarInv

\* Membership in a completed round.
LEMMA RoundMembers ==
    /\ \A g : Bar!Members(g) \subseteq Peers
    /\ \A g : \A u \in Peers : u \in Bar!Members(g) <=> bGen[u] = g /\ bBox[u] >= 0
BY DEF Bar!Members

\* The same of the next state.
LEMMA RoundMembersNext ==
    ASSUME NEW g
    PROVE  /\ Bar!Members(g)' \subseteq Peers
           /\ \A u \in Peers : u \in Bar!Members(g)' <=> bGen'[u] = g /\ bBox'[u] >= 0
BY DEF Bar!Members

\* A generation whose members keep their indices, and that nobody joins late,
\* stays complete.
LEMMA RoundKept ==
    ASSUME NEW g, RoundFull(g),
           \A u \in Peers : bGen[u] = g /\ bBox[u] >= 0 => bGen'[u] = g /\ bBox'[u] = bBox[u],
           \A u \in Peers : bGen'[u] = g /\ bBox'[u] >= 0 => bGen[u] = g /\ bBox[u] >= 0
    PROVE  RoundFull(g)'
<1>1. Bar!Members(g)' = Bar!Members(g)
  BY RoundMembers, RoundMembersNext
<1>2. \A u \in Bar!Members(g) : bBox'[u] = bBox[u]
  BY RoundMembers
<1>3. {bBox'[u] : u \in Bar!Members(g)'} = {bBox[u] : u \in Bar!Members(g)}
  BY <1>1, <1>2
<1> QED BY <1>1, <1>3 DEF RoundFull

\* The last clause of every step that completes no round: nobody gets an index,
\* and whoever has one keeps it.
LEMMA NoNewIndex ==
    ASSUME BarInv,
           \A u \in Peers : bBox[u] >= 0 => bGen'[u] = bGen[u] /\ bBox'[u] = bBox[u],
           \A u \in Peers : bBox'[u] >= 0 => bBox[u] >= 0
    PROVE  (\A g \in Nat : Bar!Members(g) # {} => RoundFull(g))'
<1> SUFFICES ASSUME NEW g \in Nat, Bar!Members(g)' # {} PROVE RoundFull(g)'
  OBVIOUS
<1>1. PICK t \in Peers : bGen'[t] = g /\ bBox'[t] >= 0
  BY RoundMembersNext
<1>2. bGen[t] = g /\ bBox[t] >= 0
  BY <1>1
<1>3. RoundFull(g)
  BY <1>2, RoundMembers DEF BarInv, BarRounds
<1> QED BY <1>3, RoundKept

\* A step that answers nobody with an index, and ends nobody's wait with it.
LEMMA QuietStep ==
    ASSUME BarInv, BarTypes', BarQueue', bGeneration' >= bGeneration,
           \A u \in Peers : bBox[u] >= 0 => bGen'[u] = bGen[u] /\ bBox'[u] = bBox[u],
           \A u \in Peers : bBox'[u] >= 0 => bBox[u] >= 0,
           \A u \in Peers : bBox'[u] # bBox[u] \/ bGen'[u] # bGen[u] =>
               \/ bBox'[u] = -2
               \/ /\ bBox'[u] = -1 /\ bPc'[u] # "start"
                  /\ bGen'[u] = bGeneration /\ bGeneration < bGeneration',
           \A u \in Peers : bPc'[u] = "start" => bPc[u] = "start",
           \A u \in Peers : bPc'[u] = "ok" => bPc[u] = "ok" \/ bBox'[u] >= 0,
           \A u \in Peers : bPc'[u] \in Bar!Failed /\ bBox[u] >= 0 => bPc[u] \in Bar!Failed
    PROVE  BarInv'
<1>0. /\ bGeneration \in Nat /\ bGeneration' \in Nat
      /\ \A u \in Peers : bBox[u] \in Int /\ bBox'[u] \in Int /\ bGen[u] \in Nat /\ bGen'[u] \in Nat
  BY BarOperators DEF BarInv, BarTypes
<1>1. \A t \in Peers : bPc'[t] = "start" => bBox'[t] = -2
  BY <1>0 DEF BarInv, BarRounds
<1>2. \A t \in Peers : bBox'[t] # -2 => bGen'[t] < bGeneration'
  BY <1>0 DEF BarInv, BarRounds
<1>3. (\A g \in Nat : Bar!Members(g) # {} => RoundFull(g))'
  BY NoNewIndex
<1>4. \A t \in Peers : bBox'[t] >= 0 => bPc'[t] \notin Bar!Failed
  BY DEF BarInv, BarRounds
<1>5. \A t, u \in Peers : bBox'[u] = -1 /\ bBox'[t] >= 0 => bGen'[u] # bGen'[t]
  <2> SUFFICES ASSUME NEW t \in Peers, NEW u \in Peers, bBox'[u] = -1, bBox'[t] >= 0
               PROVE  bGen'[u] # bGen'[t]
    OBVIOUS
  <2>1. bBox[t] >= 0 /\ bGen'[t] = bGen[t] /\ bGen[t] < bGeneration
    BY <1>0 DEF BarInv, BarRounds
  <2>2. CASE bBox[u] = -1 /\ bGen'[u] = bGen[u]
    BY <2>1, <2>2 DEF BarInv, BarRounds
  <2>3. CASE ~(bBox[u] = -1 /\ bGen'[u] = bGen[u])
    BY <1>0, <2>1, <2>3
  <2> QED BY <2>2, <2>3
<1>6. \A t \in Peers : bPc'[t] = "ok" => bBox'[t] >= 0
  BY DEF BarInv, BarRounds
<1> QED BY <1>1, <1>2, <1>3, <1>4, <1>5, <1>6 DEF BarInv, BarRounds

\* The queue is emptied.
LEMMA EmptiedBarrier ==
    ASSUME bWaiters' = <<>>
    PROVE  BarQueue' /\ bWaiters' \in Seq(Peers)
<1>1. bWaiters' \in Seq(Peers) /\ DOMAIN bWaiters' = {} /\ Len(bWaiters') = 0
  BY EmptySeq
<1>2. 0 < BarrierParties
  BY BarOperators
<1> QED BY <1>1, <1>2 DEF BarQueue, NoRepeat, InQueue

\* abort and reset empty the queue, and answer nobody.
LEMMA ControlInv == ASSUME BarInv, Bar!Abort \/ Bar!Reset PROVE BarInv'
<1>1. /\ UNCHANGED <<bPc, bBox, bGen>> /\ bWaiters' = <<>>
      /\ bControl < BarrierControl /\ bControl' = bControl + 1
      /\ bAborted' \in BOOLEAN /\ bBroken' \in BOOLEAN
      /\ bGeneration' = bGeneration \/ bGeneration' = bGeneration + 1
  BY DEF Bar!Abort, Bar!Reset
<1>2. BarQueue' /\ bWaiters' \in Seq(Peers)
  BY <1>1, EmptiedBarrier
<1>3. bGeneration' >= bGeneration /\ bGeneration' \in Nat /\ bControl' \in 0..BarrierControl
  BY <1>1, BarOperators DEF BarInv, BarTypes
<1>4. BarTypes'
  BY <1>1, <1>2, <1>3 DEF BarInv, BarTypes
<1> QED BY <1>1, <1>2, <1>3, <1>4, QuietStep DEF BarInv, BarRounds

\* A woken party decides its outcome, or a waiting one is cancelled.
LEMMA BarResumeInv == ASSUME BarInv, NEW t \in Peers, Bar!Resume(t) \/ Bar!Cancel(t) PROVE BarInv'
<1>1. /\ UNCHANGED <<bGeneration, bAborted, bBroken, bWaiters, bBox, bGen, bControl>>
      /\ bPc[t] = "waiting" /\ bPc \in [Peers -> Bar!PCs] /\ bBox[t] \in -2..(BarrierParties - 1)
      /\ bGeneration \in Nat
  BY DEF Bar!Resume, Bar!Cancel, BarInv, BarTypes
<1>2. PICK where \in {"unwind", "aborted", "broken", "reset", "ok"} :
        /\ bPc' = [bPc EXCEPT ![t] = where]
        /\ where = "unwind" \/ ~InQueue(t, bWaiters)
        /\ where = "ok" => bBox[t] >= 0
        /\ where \in Bar!Failed => ~(bBox[t] >= 0)
  <2>1. CASE Bar!Cancel(t)
    BY <2>1 DEF Bar!Cancel, Bar!Goto, Bar!Failed
  <2>2. CASE Bar!Resume(t)
    <3>1. ~InQueue(t, bWaiters)
      BY <2>2, BarOperators DEF Bar!Resume
    <3>2. bBox[t] >= 0 => ~Bar!Thrown(t)
      <4>1. bBox[t] >= 0 => bGen[t] < bGeneration
        BY <1>1, BarOperators DEF BarInv, BarRounds
      <4>2. bGen[t] < bGeneration => bGen[t] # bGeneration
        BY <1>1 DEF BarInv, BarTypes
      <4> QED BY <4>1, <4>2 DEF Bar!Thrown
    <3>3. CASE Bar!Thrown(t)
      <4>1. bPc' = [bPc EXCEPT ![t] = "aborted"]
        BY <2>2, <3>3 DEF Bar!Resume, Bar!Goto
      <4> QED BY <3>1, <3>2, <3>3, <4>1
    <3>4. CASE ~Bar!Thrown(t) /\ bBox[t] = -1
      <4>1. bPc' = [bPc EXCEPT ![t] = "broken"]
        BY <2>2, <3>4 DEF Bar!Resume, Bar!Goto, Bar!Unset
      <4> QED BY <3>1, <3>4, <4>1
    <3>5. CASE ~Bar!Thrown(t) /\ bBox[t] = -2
      <4>1. bPc' = [bPc EXCEPT ![t] = "reset"]
        BY <2>2, <3>5 DEF Bar!Resume, Bar!Goto, Bar!Unset
      <4> QED BY <3>1, <3>5, <4>1
    <3>6. CASE ~Bar!Thrown(t) /\ bBox[t] >= 0
      <4>0. bBox[t] # -1 /\ bBox[t] # -2
        BY <3>6
      <4>1. bPc' = [bPc EXCEPT ![t] = "ok"]
        BY <2>2, <3>6, <4>0 DEF Bar!Resume, Bar!Goto, Bar!Unset
      <4> QED BY <3>1, <3>6, <4>1 DEF Bar!Failed
    <3>7. bBox[t] = -2 \/ bBox[t] = -1 \/ bBox[t] >= 0
      BY <1>1, BarOperators
    <3> QED BY <3>3, <3>4, <3>5, <3>6, <3>7
  <2> QED BY <2>1, <2>2
<1>3. BarTypes'
  BY <1>1, <1>2 DEF BarInv, BarTypes, Bar!PCs, Bar!Returned, Bar!Failed
<1>4. BarQueue'
  BY <1>1, <1>2 DEF BarInv, BarQueue
<1>5. /\ \A u \in Peers : bPc'[u] = "start" => bPc[u] = "start"
      /\ \A u \in Peers : bPc'[u] = "ok" => bPc[u] = "ok" \/ bBox'[u] >= 0
      /\ \A u \in Peers : bPc'[u] \in Bar!Failed /\ bBox[u] >= 0 => bPc[u] \in Bar!Failed
  BY <1>1, <1>2
<1> QED BY <1>1, <1>3, <1>4, <1>5, QuietStep

\* What Fill puts into the boxes.
LEMMA FillBoxes ==
    ASSUME BarInv, NEW v, NEW u \in Peers
    PROVE  /\ ~InQueue(u, bWaiters) => Bar!Fill(v)[u] = bBox[u]
           /\ InQueue(u, bWaiters) =>
                 \E k \in 1..Len(bWaiters) : bWaiters[k] = u /\ Bar!Fill(v)[u] = v[k]
<1>1. DOMAIN bWaiters = 1..Len(bWaiters)
  BY LenProperties DEF BarInv, BarTypes
<1>2. CASE InQueue(u, bWaiters)
  <2>1. PICK k : k = CHOOSE i \in DOMAIN bWaiters : bWaiters[i] = u
    OBVIOUS
  <2>2. k \in DOMAIN bWaiters /\ bWaiters[k] = u
    BY <1>2, <2>1 DEF InQueue
  <2>3. Bar!Fill(v)[u] = v[k]
    BY <1>2, <2>1, BarOperators DEF Bar!Fill
  <2> QED BY <1>1, <1>2, <2>2, <2>3
<1>3. CASE ~InQueue(u, bWaiters)
  BY <1>3, BarOperators DEF Bar!Fill
<1> QED BY <1>2, <1>3

\* A cancelled party breaks its round, if it is still the current one.
LEMMA BarUnwindInv == ASSUME BarInv, NEW t \in Peers, Bar!Unwind(t) PROVE BarInv'
<1>1. /\ bPc[t] = "unwind" /\ bPc' = [bPc EXCEPT ![t] = "cancelled"] /\ bPc \in [Peers -> Bar!PCs]
      /\ UNCHANGED <<bAborted, bGen, bControl>> /\ bGeneration \in Nat
      /\ bBox \in [Peers -> -2..(BarrierParties - 1)]
  BY DEF Bar!Unwind, Bar!Goto, BarInv, BarTypes
<1>2. /\ bPc' \in [Peers -> Bar!PCs]
      /\ \A u \in Peers : bPc'[u] = "start" => bPc[u] = "start"
      /\ \A u \in Peers : bPc'[u] = "ok" => bPc[u] = "ok" 
      /\ \A u \in Peers : bPc'[u] \in Bar!Failed => bPc[u] \in Bar!Failed
  BY <1>1 DEF Bar!PCs, Bar!Returned, Bar!Failed
<1>3. CASE bGen[t] = bGeneration
  <2>1. /\ bBroken' = TRUE /\ bWaiters' = <<>> /\ bGeneration' = bGeneration + 1
        /\ bBox' = Bar!Fill([k \in DOMAIN bWaiters |-> -1])
    BY <1>3 DEF Bar!Unwind
  <2>2. \A u \in Peers : /\ ~InQueue(u, bWaiters) => bBox'[u] = bBox[u]
                         /\ InQueue(u, bWaiters) => bBox'[u] = -1
    <3> TAKE u \in Peers
    <3>1. DOMAIN bWaiters = 1..Len(bWaiters)
      BY LenProperties DEF BarInv, BarTypes
    <3>2. PICK v : v = [k \in DOMAIN bWaiters |-> -1]
      OBVIOUS
    <3>3. /\ ~InQueue(u, bWaiters) => bBox'[u] = bBox[u]
          /\ InQueue(u, bWaiters) =>
               \E k \in 1..Len(bWaiters) : bWaiters[k] = u /\ bBox'[u] = v[k]
      BY <2>1, <3>2, FillBoxes
    <3> QED BY <3>1, <3>2, <3>3
  <2>3. \A u \in Peers : InQueue(u, bWaiters) =>
           bBox[u] = -2 /\ bGen[u] = bGeneration /\ bPc[u] \in {"waiting", "unwind"}
    BY DEF BarInv, BarQueue
  <2>4. BarQueue' /\ bWaiters' \in Seq(Peers)
    BY <2>1, EmptiedBarrier
  <2>5. bBox' \in [Peers -> -2..(BarrierParties - 1)]
    <3>1. -1 \in -2..(BarrierParties - 1)
      BY BarOperators
    <3>2. \A u \in Peers : bBox'[u] \in -2..(BarrierParties - 1)
      BY <1>1, <2>2, <3>1
    <3>3. bBox' = [u \in Peers |-> bBox'[u]]
      BY <2>1 DEF Bar!Fill
    <3> QED BY <3>2, <3>3
  <2>6. BarTypes'
    <3>1. bGeneration' \in Nat /\ bBroken' \in BOOLEAN
      BY <1>1, <2>1
    <3>2. bAborted' \in BOOLEAN /\ bGen' \in [Peers -> Nat] /\ bControl' \in 0..BarrierControl
      BY <1>1 DEF BarInv, BarTypes
    <3> QED BY <1>2, <2>4, <2>5, <3>1, <3>2 DEF BarTypes
  <2>7. bGeneration' >= bGeneration /\ bGeneration < bGeneration'
    BY <1>1, <2>1
  <2>8. \A u \in Peers : bBox[u] >= 0 => ~InQueue(u, bWaiters)
    BY <2>3
  <2>9. \A u \in Peers : bBox'[u] >= 0 => bBox[u] >= 0
    BY <2>2
  <2>10. \A u \in Peers : bBox'[u] # bBox[u] \/ bGen'[u] # bGen[u] =>
            bBox'[u] = -1 /\ bPc'[u] # "start" /\ bGen'[u] = bGeneration
    BY <1>1, <1>2, <2>2, <2>3
  <2>11. \A u \in Peers : bBox[u] >= 0 => bGen'[u] = bGen[u] /\ bBox'[u] = bBox[u]
    BY <1>1, <2>2, <2>8
  <2> QED BY <1>2, <2>4, <2>6, <2>7, <2>9, <2>10, <2>11, QuietStep
<1>4. CASE bGen[t] # bGeneration
  <2>1. UNCHANGED <<bBroken, bBox, bWaiters, bGeneration>>
    BY <1>4 DEF Bar!Unwind
  <2>2. ~InQueue(t, bWaiters)
    BY <1>4 DEF BarInv, BarQueue
  <2>3. BarTypes'
    BY <1>1, <1>2, <2>1 DEF BarInv, BarTypes
  <2>4. BarQueue'
    BY <1>1, <2>1, <2>2 DEF BarInv, BarQueue
  <2>5. bGeneration' >= bGeneration
    BY <1>1, <2>1
  <2> QED BY <1>1, <1>2, <2>1, <2>3, <2>4, <2>5, QuietStep
<1> QED BY <1>3, <1>4

\* wait refuses, or joins the current round without completing it.
LEMMA JoinInv ==
    ASSUME BarInv, NEW t \in Peers, Bar!Arrive(t), bAborted \/ bBroken \/ ~Bar!LastParty
    PROVE  BarInv'
<1>1. /\ bPc[t] = "start" /\ bPc \in [Peers -> Bar!PCs] /\ bBox[t] = -2 /\ ~InQueue(t, bWaiters)
      /\ UNCHANGED <<bAborted, bBroken, bControl, bGeneration, bBox>> /\ bGeneration \in Nat
  BY DEF Bar!Arrive, BarInv, BarTypes, BarRounds, BarQueue
<1>2. CASE bAborted \/ bBroken
  <2>1. PICK where \in {"aborted", "broken"} :
          bPc' = [bPc EXCEPT ![t] = where] /\ UNCHANGED <<bWaiters, bGen>>
    BY <1>2 DEF Bar!Arrive, Bar!Goto
  <2>2. BarTypes' /\ BarQueue'
    BY <1>1, <2>1 DEF BarInv, BarTypes, BarQueue, Bar!PCs, Bar!Returned, Bar!Failed
  <2>3. /\ \A u \in Peers : bPc'[u] = "start" => bPc[u] = "start"
        /\ \A u \in Peers : bPc'[u] = "ok" => bPc[u] = "ok"
        /\ \A u \in Peers : bPc'[u] \in Bar!Failed /\ bBox[u] >= 0 => bPc[u] \in Bar!Failed
    <3>1. ~(bBox[t] >= 0)
      BY <1>1
    <3> QED BY <1>1, <2>1, <3>1
  <2>4. bGeneration' >= bGeneration
    BY <1>1
  <2> QED BY <1>1, <2>1, <2>2, <2>3, <2>4, QuietStep
<1>3. CASE ~bAborted /\ ~bBroken
  <2>1. /\ ~Bar!LastParty /\ bWaiters' = Append(bWaiters, t)
        /\ bPc' = [bPc EXCEPT ![t] = "waiting"] /\ bGen' = [bGen EXCEPT ![t] = bGeneration]
    BY <1>3 DEF Bar!Arrive, Bar!Goto
  <2>2. /\ bWaiters \in Seq(Peers) /\ NoRepeat(bWaiters) /\ bGen \in [Peers -> Nat]
        /\ Len(bWaiters) \in Nat /\ Len(bWaiters) < BarrierParties
    BY LenProperties DEF BarInv, BarTypes, BarQueue
  <2>3. /\ bWaiters' \in Seq(Peers) /\ NoRepeat(bWaiters')
        /\ \A x : InQueue(x, bWaiters') <=> InQueue(x, bWaiters) \/ x = t
    BY <1>1, <2>1, <2>2, AppendQueue
  <2>4. Len(bWaiters') < BarrierParties
    <3>1. Len(bWaiters') = Len(bWaiters) + 1
      BY <2>1, <2>2
    <3> QED BY <2>1, <2>2, <3>1, BarOperators DEF Bar!LastParty
  <2>5. BarTypes'
    BY <1>1, <2>1, <2>2, <2>3 DEF BarInv, BarTypes, Bar!PCs
  <2>6. BarQueue'
    BY <1>1, <2>1, <2>2, <2>3, <2>4 DEF BarInv, BarQueue
  <2>7. /\ \A u \in Peers : bPc'[u] = "start" => bPc[u] = "start"
        /\ \A u \in Peers : bPc'[u] = "ok" => bPc[u] = "ok"
        /\ \A u \in Peers : bPc'[u] \in Bar!Failed => bPc[u] \in Bar!Failed
    BY <1>1, <2>1 DEF Bar!Failed
  <2>8. bGeneration' >= bGeneration
    BY <1>1
  <2>9. /\ \A u \in Peers : bBox[u] >= 0 => bGen'[u] = bGen[u] /\ bBox'[u] = bBox[u]
        /\ \A u \in Peers : bBox'[u] >= 0 => bBox[u] >= 0
        /\ \A u \in Peers : bBox'[u] # bBox[u] \/ bGen'[u] # bGen[u] => bBox'[u] = -2
    <3>1. ~(bBox[t] >= 0)
      BY <1>1
    <3> QED BY <1>1, <2>1, <2>2, <3>1
  <2> QED BY <2>5, <2>6, <2>7, <2>8, <2>9, QuietStep
<1> QED BY <1>1, <1>2, <1>3 DEF BarInv, BarTypes

\* The last party completes the round: the k-th of those who wait gets the
\* index k and the last one 0, which are as many different ones as parties.
LEMMA CompleteInv ==
    ASSUME BarInv, NEW t \in Peers, Bar!Arrive(t), ~bAborted, ~bBroken, Bar!LastParty
    PROVE  BarInv'
<1>1. /\ bPc[t] = "start" /\ bPc \in [Peers -> Bar!PCs] /\ bBox[t] = -2 /\ ~InQueue(t, bWaiters)
      /\ UNCHANGED <<bAborted, bBroken, bControl>> /\ bGeneration \in Nat
      /\ bGen \in [Peers -> Nat] /\ bBox \in [Peers -> -2..(BarrierParties - 1)]
  BY DEF Bar!Arrive, BarInv, BarTypes, BarRounds, BarQueue
<1>2. PICK n : n = Len(bWaiters)
  OBVIOUS
<1>3. PICK q : q = bWaiters
  OBVIOUS
<1>4. PICK G : G = bGeneration
  OBVIOUS
<1>5. /\ n \in Nat /\ n + 1 = BarrierParties /\ q \in Seq(Peers) /\ NoRepeat(q)
      /\ DOMAIN q = 1..n /\ \A i \in 1..n : q[i] \in Peers
      /\ Len(q) = n
  BY <1>2, <1>3, LenProperties, ElementOfSeq DEF BarInv, BarTypes, BarQueue, Bar!LastParty
<1>6. /\ bWaiters' = <<>> /\ bGeneration' = G + 1 /\ G \in Nat
      /\ bPc' = [bPc EXCEPT ![t] = "ok"] /\ bGen' = [bGen EXCEPT ![t] = G]
      /\ bBox' = [Bar!Fill([k \in DOMAIN q |-> k]) EXCEPT ![t] = 0]
  BY <1>1, <1>3, <1>4 DEF Bar!Arrive, Bar!Goto
<1>7. /\ bBox'[t] = 0
      /\ \A u \in Peers \ {t} :
           /\ ~InQueue(u, q) => bBox'[u] = bBox[u]
           /\ InQueue(u, q) => \E k \in 1..n : q[k] = u /\ bBox'[u] = k
  <2>1. PICK v : v = [k \in DOMAIN q |-> k]
    OBVIOUS
  <2>2. PICK f : f = Bar!Fill(v)
    OBVIOUS
  <2>3. DOMAIN f = Peers
    BY <2>2 DEF Bar!Fill
  <2>4. bBox'[t] = 0 /\ \A u \in Peers \ {t} : bBox'[u] = f[u]
    BY <1>6, <2>1, <2>2, <2>3
  <2>5. \A u \in Peers : /\ ~InQueue(u, q) => f[u] = bBox[u]
                         /\ InQueue(u, q) => \E k \in 1..n : q[k] = u /\ f[u] = v[k]
    BY <1>2, <1>3, <2>2, FillBoxes
  <2>6. \A k \in 1..n : v[k] = k
    BY <1>5, <2>1
  <2> QED BY <2>4, <2>5, <2>6
<1>8. \A i \in 1..n : q[i] # t /\ bBox'[q[i]] = i
  <2> TAKE i \in 1..n
  <2>1. InQueue(q[i], q) /\ q[i] \in Peers /\ q[i] # t
    BY <1>1, <1>3, <1>5 DEF InQueue
  <2>2. PICK k \in 1..n : q[k] = q[i] /\ bBox'[q[i]] = k
    BY <1>7, <2>1
  <2>3. k = i
    BY <1>5, <2>2 DEF NoRepeat
  <2> QED BY <2>1, <2>2, <2>3
<1>9. \A u \in Peers : InQueue(u, q) =>
          bBox[u] = -2 /\ bGen[u] = G /\ bPc[u] \in {"waiting", "unwind"}
  BY <1>3, <1>4 DEF BarInv, BarQueue
<1>10. /\ \A u \in Peers : bBox[u] \in Int /\ bGen[u] \in Nat
       /\ \A u \in Peers : bBox[u] # -2 => bGen[u] < G /\ bGen[u] # G /\ u # t /\ ~InQueue(u, q)
  <2>1. \A u \in Peers : bBox[u] \in Int /\ bGen[u] \in Nat
    BY <1>1, BarOperators
  <2>2. \A u \in Peers : bBox[u] # -2 => bGen[u] < G
    BY <1>4 DEF BarInv, BarRounds
  <2>3. \A u \in Peers : bGen[u] < G => bGen[u] # G
    BY <1>6, <2>1
  <2> QED BY <1>1, <1>9, <2>1, <2>2, <2>3
<1>11. \A u \in Peers : /\ bBox[u] # -2 => bBox'[u] = bBox[u] /\ bGen'[u] = bGen[u]
                        /\ bBox'[u] # -2 /\ bBox[u] = -2 => (InQueue(u, q) \/ u = t)
                        /\ InQueue(u, q) \/ u = t => bBox'[u] >= 0 /\ bGen'[u] = G
  <2>1. \A u \in Peers : bBox[u] # -2 => bBox'[u] = bBox[u] /\ bGen'[u] = bGen[u]
    BY <1>1, <1>6, <1>7, <1>10
  <2>2. \A u \in Peers : bBox'[u] # -2 /\ bBox[u] = -2 => (InQueue(u, q) \/ u = t)
    BY <1>7
  <2>3. \A u \in Peers : InQueue(u, q) => bBox'[u] >= 0
    <3> SUFFICES ASSUME NEW u \in Peers, InQueue(u, q) PROVE bBox'[u] >= 0
      OBVIOUS
    <3>1. u # t
      BY <1>5, <1>8 DEF InQueue
    <3>2. PICK k \in 1..n : bBox'[u] = k
      BY <1>7, <3>1
    <3> QED BY <1>5, <3>2
  <2>4. \A u \in Peers : InQueue(u, q) \/ u = t => bGen'[u] = G
    BY <1>1, <1>6, <1>9
  <2> QED BY <1>7, <2>1, <2>2, <2>3, <2>4
<1>12. Bar!Members(G)' = Front(q, n) \cup {t}
  <2>1. \A u \in Peers : u \in Bar!Members(G)' <=> bGen'[u] = G /\ bBox'[u] >= 0
    BY RoundMembersNext
  <2>2. \A u \in Peers : u \in Bar!Members(G)' <=> InQueue(u, q) \/ u = t
    <3> TAKE u \in Peers
    <3>1. CASE bBox[u] # -2
      BY <1>10, <1>11, <2>1, <3>1
    <3>2. CASE bBox[u] = -2
      <4>1. bBox'[u] >= 0 => bBox'[u] # -2
        OBVIOUS
      <4> QED BY <1>11, <2>1, <3>2, <4>1
    <3> QED BY <3>1, <3>2
  <2>3. \A u : InQueue(u, q) <=> u \in Front(q, n)
    BY <1>5 DEF InQueue, Front
  <2>4. Front(q, n) \subseteq Peers
    BY <1>5 DEF Front
  <2>5. Bar!Members(G)' \subseteq Peers
    BY RoundMembersNext
  <2> QED BY <2>2, <2>3, <2>4, <2>5
<1>13. RoundFull(G)'
  <2>1. Cardinality(Front(q, n) \cup {t}) = BarrierParties
    <3>1. IsFiniteSet(Front(q, n)) /\ Cardinality(Front(q, n)) = n
      <4>1. q \in Seq(Peers) /\ NoRepeat(q) /\ n \in Nat /\ n <= Len(q)
        BY <1>5
      <4> QED BY <4>1, CountPrefix
    <3>2. t \notin Front(q, n)
      BY <1>8 DEF Front
    <3>3. Cardinality(Front(q, n) \cup {t}) = n + 1
      BY <3>1, <3>2, FS_AddElement
    <3> QED BY <1>5, <3>3
  <2>2. {bBox'[u] : u \in Front(q, n) \cup {t}} = 0..(BarrierParties - 1)
    <3>1. BarrierParties - 1 = n
      BY <1>5
    <3>2. ASSUME NEW x \in Front(q, n) \cup {t} PROVE bBox'[x] \in 0..n
      <4>1. CASE x = t
        BY <1>5, <1>7, <4>1
      <4>2. CASE x \in Front(q, n)
        <5>1. PICK i \in 1..n : x = q[i]
          BY <4>2 DEF Front
        <5> QED BY <1>5, <1>8, <5>1
      <4> QED BY <4>1, <4>2
    <3>3. ASSUME NEW i \in 0..n PROVE \E x \in Front(q, n) \cup {t} : bBox'[x] = i
      <4>1. CASE i = 0
        BY <1>7, <4>1
      <4>2. CASE i # 0
        <5>1. i \in 1..n
          BY <1>5, <4>2
        <5>2. q[i] \in Front(q, n) /\ bBox'[q[i]] = i
          BY <1>8, <5>1 DEF Front
        <5> QED BY <5>2
      <4> QED BY <4>1, <4>2
    <3> QED BY <3>1, <3>2, <3>3
  <2> QED BY <1>12, <2>1, <2>2, BarOperators DEF RoundFull
<1>14. (\A g \in Nat : Bar!Members(g) # {} => RoundFull(g))'
  <2> SUFFICES ASSUME NEW g \in Nat, Bar!Members(g)' # {} PROVE RoundFull(g)'
    OBVIOUS
  <2>1. CASE g = G
    BY <1>13, <2>1
  <2>2. CASE g # G
    <3>1. \A u \in Peers : bGen'[u] = g /\ bBox'[u] >= 0 => bGen[u] = g /\ bBox[u] >= 0
      <4> SUFFICES ASSUME NEW u \in Peers, bGen'[u] = g, bBox'[u] >= 0
                   PROVE  bGen[u] = g /\ bBox[u] >= 0
        OBVIOUS
      <4>1. bBox[u] # -2
        <5>1. bBox'[u] # -2
          OBVIOUS
        <5> QED BY <1>11, <2>2, <5>1
      <4> QED BY <1>11, <4>1
    <3>2. \A u \in Peers : bGen[u] = g /\ bBox[u] >= 0 => bGen'[u] = g /\ bBox'[u] = bBox[u]
      <4>1. \A u \in Peers : bBox[u] >= 0 => bBox[u] # -2
        OBVIOUS
      <4> QED BY <1>11, <4>1
    <3>3. PICK u \in Peers : bGen'[u] = g /\ bBox'[u] >= 0
      BY RoundMembersNext
    <3>4. RoundFull(g)
      BY <3>1, <3>3, RoundMembers DEF BarInv, BarRounds
    <3> QED BY <3>1, <3>2, <3>4, RoundKept
  <2> QED BY <2>1, <2>2
<1>15. BarQueue' /\ bWaiters' \in Seq(Peers)
  BY <1>6, EmptiedBarrier
<1>16. BarTypes'
  <2>1. bBox' \in [Peers -> -2..(BarrierParties - 1)]
    <3>1. \A u \in Peers : bBox'[u] \in -2..(BarrierParties - 1)
      <4> TAKE u \in Peers
      <4>1. CASE u = t
        BY <1>7, <4>1, BarOperators
      <4>2. CASE u # t /\ ~InQueue(u, q)
        BY <1>1, <1>7, <4>2
      <4>3. CASE u # t /\ InQueue(u, q)
        <5>1. PICK k \in 1..n : bBox'[u] = k
          BY <1>7, <4>3
        <5> QED BY <1>5, <5>1
      <4> QED BY <4>1, <4>2, <4>3
    <3>2. PICK f : f = Bar!Fill([k \in DOMAIN q |-> k])
      OBVIOUS
    <3>3. f = [u \in Peers |-> f[u]]
      BY <3>2 DEF Bar!Fill
    <3>4. bBox' = [f EXCEPT ![t] = 0]
      BY <1>6, <3>2
    <3>5. bBox' = [u \in Peers |-> bBox'[u]]
      BY <3>3, <3>4
    <3> QED BY <3>1, <3>5
  <2>2. bGeneration' \in Nat /\ bPc' \in [Peers -> Bar!PCs] /\ bGen' \in [Peers -> Nat]
    BY <1>1, <1>6 DEF Bar!PCs, Bar!Returned
  <2> QED BY <1>1, <1>15, <2>1, <2>2 DEF BarInv, BarTypes
<1>17. \A u \in Peers : bPc'[u] = "start" => bBox'[u] = -2
  <2>1. \A u \in Peers : bPc'[u] = "start" => u # t /\ bPc[u] = "start" /\ bBox[u] = -2 /\ ~InQueue(u, q)
    BY <1>1, <1>6, <1>9 DEF BarInv, BarRounds
  <2> QED BY <1>7, <2>1
<1>18. \A u \in Peers : bBox'[u] # -2 => bGen'[u] < bGeneration'
  <2>1. \A u \in Peers : bBox'[u] # -2 => bGen'[u] = G \/ (bGen'[u] = bGen[u] /\ bGen[u] < G)
    BY <1>10, <1>11
  <2> QED BY <1>6, <1>10, <2>1
<1>19. \A u \in Peers : bBox'[u] >= 0 => bPc'[u] \notin Bar!Failed
  <2> SUFFICES ASSUME NEW u \in Peers, bBox'[u] >= 0 PROVE bPc'[u] \notin Bar!Failed
    OBVIOUS
  <2>0. bBox'[u] # -2
    OBVIOUS
  <2>1. CASE bBox[u] # -2
    <3>1. u # t /\ bBox[u] >= 0
      BY <1>10, <1>11, <2>1
    <3> QED BY <1>1, <1>6, <3>1 DEF BarInv, BarRounds
  <2>2. CASE bBox[u] = -2
    BY <1>1, <1>6, <1>9, <1>11, <2>0, <2>2 DEF Bar!Failed
  <2> QED BY <2>1, <2>2
<1>20. \A x, u \in Peers : bBox'[u] = -1 /\ bBox'[x] >= 0 => bGen'[u] # bGen'[x]
  <2> SUFFICES ASSUME NEW x \in Peers, NEW u \in Peers, bBox'[u] = -1, bBox'[x] >= 0
               PROVE  bGen'[u] # bGen'[x]
    OBVIOUS
  <2>0. bBox'[x] # -2 /\ bBox'[u] # -2 /\ ~(bBox'[u] >= 0)
    OBVIOUS
  <2>1. bBox[u] = -1 /\ bGen'[u] = bGen[u] /\ bGen[u] # G
    BY <1>10, <1>11, <2>0
  <2>2. CASE bBox[x] # -2
    BY <1>11, <2>1, <2>2 DEF BarInv, BarRounds
  <2>3. CASE bBox[x] = -2
    BY <1>11, <2>0, <2>1, <2>3
  <2> QED BY <2>2, <2>3
<1>21. \A u \in Peers : bPc'[u] = "ok" => bBox'[u] >= 0
  <2>1. \A u \in Peers \ {t} : bPc'[u] = "ok" => bBox[u] >= 0 /\ bBox[u] # -2
    BY <1>1, <1>6 DEF BarInv, BarRounds
  <2> QED BY <1>7, <1>11, <2>1
<1> QED BY <1>14, <1>15, <1>16, <1>17, <1>18, <1>19, <1>20, <1>21 DEF BarInv, BarRounds

\* Every step of wait, cancellation, abort and reset preserves it.
LEMMA BarNext == BarInv /\ [Bar!Next]_barrier => BarInv'
<1> SUFFICES ASSUME BarInv, [Bar!Next]_barrier PROVE BarInv'
  OBVIOUS
<1>1. CASE UNCHANGED barrier
  <2>1. UNCHANGED <<bGeneration, bAborted, bBroken, bWaiters, bPc, bBox, bGen, bControl>>
    BY <1>1 DEF barrier
  <2>2. BarTypes' /\ BarQueue' /\ bGeneration' >= bGeneration
    BY <2>1 DEF BarInv, BarTypes, BarQueue
  <2> QED BY <2>1, <2>2, QuietStep
<1>2. ASSUME NEW t \in Peers, Bar!Arrive(t) PROVE BarInv'
  BY <1>2, JoinInv, CompleteInv
<1>3. CASE Bar!Next
  BY <1>2, <1>3, BarResumeInv, BarUnwindInv, ControlInv DEF Bar!Next, Bar!Step
<1> QED BY <1>1, <1>3

\* Barrier (_sync.py): whoever passes does so in a round that exactly the
\* parties completed, with distinct indices; a round that was completed is
\* completed for all of them, and one that was broken lets nobody pass.
THEOREM RoundsTheorem == SSpec => []RoundsComplete
<1>1. SInit => BarInv
  BY BarInit DEF SInit
<1>2. SNext \/ UNCHANGED svars => [Bar!Next]_barrier
  BY DEF SNext, svars, OthersStill, LockRuns, ConditionRuns, SemaphoreRuns, LimiterRuns,
         BarrierRuns, RWMutexRuns, WaitGroupRuns, OnceRuns, EventRuns
<1>3. BarInv => RoundsComplete
  <2> SUFFICES ASSUME BarInv PROVE RoundsComplete
    OBVIOUS
  <2>1. Bar!FullRound
    <3>1. ASSUME NEW t \in Peers, bPc[t] = "ok" PROVE RoundFull(bGen[t])
      <4>1. bBox[t] >= 0 /\ bGen[t] \in Nat
        BY <3>1 DEF BarInv, BarRounds, BarTypes
      <4>2. t \in Bar!Members(bGen[t])
        BY <4>1, RoundMembers
      <4> QED BY <4>1, <4>2 DEF BarInv, BarRounds
    <3> QED BY <3>1, BarOperators DEF Bar!FullRound, RoundFull
  <2>2. Bar!BrokenRoundPassesNobody
    BY DEF Bar!BrokenRoundPassesNobody, BarInv, BarRounds
  <2>3. Bar!AllOrNothing
    BY DEF Bar!AllOrNothing, BarInv, BarRounds
  <2> QED BY <2>1, <2>2, <2>3 DEF RoundsComplete
<1> QED BY <1>1, <1>2, <1>3, BarNext, PTL DEF SSpec

-----------------------------------------------------------------------------
(* All primitives *)

\* The lock alone leaves the condition as it is.
LEMMA WaitersStill == WaitersOK /\ UNCHANGED cvars => WaitersOK'
BY DEF WaitersOK, cvars, NoLostNotification, Carriers

\* The counters stay within the range that the holders and jobs give them.
LEMMA CountersBounded ==
    ASSUME SemInv, LimInv, GroupInv
    PROVE  /\ sValue \in 0..Permits
           /\ lBorrowed \in 0..Lim!Cardinality(Peers)
           /\ gCounter \in 0..WG!Cardinality(TrackedJobs)
<1>1. sValue \in 0..Permits
  <2>1. sValue \in Nat /\ sValue + Cardinality(Sem!Holders) = Permits
    BY DEF SemInv
  <2> QED BY <2>1, SemFinite
<1>2. lBorrowed \in 0..Lim!Cardinality(Peers)
  <2>1. IsFiniteSet(Peers)
    BY InstanceAssumptions, LimOperators DEF Lim!LimiterParams
  <2>2. Lim!Holders \in SUBSET Peers
    BY LimHolders
  <2>3. Cardinality(Lim!Holders) <= Cardinality(Peers) /\ Cardinality(Peers) \in Nat
    BY <2>1, <2>2, FS_Subset, FS_CardinalityType
  <2>4. lBorrowed \in Nat /\ lBorrowed = Cardinality(Lim!Holders)
    BY DEF LimInv
  <2> QED BY <2>3, <2>4, LimOperators
<1>3. gCounter \in 0..WG!Cardinality(TrackedJobs)
  BY GroupCounts, CountedFinite DEF GroupInv
<1> QED BY <1>1, <1>2, <1>3

\* Every variable of every primitive keeps its type: in particular the counters
\* of Semaphore, CapacityLimiter, Condition and AsyncWaitGroup neither go below
\* zero nor above the number of permits, tasks and jobs there are.
THEOREM TypesTheorem == SSpec => []SyncTypesOK
<1> DEFINE All == /\ CInv /\ SemInv /\ LimInv /\ BarInv /\ RWInv
                  /\ GroupInv /\ OnceInv /\ EventInv
<1>1. SInit => All
  BY CInvInit, SemInit, LimInit, BarInit, RWInit, GroupInit, OnceInit, EventInit DEF SInit
<1>2. SNext \/ UNCHANGED svars =>
        /\ [Sem!Next]_semaphore /\ [Lim!Next]_limiter /\ [Bar!Next]_barrier /\ [RW!Next]_rwmutex
        /\ [WG!Next]_waitgroup /\ [One!Next]_once /\ [Ev!Next]_event
  BY DEF SNext, svars, OthersStill, LockRuns, ConditionRuns, SemaphoreRuns, LimiterRuns,
         BarrierRuns, RWMutexRuns, WaitGroupRuns, OnceRuns, EventRuns
<1>3. SNext \/ UNCHANGED svars => [CNext]_vars \/ (Next /\ UNCHANGED cvars)
  BY DEF SNext, svars, OthersStill, LockRuns, ConditionRuns, SemaphoreRuns, LimiterRuns,
         BarrierRuns, RWMutexRuns, WaitGroupRuns, OnceRuns, EventRuns
<1>4. CInv /\ ([CNext]_vars \/ (Next /\ UNCHANGED cvars)) => CInv'
  BY WaitersNext, WaitersStill, CStepsLock, NextInv DEF CInv
<1>5. All /\ (SNext \/ UNCHANGED svars) => All'
  BY <1>2, <1>3, <1>4, SemNext, LimNext, BarNext, RWNext, GroupNext, OnceNext, EventNext
<1>6. All => SyncTypesOK
  <2> SUFFICES ASSUME All PROVE SyncTypesOK
    OBVIOUS
  <2>1. CTypeOK
    BY CarriersFinite DEF CInv, IInv, WaitersOK, NoLostNotification, CTypeOK
  <2>2. Sem!TypeOK /\ Lim!TypeOK
    BY CountersBounded DEF SemInv, LimInv, Sem!TypeOK, Lim!TypeOK
  <2>3. Bar!TypeOK /\ RW!TypeOK
    BY DEF BarInv, BarTypes, RWInv, RWTypes, Bar!TypeOK, RW!TypeOK, RW!Users
  <2>4. WG!TypeOK
    BY CountersBounded DEF GroupInv, WG!TypeOK
  <2>5. One!TypeOK /\ Ev!TypeOK
    BY DEF OnceInv, EventInv
  <2> QED BY <2>1, <2>2, <2>3, <2>4, <2>5 DEF SyncTypesOK
<1> QED BY <1>1, <1>5, <1>6, PTL DEF SSpec
=============================================================================
