---------------------------- MODULE CancelProofs ----------------------------
(***************************************************************************)
(* The contexts of MCCancel: for every tree, any threads and any jobs,     *)
(* cancelling a context reaches its whole subtree and every job submitted  *)
(* to it, and leaves nothing behind; its task groups, for any children,    *)
(* entries and cancellations: no child outlives the block, every failure   *)
(* is raised once and the host's cancellation is kept; and its cancel      *)
(* scopes: for every setup, a scope is bound to its host just while it is  *)
(* on the stack, and for every setup within SafeUse the ledger balances.   *)
(***************************************************************************)
EXTENDS MCCancel, SequenceTheorems, FiniteSetTheorems, TLAPS

\* The tree and the calls of cancel(): nothing unborn is listed, a call is on a
\* cancelled context, and a live child is on its live parent's list.
TreeSound ==
    /\ \A x \in Contexts : xKids[x] \subseteq xExisting
    /\ \A c \in X!AllCalls : c.kids \subseteq xExisting /\ c.ctx \in xCancelled
    /\ \A y \in xExisting \ xCancelled :
         Parent[y] \in Contexts \ xCancelled => y \in xKids[Parent[y]]

\* A cancelled context holds nothing, and its parent lists it only until the
\* call that cancelled it detaches it.
Released ==
    \A x \in xCancelled :
        /\ xKids[x] = {} /\ xTracked[x] = {}
        /\ Parent[x] # NoContext /\ x \in xKids[Parent[x]] =>
             \E c \in X!AllCalls : c.ctx = x /\ ~c.detached

\* A live context tracks the jobs that were handed to it and still run.
JobsHeld ==
    \A j \in Jobs :
        /\ xPc[j] # "idle" => xOwner[j] \in xExisting
        /\ xPc[j] = "returned" /\ xFut[j] = "pending" /\ xOwner[j] \notin xCancelled =>
             j \in xTracked[xOwner[j]]

\* The tree of contexts: the invariant.
ContextInv == X!TypeOK /\ TreeSound /\ Released /\ JobsHeld /\ X!Cascade

-----------------------------------------------------------------------------
(* Stacks of calls *)

\* What is on a stack.
Entries(s) == {s[k] : k \in DOMAIN s}

\* A call is under way when it is on the stack of a thread.
LEMMA CallsUnderWay ==
    \A c : c \in X!AllCalls <=> \E t \in Threads : c \in Entries(xCalls[t])
BY DEF X!AllCalls, X!Running, Entries

\* What a call pushed on a stack, the top of a stack replaced, and the top of
\* a stack popped leave on it.
LEMMA Stacks ==
    ASSUME NEW C, NEW s \in Seq(C), NEW c \in C
    PROVE  /\ Append(s, c) \in Seq(C) /\ Entries(Append(s, c)) = Entries(s) \cup {c}
           /\ s # <<>> =>
                /\ Len(s) \in DOMAIN s /\ s[Len(s)] \in C /\ s[Len(s)] \in Entries(s)
                /\ [s EXCEPT ![Len(s)] = c] \in Seq(C)
                /\ c \in Entries([s EXCEPT ![Len(s)] = c])
                /\ Entries([s EXCEPT ![Len(s)] = c]) \subseteq Entries(s) \cup {c}
                /\ \A w \in Entries(s) : w = s[Len(s)] \/ w \in Entries([s EXCEPT ![Len(s)] = c])
                /\ SubSeq(s, 1, Len(s) - 1) \in Seq(C)
                /\ Entries(SubSeq(s, 1, Len(s) - 1)) \subseteq Entries(s)
                /\ \A w \in Entries(s) : w = s[Len(s)] \/ w \in Entries(SubSeq(s, 1, Len(s) - 1))
<1> DEFINE n == Len(s)
<1>1. n \in Nat /\ DOMAIN s = 1..n /\ \A i \in 1..n : s[i] \in C
  BY LenProperties, ElementOfSeq
<1>2. Append(s, c) \in Seq(C) /\ Entries(Append(s, c)) = Entries(s) \cup {c}
  <2> DEFINE p == Append(s, c)
  <2>1. /\ p \in Seq(C) /\ DOMAIN p = 1..(n + 1)
        /\ p[n + 1] = c /\ \A i \in 1..n : p[i] = s[i]
    BY <1>1, AppendProperties, LenProperties
  <2> HIDE DEF p, n
  <2>2. Entries(p) = Entries(s) \cup {c}
    BY <1>1, <2>1 DEF Entries
  <2> QED BY <2>1, <2>2 DEF p
<1>3. SUFFICES ASSUME s # <<>>
               PROVE  /\ Len(s) \in DOMAIN s /\ s[Len(s)] \in C /\ s[Len(s)] \in Entries(s)
                      /\ [s EXCEPT ![Len(s)] = c] \in Seq(C)
                      /\ c \in Entries([s EXCEPT ![Len(s)] = c])
                      /\ Entries([s EXCEPT ![Len(s)] = c]) \subseteq Entries(s) \cup {c}
                      /\ \A w \in Entries(s) : w = s[Len(s)] \/ w \in Entries([s EXCEPT ![Len(s)] = c])
                      /\ SubSeq(s, 1, Len(s) - 1) \in Seq(C)
                      /\ Entries(SubSeq(s, 1, Len(s) - 1)) \subseteq Entries(s)
                      /\ \A w \in Entries(s) : w = s[Len(s)] \/ w \in Entries(SubSeq(s, 1, Len(s) - 1))
  BY <1>2, Zenon
<1>4. n \in 1..n
  BY <1>1, <1>3, EmptySeq
<1>5. n \in DOMAIN s /\ s[n] \in C /\ s[n] \in Entries(s)
  BY <1>1, <1>4 DEF Entries
<1>6. /\ [s EXCEPT ![n] = c] \in Seq(C)
      /\ c \in Entries([s EXCEPT ![n] = c])
      /\ Entries([s EXCEPT ![n] = c]) \subseteq Entries(s) \cup {c}
      /\ \A w \in Entries(s) : w = s[n] \/ w \in Entries([s EXCEPT ![n] = c])
  <2> DEFINE p == [s EXCEPT ![n] = c]
  <2>1. /\ p \in Seq(C) /\ DOMAIN p = 1..n /\ p[n] = c
        /\ \A i \in 1..n : i = n \/ p[i] = s[i]
    BY <1>1, <1>4, ExceptSeq, ZenonT(60)
  <2> HIDE DEF p, n
  <2> QED BY <1>1, <1>4, <2>1, SMTT(30) DEF Entries, p
<1>7. /\ SubSeq(s, 1, n - 1) \in Seq(C)
      /\ Entries(SubSeq(s, 1, n - 1)) \subseteq Entries(s)
      /\ \A w \in Entries(s) : w = s[n] \/ w \in Entries(SubSeq(s, 1, n - 1))
  <2> DEFINE p == SubSeq(s, 1, n - 1)
  <2>1. 1 \in Int /\ n - 1 \in Nat /\ \A i \in 1..(n - 1) : s[i] \in C
    BY <1>1, <1>4
  <2>2. /\ p \in Seq(C) /\ Len(p) = n - 1
        /\ \A i \in 1..(n - 1) : p[i] = s[i]
    BY <1>1, <2>1, SubSeqProperties
  <2>3. DOMAIN p = 1..(n - 1)
    BY <2>2, LenProperties
  <2> HIDE DEF p, n
  <2>4. ASSUME NEW w \in Entries(p) PROVE w \in Entries(s)
    <3>1. PICK i \in 1..(n - 1) : w = p[i]
      BY <2>3 DEF Entries
    <3>2. i \in DOMAIN s /\ w = s[i]
      BY <1>1, <2>2, <3>1
    <3> QED BY <3>2 DEF Entries
  <2>5. ASSUME NEW w \in Entries(s), w # s[n] PROVE w \in Entries(p)
    <3>1. PICK i \in DOMAIN s : w = s[i]
      BY DEF Entries
    <3>2. i \in 1..(n - 1)
      BY <1>1, <1>4, <2>5, <3>1
    <3> QED BY <2>2, <2>3, <3>1, <3>2 DEF Entries
  <2> QED BY <2>2, <2>4, <2>5 DEF p
<1> QED BY <1>2, <1>5, <1>6, <1>7

\* The calls under way after a thread's stack became s: those of s, and all
\* earlier ones but the one the stack lost.
LEMMA StackChanged ==
    ASSUME X!TypeOK, NEW t \in Threads, NEW s \in Seq(X!Call), NEW gone, NEW new,
           xCalls' = [xCalls EXCEPT ![t] = s],
           \A w \in Entries(xCalls[t]) : w = gone \/ w \in Entries(s),
           Entries(s) \subseteq Entries(xCalls[t]) \cup new
    PROVE  /\ xCalls' \in [Threads -> Seq(X!Call)]
           /\ \A w \in X!AllCalls : w = gone \/ w \in X!AllCalls'
           /\ \A w \in X!AllCalls' : w \in X!AllCalls \/ w \in new
           /\ \A w \in Entries(s) : w \in X!AllCalls'
           /\ \A w \in X!AllCalls : w \in X!Call
<1>1. xCalls \in [Threads -> Seq(X!Call)]
  BY DEF X!TypeOK
<1>2. xCalls' \in [Threads -> Seq(X!Call)] /\ xCalls'[t] = s
  BY <1>1
<1>3. \A u \in Threads : u # t => xCalls'[u] = xCalls[u]
  BY <1>1
<1>4. \A c : c \in X!AllCalls' <=> \E u \in Threads : c \in Entries(xCalls'[u])
  BY DEF X!AllCalls, X!Running, Entries
<1>5. \A w \in X!AllCalls : w = gone \/ w \in X!AllCalls'
  BY <1>2, <1>3, <1>4, CallsUnderWay
<1>6. \A w \in X!AllCalls' : w \in X!AllCalls \/ w \in new
  BY <1>2, <1>3, <1>4, CallsUnderWay
<1>7. \A w \in Entries(s) : w \in X!AllCalls'
  BY <1>2, <1>4
<1>8. ASSUME NEW w \in X!AllCalls PROVE w \in X!Call
  <2>1. PICK u \in Threads : w \in Entries(xCalls[u])
    BY CallsUnderWay
  <2>2. xCalls[u] \in Seq(X!Call)
    BY <1>1
  <2> QED BY <2>1, <2>2, LenProperties, ElementOfSeq DEF Entries
<1> QED BY <1>2, <1>5, <1>6, <1>7, <1>8

\* The top of a stack replaced by c.
LEMMA TopReplaced ==
    ASSUME X!TypeOK, NEW t \in Threads, xCalls[t] # <<>>, NEW c \in X!Call
    PROVE  /\ X!With(t, c) \in Seq(X!Call) /\ c \in Entries(X!With(t, c))
           /\ \A w \in Entries(xCalls[t]) : w = X!Inner(t) \/ w \in Entries(X!With(t, c))
           /\ Entries(X!With(t, c)) \subseteq Entries(xCalls[t]) \cup {c}
           /\ X!Inner(t) \in X!Call /\ X!Inner(t) \in X!AllCalls
<1>1. xCalls[t] \in Seq(X!Call)
  BY DEF X!TypeOK
<1>2. X!With(t, c) = [xCalls[t] EXCEPT ![Len(xCalls[t])] = c]
  BY DEF X!With, X!Depth
<1>3. X!Inner(t) = xCalls[t][Len(xCalls[t])]
  BY DEF X!Inner, X!Depth
<1>4. X!Inner(t) \in X!Call /\ X!Inner(t) \in Entries(xCalls[t])
  BY <1>1, <1>3, Stacks
<1> QED BY <1>1, <1>2, <1>3, <1>4, Stacks, CallsUnderWay

-----------------------------------------------------------------------------
(* What a step of a thread does to the calls *)

\* No child, no job and no pending detachment in the hands of a call is lost.
\* A step leaves no child, job or detachment that a call had to reach unreached.
KidsPassed ==
    \A w \in X!AllCalls : \A y \in w.kids :
        y \in xCancelled' \/ \E v \in X!AllCalls' : y \in v.kids
JobsPassed ==
    \A w \in X!AllCalls :
        /\ \A j \in w.scopes : j \in xScope' \/ \E v \in X!AllCalls' : j \in v.scopes
        /\ \A j \in w.futs : \/ j \in xPosted' \/ xFut[j] # "pending"
                             \/ \E v \in X!AllCalls' : j \in v.futs
DetachPassed ==
    \A w \in X!AllCalls : w.detached \/ w \in X!AllCalls'

\* The calls are of contexts that are cancelled, on contexts that exist.
CallsSound ==
    /\ xCalls' \in [Threads -> Seq(X!Call)]
    /\ \A w \in X!AllCalls' : w.kids \subseteq xExisting' /\ w.ctx \in xCancelled'

\* A step that only works on the calls, and marks jobs.
LEMMA WorkingOn ==
    ASSUME ContextInv, KidsPassed, JobsPassed, DetachPassed, CallsSound,
           UNCHANGED <<xExisting, xCancelled, xKids, xTracked, xPc, xOwner, xFut>>,
           xScope \subseteq xScope', xPosted \subseteq xPosted',
           xScope' \subseteq Jobs, xPosted' \subseteq Jobs
    PROVE  ContextInv'
<1>1. X!TypeOK'
  BY DEF ContextInv, X!TypeOK, CallsSound, X!Call
<1>2. TreeSound'
  BY DEF ContextInv, TreeSound, CallsSound
<1>3. Released'
  BY DEF ContextInv, Released, DetachPassed
<1>4. JobsHeld'
  BY DEF ContextInv, JobsHeld
<1>5. X!Cascade'
  BY DEF ContextInv, X!Cascade, KidsPassed, JobsPassed
<1> QED BY <1>1, <1>2, <1>3, <1>4, <1>5 DEF ContextInv

\* A step that marks a context, old or new: its call takes over the children
\* and the jobs.
LEMMA Marking ==
    ASSUME ContextInv, KidsPassed, JobsPassed, DetachPassed, CallsSound,
           NEW x \in Contexts, x \notin xCancelled, x \in xExisting',
           xExisting' \in {xExisting, xExisting \cup {x}},
           xCancelled' = xCancelled \cup {x},
           xKids' = [xKids EXCEPT ![x] = {}], xTracked' = [xTracked EXCEPT ![x] = {}],
           UNCHANGED <<xPc, xOwner, xScope, xFut, xPosted>>,
           NEW c \in X!AllCalls', c.ctx = x, ~c.detached,
           c.kids = xKids[x], c.scopes = xTracked[x], c.futs = xTracked[x]
    PROVE  ContextInv'
<1>1. /\ xKids \in [Contexts -> SUBSET Contexts] /\ xTracked \in [Contexts -> SUBSET Jobs]
      /\ xCancelled \subseteq xExisting /\ xExisting \subseteq Contexts
      /\ xOwner \in [Jobs -> Contexts \cup {NoContext}]
      /\ NoContext \notin Contexts /\ Parent \in [Contexts -> Contexts \cup {NoContext}]
  BY InstanceAssumptions DEF ContextInv, X!TypeOK, X!ContextParams
<1>2. X!TypeOK'
  BY <1>1 DEF ContextInv, X!TypeOK, CallsSound, X!Call
<1>3. TreeSound'
  BY <1>1 DEF ContextInv, TreeSound, CallsSound
<1>4. Released'
  <2> SUFFICES ASSUME NEW z \in xCancelled'
               PROVE  /\ xKids'[z] = {} /\ xTracked'[z] = {}
                      /\ Parent[z] # NoContext /\ z \in xKids'[Parent[z]] =>
                           \E v \in X!AllCalls' : v.ctx = z /\ ~v.detached
    BY DEF Released
  <2>1. CASE z = x
    BY <1>1, <2>1
  <2>2. CASE z \in xCancelled
    <3>1. xKids'[z] = {} /\ xTracked'[z] = {}
      BY <1>1, <2>2 DEF ContextInv, Released
    <3>2. ASSUME Parent[z] # NoContext, z \in xKids'[Parent[z]]
          PROVE  \E v \in X!AllCalls' : v.ctx = z /\ ~v.detached
      <4>1. z \in xKids[Parent[z]]
        BY <1>1, <2>2, <3>2
      <4> QED BY <2>2, <3>2, <4>1 DEF ContextInv, Released, DetachPassed
    <3> QED BY <3>1, <3>2
  <2> QED BY <2>1, <2>2
<1>5. JobsHeld'
  BY <1>1 DEF ContextInv, JobsHeld
<1>6. X!Cascade'
  <2>1. ASSUME NEW y \in xExisting', Parent[y] \in xCancelled', y \notin xCancelled'
        PROVE  \E v \in X!AllCalls' : y \in v.kids
    <3>1. y \in xExisting \ xCancelled /\ y \in Contexts
      BY <2>1, <1>1
    <3>2. CASE Parent[y] = x
      BY <3>1, <3>2 DEF ContextInv, TreeSound
    <3>3. CASE Parent[y] \in xCancelled
      BY <2>1, <3>1, <3>3 DEF ContextInv, X!Cascade, KidsPassed
    <3> QED BY <2>1, <3>2, <3>3
  <2>2. ASSUME NEW j \in Jobs, xOwner[j] \in xCancelled', xPc[j] = "returned", xFut[j] = "pending"
        PROVE  /\ j \in xScope \/ \E v \in X!AllCalls' : j \in v.scopes
               /\ j \in xPosted \/ \E v \in X!AllCalls' : j \in v.futs
    <3>1. CASE xOwner[j] = x
      BY <2>2, <3>1 DEF ContextInv, JobsHeld
    <3>2. CASE xOwner[j] \in xCancelled
      BY <2>2, <3>2 DEF ContextInv, X!Cascade, JobsPassed
    <3> QED BY <2>2, <3>1, <3>2
  <2> QED BY <2>1, <2>2 DEF X!Cascade
<1> QED BY <1>2, <1>3, <1>4, <1>5, <1>6 DEF ContextInv

\* The section of cancel() on x: with rest in the hands of the thread, the call
\* of x is added when x was not cancelled.
LEMMA Beginning ==
    ASSUME ContextInv, NEW t \in Threads, NEW x \in Contexts, NEW rest \in Seq(X!Call),
           NEW gone, NEW new,
           \A w \in Entries(xCalls[t]) : w = gone \/ w \in Entries(rest),
           Entries(rest) \subseteq Entries(xCalls[t]) \cup new,
           gone \in X!AllCalls =>
               /\ gone.detached
               /\ \A y \in gone.kids : y = x \/ \E v \in Entries(rest) : y \in v.kids
               /\ \A j \in gone.scopes : \E v \in Entries(rest) : j \in v.scopes
               /\ \A j \in gone.futs : \E v \in Entries(rest) : j \in v.futs,
           \A w \in new : w.kids \subseteq xExisting /\ w.ctx \in xCancelled,
           X!Begin(t, x, rest),
           x \in xExisting', xExisting' \in {xExisting, xExisting \cup {x}},
           x \in xCancelled => xExisting' = xExisting,
           UNCHANGED <<xPc, xOwner, xScope, xFut, xPosted>>
    PROVE  ContextInv'
<1>0. X!TypeOK
  BY DEF ContextInv
<1>1. CASE x \in xCancelled
  <2>1. xCalls' = [xCalls EXCEPT ![t] = rest] /\ UNCHANGED <<xCancelled, xKids, xTracked>>
    BY <1>1 DEF X!Begin
  <2>2. /\ xCalls' \in [Threads -> Seq(X!Call)]
        /\ \A w \in X!AllCalls : w = gone \/ w \in X!AllCalls'
        /\ \A w \in X!AllCalls' : w \in X!AllCalls \/ w \in new
        /\ \A w \in Entries(rest) : w \in X!AllCalls'
    BY <1>0, <2>1, StackChanged
  <2>3. KidsPassed
    BY <1>1, <2>1, <2>2 DEF KidsPassed
  <2>4. JobsPassed /\ DetachPassed
    BY <2>2 DEF JobsPassed, DetachPassed
  <2>5. CallsSound
    BY <1>1, <2>1, <2>2 DEF CallsSound, ContextInv, TreeSound
  <2>6. xScope' \subseteq Jobs /\ xPosted' \subseteq Jobs
    BY <1>0 DEF X!TypeOK
  <2> QED BY <1>1, <2>1, <2>3, <2>4, <2>5, <2>6, WorkingOn
<1>2. CASE x \notin xCancelled
  <2> DEFINE c == [ctx |-> x, detached |-> FALSE, kids |-> xKids[x],
                   scopes |-> xTracked[x], futs |-> xTracked[x]]
  <2>1. /\ xCancelled' = xCancelled \cup {x}
        /\ xCalls' = [xCalls EXCEPT ![t] = Append(rest, c)]
        /\ xKids' = [xKids EXCEPT ![x] = {}] /\ xTracked' = [xTracked EXCEPT ![x] = {}]
    BY <1>2 DEF X!Begin
  <2>2. c \in X!Call
    BY <1>0 DEF X!TypeOK, X!Call
  <2>3. /\ c.ctx = x /\ ~c.detached
        /\ c.kids = xKids[x] /\ c.scopes = xTracked[x] /\ c.futs = xTracked[x]
    OBVIOUS
  <2> HIDE DEF c
  <2>4. Append(rest, c) \in Seq(X!Call) /\ Entries(Append(rest, c)) = Entries(rest) \cup {c}
    BY <2>2, Stacks
  <2>5. /\ \A w \in Entries(xCalls[t]) : w = gone \/ w \in Entries(Append(rest, c))
        /\ Entries(Append(rest, c)) \subseteq Entries(xCalls[t]) \cup (new \cup {c})
    BY <2>4
  <2>6. /\ xCalls' \in [Threads -> Seq(X!Call)]
        /\ \A w \in X!AllCalls : w = gone \/ w \in X!AllCalls'
        /\ \A w \in X!AllCalls' : w \in X!AllCalls \/ w \in new \cup {c}
        /\ \A w \in Entries(Append(rest, c)) : w \in X!AllCalls'
    <3>1. PICK s \in Seq(X!Call) : s = Append(rest, c)
      BY <2>4
    <3>2. PICK more : more = new \cup {c}
      OBVIOUS
    <3>3. /\ xCalls' = [xCalls EXCEPT ![t] = s]
          /\ \A w \in Entries(xCalls[t]) : w = gone \/ w \in Entries(s)
          /\ Entries(s) \subseteq Entries(xCalls[t]) \cup more
      BY <2>1, <2>5, <3>1, <3>2
    <3>4. /\ xCalls' \in [Threads -> Seq(X!Call)]
          /\ \A w \in X!AllCalls : w = gone \/ w \in X!AllCalls'
          /\ \A w \in X!AllCalls' : w \in X!AllCalls \/ w \in more
          /\ \A w \in Entries(s) : w \in X!AllCalls'
      BY <1>0, <3>3, StackChanged
    <3> QED BY <3>1, <3>2, <3>4
  <2>7. \A w \in Entries(rest) \cup {c} : w \in X!AllCalls'
    BY <2>4, <2>6
  <2>8. KidsPassed
    BY <2>1, <2>6, <2>7 DEF KidsPassed
  <2>9. JobsPassed /\ DetachPassed
    BY <2>6, <2>7 DEF JobsPassed, DetachPassed
  <2>10. xKids[x] \subseteq xExisting
    BY DEF ContextInv, TreeSound
  <2>11. CallsSound
    BY <2>1, <2>3, <2>6, <2>10 DEF CallsSound, ContextInv, TreeSound
  <2>12. c \in X!AllCalls'
    BY <2>7
  <2> QED BY <1>2, <2>1, <2>3, <2>8, <2>9, <2>11, <2>12, Marking
<1> QED BY <1>1, <1>2

\* A thread that is in no call begins one.
LEMMA BeginningFirst ==
    ASSUME ContextInv, NEW t \in Threads, NEW x \in Contexts, xCalls[t] = <<>>,
           X!Begin(t, x, <<>>),
           x \in xExisting', xExisting' \in {xExisting, xExisting \cup {x}},
           x \in xCancelled => xExisting' = xExisting,
           UNCHANGED <<xPc, xOwner, xScope, xFut, xPosted>>
    PROVE  ContextInv'
<1>1. PICK gone : gone \notin X!AllCalls
  BY NoSetContainsEverything
<1>2. <<>> \in Seq(X!Call) /\ Entries(<<>>) = {}
  BY EmptySeq DEF Entries
<1> QED BY <1>1, <1>2, Beginning

-----------------------------------------------------------------------------
(* The steps *)

\* A call replaced by c, which holds all that the call held and has not dealt
\* with, or is detached.
LEMMA TopWorked ==
    ASSUME ContextInv, NEW t \in Threads, xCalls[t] # <<>>, NEW c \in X!Call,
           xCalls' = [xCalls EXCEPT ![t] = X!With(t, c)],
           c.ctx = X!Inner(t).ctx, c.kids = X!Inner(t).kids
    PROVE  /\ xCalls' \in [Threads -> Seq(X!Call)]
           /\ X!Inner(t) \in X!Call /\ X!Inner(t) \in X!AllCalls
           /\ c \in X!AllCalls'
           /\ \A w \in X!AllCalls : w = X!Inner(t) \/ w \in X!AllCalls'
           /\ \A w \in X!AllCalls' : w.kids \subseteq xExisting /\ w.ctx \in xCancelled
<1>0. X!TypeOK
  BY DEF ContextInv
<1>1. /\ X!With(t, c) \in Seq(X!Call) /\ c \in Entries(X!With(t, c))
      /\ \A w \in Entries(xCalls[t]) : w = X!Inner(t) \/ w \in Entries(X!With(t, c))
      /\ Entries(X!With(t, c)) \subseteq Entries(xCalls[t]) \cup {c}
      /\ X!Inner(t) \in X!Call /\ X!Inner(t) \in X!AllCalls
  BY <1>0, TopReplaced
<1>2. /\ xCalls' \in [Threads -> Seq(X!Call)]
      /\ \A w \in X!AllCalls : w = X!Inner(t) \/ w \in X!AllCalls'
      /\ \A w \in X!AllCalls' : w \in X!AllCalls \/ w \in {c}
      /\ \A w \in Entries(X!With(t, c)) : w \in X!AllCalls'
  <2>1. PICK s \in Seq(X!Call) : s = X!With(t, c)
    BY <1>1
  <2>2. PICK i : i = X!Inner(t)
    OBVIOUS
  <2>3. PICK more : more = {c}
    OBVIOUS
  <2>4. /\ xCalls' = [xCalls EXCEPT ![t] = s]
        /\ \A w \in Entries(xCalls[t]) : w = i \/ w \in Entries(s)
        /\ Entries(s) \subseteq Entries(xCalls[t]) \cup more
    BY <1>1, <2>1, <2>2, <2>3
  <2>5. /\ xCalls' \in [Threads -> Seq(X!Call)]
        /\ \A w \in X!AllCalls : w = i \/ w \in X!AllCalls'
        /\ \A w \in X!AllCalls' : w \in X!AllCalls \/ w \in more
        /\ \A w \in Entries(s) : w \in X!AllCalls'
    BY <1>0, <2>4, StackChanged
  <2> QED BY <2>1, <2>2, <2>3, <2>5
<1> QED BY <1>1, <1>2 DEF ContextInv, TreeSound

\* The innermost call of a thread is under way.
LEMMA InnerType ==
    ASSUME ContextInv, NEW t \in Threads, xCalls[t] # <<>>
    PROVE  X!Inner(t) \in X!Call /\ X!Inner(t) \in X!AllCalls
<1>1. xCalls[t] \in Seq(X!Call)
  BY DEF ContextInv, X!TypeOK
<1>2. PICK c : c \in X!Call
  <2>1. xCalls[t][1] \in X!Call
    BY <1>1, EmptySeq, LenProperties, ElementOfSeq
  <2> QED BY <2>1
<1> QED BY <1>2, TopReplaced DEF ContextInv

\* Detach keeps the invariant.
LEMMA DetachInv ==
    ASSUME ContextInv, NEW t \in Threads, X!Detach(t)
    PROVE  ContextInv'
<1> DEFINE i == X!Inner(t)
           c == [i EXCEPT !.detached = TRUE]
           p == Parent[i.ctx]
<1>1. /\ xCalls[t] # <<>> /\ ~i.detached
      /\ xKids' = IF p = NoContext THEN xKids ELSE [xKids EXCEPT ![p] = @ \ {i.ctx}]
      /\ xCalls' = [xCalls EXCEPT ![t] = X!With(t, c)]
      /\ UNCHANGED <<xExisting, xCancelled, xTracked, xPc, xOwner, xScope, xFut, xPosted>>
  BY DEF X!Detach, X!jobvars
<1>2. i \in X!Call /\ i \in X!AllCalls
  BY <1>1, InnerType
<1>3. /\ c \in X!Call /\ c.ctx = i.ctx /\ c.kids = i.kids /\ c.detached
      /\ c.scopes = i.scopes /\ c.futs = i.futs
  BY <1>2 DEF X!Call
<1> HIDE DEF c
<1>4. /\ xCalls' \in [Threads -> Seq(X!Call)] /\ c \in X!AllCalls'
      /\ \A w \in X!AllCalls : w = i \/ w \in X!AllCalls'
      /\ \A w \in X!AllCalls' : w.kids \subseteq xExisting /\ w.ctx \in xCancelled
  BY <1>1, <1>3, TopWorked
<1>5. /\ xKids \in [Contexts -> SUBSET Contexts]
      /\ NoContext \notin Contexts /\ Parent \in [Contexts -> Contexts \cup {NoContext}]
      /\ i.ctx \in xCancelled /\ i.ctx \in Contexts
      /\ xCancelled \subseteq xExisting /\ xExisting \subseteq Contexts
  BY <1>2, InstanceAssumptions DEF ContextInv, X!TypeOK, X!ContextParams, TreeSound, X!Call
<1> HIDE DEF i
<1>6. /\ xKids' \in [Contexts -> SUBSET Contexts]
      /\ \A y \in Contexts : xKids'[y] \subseteq xKids[y]
      /\ \A y \in Contexts : \A z \in xKids[y] : z = i.ctx \/ z \in xKids'[y]
      /\ Parent[i.ctx] # NoContext => i.ctx \notin xKids'[Parent[i.ctx]]
  BY <1>1, <1>5
<1>7. X!TypeOK'
  BY <1>1, <1>4, <1>6 DEF ContextInv, X!TypeOK, X!Call
<1>8. TreeSound'
  BY <1>1, <1>4, <1>5, <1>6 DEF ContextInv, TreeSound
<1>9. Released'
  <2> SUFFICES ASSUME NEW z \in xCancelled
               PROVE  /\ xKids'[z] = {} /\ xTracked[z] = {}
                      /\ Parent[z] # NoContext /\ z \in xKids'[Parent[z]] =>
                           \E v \in X!AllCalls' : v.ctx = z /\ ~v.detached
    BY <1>1 DEF Released
  <2>1. xKids'[z] = {} /\ xTracked[z] = {}
    BY <1>5, <1>6 DEF ContextInv, Released
  <2>2. ASSUME Parent[z] # NoContext, z \in xKids'[Parent[z]]
        PROVE  \E v \in X!AllCalls' : v.ctx = z /\ ~v.detached
    <3>1. z # i.ctx /\ z \in xKids[Parent[z]]
      BY <1>5, <1>6, <2>2
    <3>2. PICK v \in X!AllCalls : v.ctx = z /\ ~v.detached
      BY <2>2, <3>1 DEF ContextInv, Released
    <3> QED BY <1>4, <3>1, <3>2
  <2> QED BY <2>1, <2>2
<1>10. JobsHeld'
  BY <1>1 DEF ContextInv, JobsHeld
<1>11. X!Cascade'
  BY <1>1, <1>3, <1>4 DEF ContextInv, X!Cascade
<1> QED BY <1>7, <1>8, <1>9, <1>10, <1>11 DEF ContextInv

\* CancelChild keeps the invariant.
LEMMA CancelChildInv ==
    ASSUME ContextInv, NEW t \in Threads, X!CancelChild(t)
    PROVE  ContextInv'
<1> DEFINE i == X!Inner(t)
<1>1. /\ xCalls[t] # <<>> /\ i.detached
      /\ UNCHANGED <<xExisting, xPc, xOwner, xScope, xFut, xPosted>>
  BY DEF X!CancelChild, X!jobvars
<1>2. i \in X!Call /\ i \in X!AllCalls
  BY <1>1, InnerType
<1>3. PICK y \in i.kids : X!Begin(t, y, X!With(t, [i EXCEPT !.kids = @ \ {y}]))
  BY DEF X!CancelChild
<1> DEFINE c == [i EXCEPT !.kids = @ \ {y}]
<1>4. /\ c \in X!Call /\ c.ctx = i.ctx /\ c.kids = i.kids \ {y}
      /\ c.scopes = i.scopes /\ c.futs = i.futs
  BY <1>2 DEF X!Call
<1>5. X!Begin(t, y, X!With(t, c))
  BY <1>3
<1> HIDE DEF c
<1>6. i.kids \subseteq xExisting /\ i.ctx \in xCancelled /\ y \in xExisting /\ y \in Contexts
  BY <1>2, <1>3 DEF ContextInv, TreeSound, X!Call
<1>7. /\ X!With(t, c) \in Seq(X!Call) /\ c \in Entries(X!With(t, c))
      /\ \A w \in Entries(xCalls[t]) : w = i \/ w \in Entries(X!With(t, c))
      /\ Entries(X!With(t, c)) \subseteq Entries(xCalls[t]) \cup {c}
  BY <1>1, <1>4, TopReplaced DEF ContextInv
<1>8. /\ \A z \in i.kids : z = y \/ \E v \in Entries(X!With(t, c)) : z \in v.kids
      /\ \A j \in i.scopes : \E v \in Entries(X!With(t, c)) : j \in v.scopes
      /\ \A j \in i.futs : \E v \in Entries(X!With(t, c)) : j \in v.futs
  BY <1>4, <1>7
<1>9. \A w \in {c} : w.kids \subseteq xExisting /\ w.ctx \in xCancelled
  BY <1>4, <1>6
<1>10. y \in xExisting' /\ xExisting' \in {xExisting, xExisting \cup {y}}
  BY <1>1, <1>6
<1> HIDE DEF i
<1>11. PICK rest \in Seq(X!Call) : rest = X!With(t, c)
  BY <1>7
<1>12. PICK gone : gone = i
  OBVIOUS
<1>13. PICK new : new = {c}
  OBVIOUS
<1>14. /\ \A w \in Entries(xCalls[t]) : w = gone \/ w \in Entries(rest)
       /\ Entries(rest) \subseteq Entries(xCalls[t]) \cup new
       /\ X!Begin(t, y, rest)
  BY <1>5, <1>7, <1>11, <1>12, <1>13
<1>15. /\ gone.detached
       /\ \A z \in gone.kids : z = y \/ \E v \in Entries(rest) : z \in v.kids
       /\ \A j \in gone.scopes : \E v \in Entries(rest) : j \in v.scopes
       /\ \A j \in gone.futs : \E v \in Entries(rest) : j \in v.futs
  BY <1>1, <1>8, <1>11, <1>12
<1>16. \A w \in new : w.kids \subseteq xExisting /\ w.ctx \in xCancelled
  BY <1>9, <1>13
<1> QED BY <1>1, <1>6, <1>10, <1>14, <1>15, <1>16, Beginning

\* CancelJobScope keeps the invariant.
LEMMA CancelJobScopeInv ==
    ASSUME ContextInv, NEW t \in Threads, X!CancelJobScope(t)
    PROVE  ContextInv'
<1> DEFINE i == X!Inner(t)
<1>1. /\ xCalls[t] # <<>> /\ i.detached
      /\ UNCHANGED <<xExisting, xCancelled, xKids, xTracked, xPc, xOwner, xFut, xPosted>>
  BY DEF X!CancelJobScope
<1>2. i \in X!Call /\ i \in X!AllCalls
  BY <1>1, InnerType
<1>3. PICK j \in i.scopes :
        /\ xScope' = xScope \cup {j}
        /\ xCalls' = [xCalls EXCEPT ![t] = X!With(t, [i EXCEPT !.scopes = @ \ {j}])]
  BY DEF X!CancelJobScope
<1> DEFINE c == [i EXCEPT !.scopes = @ \ {j}]
<1>4. /\ c \in X!Call /\ c.ctx = i.ctx /\ c.kids = i.kids
      /\ c.scopes = i.scopes \ {j} /\ c.futs = i.futs
  BY <1>2 DEF X!Call
<1>5. xCalls' = [xCalls EXCEPT ![t] = X!With(t, c)]
  BY <1>3
<1> HIDE DEF c
<1>6. /\ xCalls' \in [Threads -> Seq(X!Call)] /\ c \in X!AllCalls'
      /\ \A w \in X!AllCalls : w = i \/ w \in X!AllCalls'
      /\ \A w \in X!AllCalls' : w.kids \subseteq xExisting /\ w.ctx \in xCancelled
  BY <1>1, <1>4, <1>5, TopWorked
<1>7. /\ xScope' \subseteq Jobs /\ xPosted' \subseteq Jobs
  BY <1>1, <1>2, <1>3 DEF ContextInv, X!TypeOK, X!Call
<1> HIDE DEF i
<1>8. KidsPassed
  BY <1>4, <1>6 DEF KidsPassed
<1>9. JobsPassed
  BY <1>3, <1>4, <1>6 DEF JobsPassed
<1>10. DetachPassed /\ CallsSound
  BY <1>1, <1>6 DEF DetachPassed, CallsSound
<1> QED BY <1>1, <1>3, <1>7, <1>8, <1>9, <1>10, WorkingOn

\* CancelJobFuture keeps the invariant.
LEMMA CancelJobFutureInv ==
    ASSUME ContextInv, NEW t \in Threads, X!CancelJobFuture(t)
    PROVE  ContextInv'
<1> DEFINE i == X!Inner(t)
<1>1. /\ xCalls[t] # <<>> /\ i.detached
      /\ UNCHANGED <<xExisting, xCancelled, xKids, xTracked, xPc, xOwner, xScope, xFut>>
  BY DEF X!CancelJobFuture
<1>2. i \in X!Call /\ i \in X!AllCalls
  BY <1>1, InnerType
<1>3. PICK j \in i.futs :
        /\ xPosted' = IF xFut[j] = "pending" THEN xPosted \cup {j} ELSE xPosted
        /\ xCalls' = [xCalls EXCEPT ![t] = X!With(t, [i EXCEPT !.futs = @ \ {j}])]
  BY DEF X!CancelJobFuture
<1> DEFINE c == [i EXCEPT !.futs = @ \ {j}]
<1>4. /\ c \in X!Call /\ c.ctx = i.ctx /\ c.kids = i.kids
      /\ c.scopes = i.scopes /\ c.futs = i.futs \ {j}
  BY <1>2 DEF X!Call
<1>5. xCalls' = [xCalls EXCEPT ![t] = X!With(t, c)]
  BY <1>3
<1> HIDE DEF c
<1>6. /\ xCalls' \in [Threads -> Seq(X!Call)] /\ c \in X!AllCalls'
      /\ \A w \in X!AllCalls : w = i \/ w \in X!AllCalls'
      /\ \A w \in X!AllCalls' : w.kids \subseteq xExisting /\ w.ctx \in xCancelled
  BY <1>1, <1>4, <1>5, TopWorked
<1>7. /\ xScope' \subseteq Jobs /\ xPosted' \subseteq Jobs /\ xPosted \subseteq xPosted'
  BY <1>1, <1>2, <1>3 DEF ContextInv, X!TypeOK, X!Call
<1> HIDE DEF i
<1>8. KidsPassed
  BY <1>4, <1>6 DEF KidsPassed
<1>9. JobsPassed
  BY <1>3, <1>4, <1>6 DEF JobsPassed
<1>10. DetachPassed /\ CallsSound
  BY <1>1, <1>6 DEF DetachPassed, CallsSound
<1> QED BY <1>1, <1>7, <1>8, <1>9, <1>10, WorkingOn

\* Return keeps the invariant: the call has nothing left in its hands.
LEMMA ReturnInv ==
    ASSUME ContextInv, NEW t \in Threads, X!Return(t)
    PROVE  ContextInv'
<1>1. /\ xCalls[t] # <<>> /\ X!Inner(t).detached
      /\ X!Inner(t).kids = {} /\ X!Inner(t).scopes = {} /\ X!Inner(t).futs = {}
      /\ UNCHANGED <<xExisting, xCancelled, xKids, xTracked, xPc, xOwner, xScope, xFut, xPosted>>
  BY DEF X!Return, X!jobvars
<1>2. X!Inner(t) \in X!Call /\ xCalls[t] \in Seq(X!Call)
  BY <1>1, InnerType DEF ContextInv, X!TypeOK
<1>3. PICK i : i = X!Inner(t)
  OBVIOUS
<1>4. i = xCalls[t][Len(xCalls[t])] /\ i \in X!Call
  BY <1>2, <1>3 DEF X!Inner, X!Depth
<1>5. PICK s \in Seq(X!Call) : s = SubSeq(xCalls[t], 1, Len(xCalls[t]) - 1)
  BY <1>1, <1>2, <1>4, Stacks
<1>6. /\ \A w \in Entries(xCalls[t]) : w = i \/ w \in Entries(s)
      /\ Entries(s) \subseteq Entries(xCalls[t])
  <2>1. PICK q \in Seq(X!Call) : q = xCalls[t]
    BY <1>2
  <2>2. q # <<>> /\ i = q[Len(q)] /\ s = SubSeq(q, 1, Len(q) - 1)
    BY <1>1, <1>4, <1>5, <2>1
  <2>3. /\ Entries(SubSeq(q, 1, Len(q) - 1)) \subseteq Entries(q)
        /\ \A w \in Entries(q) : w = q[Len(q)] \/ w \in Entries(SubSeq(q, 1, Len(q) - 1))
    BY <1>4, <2>2, Stacks
  <2> QED BY <2>1, <2>2, <2>3
<1>7. xCalls' = [xCalls EXCEPT ![t] = s]
  BY <1>5 DEF X!Return
<1>8. PICK none : none = {}
  OBVIOUS
<1>9. Entries(s) \subseteq Entries(xCalls[t]) \cup none
  BY <1>6
<1>10. /\ xCalls' \in [Threads -> Seq(X!Call)]
       /\ \A w \in X!AllCalls : w = i \/ w \in X!AllCalls'
       /\ \A w \in X!AllCalls' : w \in X!AllCalls \/ w \in none
  BY <1>6, <1>7, <1>9, StackChanged DEF ContextInv
<1>11. KidsPassed /\ JobsPassed /\ DetachPassed
  BY <1>1, <1>3, <1>10 DEF KidsPassed, JobsPassed, DetachPassed
<1>12. CallsSound
  BY <1>1, <1>8, <1>10 DEF CallsSound, ContextInv, TreeSound
<1>13. xScope' \subseteq Jobs /\ xPosted' \subseteq Jobs
  BY <1>1 DEF ContextInv, X!TypeOK
<1> QED BY <1>1, <1>11, <1>12, <1>13, WorkingOn

\* cancel keeps the invariant.
LEMMA CancelInv ==
    ASSUME ContextInv, NEW t \in Threads, NEW x \in Contexts, X!cancel(t, x)
    PROVE  ContextInv'
BY BeginningFirst DEF X!cancel, X!jobvars

\* Create keeps the invariant: a child is on its parent's list, or cancelled.
LEMMA CreateInv ==
    ASSUME ContextInv, NEW t \in Threads, NEW x \in Contexts, X!Create(t, x)
    PROVE  ContextInv'
<1>1. /\ xCalls[t] = <<>> /\ x \notin xExisting /\ xExisting' = xExisting \cup {x}
      /\ UNCHANGED <<xPc, xOwner, xScope, xFut, xPosted>>
  BY DEF X!Create, X!jobvars
<1>2. /\ xKids \in [Contexts -> SUBSET Contexts] /\ xTracked \in [Contexts -> SUBSET Jobs]
      /\ xCancelled \subseteq xExisting /\ xExisting \subseteq Contexts
      /\ NoContext \notin Contexts /\ Parent \in [Contexts -> Contexts \cup {NoContext}]
  BY InstanceAssumptions DEF ContextInv, X!TypeOK, X!ContextParams
<1>3. CASE Parent[x] \in xExisting /\ Parent[x] \in xCancelled /\ X!AddChild(t, Parent[x], x)
  <2>1. X!Begin(t, x, <<>>)
    BY <1>3 DEF X!AddChild
  <2> QED BY <1>1, <1>2, <2>1, BeginningFirst
<1>4. CASE /\ UNCHANGED <<xCancelled, xTracked, xCalls>>
           /\ \/ Parent[x] = NoContext /\ xKids' = xKids
              \/ /\ Parent[x] \in xExisting \ xCancelled
                 /\ xKids' = [xKids EXCEPT ![Parent[x]] = @ \cup {x}]
  <2>1. X!AllCalls' = X!AllCalls
    BY <1>4 DEF X!AllCalls, X!Running
  <2>2. /\ xKids' \in [Contexts -> SUBSET Contexts]
        /\ \A y \in Contexts : xKids[y] \subseteq xKids'[y] /\ xKids'[y] \subseteq xKids[y] \cup {x}
        /\ \A y \in xCancelled : xKids'[y] = xKids[y]
        /\ Parent[x] \in Contexts \ xCancelled => x \in xKids'[Parent[x]]
    BY <1>2, <1>4
  <2>3. X!TypeOK'
    BY <1>1, <1>2, <1>4, <2>2 DEF ContextInv, X!TypeOK, X!Call
  <2>4. TreeSound'
    BY <1>1, <1>2, <1>4, <2>1, <2>2 DEF ContextInv, TreeSound
  <2>5. Released'
    <3>1. x \notin xCancelled
      BY <1>1, <1>2
    <3> QED BY <1>2, <1>4, <2>1, <2>2, <3>1 DEF ContextInv, Released
  <2>6. JobsHeld'
    BY <1>1, <1>4 DEF ContextInv, JobsHeld
  <2>7. X!Cascade'
    <3>1. Parent[x] \notin xCancelled
      BY <1>2, <1>4
    <3> QED BY <1>1, <1>4, <2>1, <3>1 DEF ContextInv, X!Cascade
  <2> QED BY <2>3, <2>4, <2>5, <2>6, <2>7 DEF ContextInv
<1> QED BY <1>3, <1>4 DEF X!Create, X!AddChild

\* The steps of submit(), of the pool and of the caller's loop keep it.
LEMMA JobInv ==
    ASSUME ContextInv, NEW j \in Jobs,
           \/ \E x \in Contexts : X!SubmitCheck(j, x)
           \/ X!PoolSubmit(j) \/ X!SubmitTrack(j) \/ X!Complete(j)
           \/ X!CancelFuture(j) \/ X!Discard(j)
    PROVE  ContextInv'
<1>1. /\ UNCHANGED <<xExisting, xCancelled, xKids, xCalls>>
      /\ xTracked \in [Contexts -> SUBSET Jobs] /\ xFut \in [Jobs -> {"none", "pending", "done", "cancelled"}]
      /\ xPc \in [Jobs -> {"idle", "checked", "submitted", "returned"}]
      /\ xOwner \in [Jobs -> Contexts \cup {NoContext}]
      /\ xCancelled \subseteq xExisting /\ xExisting \subseteq Contexts
      /\ xScope \subseteq Jobs /\ xPosted \subseteq Jobs /\ NoContext \notin Contexts
  BY InstanceAssumptions
     DEF ContextInv, X!TypeOK, X!ContextParams, X!jobvars, X!SubmitCheck, X!PoolSubmit,
         X!SubmitTrack, X!Complete, X!CancelFuture, X!Discard
<1>2. X!AllCalls' = X!AllCalls
  BY <1>1 DEF X!AllCalls, X!Running
<1>3. SUFFICES /\ xTracked' \in [Contexts -> SUBSET Jobs]
               /\ \A x \in xCancelled : xTracked'[x] = {}
               /\ xPc' \in [Jobs -> {"idle", "checked", "submitted", "returned"}]
               /\ xOwner' \in [Jobs -> Contexts \cup {NoContext}]
               /\ xScope' \subseteq Jobs /\ xPosted' \subseteq Jobs
               /\ xFut' \in [Jobs -> {"none", "pending", "done", "cancelled"}]
               /\ JobsHeld' /\ X!Cascade'
  <2>1. X!TypeOK'
    BY <1>1, <1>3 DEF ContextInv, X!TypeOK, X!Call
  <2>2. TreeSound' /\ Released'
    BY <1>1, <1>2, <1>3 DEF ContextInv, TreeSound, Released
  <2> QED BY <1>3, <2>1, <2>2 DEF ContextInv
<1>4. \A x \in xCancelled : xTracked[x] = {}
  BY DEF ContextInv, Released
<1>5. CASE \E x \in Contexts : X!SubmitCheck(j, x)
  BY <1>1, <1>2, <1>4, <1>5 DEF X!SubmitCheck, ContextInv, JobsHeld, X!Cascade
<1>6. CASE X!PoolSubmit(j)
  BY <1>1, <1>2, <1>4, <1>6 DEF X!PoolSubmit, ContextInv, JobsHeld, X!Cascade
<1>7. CASE X!SubmitTrack(j)
  BY <1>1, <1>2, <1>4, <1>7 DEF X!SubmitTrack, ContextInv, JobsHeld, X!Cascade
<1>8. CASE X!Complete(j)
  BY <1>1, <1>2, <1>4, <1>8 DEF X!Complete, ContextInv, JobsHeld, X!Cascade
<1>9. CASE X!CancelFuture(j)
  BY <1>1, <1>2, <1>4, <1>9 DEF X!CancelFuture, ContextInv, JobsHeld, X!Cascade
<1>10. CASE X!Discard(j)
  BY <1>1, <1>2, <1>4, <1>10 DEF X!Discard, X!jobvars, ContextInv, JobsHeld, X!Cascade
<1> QED BY <1>5, <1>6, <1>7, <1>8, <1>9, <1>10

-----------------------------------------------------------------------------
(* The theorem *)

\* The contexts start in the invariant, and every step of theirs keeps it.
LEMMA ContextInit == ASSUME X!Init PROVE ContextInv
<1>1. X!AllCalls = {}
  BY CallsUnderWay DEF X!Init, Entries
<1>2. xCalls \in [Threads -> Seq(X!Call)]
  BY EmptySeq DEF X!Init
<1> QED BY <1>1, <1>2 DEF X!Init, ContextInv, X!TypeOK, X!Call, TreeSound, Released, JobsHeld, X!Cascade

\* A step of the contexts keeps the invariant.
LEMMA ContextNext == ASSUME ContextInv, X!Next PROVE ContextInv'
BY CreateInv, CancelInv, DetachInv, CancelChildInv, CancelJobScopeInv, CancelJobFutureInv,
   ReturnInv, JobInv DEF X!Next

\* CascadeComplete for every tree, any threads and any jobs: whatever the order
\* of AsyncContext.__init__, submit and cancel on several threads, a context or a
\* job below a cancelled context is cancelled, or in the hands of a cancel() or a
\* submit() under way, and a cancelled context is not kept by its parent.
THEOREM CascadeTheorem == MSpec => []CascadeComplete
<1>1. MInit => ContextInv
  BY ContextInit DEF MInit
<1>2. ContextInv /\ [MNext]_mvars => ContextInv'
  <2> SUFFICES ASSUME ContextInv, [MNext]_mvars PROVE ContextInv'
    OBVIOUS
  <2>1. CASE ContextRuns
    BY <2>1, ContextNext DEF ContextRuns
  <2>2. CASE UNCHANGED contextvars
    <3>1. X!AllCalls' = X!AllCalls
      BY <2>2 DEF X!AllCalls, X!Running, contextvars
    <3> QED BY <2>2, <3>1 DEF contextvars, ContextInv, X!TypeOK, X!Call, TreeSound, Released,
                              JobsHeld, X!Cascade
  <2> QED BY <2>1, <2>2 DEF MNext, mvars, ScopesRun, GroupsRun
<1>3. ContextInv => CascadeComplete
  BY DEF ContextInv, CascadeComplete, X!NothingRetained, Released
<1> QED BY <1>1, <1>2, <1>3, PTL DEF MSpec

-----------------------------------------------------------------------------
(* Task groups *)

\* The locals of _wait_children live while it waits, and an ended wait leaves
\* no child of the group running.
WaitSound(z) ==
    /\ gPc # "wait" => gProcessed = {} /\ gExcused = {} /\ gErrors = {} /\ gSaved = 0
    /\ gPc \notin {"wait", "drain"} => gPending = {}
    /\ gPc = "start" => gStarting \in GroupChildren[z]
    /\ G(z)!Left => gExited /\ G(z)!Alive(gChildren) = {}
    /\ gPc = "drain" => gExited /\ G(z)!Alive(gChildren) \subseteq gPending
    /\ \A c \in gProcessed : G(z)!Done(c)

\* Every failure seen is an error of the group, unless start() raised it.
ErrorsKept(z) ==
    /\ \A c \in gProcessed : gChild[c] = "failed" => c \in gErrors \cup gConsumed
    /\ gErrors \cap gConsumed = {}

\* The shield holds back the cancellations it found; a later one interrupts the
\* wait.
ShieldSound(z) ==
    /\ gPc \notin {"start", "wait", "drain"} => gHost.state \in {"running", "suspended"}
    /\ gPc \in {"start", "wait", "drain"} => gHost.state = "suspended"
    /\ gPc = "out" => gHost.state = "running"
    /\ gHost.cancels + gSaved = gExt
    /\ gPc = "wait" /\ gHost.cancels > 0 => G(z)!Interrupted(gHost)

\* The group of scene z: the invariant.
GroupInv(z) ==
    G(z)!TypeOK /\ WaitSound(z) /\ ErrorsKept(z) /\ G(z)!FailuresSurface /\ ShieldSound(z) /\ G(z)!HostCancelKept

-----------------------------------------------------------------------------
(* The host task *)

\* Suspending and resuming a task keeps its count of cancellations.
LEMMA TaskSwitch ==
    ASSUME NEW z \in GroupScenes, NEW k \in G(z)!TaskType
    PROVE  /\ G(z)!Suspended(k) \in G(z)!TaskType /\ G(z)!Suspended(k).state = "suspended"
           /\ G(z)!Suspended(k).cancels = k.cancels
           /\ G(z)!Interrupted(G(z)!Suspended(k)) = k.must
           /\ G(z)!Resumed(k) \in G(z)!TaskType /\ G(z)!Resumed(k).state = "running"
           /\ G(z)!Resumed(k).cancels = k.cancels /\ ~G(z)!Resumed(k).must /\ ~G(z)!Resumed(k).thrown
BY DEF G!TaskType, G!Suspended, G!Resumed, G!Interrupted

\* n cancellations of a task that is not done are counted, and interrupt it.
LEMMA TaskCancel ==
    ASSUME NEW z \in GroupScenes, NEW k \in G(z)!TaskType, NEW n \in Nat, k.state # "done"
    PROVE  /\ G(z)!CancelTimes(k, n) \in G(z)!TaskType /\ G(z)!CancelTimes(k, n).state = k.state
           /\ G(z)!CancelTimes(k, n).cancels = k.cancels + n
           /\ n > 0 => G(z)!Interrupted(G(z)!CancelTimes(k, n))
           /\ n > 0 /\ k.state = "running" => G(z)!CancelTimes(k, n).must
           /\ n = 0 => G(z)!CancelTimes(k, n) = k
           /\ G(z)!Interrupted(k) => G(z)!Interrupted(G(z)!CancelTimes(k, n))
           /\ k.must /\ k.state = "running" => G(z)!CancelTimes(k, n).must
<1>1. CASE n = 0
  BY <1>1 DEF G!CancelTimes, G!TaskType
<1>2. CASE n # 0 /\ k.state = "suspended" /\ ~k.thrown
  <2>1. G(z)!CancelTimes(k, n) = [k EXCEPT !.cancels = @ + n, !.thrown = TRUE, !.must = n > 1]
    BY <1>2 DEF G!CancelTimes
  <2>2. (n > 1) \in BOOLEAN /\ k.cancels + n \in Nat
    BY DEF G!TaskType
  <2> QED BY <1>2, <2>1, <2>2 DEF G!TaskType, G!Interrupted
<1>3. CASE n # 0 /\ ~(k.state = "suspended" /\ ~k.thrown)
  <2>1. G(z)!CancelTimes(k, n) = [k EXCEPT !.cancels = @ + n, !.must = TRUE]
    BY <1>3 DEF G!CancelTimes
  <2>2. k.cancels + n \in Nat
    BY DEF G!TaskType
  <2> QED BY <1>3, <2>1, <2>2 DEF G!TaskType, G!Interrupted
<1> QED BY <1>1, <1>2, <1>3

\* uncancel(), as often as cancellations are counted, leaves none; and
\* cancelling the siblings leaves the count of the host as it was.
LEMMA TaskUncancel ==
    ASSUME NEW z \in GroupScenes, NEW k \in G(z)!TaskType, k.state = "running"
    PROVE  /\ G(z)!UncancelTimes(k, k.cancels) \in G(z)!TaskType
           /\ G(z)!UncancelTimes(k, k.cancels).state = "running"
           /\ G(z)!UncancelTimes(k, k.cancels).cancels = 0
           /\ G(z)!SiblingsCancelled(k) \in G(z)!TaskType
           /\ G(z)!SiblingsCancelled(k).state = "running"
           /\ G(z)!SiblingsCancelled(k).cancels = k.cancels
<1>0. ASSUME NEW m \in G(z)!TaskType, NEW n \in Nat, ~(n < m.cancels)
      PROVE  /\ G(z)!UncancelTimes(m, n) \in G(z)!TaskType /\ G(z)!UncancelTimes(m, n).state = m.state
             /\ G(z)!UncancelTimes(m, n).cancels = 0
  <2>1. PICK flag \in BOOLEAN : flag = (m.must /\ m.cancels = 0)
    BY Zenon
  <2>2. G(z)!UncancelTimes(m, n) = [m EXCEPT !.cancels = 0, !.must = m.must /\ m.cancels = 0]
    BY <1>0, Zenon DEF G!UncancelTimes
  <2>3. G(z)!UncancelTimes(m, n) = [m EXCEPT !.cancels = 0, !.must = flag]
    BY <2>1, <2>2, Zenon
  <2>4. /\ [m EXCEPT !.cancels = 0, !.must = flag] \in G(z)!TaskType
        /\ [m EXCEPT !.cancels = 0, !.must = flag].state = m.state
        /\ [m EXCEPT !.cancels = 0, !.must = flag].cancels = 0
    BY ONLY m \in G(z)!TaskType, flag \in BOOLEAN DEF G!TaskType
  <2> QED BY <2>3, <2>4, Zenon
<1>1. /\ G(z)!UncancelTimes(k, k.cancels) \in G(z)!TaskType
      /\ G(z)!UncancelTimes(k, k.cancels).state = "running"
      /\ G(z)!UncancelTimes(k, k.cancels).cancels = 0
  <2>1. k.cancels \in Nat /\ ~(k.cancels < k.cancels)
    BY DEF G!TaskType
  <2> QED BY <1>0, <2>1
<1>2. /\ G(z)!CancelTimes(k, 1) \in G(z)!TaskType /\ G(z)!CancelTimes(k, 1).state = "running"
      /\ G(z)!CancelTimes(k, 1).cancels = k.cancels + 1
  BY TaskCancel
<1>3. ASSUME NEW m \in G(z)!TaskType, m.cancels \in Nat \ {0}
      PROVE  /\ G(z)!UncancelTimes(m, 1) \in G(z)!TaskType /\ G(z)!UncancelTimes(m, 1).state = m.state
             /\ G(z)!UncancelTimes(m, 1).cancels = m.cancels - 1
  <2>1. CASE 1 < m.cancels
    <3>1. G(z)!UncancelTimes(m, 1) = [m EXCEPT !.cancels = @ - 1] /\ m.cancels - 1 \in Nat
      BY <1>3, <2>1 DEF G!UncancelTimes
    <3> QED BY <3>1 DEF G!TaskType
  <2>2. CASE ~(1 < m.cancels)
    BY <1>0, <1>3, <2>2
  <2> QED BY <2>1, <2>2
<1>4. k.cancels + 1 \in Nat \ {0} /\ (k.cancels + 1) - 1 = k.cancels
  BY DEF G!TaskType
<1> QED BY <1>1, <1>2, <1>3, <1>4 DEF G!SiblingsCancelled

-----------------------------------------------------------------------------
(* Children and body *)

\* A step of a child: it ends, or is created, or the requests on it change.
LEMMA ChildInv ==
    ASSUME NEW z \in GroupScenes, G(z)!GroupParams, GroupInv(z), NEW c \in GroupChildren[z],
           G(z)!End(c) \/ G(z)!Started(c) \/ G(z)!Uncancel(c) \/ G(z)!start_soon(c) \/ G(z)!cancel_all(c)
    PROVE  GroupInv(z)'
<1>1. /\ gChild \in [GroupChildren[z] -> {"unborn", "pending", "ok", "failed", "cancelled"}]
      /\ gAsked \subseteq GroupChildren[z] /\ gCalled \subseteq GroupChildren[z] /\ gChildren \subseteq GroupChildren[z]
  BY DEF GroupInv, G!TypeOK
<1>2. /\ UNCHANGED <<gHost, gPc, gExc, gStarting, G(z)!locals, G(z)!outcome, gEntries, gExt, gConsumed, gExited,
                     gCancelCalled, gOnstack>>
      /\ gAsked' \subseteq GroupChildren[z] /\ gCalled' \subseteq GroupChildren[z]
      /\ gChildren' \subseteq GroupChildren[z]
      /\ gChild' \in [GroupChildren[z] -> {"unborn", "pending", "ok", "failed", "cancelled"}]
  BY <1>1 DEF G!End, G!Started, G!Uncancel, G!start_soon, G!cancel_all, G!Spawn, G!group, G!locals, G!outcome
<1>3. /\ \A x \in GroupChildren[z] : G(z)!Done(x) => gChild'[x] = gChild[x]
      /\ gExited => gChildren' = gChildren
  BY <1>1 DEF G!End, G!Started, G!Uncancel, G!start_soon, G!cancel_all, G!Spawn, G!group, G!Done
<1>4. \A x \in GroupChildren[z] : G(z)!Done(x) => G(z)!Done(x)'
  BY <1>3 DEF G!Done
<1>5. G(z)!TypeOK'
  BY <1>2 DEF GroupInv, G!TypeOK, G!locals, G!outcome
<1>6. \A K \in SUBSET GroupChildren[z] : G(z)!Alive(K) = {} => G(z)!Alive(K)' = {}
  BY <1>4 DEF G!Alive
<1>7. gProcessed \subseteq GroupChildren[z] /\ gPending \subseteq GroupChildren[z]
  BY DEF GroupInv, G!TypeOK
<1>8. WaitSound(z)'
  <2>1. \A x \in gProcessed' : G(z)!Done(x)'
    BY <1>2, <1>4, <1>7 DEF GroupInv, WaitSound, G!locals
  <2>2. G(z)!Left' => gExited' /\ G(z)!Alive(gChildren)' = {}
    BY <1>1, <1>2, <1>3, <1>6 DEF GroupInv, WaitSound, G!Left
  <2>3. gPc' = "drain" => gExited' /\ G(z)!Alive(gChildren)' \subseteq gPending'
    BY <1>1, <1>2, <1>3, <1>4 DEF GroupInv, WaitSound, G!Alive, G!locals
  <2> QED BY <1>2, <2>1, <2>2, <2>3 DEF GroupInv, WaitSound, G!locals
<1>9. ErrorsKept(z)'
  BY <1>2, <1>3, <1>7 DEF GroupInv, WaitSound, ErrorsKept, G!locals
<1>10. G(z)!FailuresSurface'
  BY <1>1, <1>2, <1>3 DEF GroupInv, WaitSound, G!Alive, G!FailuresSurface, G!Left, G!outcome
<1>11. ShieldSound(z)' /\ G(z)!HostCancelKept'
  BY <1>2 DEF GroupInv, ShieldSound, G!HostCancelKept, G!Left, G!Interrupted, G!locals, G!outcome
<1> QED BY <1>5, <1>8, <1>9, <1>10, <1>11 DEF GroupInv

\* The block is entered: what an earlier block left behind is forgotten.
LEMMA EnterInv ==
    ASSUME NEW z \in GroupScenes, G(z)!GroupParams, GroupInv(z), G(z)!Enter
    PROVE  GroupInv(z)'
<1>1. /\ gPc = "out" /\ gPc' = "body" /\ gExc' = G(z)!None /\ gEntries' \in 0..GroupEntries[z]
      /\ gChildren' \subseteq GroupChildren[z] /\ gConsumed' \subseteq GroupChildren[z]
      /\ gExited' = FALSE /\ gOnstack' = TRUE
      /\ UNCHANGED <<G(z)!kids, gCancelCalled, gHost, gStarting, G(z)!locals, G(z)!outcome, gExt>>
  BY DEF G!Enter, G!GroupParams, GroupInv, G!TypeOK
<1>2. G(z)!TypeOK'
  BY <1>1 DEF GroupInv, G!TypeOK, G!kids, G!locals, G!outcome
<1>3. WaitSound(z)' /\ ErrorsKept(z)'
  BY <1>1 DEF GroupInv, WaitSound, ErrorsKept, G!Left, G!locals
<1>4. G(z)!FailuresSurface' /\ G(z)!HostCancelKept'
  BY <1>1 DEF G!FailuresSurface, G!HostCancelKept, G!Left
<1>5. ShieldSound(z)'
  BY <1>1 DEF GroupInv, ShieldSound, G!locals
<1> QED BY <1>2, <1>3, <1>4, <1>5 DEF GroupInv

\* The body awaits, resumes, raises, or handles what was raised.
LEMMA BodyInv ==
    ASSUME NEW z \in GroupScenes, G(z)!GroupParams, GroupInv(z), G(z)!BodyAwait \/ G(z)!BodyResume \/ G(z)!BodyFail \/ G(z)!BodyCatch
    PROVE  GroupInv(z)'
<1>1. /\ gPc = "body" /\ gPc' = "body" /\ gHost \in G(z)!TaskType
      /\ UNCHANGED <<G(z)!kids, G(z)!group, gStarting, G(z)!locals, G(z)!outcome, gEntries, gExt>>
      /\ gExc' \in {G(z)!None, "cancelled", "error"}
      /\ gHost' \in {gHost, G(z)!Suspended(gHost), G(z)!Resumed(gHost)}
  BY DEF G!BodyAwait, G!BodyResume, G!BodyFail, G!BodyCatch, GroupInv, G!TypeOK
<1>2. /\ gHost' \in G(z)!TaskType /\ gHost'.cancels = gHost.cancels
      /\ gHost'.state \in {"running", "suspended"}
  BY <1>1, TaskSwitch DEF GroupInv, ShieldSound
<1>3. G(z)!TypeOK'
  BY <1>1, <1>2 DEF GroupInv, G!TypeOK, G!kids, G!group, G!locals, G!outcome
<1>4. WaitSound(z)' /\ ErrorsKept(z)'
  BY <1>1 DEF GroupInv, WaitSound, ErrorsKept, G!Left, G!kids, G!group, G!locals
<1>5. G(z)!FailuresSurface' /\ G(z)!HostCancelKept'
  BY <1>1 DEF G!FailuresSurface, G!HostCancelKept, G!Left
<1>6. ShieldSound(z)'
  BY <1>1, <1>2 DEF GroupInv, ShieldSound, G!locals
<1> QED BY <1>3, <1>4, <1>5, <1>6 DEF GroupInv

\* start() creates a child and waits for it, and goes on.
LEMMA StartInv ==
    ASSUME NEW z \in GroupScenes, G(z)!GroupParams, GroupInv(z), (\E c \in GroupChildren[z] : G(z)!StartCall(c)) \/ G(z)!StartReturn
    PROVE  GroupInv(z)'
<1>1. /\ gPc \in {"body", "start"} /\ gHost \in G(z)!TaskType
      /\ gChildren \subseteq GroupChildren[z] /\ gAsked \subseteq GroupChildren[z] /\ gConsumed \subseteq GroupChildren[z]
      /\ gChild \in [GroupChildren[z] -> {"unborn", "pending", "ok", "failed", "cancelled"}]
      /\ gStarting \in GroupChildren[z] \cup {G(z)!None}
      /\ UNCHANGED <<gCalled, gExited, gCancelCalled, gOnstack, G(z)!locals, G(z)!outcome, gEntries, gExt>>
  BY DEF G!StartCall, G!StartReturn, GroupInv, G!TypeOK
<1>2. CASE \E c \in GroupChildren[z] : G(z)!StartCall(c)
  <2>1. /\ gPc' = "start" /\ gStarting' \in GroupChildren[z] /\ gHost' = G(z)!Suspended(gHost)
        /\ gChildren' \subseteq GroupChildren[z] /\ gAsked' \subseteq GroupChildren[z]
        /\ gChild' \in [GroupChildren[z] -> {"unborn", "pending", "ok", "failed", "cancelled"}]
        /\ UNCHANGED <<gConsumed, gExc>>
    BY <1>1, <1>2 DEF G!StartCall, G!Spawn
  <2>2. gHost' \in G(z)!TaskType /\ gHost'.cancels = gHost.cancels /\ gHost'.state = "suspended"
    BY <1>1, <2>1, TaskSwitch
  <2>3. G(z)!TypeOK'
    BY <1>1, <2>1, <2>2 DEF GroupInv, G!TypeOK, G!locals, G!outcome
  <2>4. WaitSound(z)' /\ ErrorsKept(z)'
    BY <1>1, <2>1 DEF GroupInv, WaitSound, ErrorsKept, G!Left, G!locals
  <2>5. G(z)!FailuresSurface' /\ G(z)!HostCancelKept'
    BY <2>1 DEF G!FailuresSurface, G!HostCancelKept, G!Left
  <2>6. ShieldSound(z)'
    BY <1>1, <2>1, <2>2 DEF GroupInv, ShieldSound, G!locals
  <2> QED BY <2>3, <2>4, <2>5, <2>6 DEF GroupInv
<1>3. CASE G(z)!StartReturn
  <2>1. gStarting \in GroupChildren[z]
    BY <1>3 DEF G!StartReturn, GroupInv, WaitSound
  <2>2. /\ gPc = "start" /\ gPc' = "body" /\ gStarting' = G(z)!None /\ gHost' = G(z)!Resumed(gHost)
        /\ gConsumed' \in {gConsumed, gConsumed \cup {gStarting}}
        /\ gAsked' \in {gAsked, gAsked \cup G(z)!Alive(gChildren)}
        /\ UNCHANGED <<gChild, gChildren>>
    BY <1>3 DEF G!StartReturn
  <2>3. gExc' \in {G(z)!None, "cancelled", "error"}
    BY <1>3 DEF G!StartReturn
  <2>4. gHost' \in G(z)!TaskType /\ gHost'.cancels = gHost.cancels /\ gHost'.state = "running"
    BY <1>1, <2>2, TaskSwitch
  <2>5. gAsked' \subseteq GroupChildren[z] /\ gConsumed' \subseteq GroupChildren[z]
    BY <1>1, <2>1, <2>2 DEF G!Alive
  <2>6. G(z)!TypeOK'
    BY <1>1, <2>2, <2>3, <2>4, <2>5 DEF GroupInv, G!TypeOK, G!locals, G!outcome
  <2>7. WaitSound(z)' /\ ErrorsKept(z)'
    BY <1>1, <2>2 DEF GroupInv, WaitSound, ErrorsKept, G!Left, G!locals
  <2>8. G(z)!FailuresSurface' /\ G(z)!HostCancelKept'
    BY <2>2 DEF G!FailuresSurface, G!HostCancelKept, G!Left
  <2>9. ShieldSound(z)'
    BY <1>1, <2>2, <2>4 DEF GroupInv, ShieldSound, G!locals
  <2> QED BY <2>6, <2>7, <2>8, <2>9 DEF GroupInv
<1> QED BY <1>2, <1>3

-----------------------------------------------------------------------------
(* The exit *)

\* A turn of _wait_children: it waits again, or leaves the block.
LEMMA TurnInv ==
    ASSUME NEW z \in GroupScenes, G(z)!GroupParams, GroupInv(z), gPc \in {"body", "wait"},
           NEW k \in G(z)!TaskType, k.state = "running", k.cancels = 0,
           NEW sv \in Nat, sv = gExt, NEW cut \in SUBSET GroupChildren[z], G(z)!Turn(k, sv, cut)
    PROVE  GroupInv(z)'
<1> DEFINE seen == gPending \cup G(z)!Absorb
           es == gErrors \cup {c \in seen : G(z)!Done(c) /\ G(z)!Reportable(c)}
           rest == G(z)!Alive(seen)
           hit == cut \cup (CASE es = {} -> {}
                              [] es # {} /\ gErrors = {} -> rest
                              [] es # {} /\ gErrors # {} -> rest \ gPending)
           k2 == IF es # {} /\ ~gCancelCalled THEN G(z)!SiblingsCancelled(k) ELSE k
<1>1. /\ gAsked' = gAsked \cup hit
      /\ gCancelCalled' = (gCancelCalled \/ es # {})
      /\ UNCHANGED <<gChild, gCalled, gChildren, gConsumed, gExc, gStarting, gEntries, gExt>>
      /\ \/ rest = {} /\ G(z)!Leave(es, k2, sv)
         \/ /\ rest # {}
            /\ gPending' = rest
            /\ gProcessed' = gProcessed \cup (seen \ rest)
            /\ gExcused' = gExcused \cup hit
            /\ gErrors' = es /\ gSaved' = sv
            /\ gHost' = G(z)!Suspended(k2) /\ gPc' = "wait"
            /\ UNCHANGED <<gExited, gOnstack, G(z)!outcome>>
  BY DEF G!Turn
<1>2. /\ gPending \subseteq GroupChildren[z] /\ gProcessed \subseteq GroupChildren[z] /\ gChildren \subseteq GroupChildren[z]
      /\ gErrors \subseteq GroupChildren[z] /\ gAsked \subseteq GroupChildren[z] /\ gExcused \subseteq GroupChildren[z]
      /\ gConsumed \subseteq GroupChildren[z] /\ gCalled \subseteq GroupChildren[z]
      /\ gExc \in {G(z)!None, "cancelled", "error"} /\ gCancelCalled \in BOOLEAN
      /\ gEntries \in 0..GroupEntries[z] /\ gExt \in Nat
  BY DEF GroupInv, G!TypeOK, G!GroupParams
<1>3. seen \subseteq GroupChildren[z] /\ es \subseteq GroupChildren[z] /\ rest \subseteq seen
  BY <1>2 DEF G!Absorb, G!Alive
<1>4. hit \subseteq GroupChildren[z]
  BY <1>2, <1>3
<1>5. k2 \in G(z)!TaskType /\ k2.state = "running" /\ k2.cancels = 0
  BY TaskUncancel
<1>6. /\ \A c \in gProcessed : G(z)!Done(c) /\ (gChild[c] = "failed" => c \in es \cup gConsumed)
      /\ \A c \in seen \ rest : G(z)!Done(c) /\ (gChild[c] = "failed" => c \in es \cup gConsumed)
      /\ es \cap gConsumed = {}
  BY DEF GroupInv, WaitSound, ErrorsKept, G!Reportable, G!Alive
<1>7. gChildren \subseteq gProcessed \cup seen
  BY DEF G!Absorb
<1> HIDE DEF seen, es, rest, hit, k2
<1>8. gAsked' \subseteq GroupChildren[z] /\ gCancelCalled' \in BOOLEAN
  BY <1>1, <1>2, <1>4
<1>9. CASE rest = {} /\ G(z)!Leave(es, k2, sv)
  <2> DEFINE h == G(z)!CancelTimes(k2, sv)
  <2>1. /\ gExited' = TRUE /\ gOnstack' = FALSE /\ gPc' = "out" /\ gHost' = h
        /\ gPending' = {} /\ gProcessed' = {} /\ gExcused' = {} /\ gErrors' = {} /\ gSaved' = 0
        /\ gReported' = IF gExc = "cancelled" THEN {} ELSE es
    BY <1>9 DEF G!Leave
  <2>2. /\ gResult' \in {G(z)!None, "cancelled", "error"}
        /\ gResult' = G(z)!None => gExc = G(z)!None /\ es = {}
        /\ gExc = "cancelled" => gResult' = "cancelled"
    BY <1>2, <1>9 DEF G!Leave, G!None
  <2>3. /\ h \in G(z)!TaskType /\ h.state = "running" /\ h.cancels = sv
        /\ sv > 0 => h.must
    BY <1>5, TaskCancel
  <2> HIDE DEF h
  <2>4. G(z)!TypeOK'
    <3>1. gReported' \subseteq GroupChildren[z]
      BY <1>3, <2>1
    <3>2. gHost' \in G(z)!TaskType
      BY <2>1, <2>3
    <3>3. \A K \in {gAsked', gCalled', gChildren', gConsumed', gPending', gProcessed', gExcused',
                   gErrors', gReported'} : K \subseteq GroupChildren[z]
      BY <1>1, <1>2, <1>8, <2>1, <3>1
    <3>4. /\ gResult' \in {G(z)!None, "cancelled", "error"} /\ gExited' \in BOOLEAN
          /\ gOnstack' \in BOOLEAN /\ gSaved' \in Nat
      BY <2>1, <2>2
    <3> QED BY <1>1, <1>8, <2>1, <3>2, <3>3, <3>4 DEF GroupInv, G!TypeOK
  <2>5. \A c \in gChildren : G(z)!Done(c) /\ (gChild[c] = "failed" => c \in es \cup gConsumed)
    BY <1>6, <1>7, <1>9
  <2>6. G(z)!Alive(gChildren)' = {}
    BY <1>1, <2>5 DEF G!Alive, G!Done
  <2>7. WaitSound(z)' /\ ErrorsKept(z)'
    BY <2>1, <2>6 DEF WaitSound, ErrorsKept
  <2>8. G(z)!FailuresSurface'
    <3>1. ASSUME gResult' # "cancelled", NEW c \in gChildren', gChild'[c] = "failed"
          PROVE  c \in gReported' \cup gConsumed'
      BY <1>1, <2>1, <2>2, <2>5, <3>1
    <3>2. gReported' \cap gConsumed' = {} /\ (gResult' = G(z)!None => gReported' = {})
      BY <1>1, <1>6, <2>1, <2>2
    <3> QED BY <3>1, <3>2 DEF G!FailuresSurface
  <2>9. ShieldSound(z)' /\ G(z)!HostCancelKept'
    BY <1>1, <1>2, <2>1, <2>3 DEF ShieldSound, G!HostCancelKept
  <2> QED BY <2>4, <2>7, <2>8, <2>9 DEF GroupInv
<1>10. CASE /\ rest # {}
            /\ gPending' = rest
            /\ gProcessed' = gProcessed \cup (seen \ rest)
            /\ gExcused' = gExcused \cup hit
            /\ gErrors' = es /\ gSaved' = sv
            /\ gHost' = G(z)!Suspended(k2) /\ gPc' = "wait"
            /\ UNCHANGED <<gExited, gOnstack, G(z)!outcome>>
  <2>1. gHost' \in G(z)!TaskType /\ gHost'.state = "suspended" /\ gHost'.cancels = 0
    BY <1>5, <1>10, TaskSwitch
  <2>2. G(z)!TypeOK'
    BY <1>1, <1>2, <1>3, <1>4, <1>8, <1>10, <2>1 DEF GroupInv, G!TypeOK, G!outcome
  <2>3. \A c \in gProcessed' : G(z)!Done(c)' /\ (gChild'[c] = "failed" => c \in es \cup gConsumed)
    BY <1>1, <1>6, <1>10 DEF G!Done
  <2>4. WaitSound(z)' /\ ErrorsKept(z)'
    BY <1>1, <1>6, <1>10, <2>3 DEF WaitSound, ErrorsKept, G!Left
  <2>5. G(z)!FailuresSurface' /\ G(z)!HostCancelKept'
    BY <1>10 DEF G!FailuresSurface, G!HostCancelKept, G!Left
  <2>6. ShieldSound(z)'
    BY <1>1, <1>2, <1>10, <2>1 DEF ShieldSound
  <2> QED BY <2>2, <2>4, <2>5, <2>6 DEF GroupInv
<1> QED BY <1>1, <1>9, <1>10

\* __aexit__ up to the first wait.
LEMMA ExitInv ==
    ASSUME NEW z \in GroupScenes, G(z)!GroupParams, GroupInv(z), G(z)!Exit
    PROVE  GroupInv(z)'
<1>1. /\ gPc = "body" /\ gHost.state = "running" /\ gHost \in G(z)!TaskType /\ gHost.cancels = gExt
      /\ gExt \in Nat
  BY DEF G!Exit, GroupInv, G!TypeOK, WaitSound, ShieldSound, G!GroupParams, G!TaskType
<1>2. PICK k \in G(z)!TaskType : k = G(z)!UncancelTimes(gHost, gHost.cancels)
  BY <1>1, TaskUncancel
<1>3. k.state = "running" /\ k.cancels = 0
  BY <1>1, <1>2, TaskUncancel
<1>4. PICK sv \in Nat : sv = gExt
  BY <1>1
<1>5. PICK cut \in SUBSET GroupChildren[z] : cut = IF gExc = G(z)!None THEN {} ELSE G(z)!Alive(gChildren)
  BY DEF GroupInv, G!TypeOK, G!Alive
<1>6. G(z)!Turn(k, sv, cut)
  BY <1>1, <1>2, <1>4, <1>5 DEF G!Exit
<1> QED BY <1>1, <1>3, <1>4, <1>6, TurnInv

\* A child that was waited for is done.
LEMMA WakeInv ==
    ASSUME NEW z \in GroupScenes, G(z)!GroupParams, GroupInv(z), G(z)!Wake
    PROVE  GroupInv(z)'
<1>1. /\ gPc = "wait" /\ ~G(z)!Interrupted(gHost) /\ gHost \in G(z)!TaskType /\ gExt \in Nat /\ gSaved \in Nat
      /\ gHost.cancels + gSaved = gExt /\ ~(gHost.cancels > 0) /\ gHost.cancels \in Nat
  BY DEF G!Wake, GroupInv, G!TypeOK, ShieldSound, G!GroupParams, G!TaskType
<1>2. PICK k \in G(z)!TaskType : k = G(z)!Resumed(gHost)
  BY <1>1, TaskSwitch
<1>3. k.state = "running" /\ k.cancels = 0
  BY <1>1, <1>2, TaskSwitch
<1>4. PICK sv \in Nat : sv = gExt /\ sv = gSaved
  BY <1>1
<1>5. PICK cut \in SUBSET GroupChildren[z] : cut = {}
  OBVIOUS
<1>6. G(z)!Turn(k, sv, cut)
  BY <1>2, <1>4, <1>5 DEF G!Wake
<1> QED BY <1>1, <1>3, <1>4, <1>6, TurnInv

\* The host is cancelled while it waits.
LEMMA InterruptInv ==
    ASSUME NEW z \in GroupScenes, G(z)!GroupParams, GroupInv(z), G(z)!Interrupt
    PROVE  GroupInv(z)'
<1> DEFINE k == G(z)!CancelTimes(G(z)!Resumed(gHost), gSaved)
           remaining == G(z)!Alive(gChildren)
<1>1. /\ gPc = "wait" /\ gExited' = TRUE /\ gAsked' = gAsked \cup remaining
      /\ gPending' = remaining /\ gProcessed' = {} /\ gExcused' = {} /\ gErrors' = {}
      /\ gSaved' = 0
      /\ UNCHANGED <<gChild, gCalled, gChildren, gConsumed, gCancelCalled, gOnstack, gExc,
                     gStarting, gEntries, gExt>>
      /\ \/ /\ remaining # {} /\ gHost' = G(z)!Suspended(k) /\ gPc' = "drain"
            /\ UNCHANGED G(z)!outcome
         \/ /\ remaining = {} /\ gHost' = k /\ gPc' = "out"
            /\ gResult' = "cancelled" /\ gReported' = {}
  BY DEF G!Interrupt
<1>2. /\ gHost \in G(z)!TaskType /\ gSaved \in Nat /\ gExt \in Nat /\ gHost.cancels + gSaved = gExt
      /\ gAsked \subseteq GroupChildren[z] /\ gChildren \subseteq GroupChildren[z]
  BY DEF GroupInv, G!TypeOK, ShieldSound, G!GroupParams
<1>3. /\ G(z)!Resumed(gHost) \in G(z)!TaskType /\ G(z)!Resumed(gHost).state = "running"
      /\ G(z)!Resumed(gHost).cancels = gHost.cancels
  BY <1>2, TaskSwitch
<1>4. k \in G(z)!TaskType /\ k.state = "running" /\ k.cancels = gExt
  BY <1>2, <1>3, TaskCancel
<1>5. G(z)!Suspended(k) \in G(z)!TaskType /\ G(z)!Suspended(k).state = "suspended" /\ G(z)!Suspended(k).cancels = gExt
  BY <1>4, TaskSwitch
<1>6. remaining \subseteq GroupChildren[z] /\ G(z)!Alive(gChildren)' = remaining
  BY <1>1, <1>2 DEF G!Alive, G!Done
<1> HIDE DEF k, remaining
<1>7. G(z)!TypeOK'
  BY <1>1, <1>2, <1>4, <1>5, <1>6 DEF GroupInv, G!TypeOK, G!outcome
<1>8. WaitSound(z)' /\ ErrorsKept(z)'
  BY <1>1, <1>6 DEF WaitSound, ErrorsKept, G!Left
<1>9. G(z)!FailuresSurface'
  BY <1>1 DEF G!FailuresSurface, G!Left
<1>10. ShieldSound(z)' /\ G(z)!HostCancelKept'
  BY <1>1, <1>2, <1>4, <1>5 DEF ShieldSound, G!HostCancelKept, G!Left
<1> QED BY <1>7, <1>8, <1>9, <1>10 DEF GroupInv

\* The drain, cancelled once more or over.
LEMMA DrainInv ==
    ASSUME NEW z \in GroupScenes, G(z)!GroupParams, GroupInv(z), G(z)!Drain
    PROVE  GroupInv(z)'
<1>1. /\ gPc = "drain" /\ gHost \in G(z)!TaskType /\ gSaved = 0 /\ gExt \in Nat /\ gHost.cancels = gExt
      /\ gExited /\ G(z)!Alive(gChildren) \subseteq gPending
      /\ UNCHANGED <<G(z)!kids, G(z)!group, gExc, gStarting, gProcessed, gExcused, gErrors, gSaved, gEntries, gExt>>
  BY DEF G!Drain, GroupInv, G!TypeOK, WaitSound, ShieldSound, G!GroupParams, G!TaskType
<1>2. G(z)!Alive(gChildren)' = G(z)!Alive(gChildren) /\ \A c : G(z)!Done(c)' = G(z)!Done(c)
  BY <1>1 DEF G!Alive, G!Done, G!kids, G!group
<1>3. CASE gHost' = G(z)!Suspended(G(z)!Resumed(gHost)) /\ UNCHANGED <<gPc, gPending, G(z)!outcome>>
  <2>1. G(z)!Resumed(gHost) \in G(z)!TaskType /\ G(z)!Resumed(gHost).cancels = gExt
    BY <1>1, TaskSwitch
  <2>2. gHost' \in G(z)!TaskType /\ gHost'.state = "suspended" /\ gHost'.cancels = gExt
    BY <1>3, <2>1, TaskSwitch
  <2>3. G(z)!TypeOK'
    BY <1>1, <1>3, <2>2 DEF GroupInv, G!TypeOK, G!kids, G!group, G!outcome
  <2>4. WaitSound(z)' /\ ErrorsKept(z)'
    BY <1>1, <1>2, <1>3 DEF GroupInv, WaitSound, ErrorsKept, G!Left, G!kids, G!group
  <2>5. G(z)!FailuresSurface' /\ G(z)!HostCancelKept'
    BY <1>1, <1>3 DEF G!FailuresSurface, G!HostCancelKept, G!Left
  <2>6. ShieldSound(z)'
    BY <1>1, <1>3, <2>2 DEF ShieldSound
  <2> QED BY <2>3, <2>4, <2>5, <2>6 DEF GroupInv
<1>4. CASE /\ G(z)!Alive(gPending) = {} /\ gHost' = G(z)!Resumed(gHost) /\ gPc' = "out"
           /\ gResult' = "cancelled" /\ gReported' = {} /\ gPending' = {}
  <2>1. gHost' \in G(z)!TaskType /\ gHost'.state = "running" /\ gHost'.cancels = gExt
    BY <1>1, <1>4, TaskSwitch
  <2>2. G(z)!Alive(gChildren) = {}
    BY <1>1, <1>4 DEF G!Alive
  <2>3. G(z)!TypeOK'
    BY <1>1, <1>4, <2>1 DEF GroupInv, G!TypeOK, G!kids, G!group
  <2>4. WaitSound(z)' /\ ErrorsKept(z)'
    BY <1>1, <1>2, <1>4, <2>2 DEF GroupInv, WaitSound, ErrorsKept, G!Left, G!kids, G!group
  <2>5. G(z)!FailuresSurface'
    BY <1>4 DEF G!FailuresSurface
  <2>6. ShieldSound(z)' /\ G(z)!HostCancelKept'
    BY <1>1, <1>4, <2>1 DEF ShieldSound, G!HostCancelKept
  <2> QED BY <2>3, <2>4, <2>5, <2>6 DEF GroupInv
<1> QED BY <1>3, <1>4 DEF G!Drain

\* A cancellation of the host from outside.
LEMMA FromOutsideInv ==
    ASSUME NEW z \in GroupScenes, G(z)!GroupParams, GroupInv(z), G(z)!External
    PROVE  GroupInv(z)'
<1>1. /\ gExt' = gExt + 1 /\ gExt' \in 0..GroupExternal[z] /\ gHost' = G(z)!CancelTimes(gHost, 1)
      /\ UNCHANGED <<G(z)!kids, G(z)!group, gPc, gExc, gStarting, G(z)!locals, G(z)!outcome, gEntries>>
      /\ gHost \in G(z)!TaskType /\ gHost.state # "done" /\ gExt \in Nat /\ gSaved \in Nat
      /\ gHost.cancels \in Nat
  BY DEF G!External, GroupInv, G!TypeOK, ShieldSound, G!GroupParams, G!TaskType
<1>2. /\ gHost' \in G(z)!TaskType /\ gHost'.state = gHost.state /\ gHost'.cancels = gHost.cancels + 1
      /\ G(z)!Interrupted(gHost') /\ (gHost.state = "running" => gHost'.must)
  BY <1>1, TaskCancel
<1>3. G(z)!TypeOK'
  BY <1>1, <1>2 DEF GroupInv, G!TypeOK, G!kids, G!group, G!locals, G!outcome
<1>4. G(z)!Alive(gChildren)' = G(z)!Alive(gChildren) /\ \A c : G(z)!Done(c)' = G(z)!Done(c)
  BY <1>1 DEF G!Alive, G!Done, G!kids, G!group
<1>5. WaitSound(z)' /\ ErrorsKept(z)'
  BY <1>1, <1>4 DEF GroupInv, WaitSound, ErrorsKept, G!Left, G!kids, G!group, G!locals
<1>6. G(z)!FailuresSurface'
  BY <1>1 DEF GroupInv, G!FailuresSurface, G!Left, G!kids, G!group, G!outcome
<1>7. ShieldSound(z)' /\ G(z)!HostCancelKept'
  BY <1>1, <1>2 DEF GroupInv, ShieldSound, G!HostCancelKept, G!Left, G!locals, G!Interrupted
<1> QED BY <1>3, <1>5, <1>6, <1>7 DEF GroupInv

-----------------------------------------------------------------------------
(* The theorem *)

\* A new group is in the invariant.
LEMMA GroupInit == ASSUME NEW z \in GroupScenes, G(z)!GroupParams, G(z)!Init PROVE GroupInv(z)
<1>1. G(z)!TypeOK
  <2>1. G(z)!FreshTask \in G(z)!TaskType
    BY DEF G!TaskType, G!FreshTask
  <2>2. 0 \in 0..GroupEntries[z] /\ 0 \in 0..GroupExternal[z]
    BY DEF G!GroupParams
  <2> QED BY <2>1, <2>2 DEF G!Init, G!TypeOK
<1>2. WaitSound(z) /\ ErrorsKept(z) /\ G(z)!FailuresSurface /\ G(z)!HostCancelKept
  BY DEF G!Init, WaitSound, ErrorsKept, G!FailuresSurface, G!HostCancelKept, G!Left
<1>3. ShieldSound(z)
  BY DEF G!Init, ShieldSound, G!FreshTask
<1> QED BY <1>1, <1>2, <1>3 DEF GroupInv

\* Every step of a child, of the host and from outside keeps it.
LEMMA GroupNext ==
    ASSUME NEW z \in GroupScenes, G(z)!GroupParams, GroupInv(z), G(z)!Next
    PROVE  GroupInv(z)'
BY ChildInv, EnterInv, BodyInv, StartInv, ExitInv, WakeInv, InterruptInv, DrainInv, FromOutsideInv
   DEF G!Next

\* The invariant speaks of no other variables.
LEMMA GroupStutter ==
    ASSUME NEW z \in GroupScenes, GroupInv(z), UNCHANGED G(z)!vars
    PROVE  GroupInv(z)'
<1>1. G(z)!Alive(gChildren)' = G(z)!Alive(gChildren) /\ \A c : G(z)!Done(c)' = G(z)!Done(c)
  BY DEF G!Alive, G!Done, G!vars, G!kids, G!group
<1> QED BY <1>1
        DEF G!vars, G!kids, G!group, G!locals, G!outcome, GroupInv, G!TypeOK, WaitSound, ErrorsKept,
            G!FailuresSurface, ShieldSound, G!HostCancelKept, G!Left, G!Interrupted

\* What the invariant is for.
LEMMA GroupSound ==
    ASSUME NEW z \in GroupScenes, GroupInv(z)
    PROVE  G(z)!TypeOK /\ G(z)!ChildrenFinished /\ G(z)!FailuresSurface /\ G(z)!HostCancelKept
BY DEF GroupInv, WaitSound, G!ChildrenFinished

\* TaskGroup (_taskgroup.py), for any number of children, entries and
\* cancellations: no child of the group runs when the block is left, however
\* often the host is cancelled meanwhile; every failure of a child is raised by
\* the block or by its start(), never by both; and the cancellations of the host
\* that came from outside are counted, and raised or due.
THEOREM GroupTheorem ==
    ASSUME NEW z \in GroupScenes, G(z)!GroupParams
    PROVE  G(z)!Spec => [](G(z)!ChildrenFinished /\ G(z)!FailuresSurface /\ G(z)!HostCancelKept)
<1>1. G(z)!Init => GroupInv(z)
  BY GroupInit
<1>2. GroupInv(z) /\ [G(z)!Next]_(G(z)!vars) => GroupInv(z)'
  BY GroupNext, GroupStutter
<1>3. GroupInv(z) => G(z)!ChildrenFinished /\ G(z)!FailuresSurface /\ G(z)!HostCancelKept
  BY GroupSound
<1> QED BY <1>1, <1>2, <1>3, PTL DEF G!Spec

\* The group on stage satisfies the invariant.
GroupsInv == \A z \in GroupScenes : scene = z => GroupInv(z)

\* The groups of both scenes start in it.
LEMMA GroupsInit == MInit => GroupsInv
<1> SUFFICES ASSUME MInit, NEW z \in GroupScenes, scene = z PROVE GroupInv(z)
  BY DEF GroupsInv
<1> QED BY GroupInit, InstanceAssumptions DEF MInit

\* Every step of every scene keeps it.
LEMMA GroupsNext == GroupsInv /\ [MNext]_mvars => GroupsInv'
<1> SUFFICES ASSUME GroupsInv, [MNext]_mvars, NEW z \in GroupScenes, scene' = z
             PROVE  GroupInv(z)'
  BY DEF GroupsInv
<1>1. CASE GroupsRun
  BY <1>1, GroupNext, InstanceAssumptions DEF GroupsRun, GroupsInv
<1>2. CASE UNCHANGED <<scene, groupvars>>
  <2>1. GroupInv(z) /\ UNCHANGED G(z)!vars
    BY <1>2 DEF GroupsInv, groupvars, G!vars, G!kids, G!group, G!locals, G!outcome
  <2> QED BY <2>1, GroupStutter
<1> QED BY <1>1, <1>2 DEF MNext, mvars, ScopesRun, ContextRuns

\* What it is for.
LEMMA GroupsSound ==
    ASSUME GroupsInv, NEW z \in GroupScenes, scene = z
    PROVE  G(z)!TypeOK /\ G(z)!ChildrenFinished /\ G(z)!FailuresSurface /\ G(z)!HostCancelKept
BY GroupSound DEF GroupsInv

\* TaskGroup.__aexit__ returns, or raises, when no child of the group runs, for
\* any number of children, of entries and of cancellations of the host.
THEOREM FinishedTheorem == MSpec => []ChildrenFinished
<1>1. GroupsInv => ChildrenFinished
  BY GroupsSound DEF ChildrenFinished
<1> QED BY <1>1, GroupsInit, GroupsNext, PTL DEF MSpec

\* TaskGroup raises the failure of every child, in the block or in the start()
\* that waited for the child, never in both, unless it raises a CancelledError.
THEOREM FailuresTheorem == MSpec => []FailuresSurface
<1>1. GroupsInv => FailuresSurface
  BY GroupsSound DEF FailuresSurface
<1> QED BY <1>1, GroupsInit, GroupsNext, PTL DEF MSpec

-----------------------------------------------------------------------------
(* Sums *)

\* The sum of f over A, as Kept counts it.
Total(f, A) == Cardinality(UNION {{s} \X (1..f[s]) : s \in A})

\* A sum is a number.
LEMMA TotalNumber ==
    ASSUME NEW A, IsFiniteSet(A), NEW f, \A s \in A : f[s] \in Nat
    PROVE  IsFiniteSet(UNION {{s} \X (1..f[s]) : s \in A}) /\ Total(f, A) \in Nat
<1> DEFINE g == [s \in A |-> {s} \X (1..f[s])]
           U == {{s} \X (1..f[s]) : s \in A}
<1>1. g \in Surjection(A, U)
  BY DEF Surjection
<1>2. IsFiniteSet(U)
  BY <1>1, FS_Surjection
<1>3. \A s \in A : IsFiniteSet({s} \X (1..f[s]))
  <2> SUFFICES ASSUME NEW s \in A PROVE IsFiniteSet({s} \X (1..f[s]))
    OBVIOUS
  <2>1. PICK n : n = f[s] /\ n \in Int
    OBVIOUS
  <2>2. 1 \in Int /\ n \in Int
    BY <2>1
  <2>3. IsFiniteSet(1..n)
    BY <2>2, FS_Interval
  <2>4. IsFiniteSet({s})
    BY FS_Singleton
  <2> QED BY <2>1, <2>3, <2>4, FS_Product
<1>4. \A T \in U : IsFiniteSet(T)
  BY <1>3
<1> HIDE DEF U, g
<1>5. IsFiniteSet(UNION U)
  BY <1>2, <1>4, FS_UNION
<1> QED BY <1>5, FS_CardinalityType DEF U, Total

\* One more term.
LEMMA TotalAdd ==
    ASSUME NEW A, IsFiniteSet(A), NEW x, x \notin A, NEW B, B = A \cup {x},
           NEW f, \A s \in B : f[s] \in Nat
    PROVE  Total(f, B) = Total(f, A) + f[x]
<1> DEFINE U == UNION {{s} \X (1..f[s]) : s \in A}
           V == {x} \X (1..f[x])
           W == UNION {{s} \X (1..f[s]) : s \in B}
<1>1. IsFiniteSet(U) /\ Cardinality(U) \in Nat
  BY TotalNumber DEF Total
<1>2. f[x] \in Nat
  OBVIOUS
<1>3. IsFiniteSet(V) /\ Cardinality(V) = f[x]
  <2>1. PICK n : n = f[x] /\ n \in Nat /\ n \in Int
    BY <1>2
  <2>2. IsFiniteSet(1..n) /\ Cardinality(1..n) = n
    <3>1. 1 \in Int /\ n \in Int
      BY <2>1
    <3>2. IsFiniteSet(1..n) /\ Cardinality(1..n) = IF 1 > n THEN 0 ELSE n - 1 + 1
      BY <3>1, FS_Interval
    <3> QED BY <2>1, <3>2
  <2>3. IsFiniteSet({x}) /\ Cardinality({x}) = 1
    BY FS_Singleton
  <2>4. IsFiniteSet({x} \X (1..n)) /\ Cardinality({x} \X (1..n)) = 1 * n
    <3>1. IsFiniteSet({x}) /\ IsFiniteSet(1..n)
      BY <2>2, <2>3
    <3>2. Cardinality({x} \X (1..n)) = Cardinality({x}) * Cardinality(1..n) /\ IsFiniteSet({x} \X (1..n))
      BY <3>1, FS_Product
    <3> QED BY <2>2, <2>3, <3>2
  <2> QED BY <2>1, <2>4
<1>4. W = U \cup V
  OBVIOUS
<1>5. U \cap V = {}
  OBVIOUS
<1> HIDE DEF U, V
<1>6. Cardinality(U \cup V) = Cardinality(U) + Cardinality(V) - Cardinality(U \cap V)
  BY <1>1, <1>3, FS_Union
<1>7. Cardinality(U \cap V) = 0
  BY <1>5, FS_EmptySet
<1>8. Cardinality(W) = Cardinality(U) + f[x]
  <2>1. \A u, v \in Nat : u + v - 0 = u + v
    OBVIOUS
  <2> QED BY <1>1, <1>2, <1>3, <1>4, <1>6, <1>7, <2>1
<1> QED BY <1>8 DEF Total, U

\* A sum depends on the terms alone.
LEMMA TotalSame ==
    ASSUME NEW A, NEW f, NEW g, \A s \in A : f[s] = g[s]
    PROVE  Total(f, A) = Total(g, A)
<1>1. {{s} \X (1..f[s]) : s \in A} = {{s} \X (1..g[s]) : s \in A}
  OBVIOUS
<1> QED BY <1>1 DEF Total

\* Over no scopes, the total is zero.
LEMMA TotalEmpty == \A f : Total(f, {}) = 0
<1>1. \A f : UNION {{s} \X (1..f[s]) : s \in {}} = {}
  OBVIOUS
<1> QED BY <1>1, FS_EmptySet DEF Total

-----------------------------------------------------------------------------
(* Scopes *)

\* Where the host is: outside __aenter__ and __aexit__ whenever it waits; it
\* enters a scope that is bound and has injected nothing, and leaves one that
\* is unbound and cancelled if it had injected.
HostPlaced(z) ==
    /\ at # "body" => task.state = "running" /\ stack # <<>>
    /\ at \in {"arm", "check"} => active[S(z)!Top] /\ ~injected[S(z)!Top]
    /\ at = "leave" => ~active[S(z)!Top]
    /\ taken => at = "leave" /\ cancel_called[S(z)!Top]

\* A deadline posted is a time, and a delivery posted is the only one of a scope
\* that was cancelled by another thread and has not injected.
Posted(z) ==
    \A i \in DOMAIN ready :
        /\ ready[i].op = "schedule" => ready[i].value \in 0..Setup[z].time
        /\ ready[i].op = "shield" => "shield" \in Setup[z].program
        /\ ready[i].op = "deliver" =>
             /\ ready[i].scope \in Setup[z].foreign
             /\ cancel_called[ready[i].scope] /\ ~injected[ready[i].scope]
             /\ \A j \in DOMAIN ready :
                  ready[j].op = "deliver" /\ ready[j].scope = ready[i].scope => j = i

\* A snapshot was taken after an entry, and belongs to a shield that the host is
\* in if shields are not switched.
Snapshots(z) ==
    /\ \A s \in Setup[z].scopes : active[s] \/ saved[s] > 0 => entries[s] > 0
    /\ "shield" \notin Setup[z].program =>
         \A s \in Setup[z].scopes : saved[s] > 0 => shield[s] /\ s \in S(z)!OnStack

\* The scopes around the p-th of the stack.
Around(p) == {stack[i] : i \in 1..(p - 1)}

\* Those of A that have an injection to take back.
Injectors(A) == {s \in A : injected[s]}

\* The ledger of CancelScope.
Books(z) ==
    task.cancels + Total(saved, S(z)!OnStack)
        <= ext + passed + Cardinality(Injectors(Setup[z].scopes)) + (IF taken THEN 1 ELSE 0)

\* The ledger, of the scopes around each scope: what they keep was there before
\* the scope was entered, so none of it is the scope's own injection.
BooksAround ==
    \A p \in DOMAIN stack :
        Total(saved, Around(p)) <= ext + passed + Cardinality(Injectors(Around(p)))

\* Only a suspended host awaits a cancelled future, and it has nothing in flight.
HostQuiet ==
    /\ task.state # "suspended" => ~task.thrown
    /\ task.state = "suspended" => exc = "none"

\* While no scope was cancelled there is no TimeoutError either.
NoTimeout(z) ==
    (\A s \in Setup[z].scopes : ~cancel_called[s]) =>
        exc # "timeout" /\ \A s \in Setup[z].scopes : outer[s] # "timeout"

\* An injection is that of a cancelled scope.
InjectedCalled(z) == \A s \in Setup[z].scopes : injected[s] => cancel_called[s]

\* A cancellation from outside is kept, unless a shield may be switched.
OutsideKept(z) == "shield" \notin Setup[z].program => S(z)!ExternalKept

\* The scopes of scene z: the invariant.
ScopeInv(z) ==
    /\ S(z)!TypeOK /\ S(z)!ScopesBound
    /\ HostPlaced(z) /\ InjectedCalled(z) /\ Posted(z) /\ Snapshots(z)
    /\ Books(z) /\ BooksAround
    /\ HostQuiet /\ NoTimeout(z) /\ OutsideKept(z)

-----------------------------------------------------------------------------
(* Requests counted in the host *)

\* What cancel() leaves of a task.
LEMMA Cancelling ==
    ASSUME NEW z, NEW k \in S(z)!TaskType, NEW n \in Nat
    PROVE  LET c == S(z)!CancelTimes(k, n) IN
           /\ c \in S(z)!TaskType /\ c.state = k.state
           /\ c.cancels <= k.cancels + n
           /\ k.state = "suspended" \/ c.thrown = k.thrown
           /\ S(z)!Interrupted(k) => S(z)!Interrupted(c)
           /\ n > 0 /\ k.state # "done" => S(z)!Interrupted(c)
<1> DEFINE c == S(z)!CancelTimes(k, n)
<1>0. k.cancels \in Nat /\ k.cancels + n \in Nat /\ k.cancels <= k.cancels + n
  BY DEF S!TaskType
<1>1. CASE n = 0 \/ k.state = "done"
  <2>1. c = k
    BY <1>1 DEF S!CancelTimes
  <2> HIDE DEF c
  <2>2. ~(n > 0 /\ k.state # "done")
    BY <1>1
  <2> QED BY <1>0, <2>1, <2>2 DEF c
<1>2. CASE ~(n = 0 \/ k.state = "done") /\ k.state = "suspended" /\ ~k.thrown
  <2> DEFINE m == n > 1
  <2>1. m \in BOOLEAN
    OBVIOUS
  <2>2. c = [k EXCEPT !.cancels = k.cancels + n, !.thrown = TRUE, !.must = m]
    BY <1>2 DEF S!CancelTimes
  <2> HIDE DEF m, c
  <2>3. c \in S(z)!TaskType /\ c.state = k.state /\ c.cancels = k.cancels + n /\ c.thrown
    BY <1>0, <2>1, <2>2 DEF S!TaskType
  <2> QED BY <1>0, <1>2, <2>3 DEF c, S!Interrupted
<1>3. CASE ~(n = 0 \/ k.state = "done") /\ ~(k.state = "suspended" /\ ~k.thrown)
  <2>1. c = [k EXCEPT !.cancels = k.cancels + n, !.must = TRUE]
    BY <1>3 DEF S!CancelTimes
  <2>2. /\ c \in S(z)!TaskType /\ c.state = k.state /\ c.cancels = k.cancels + n
        /\ c.must /\ c.thrown = k.thrown
    BY <1>0, <2>1 DEF S!TaskType
  <2> QED BY <1>0, <2>2 DEF S!Interrupted
<1> QED BY <1>1, <1>2, <1>3

\* What uncancel() leaves of it.
LEMMA Uncancelling ==
    ASSUME NEW z, NEW k \in S(z)!TaskType, NEW n \in Nat
    PROVE  LET u == S(z)!UncancelTimes(k, n) IN
           /\ u \in S(z)!TaskType /\ u.state = k.state /\ u.thrown = k.thrown
           /\ u.cancels = IF n < k.cancels THEN k.cancels - n ELSE 0
           /\ k.cancels = 0 => u.must = k.must
<1> DEFINE u == S(z)!UncancelTimes(k, n)
<1>0. k.cancels \in Nat
  BY DEF S!TaskType
<1>1. CASE n < k.cancels
  <2>1. u = [k EXCEPT !.cancels = k.cancels - n] /\ k.cancels - n \in Nat /\ k.cancels # 0
    BY <1>0, <1>1 DEF S!UncancelTimes
  <2>2. u \in S(z)!TaskType /\ u.state = k.state /\ u.thrown = k.thrown /\ u.cancels = k.cancels - n
    BY <2>1 DEF S!TaskType
  <2> QED BY <1>1, <2>1, <2>2
<1>2. CASE ~(n < k.cancels)
  <2> DEFINE m == k.must /\ k.cancels = 0
  <2>1. m \in BOOLEAN
    OBVIOUS
  <2>2. u = [k EXCEPT !.cancels = 0, !.must = m]
    BY <1>2 DEF S!UncancelTimes
  <2> HIDE DEF m, u
  <2>3. u \in S(z)!TaskType /\ u.state = k.state /\ u.thrown = k.thrown /\ u.cancels = 0 /\ u.must = m
    BY <2>1, <2>2 DEF S!TaskType
  <2>4. k.must \in BOOLEAN
    BY DEF S!TaskType
  <2>5. k.cancels = 0 => m = k.must
    BY <2>4 DEF m
  <2> QED BY <1>2, <2>3, <2>5 DEF u
<1> QED BY <1>1, <1>2

-----------------------------------------------------------------------------
(* The parts of the invariant that count *)

\* What the scenes are given.
LEMMA SetupFacts ==
    ASSUME NEW z \in ScopeScenes
    PROVE  /\ IsFiniteSet(Setup[z].scopes)
           /\ Setup[z].kind \in [Setup[z].scopes -> {"plain", "fail", "move_on"}]
           /\ Setup[z].shielded \subseteq Setup[z].scopes
           /\ Setup[z].foreign \subseteq Setup[z].scopes
           /\ Setup[z].time \in Nat /\ Setup[z].entries \in Nat
           /\ Setup[z].deadline \in [Setup[z].scopes -> 0..(Setup[z].time + 1)]
           /\ Setup[z].sets \in Nat /\ Setup[z].external \in Nat
<1>1. S(z)!ScopeParams
  BY InstanceAssumptions
<1>2. IsFiniteSet(Setup[z].scopes)
  BY <1>1 DEF S!ScopeParams, S!IsFiniteSet, IsFiniteSet
<1> QED BY <1>1, <1>2 DEF S!ScopeParams, S!Infinite

\* What the use of the scopes is limited to where their ledger balances.
LEMMA SafeFacts ==
    ASSUME NEW z, S(z)!SafeUse
    PROVE  /\ \A s \in Setup[z].foreign : Setup[z].kind[s] # "move_on"
           /\ "shield" \in Setup[z].program =>
                Setup[z].entries <= 1 /\ \A r, s \in Setup[z].scopes : r = s
BY DEF S!SafeUse

\* The ledger, in the terms used here.
LEMMA BooksKept == ASSUME NEW z PROVE S(z)!Ledger <=> Books(z)
<1>1. S(z)!Kept(S(z)!OnStack) = Total(saved, S(z)!OnStack)
  BY DEF S!Kept, S!Cardinality, Cardinality, Total
<1>2. S(z)!Cardinality({s \in Setup[z].scopes : injected[s]}) = Cardinality(Injectors(Setup[z].scopes))
  BY DEF S!Cardinality, Cardinality, Injectors
<1> QED BY <1>1, <1>2 DEF S!Ledger, Books

\* A scope is pushed on the stack.
LEMMA Pushed ==
    ASSUME NEW C, NEW q \in Seq(C), NEW x \in C, NEW t, t = Append(q, x)
    PROVE  /\ t \in Seq(C) /\ t # <<>>
           /\ Len(q) \in Nat /\ Len(t) = Len(q) + 1
           /\ DOMAIN q = 1..Len(q) /\ DOMAIN t = 1..(Len(q) + 1)
           /\ \A i \in 1..Len(q) : t[i] = q[i]
           /\ t[Len(t)] = x
<1>1. Len(q) \in Nat /\ DOMAIN q = 1..Len(q)
  BY LenProperties
<1>2. /\ t \in Seq(C) /\ Len(t) = Len(q) + 1
      /\ \A i \in 1..Len(q) : t[i] = q[i] /\ t[Len(q) + 1] = x
      /\ t[Len(q) + 1] = x
  BY AppendProperties
<1>3. DOMAIN t = 1..(Len(q) + 1)
  BY <1>2, LenProperties
<1>4. t # <<>>
  BY <1>1, <1>2, EmptySeq
<1> QED BY <1>1, <1>2, <1>3, <1>4

\* The top of the stack is popped.
LEMMA Popped ==
    ASSUME NEW C, NEW q \in Seq(C), q # <<>>, NEW t, t = SubSeq(q, 1, Len(q) - 1)
    PROVE  /\ t \in Seq(C)
           /\ Len(q) \in Nat /\ Len(q) > 0 /\ Len(t) = Len(q) - 1
           /\ DOMAIN q = 1..Len(q) /\ DOMAIN t = 1..(Len(q) - 1)
           /\ \A i \in 1..(Len(q) - 1) : t[i] = q[i]
           /\ Len(q) \in DOMAIN q /\ q[Len(q)] \in C
<1>1. Len(q) \in Nat /\ DOMAIN q = 1..Len(q)
  BY LenProperties
<1>2. Len(q) # 0
  BY EmptySeq
<1>3. PICK n : n = Len(q) - 1 /\ n \in Nat
  BY <1>1, <1>2
<1>4. Len(q) \in DOMAIN q /\ q[Len(q)] \in C
  BY <1>1, <1>2, ElementOfSeq
<1>5. \A i \in 1..n : q[i] \in C
  BY <1>1, <1>3, ElementOfSeq
<1>6. t = [i \in 1..n |-> q[i]]
  BY <1>1, <1>3, SubSeqProperties
<1>7. t \in Seq(C) /\ Len(t) = n
  BY <1>3, <1>5, <1>6
<1> QED BY <1>1, <1>2, <1>3, <1>4, <1>6, <1>7

\* Sums over scopes, and numbers of scopes.
LEMMA Numbers ==
    ASSUME NEW z \in ScopeScenes, NEW f \in [Setup[z].scopes -> Nat], NEW g,
           NEW A, A \subseteq Setup[z].scopes
    PROVE  /\ IsFiniteSet(A) /\ Total(f, A) \in Nat
           /\ IsFiniteSet({s \in A : g[s]}) /\ Cardinality({s \in A : g[s]}) \in Nat
<1>1. IsFiniteSet(A)
  BY SetupFacts, FS_Subset
<1>2. \A s \in A : f[s] \in Nat
  OBVIOUS
<1>3. {s \in A : g[s]} \in SUBSET A
  OBVIOUS
<1>4. IsFiniteSet({s \in A : g[s]})
  BY <1>1, <1>3, FS_Subset
<1> QED BY <1>1, <1>2, <1>4, TotalNumber, FS_CardinalityType

\* The scopes on the stack are scopes.
LEMMA StackScopes ==
    ASSUME NEW C, NEW q \in Seq(C)
    PROVE  {q[i] : i \in DOMAIN q} \subseteq C /\ \A p \in DOMAIN q : {q[i] : i \in 1..(p - 1)} \subseteq C
<1>1. Len(q) \in Nat /\ DOMAIN q = 1..Len(q) /\ \A i \in 1..Len(q) : q[i] \in C
  BY LenProperties, ElementOfSeq
<1> QED BY <1>1

\* All the numbers of the ledger.
LEMMA LedgerNumbers ==
    ASSUME NEW z \in ScopeScenes, S(z)!TypeOK
    PROVE  /\ S(z)!OnStack \subseteq Setup[z].scopes
           /\ \A p \in DOMAIN stack : Around(p) \subseteq Setup[z].scopes
           /\ task.cancels \in Nat /\ ext \in Nat /\ passed \in Nat
           /\ Total(saved, S(z)!OnStack) \in Nat
           /\ IsFiniteSet(Injectors(Setup[z].scopes))
           /\ Cardinality(Injectors(Setup[z].scopes)) \in Nat
           /\ \A p \in DOMAIN stack :
                /\ Total(saved, Around(p)) \in Nat
                /\ IsFiniteSet(Injectors(Around(p)))
                /\ Cardinality(Injectors(Around(p))) \in Nat
<1>1. stack \in Seq(Setup[z].scopes) /\ saved \in [Setup[z].scopes -> Nat]
  BY DEF S!TypeOK
<1>2. task.cancels \in Nat /\ ext \in Nat /\ passed \in Nat
  BY SetupFacts DEF S!TypeOK, S!TaskType
<1>3. /\ S(z)!OnStack \subseteq Setup[z].scopes
      /\ \A p \in DOMAIN stack : Around(p) \subseteq Setup[z].scopes
  BY <1>1, StackScopes DEF S!OnStack, Around
<1>4. Total(saved, S(z)!OnStack) \in Nat
  BY <1>1, <1>3, Numbers
<1>5. \A A : A \subseteq Setup[z].scopes =>
        /\ Total(saved, A) \in Nat
        /\ IsFiniteSet(Injectors(A)) /\ Cardinality(Injectors(A)) \in Nat
  BY <1>1, Numbers DEF Injectors
<1> QED BY <1>2, <1>3, <1>4, <1>5

\* Requests from outside are counted on both sides, and requests may be dropped.
LEMMA BooksSame ==
    ASSUME NEW z \in ScopeScenes, S(z)!TypeOK, Books(z), BooksAround, NEW more \in Nat,
           UNCHANGED <<stack, saved, injected, passed, taken>>, ext' = ext + more,
           task'.cancels \in Nat, task'.cancels <= task.cancels + more
    PROVE  Books(z)' /\ BooksAround'
<1> DEFINE K == Total(saved, S(z)!OnStack)
           I == Cardinality(Injectors(Setup[z].scopes))
           T == IF taken THEN 1 ELSE 0
<1>1. /\ task.cancels \in Nat /\ ext \in Nat /\ passed \in Nat /\ K \in Nat /\ I \in Nat
      /\ T \in Nat /\ task.cancels + K <= ext + passed + I + T
  BY LedgerNumbers DEF Books
<1>2. /\ S(z)!OnStack' = S(z)!OnStack /\ (Injectors(Setup[z].scopes))' = Injectors(Setup[z].scopes)
      /\ T' = T
  BY DEF S!OnStack, Injectors
<1> HIDE DEF K, I, T
<1>3. task'.cancels + K <= ext' + passed + I + T
  BY <1>1
<1>4. Books(z)'
  BY <1>2, <1>3 DEF Books, K, I, T
<1>5. BooksAround'
  <2> SUFFICES ASSUME NEW p \in DOMAIN stack
               PROVE  Total(saved, Around(p)) <= ext' + passed + Cardinality(Injectors(Around(p)))
    BY DEF BooksAround, Around, Injectors
  <2> DEFINE k == Total(saved, Around(p))
             i == Cardinality(Injectors(Around(p)))
  <2>1. k \in Nat /\ i \in Nat /\ k <= ext + passed + i
    BY LedgerNumbers DEF BooksAround
  <2> HIDE DEF k, i
  <2>2. k <= ext' + passed + i
    BY <1>1, <2>1
  <2> QED BY <2>2 DEF k, i
<1> QED BY <1>4, <1>5

\* A scope that injects counts its request on both sides.
LEMMA BooksInject ==
    ASSUME NEW z \in ScopeScenes, S(z)!TypeOK, Books(z), BooksAround,
           NEW s \in Setup[z].scopes, ~injected[s],
           injected' = [injected EXCEPT ![s] = TRUE], task' = S(z)!CancelTimes(task, 1),
           UNCHANGED <<stack, saved, ext, passed, taken>>
    PROVE  Books(z)' /\ BooksAround'
<1> DEFINE K == Total(saved, S(z)!OnStack)
           J == Injectors(Setup[z].scopes)
           T == IF taken THEN 1 ELSE 0
<1>0. injected \in [Setup[z].scopes -> BOOLEAN] /\ task \in S(z)!TaskType
  BY DEF S!TypeOK
<1>1. /\ task.cancels \in Nat /\ ext \in Nat /\ passed \in Nat /\ K \in Nat /\ Cardinality(J) \in Nat
      /\ IsFiniteSet(J) /\ T \in Nat /\ task.cancels + K <= ext + passed + Cardinality(J) + T
  BY LedgerNumbers DEF Books
<1>2. S(z)!OnStack' = S(z)!OnStack /\ T' = T
  BY DEF S!OnStack
<1>3. task'.cancels \in Nat /\ task'.cancels <= task.cancels + 1
  <2>1. task'.cancels <= task.cancels + 1 /\ task' \in S(z)!TaskType
    BY <1>0, Cancelling
  <2> QED BY <2>1 DEF S!TaskType
<1>4. J' = J \cup {s} /\ s \notin J
  BY <1>0 DEF Injectors
<1> HIDE DEF K, J, T
<1>5. Cardinality(J') = Cardinality(J) + 1
  BY <1>1, <1>4, FS_AddElement
<1>6. task'.cancels + K <= ext + passed + Cardinality(J') + T
  BY <1>1, <1>3, <1>5
<1>7. Books(z)'
  BY <1>2, <1>6 DEF Books, K, J, T
<1>8. BooksAround'
  <2> SUFFICES ASSUME NEW p \in DOMAIN stack
               PROVE  Total(saved, Around(p)) <= ext + passed + Cardinality({r \in Around(p) : injected'[r]})
    BY DEF BooksAround, Around, Injectors
  <2> DEFINE k == Total(saved, Around(p))
             j == Injectors(Around(p))
             l == {r \in Around(p) : injected'[r]}
  <2>1. k \in Nat /\ Cardinality(j) \in Nat /\ k <= ext + passed + Cardinality(j)
    BY LedgerNumbers DEF BooksAround
  <2>2. IsFiniteSet(l) /\ Cardinality(l) \in Nat
    <3>1. Around(p) \subseteq Setup[z].scopes /\ saved \in [Setup[z].scopes -> Nat]
      BY LedgerNumbers DEF S!TypeOK
    <3> QED BY <3>1, Numbers
  <2>3. j \in SUBSET l
    <3>1. Around(p) \subseteq Setup[z].scopes
      BY LedgerNumbers
    <3> QED BY <1>0, <3>1 DEF Injectors
  <2> HIDE DEF k, j, l
  <2>4. Cardinality(j) <= Cardinality(l)
    BY <2>2, <2>3, FS_Subset
  <2>5. k <= ext + passed + Cardinality(l)
    BY <1>1, <2>1, <2>2, <2>4
  <2> QED BY <2>5 DEF k, l
<1> QED BY <1>7, <1>8

-----------------------------------------------------------------------------
(* The host's own code *)

\* Nothing happens to the scopes.
LEMMA StructureSame ==
    ASSUME NEW z, S(z)!ScopesBound, HostPlaced(z), InjectedCalled(z), Posted(z), Snapshots(z),
           UNCHANGED <<stack, at, taken, cancel_called, active, injected, saved, shield, ready, entries>>,
           at # "body" => task'.state = "running"
    PROVE  S(z)!ScopesBound' /\ HostPlaced(z)' /\ InjectedCalled(z)' /\ Posted(z)' /\ Snapshots(z)'
<1>1. S(z)!ScopesBound'
  BY DEF S!ScopesBound, S!Top
<1>2. HostPlaced(z)'
  BY DEF HostPlaced, S!Top
<1>3. InjectedCalled(z)' /\ Posted(z)' /\ Snapshots(z)'
  BY DEF InjectedCalled, Posted, Snapshots, S!OnStack
<1> QED BY <1>1, <1>2, <1>3

\* What a step that spares the scopes, or drops requests of the host, must show.
LEMMA HostStep ==
    ASSUME NEW z \in ScopeScenes, ScopeInv(z), NEW more \in Nat,
           UNCHANGED <<stack, at, taken, S(z)!flags, ready, entries, sets, passed, due, outer>>,
           now' \in 0..Setup[z].time,
           task' \in S(z)!TaskType, at # "body" => task'.state = "running",
           ext' = ext + more, ext' \in 0..Setup[z].external,
           task'.cancels <= task.cancels + more,
           exc' \in S(z)!Exceptions, exc' = "timeout" => exc = "timeout",
           caught' \in BOOLEAN, HostQuiet', OutsideKept(z)'
    PROVE  ScopeInv(z)'
<1>1. S(z)!TypeOK'
  BY DEF ScopeInv, S!TypeOK, S!flags, S!Infinite, S!Exceptions, S!TaskType
<1>2. S(z)!ScopesBound' /\ HostPlaced(z)' /\ InjectedCalled(z)' /\ Posted(z)' /\ Snapshots(z)'
  BY StructureSame DEF ScopeInv, S!flags
<1>3. Books(z)' /\ BooksAround'
  <2>1. task'.cancels \in Nat
    BY DEF S!TaskType
  <2> QED BY <2>1, BooksSame DEF ScopeInv, S!flags
<1>4. NoTimeout(z)'
  BY DEF ScopeInv, NoTimeout, S!flags
<1> QED BY <1>1, <1>2, <1>3, <1>4 DEF ScopeInv

\* The fields of the host.
LEMMA HostFields ==
    ASSUME NEW z, S(z)!TypeOK
    PROVE  /\ task \in S(z)!TaskType /\ task.cancels \in Nat
           /\ task.state \in {"running", "suspended", "done"}
           /\ task.must \in BOOLEAN /\ task.thrown \in BOOLEAN
BY DEF S!TypeOK, S!TaskType

\* The host suspends at an await of its own: nothing of the scopes changes.
LEMMA AwaitInv ==
    ASSUME NEW z \in ScopeScenes, ScopeInv(z), S(z)!Await
    PROVE  ScopeInv(z)'
<1>0. /\ task' = [task EXCEPT !.state = "suspended", !.thrown = task.must, !.must = FALSE]
      /\ task.state = "running" /\ at = "body" /\ exc = "none"
      /\ UNCHANGED <<now, exc, stack, at, due, taken, outer, S(z)!flags, ready, S(z)!count>>
  BY DEF S!Await, S!InBody, S!Suspended
<1>1. S(z)!TypeOK
  BY DEF ScopeInv
<1>2. task \in S(z)!TaskType /\ task.cancels \in Nat /\ task.must \in BOOLEAN
  BY <1>1, HostFields
<1>3. /\ task' \in S(z)!TaskType /\ task'.cancels = task.cancels
      /\ task'.state = "suspended" /\ task'.thrown = task.must /\ task'.must = FALSE
  BY <1>0, <1>2 DEF S!TaskType
<1>4. HostQuiet'
  BY <1>0, <1>3 DEF HostQuiet
<1>5. OutsideKept(z)'
  <2>1. S(z)!Interrupted(task) => S(z)!Interrupted(task')
    BY <1>0, <1>3 DEF ScopeInv, HostQuiet, S!Interrupted
  <2> QED BY <1>0, <2>1 DEF ScopeInv, OutsideKept, S!ExternalKept, S!Outstanding, S!flags, S!count
<1>6. UNCHANGED <<stack, at, taken, S(z)!flags, ready, entries, sets, passed, due, outer, now,
                  exc, ext, caught>>
  BY <1>0 DEF S!count
<1>7. /\ now' \in 0..Setup[z].time /\ exc' \in S(z)!Exceptions /\ caught' \in BOOLEAN
      /\ ext' = ext + 0 /\ ext' \in 0..Setup[z].external
      /\ task'.cancels <= task.cancels + 0
  BY <1>1, <1>2, <1>3, <1>6 DEF S!TypeOK
<1> QED BY <1>0, <1>3, <1>4, <1>5, <1>6, <1>7, HostStep

\* The host runs again after an await, with the cancellation thrown at it, if any.
LEMMA ResumeInv ==
    ASSUME NEW z \in ScopeScenes, ScopeInv(z), S(z)!Resume
    PROVE  ScopeInv(z)'
<1>0. /\ task' = [task EXCEPT !.state = "running", !.thrown = FALSE, !.must = FALSE]
      /\ task.state = "suspended"
      /\ exc' = IF S(z)!Interrupted(task) THEN "cancelled" ELSE "none"
      /\ UNCHANGED <<now, stack, at, due, taken, outer, S(z)!flags, ready, S(z)!count>>
  BY DEF S!Resume, S!Resumed
<1>1. S(z)!TypeOK
  BY DEF ScopeInv
<1>2. task \in S(z)!TaskType /\ task.cancels \in Nat
  BY <1>1, HostFields
<1>3. /\ task' \in S(z)!TaskType /\ task'.cancels = task.cancels
      /\ task'.state = "running" /\ task'.thrown = FALSE
  BY <1>0, <1>2 DEF S!TaskType
<1>4. HostQuiet'
  BY <1>0, <1>3 DEF HostQuiet
<1>5. OutsideKept(z)'
  <2>1. exc = "none"
    BY <1>0 DEF ScopeInv, HostQuiet
  <2>2. S(z)!Interrupted(task) => exc' = "cancelled"
    BY <1>0
  <2> QED BY <1>0, <2>1, <2>2
          DEF ScopeInv, OutsideKept, S!ExternalKept, S!Outstanding, S!flags, S!count
<1>6. UNCHANGED <<stack, at, taken, S(z)!flags, ready, entries, sets, passed, due, outer, now,
                  ext, caught>>
  BY <1>0 DEF S!count
<1>7. /\ now' \in 0..Setup[z].time /\ caught' \in BOOLEAN
      /\ ext' = ext + 0 /\ ext' \in 0..Setup[z].external
      /\ task'.cancels <= task.cancels + 0
  BY <1>1, <1>2, <1>3, <1>6 DEF S!TypeOK
<1>8. exc' \in S(z)!Exceptions /\ exc' # "timeout"
  BY <1>0 DEF S!Exceptions
<1> QED BY <1>3, <1>4, <1>5, <1>6, <1>7, <1>8, HostStep

\* checkpoint() under an effective cancellation uncancels the host and raises.
LEMMA CheckpointInv ==
    ASSUME NEW z \in ScopeScenes, ScopeInv(z), S(z)!Checkpoint
    PROVE  ScopeInv(z)'
<1>0. /\ task' = S(z)!UncancelTimes(task, task.cancels)
      /\ task.state = "running" /\ at = "body" /\ exc' = "cancelled"
      /\ S(z)!EffectivelyCancelled
      /\ UNCHANGED <<now, stack, at, due, taken, outer, S(z)!flags, ready, S(z)!count>>
  BY DEF S!Checkpoint, S!InBody
<1>1. S(z)!TypeOK
  BY DEF ScopeInv
<1>2. task \in S(z)!TaskType /\ task.cancels \in Nat
  BY <1>1, HostFields
<1>3. /\ task' \in S(z)!TaskType /\ task'.state = "running" /\ task'.thrown = task.thrown
      /\ task'.cancels = IF task.cancels < task.cancels THEN task.cancels - task.cancels ELSE 0
  BY <1>0, <1>2, Uncancelling
<1>4. HostQuiet'
  BY <1>0, <1>3 DEF ScopeInv, HostQuiet
<1>5. OutsideKept(z)'
  BY <1>0 DEF OutsideKept, S!ExternalKept, S!Outstanding
<1>6. UNCHANGED <<stack, at, taken, S(z)!flags, ready, entries, sets, passed, due, outer, now,
                  ext, caught>>
  BY <1>0 DEF S!count
<1>7. /\ now' \in 0..Setup[z].time /\ caught' \in BOOLEAN
      /\ ext' = ext + 0 /\ ext' \in 0..Setup[z].external
      /\ task'.cancels <= task.cancels + 0
  BY <1>1, <1>2, <1>3, <1>6 DEF S!TypeOK
<1>8. exc' \in S(z)!Exceptions /\ exc' # "timeout"
  BY <1>0 DEF S!Exceptions
<1> QED BY <1>3, <1>4, <1>5, <1>6, <1>7, <1>8, HostStep

\* The body swallows the error that it was thrown.
LEMMA CatchInv ==
    ASSUME NEW z \in ScopeScenes, ScopeInv(z), S(z)!Catch
    PROVE  ScopeInv(z)'
<1>0. /\ task.state = "running" /\ exc # "none" /\ exc' = "none"
      /\ caught' = (caught \/ exc = "cancelled")
      /\ UNCHANGED <<now, task, stack, at, due, taken, outer, S(z)!flags, ready, entries, sets,
                     ext, passed>>
  BY DEF S!Catch, S!InBody
<1>1. S(z)!TypeOK
  BY DEF ScopeInv
<1>2. task' \in S(z)!TaskType /\ task.cancels \in Nat /\ task' = task
  BY <1>0, <1>1, HostFields
<1>3. HostQuiet'
  BY <1>0 DEF ScopeInv, HostQuiet
<1>4. OutsideKept(z)'
  <2>1. ~caught' => ~caught /\ exc # "cancelled"
    BY <1>0
  <2> QED BY <1>0, <2>1 DEF ScopeInv, OutsideKept, S!ExternalKept, S!Outstanding, S!flags
<1>5. /\ now' \in 0..Setup[z].time /\ ext' = ext + 0 /\ ext' \in 0..Setup[z].external
      /\ task'.cancels <= task.cancels + 0
  BY <1>0, <1>1, <1>2 DEF S!TypeOK
<1>6. exc' \in S(z)!Exceptions /\ exc' # "timeout" /\ caught' \in BOOLEAN
  BY <1>0 DEF S!Exceptions
<1> QED BY <1>0, <1>2, <1>3, <1>4, <1>5, <1>6, HostStep

\* The task ends with no scope left on its stack.
LEMMA FinishInv ==
    ASSUME NEW z \in ScopeScenes, ScopeInv(z), S(z)!Finish
    PROVE  ScopeInv(z)'
<1>0. /\ task' = [task EXCEPT !.state = "done"]
      /\ task.state = "running" /\ at = "body"
      /\ UNCHANGED <<now, exc, stack, at, due, taken, outer, S(z)!flags, ready, S(z)!count>>
  BY DEF S!Finish, S!InBody
<1>1. S(z)!TypeOK
  BY DEF ScopeInv
<1>2. task \in S(z)!TaskType /\ task.cancels \in Nat
  BY <1>1, HostFields
<1>3. /\ task' \in S(z)!TaskType /\ task'.cancels = task.cancels /\ task'.state = "done"
      /\ task'.thrown = task.thrown /\ task'.must = task.must
  BY <1>0, <1>2 DEF S!TaskType
<1>4. HostQuiet'
  BY <1>0, <1>3 DEF ScopeInv, HostQuiet
<1>5. OutsideKept(z)'
  <2>1. S(z)!Interrupted(task) => S(z)!Interrupted(task')
    BY <1>3 DEF S!Interrupted
  <2> QED BY <1>0, <2>1 DEF ScopeInv, OutsideKept, S!ExternalKept, S!Outstanding, S!flags, S!count
<1>6. UNCHANGED <<stack, at, taken, S(z)!flags, ready, entries, sets, passed, due, outer, now,
                  exc, ext, caught>>
  BY <1>0 DEF S!count
<1>7. /\ now' \in 0..Setup[z].time /\ exc' \in S(z)!Exceptions /\ caught' \in BOOLEAN
      /\ ext' = ext + 0 /\ ext' \in 0..Setup[z].external
      /\ task'.cancels <= task.cancels + 0
  BY <1>1, <1>2, <1>3, <1>6 DEF S!TypeOK
<1> QED BY <1>0, <1>3, <1>4, <1>5, <1>6, <1>7, HostStep

\* A cancellation from outside raises the count and ext together.
LEMMA ExternalInv ==
    ASSUME NEW z \in ScopeScenes, ScopeInv(z), S(z)!External
    PROVE  ScopeInv(z)'
<1>0. /\ task' = S(z)!CancelTimes(task, 1)
      /\ task.state # "done" /\ ext < Setup[z].external /\ ext' = ext + 1
      /\ UNCHANGED <<now, exc, stack, at, due, taken, outer, S(z)!flags, ready, entries, sets,
                     passed, caught>>
  BY DEF S!External
<1>1. S(z)!TypeOK
  BY DEF ScopeInv
<1>2. task \in S(z)!TaskType /\ task.state \in {"running", "suspended", "done"}
  BY <1>1, HostFields
<1>3. /\ task' \in S(z)!TaskType /\ task'.cancels <= task.cancels + 1 /\ task'.state = task.state
      /\ task.state = "suspended" \/ task'.thrown = task.thrown
      /\ S(z)!Interrupted(task')
  BY <1>0, <1>2, Cancelling
<1>4. HostQuiet'
  BY <1>0, <1>3 DEF ScopeInv, HostQuiet
<1>5. OutsideKept(z)'
  BY <1>3 DEF OutsideKept, S!ExternalKept, S!Outstanding
<1>6. at # "body" => task'.state = "running"
  BY <1>3 DEF ScopeInv, HostPlaced
<1>7. /\ now' \in 0..Setup[z].time /\ exc' \in S(z)!Exceptions /\ caught' \in BOOLEAN
      /\ ext' \in 0..Setup[z].external
  BY <1>0, <1>1, SetupFacts DEF S!TypeOK
<1> QED BY <1>0, <1>3, <1>4, <1>5, <1>6, <1>7, HostStep

\* Time passes: deadlines move into the past, no ledger entry moves.
LEMMA TickInv ==
    ASSUME NEW z \in ScopeScenes, ScopeInv(z), S(z)!Tick
    PROVE  ScopeInv(z)'
<1>0. /\ now < Setup[z].time /\ now' = now + 1
      /\ UNCHANGED <<task, exc, stack, at, due, taken, outer, S(z)!flags, ready, entries, sets,
                     ext, passed, caught>>
  BY DEF S!Tick, S!host, S!count
<1>1. S(z)!TypeOK
  BY DEF ScopeInv
<1>2. task' \in S(z)!TaskType /\ task.cancels \in Nat /\ task' = task
  BY <1>0, <1>1, HostFields
<1>3. HostQuiet'
  BY <1>0 DEF ScopeInv, HostQuiet
<1>4. OutsideKept(z)'
  BY <1>0 DEF ScopeInv, OutsideKept, S!ExternalKept, S!Outstanding, S!flags
<1>5. at # "body" => task'.state = "running"
  BY <1>2 DEF ScopeInv, HostPlaced
<1>6. /\ now' \in 0..Setup[z].time /\ ext' = ext + 0 /\ ext' \in 0..Setup[z].external
      /\ task'.cancels <= task.cancels + 0 /\ exc' \in S(z)!Exceptions /\ caught' \in BOOLEAN
  BY <1>0, <1>1, <1>2, SetupFacts DEF S!TypeOK
<1> QED BY <1>0, <1>2, <1>3, <1>4, <1>5, <1>6, HostStep

-----------------------------------------------------------------------------
(* cancel(), the timers and the setters *)

\* What is posted stays in order while cancelled scopes stay so, and only scopes
\* inject that are not waiting for a delivery.
LEMMA PostedSame ==
    ASSUME NEW z, Posted(z), ready' = ready,
           \A r \in Setup[z].foreign :
               cancel_called[r] /\ ~injected[r] => cancel_called'[r] /\ ~injected'[r]
    PROVE  Posted(z)'
BY DEF Posted

\* A callback is posted.
LEMMA PostedAppend ==
    ASSUME NEW z \in ScopeScenes, S(z)!TypeOK, Posted(z), NEW c, ready' = Append(ready, c),
           c \in [op: {"deliver", "shield", "schedule"}, scope: Setup[z].scopes, value: Nat],
           c.op = "schedule" => c.value \in 0..Setup[z].time,
           c.op = "shield" => "shield" \in Setup[z].program,
           c.op = "deliver" => /\ c.scope \in Setup[z].foreign /\ ~cancel_called[c.scope]
                               /\ cancel_called'[c.scope] /\ ~injected'[c.scope],
           \A r \in Setup[z].foreign :
               cancel_called[r] /\ ~injected[r] => cancel_called'[r] /\ ~injected'[r]
    PROVE  /\ Posted(z)'
           /\ ready' \in Seq([op: {"deliver", "shield", "schedule"}, scope: Setup[z].scopes, value: Nat])
<1> DEFINE n == Len(ready)
<1>1. ready \in Seq([op: {"deliver", "shield", "schedule"}, scope: Setup[z].scopes, value: Nat])
  BY DEF S!TypeOK
<1>2. /\ ready' \in Seq([op: {"deliver", "shield", "schedule"}, scope: Setup[z].scopes, value: Nat])
      /\ n \in Nat /\ DOMAIN ready = 1..n /\ DOMAIN ready' = 1..(n + 1) /\ Len(ready') = n + 1
      /\ \A i \in 1..n : ready'[i] = ready[i]
      /\ ready'[n + 1] = c
  <2>1. /\ ready' \in Seq([op: {"deliver", "shield", "schedule"}, scope: Setup[z].scopes, value: Nat])
        /\ n \in Nat /\ DOMAIN ready = 1..n /\ DOMAIN ready' = 1..(n + 1) /\ Len(ready') = n + 1
        /\ \A i \in 1..n : ready'[i] = ready[i]
        /\ ready'[Len(ready')] = c
    BY <1>1, Pushed
  <2> QED BY <2>1
<1>3. \A i \in DOMAIN ready : i \in DOMAIN ready' /\ ready'[i] = ready[i] /\ i # n + 1
  BY <1>2
<1>4. \A i \in DOMAIN ready' : i \in DOMAIN ready \/ i = n + 1
  BY <1>2
<1> HIDE DEF n
<1>5. \A i \in DOMAIN ready : ready[i].op = "deliver" => cancel_called[ready[i].scope]
  BY DEF Posted
<1>6. ASSUME NEW i \in DOMAIN ready'
      PROVE  /\ ready'[i].op = "schedule" => ready'[i].value \in 0..Setup[z].time
             /\ ready'[i].op = "shield" => "shield" \in Setup[z].program
             /\ ready'[i].op = "deliver" =>
                  /\ ready'[i].scope \in Setup[z].foreign
                  /\ cancel_called'[ready'[i].scope] /\ ~injected'[ready'[i].scope]
  <2>1. CASE i \in DOMAIN ready
    BY <2>1, <1>3 DEF Posted
  <2>2. CASE i = n + 1
    BY <2>2, <1>2
  <2> QED BY <2>1, <2>2, <1>4
<1>7. ASSUME NEW i \in DOMAIN ready', NEW j \in DOMAIN ready',
             ready'[i].op = "deliver", ready'[j].op = "deliver", ready'[j].scope = ready'[i].scope
      PROVE  j = i
  <2>1. CASE i \in DOMAIN ready /\ j \in DOMAIN ready
    BY <2>1, <1>3, <1>7 DEF Posted
  <2>2. CASE i \in DOMAIN ready /\ j = n + 1
    BY <2>2, <1>2, <1>3, <1>5, <1>7
  <2>3. CASE i = n + 1 /\ j \in DOMAIN ready
    BY <2>3, <1>2, <1>3, <1>5, <1>7
  <2> QED BY <2>1, <2>2, <2>3, <1>4
<1>8. Posted(z)'
  BY <1>6, <1>7 DEF Posted
<1> QED BY <1>2, <1>8

\* The loop runs the first callback.
LEMMA PostedTail ==
    ASSUME NEW z \in ScopeScenes, S(z)!TypeOK, Posted(z), ready # <<>>, ready' = Tail(ready),
           \A r \in Setup[z].foreign :
               cancel_called[r] /\ ~injected[r] =>
                   /\ cancel_called'[r]
                   /\ ~injected'[r] \/ (Head(ready).op = "deliver" /\ Head(ready).scope = r)
    PROVE  /\ Posted(z)'
           /\ ready' \in Seq([op: {"deliver", "shield", "schedule"}, scope: Setup[z].scopes, value: Nat])
           /\ 1 \in DOMAIN ready /\ Head(ready) = ready[1]
           /\ Head(ready) \in [op: {"deliver", "shield", "schedule"}, scope: Setup[z].scopes, value: Nat]
<1> DEFINE C == [op: {"deliver", "shield", "schedule"}, scope: Setup[z].scopes, value: Nat]
           n == Len(ready)
<1>1. ready \in Seq(C)
  BY DEF S!TypeOK
<1> HIDE DEF C
<1>2. n \in Nat /\ n # 0 /\ DOMAIN ready = 1..n
  BY <1>1, LenProperties, EmptySeq
<1>3. /\ ready' \in Seq(C) /\ Len(ready') = n - 1
      /\ \A i \in 1..(n - 1) : ready'[i] = ready[i + 1]
      /\ Head(ready) = ready[1] /\ Head(ready) \in C
  <2>1. Head(ready) = ready[1] /\ Head(ready) \in C
    BY <1>1, <1>2, HeadTailProperties, ElementOfSeq
  <2> QED BY <1>1, <1>2, <2>1, HeadTailProperties
<1>4. DOMAIN ready' = 1..(n - 1)
  BY <1>2, <1>3, LenProperties
<1>5. \A i \in DOMAIN ready' : i + 1 \in DOMAIN ready /\ ready'[i] = ready[i + 1] /\ i + 1 # 1
  BY <1>2, <1>3, <1>4
<1>6. 1 \in DOMAIN ready
  BY <1>2
<1>7. \A i, j \in DOMAIN ready' : i + 1 = j + 1 => i = j
  BY <1>4
<1> HIDE DEF n
<1>8. ASSUME NEW i \in DOMAIN ready'
      PROVE  /\ ready'[i].op = "schedule" => ready'[i].value \in 0..Setup[z].time
             /\ ready'[i].op = "shield" => "shield" \in Setup[z].program
             /\ ready'[i].op = "deliver" =>
                  /\ ready'[i].scope \in Setup[z].foreign
                  /\ cancel_called'[ready'[i].scope] /\ ~injected'[ready'[i].scope]
  <2>1. PICK k \in DOMAIN ready : k # 1 /\ ready'[i] = ready[k]
    BY <1>5
  <2>2. /\ ready[k].op = "schedule" => ready[k].value \in 0..Setup[z].time
        /\ ready[k].op = "shield" => "shield" \in Setup[z].program
        /\ ready[k].op = "deliver" =>
             /\ ready[k].scope \in Setup[z].foreign
             /\ cancel_called[ready[k].scope] /\ ~injected[ready[k].scope]
             /\ ready[1].op = "deliver" => ready[1].scope # ready[k].scope
    BY <1>6, <2>1 DEF Posted
  <2> QED BY <1>3, <2>1, <2>2
<1>9. ASSUME NEW i \in DOMAIN ready', NEW j \in DOMAIN ready',
             ready'[i].op = "deliver", ready'[j].op = "deliver", ready'[j].scope = ready'[i].scope
      PROVE  j = i
  <2>1. i + 1 = j + 1
    BY <1>5, <1>9 DEF Posted
  <2> QED BY <2>1, <1>7
<1>10. Posted(z)'
  BY <1>8, <1>9 DEF Posted
<1> QED BY <1>3, <1>6, <1>10 DEF C

\* The scope s is cancelled, and injects into the host or not.
Cancelled(z, s) ==
    /\ cancel_called' = [cancel_called EXCEPT ![s] = TRUE]
    /\ \/ UNCHANGED <<task, injected>>
       \/ /\ at = "body" /\ active[s] /\ ~injected[s]
          /\ injected' = [injected EXCEPT ![s] = TRUE]
          /\ task' = S(z)!CancelTimes(task, 1)

\* What the host and the stack of scopes are not touched by.
Untouched ==
    UNCHANGED <<stack, at, taken, outer, exc, active, saved, shield, ext, passed, caught, entries>>

\* A step that cancels a scope, or nothing, and leaves the host where it is.
LEMMA CancelStep ==
    ASSUME NEW z \in ScopeScenes, ScopeInv(z), S(z)!TypeOK', Posted(z)', Untouched,
           \/ UNCHANGED <<cancel_called, task, injected>>
           \/ \E s \in Setup[z].scopes : Cancelled(z, s)
    PROVE  ScopeInv(z)'
<1>0. S(z)!TypeOK
  BY DEF ScopeInv
<1>1. task \in S(z)!TaskType /\ task.cancels \in Nat
  BY <1>0, HostFields
<1>2. CASE UNCHANGED <<cancel_called, task, injected>>
  <2>1. S(z)!ScopesBound' /\ HostPlaced(z)' /\ InjectedCalled(z)' /\ Snapshots(z)'
    <3>1. S(z)!ScopesBound'
      BY <1>2 DEF ScopeInv, Untouched, S!ScopesBound, S!Top
    <3>2. HostPlaced(z)'
      BY <1>2 DEF ScopeInv, Untouched, HostPlaced, S!Top
    <3> QED BY <1>2, <3>1, <3>2 DEF ScopeInv, Untouched, InjectedCalled, Snapshots, S!OnStack
  <2>2. Books(z)' /\ BooksAround'
    <3>1. task'.cancels \in Nat /\ task'.cancels <= task.cancels + 0 /\ ext' = ext + 0
      BY <1>0, <1>1, <1>2, SetupFacts DEF Untouched, S!TypeOK
    <3> QED BY <1>0, <1>2, <3>1, BooksSame DEF ScopeInv, Untouched
  <2>3. HostQuiet' /\ NoTimeout(z)' /\ OutsideKept(z)'
    BY <1>2 DEF ScopeInv, Untouched, HostQuiet, NoTimeout, OutsideKept, S!ExternalKept, S!Outstanding
  <2> QED BY <2>1, <2>2, <2>3 DEF ScopeInv
<1>3. ASSUME NEW s \in Setup[z].scopes, Cancelled(z, s) PROVE ScopeInv(z)'
  <2>0. /\ cancel_called \in [Setup[z].scopes -> BOOLEAN]
        /\ injected \in [Setup[z].scopes -> BOOLEAN]
    BY <1>0 DEF S!TypeOK
  <2>1. cancel_called'[s] /\ \A r \in Setup[z].scopes : cancel_called[r] => cancel_called'[r]
    BY <1>3, <2>0 DEF Cancelled
  <2>2. NoTimeout(z)' /\ OutsideKept(z)' /\ Snapshots(z)'
    <3>1. NoTimeout(z)' /\ OutsideKept(z)'
      BY <2>1 DEF NoTimeout, OutsideKept, S!ExternalKept
    <3>2. Snapshots(z)'
      BY DEF ScopeInv, Untouched, Snapshots, S!OnStack
    <3> QED BY <3>1, <3>2
  <2>3. \A i \in DOMAIN stack : stack[i] \in Setup[z].scopes
    <3>1. stack \in Seq(Setup[z].scopes)
      BY <1>0 DEF S!TypeOK
    <3> QED BY <3>1, ElementOfSeq, LenProperties
  <2>4. at = "leave" => S(z)!Top \in Setup[z].scopes
    <3>1. at = "leave" => stack # <<>>
      BY DEF ScopeInv, HostPlaced
    <3>2. stack # <<>> => Len(stack) \in DOMAIN stack
      BY <1>0, LenProperties, EmptySeq DEF S!TypeOK
    <3> QED BY <2>3, <3>1, <3>2 DEF S!Top
  <2>5. CASE UNCHANGED <<task, injected>>
    <3>1. S(z)!ScopesBound'
      BY <2>5 DEF ScopeInv, Untouched, S!ScopesBound, S!Top
    <3>2. HostPlaced(z)'
      BY <2>1, <2>4, <2>5 DEF ScopeInv, Untouched, HostPlaced, S!Top
    <3>3. InjectedCalled(z)' /\ HostQuiet'
      BY <2>1, <2>5 DEF ScopeInv, Untouched, InjectedCalled, HostQuiet
    <3>4. Books(z)' /\ BooksAround'
      <4>1. task' = task /\ ext' = ext /\ ext \in Nat
        BY <1>0, <2>5, LedgerNumbers DEF Untouched
      <4>2. task'.cancels \in Nat /\ task'.cancels <= task.cancels + 0 /\ ext' = ext + 0
        BY <1>1, <4>1
      <4> QED BY <1>0, <2>5, <4>2, BooksSame DEF ScopeInv, Untouched
    <3> QED BY <2>2, <3>1, <3>2, <3>3, <3>4 DEF ScopeInv
  <2>6. CASE /\ at = "body" /\ active[s] /\ ~injected[s]
             /\ injected' = [injected EXCEPT ![s] = TRUE]
             /\ task' = S(z)!CancelTimes(task, 1)
    <3>0. \A r \in Setup[z].scopes : r # s => injected'[r] = injected[r]
      BY <2>0, <2>6
    <3>1. S(z)!ScopesBound'
      <4>1. \A r \in Setup[z].scopes : injected'[r] => active[r]
        BY <2>6, <3>0 DEF ScopeInv, S!ScopesBound
      <4> QED BY <4>1 DEF ScopeInv, Untouched, S!ScopesBound, S!Top
    <3>2. HostPlaced(z)'
      BY <2>6 DEF ScopeInv, Untouched, HostPlaced
    <3>3. InjectedCalled(z)'
      BY <2>1, <3>0 DEF ScopeInv, InjectedCalled
    <3>4. HostQuiet'
      <4>1. task'.state = task.state /\ (task.state = "suspended" \/ task'.thrown = task.thrown)
        <5>1. task \in S(z)!TaskType /\ 1 \in Nat
          BY <1>1
        <5>2. LET c == S(z)!CancelTimes(task, 1)
              IN  c.state = task.state /\ (task.state = "suspended" \/ c.thrown = task.thrown)
          BY <5>1, Cancelling
        <5> QED BY <2>6, <5>2
      <4> QED BY <4>1 DEF ScopeInv, Untouched, HostQuiet
    <3>5. Books(z)' /\ BooksAround'
      BY <1>0, <2>6, BooksInject DEF ScopeInv, Untouched
    <3> QED BY <2>2, <3>1, <3>2, <3>3, <3>4, <3>5 DEF ScopeInv
  <2> QED BY <1>3, <2>5, <2>6 DEF Cancelled
<1> QED BY <1>2, <1>3

\* cancel() on the host's loop cancels the scope, if it was not, and no scope
\* that is waiting for a delivery injects.
LEMMA CancelNowEffect ==
    ASSUME NEW z \in ScopeScenes, ScopeInv(z), at = "body",
           NEW s \in Setup[z].scopes, S(z)!CancelNow(s)
    PROVE  /\ UNCHANGED <<cancel_called, task, injected>> \/ Cancelled(z, s)
           /\ task' \in S(z)!TaskType
           /\ cancel_called' \in [Setup[z].scopes -> BOOLEAN]
           /\ injected' \in [Setup[z].scopes -> BOOLEAN]
           /\ \A r \in Setup[z].foreign :
                cancel_called[r] /\ ~injected[r] => cancel_called'[r] /\ ~injected'[r]
<1>1. /\ task \in S(z)!TaskType /\ cancel_called \in [Setup[z].scopes -> BOOLEAN]
      /\ injected \in [Setup[z].scopes -> BOOLEAN]
  BY DEF ScopeInv, S!TypeOK
<1>2. Setup[z].foreign \subseteq Setup[z].scopes
  BY SetupFacts
<1>3. CASE cancel_called[s]
  BY <1>1, <1>3 DEF S!CancelNow
<1>4. CASE ~cancel_called[s]
  <2>1. /\ cancel_called' = [cancel_called EXCEPT ![s] = TRUE]
        /\ \/ UNCHANGED <<task, injected>>
           \/ /\ active[s] /\ task' = S(z)!CancelTimes(task, 1)
              /\ injected' = [injected EXCEPT ![s] = TRUE]
    BY <1>4 DEF S!CancelNow
  <2>2. ~injected[s]
    BY <1>1, <1>4 DEF ScopeInv, InjectedCalled
  <2>3. Cancelled(z, s)
    BY <2>1, <2>2 DEF Cancelled
  <2>4. task' \in S(z)!TaskType
    <3>1. S(z)!CancelTimes(task, 1) \in S(z)!TaskType
      BY <1>1, Cancelling
    <3> QED BY <1>1, <2>1, <3>1
  <2>5. /\ cancel_called' \in [Setup[z].scopes -> BOOLEAN]
        /\ injected' \in [Setup[z].scopes -> BOOLEAN]
    BY <1>1, <2>1
  <2>6. \A r \in Setup[z].scopes : cancel_called[r] => cancel_called'[r] /\ injected'[r] = injected[r]
    BY <1>1, <1>4, <2>1
  <2> QED BY <1>2, <2>3, <2>4, <2>5, <2>6
<1> QED BY <1>3, <1>4

\* Code on the loop runs only while the host is in no section of a scope.
LEMMA LoopInBody ==
    ASSUME NEW z, HostPlaced(z), S(z)!OnLoop \/ task.state = "suspended" PROVE at = "body"
BY DEF HostPlaced, S!OnLoop, S!InBody

\* cancel() called on the loop, inside or outside the scope's block.
LEMMA cancelInv ==
    ASSUME NEW z \in ScopeScenes, ScopeInv(z), NEW s \in Setup[z].scopes, S(z)!cancel(s)
    PROVE  ScopeInv(z)'
<1>0. /\ S(z)!CancelNow(s) /\ S(z)!OnLoop
      /\ UNCHANGED <<now, exc, stack, at, due, taken, outer, active, saved, shield, deadline,
                     handle, timers, ready, entries, sets, ext, passed, caught>>
  BY DEF S!cancel, S!hostButTask, S!count
<1>1. S(z)!TypeOK /\ HostPlaced(z) /\ Posted(z)
  BY DEF ScopeInv
<1>2. /\ UNCHANGED <<cancel_called, task, injected>> \/ Cancelled(z, s)
      /\ task' \in S(z)!TaskType
      /\ cancel_called' \in [Setup[z].scopes -> BOOLEAN]
      /\ injected' \in [Setup[z].scopes -> BOOLEAN]
      /\ \A r \in Setup[z].foreign :
           cancel_called[r] /\ ~injected[r] => cancel_called'[r] /\ ~injected'[r]
  BY <1>0, <1>1, LoopInBody, CancelNowEffect
<1>3. S(z)!TypeOK'
  BY <1>0, <1>1, <1>2 DEF S!TypeOK, S!TaskType, S!Exceptions, S!Infinite
<1>4. Posted(z)'
  BY <1>0, <1>1, <1>2, PostedSame
<1>5. Untouched
  BY <1>0 DEF Untouched
<1> QED BY <1>2, <1>3, <1>4, <1>5, CancelStep

\* cancel() called in another thread: it only posts the delivery to the loop.
LEMMA ForeignCancelInv ==
    ASSUME NEW z \in ScopeScenes, ScopeInv(z), NEW s \in Setup[z].scopes, S(z)!ForeignCancel(s)
    PROVE  ScopeInv(z)'
<1>0. /\ s \in Setup[z].foreign /\ ~cancel_called[s]
      /\ cancel_called' = [cancel_called EXCEPT ![s] = TRUE]
      /\ ready' = Append(ready, [op |-> "deliver", scope |-> s, value |-> 0]) \/ ready' = ready
      /\ UNCHANGED <<now, task, exc, stack, at, due, taken, outer, active, injected, saved, shield,
                     deadline, handle, timers, entries, sets, ext, passed, caught>>
  BY DEF S!ForeignCancel, S!Post, S!host, S!count
<1>1. S(z)!TypeOK /\ Posted(z)
  BY DEF ScopeInv
<1>2. /\ cancel_called \in [Setup[z].scopes -> BOOLEAN]
      /\ injected \in [Setup[z].scopes -> BOOLEAN]
      /\ Setup[z].foreign \subseteq Setup[z].scopes
  BY <1>1, SetupFacts DEF S!TypeOK
<1>3. /\ \A r \in Setup[z].foreign :
           cancel_called[r] /\ ~injected[r] => cancel_called'[r] /\ ~injected'[r]
      /\ cancel_called'[s] /\ cancel_called' \in [Setup[z].scopes -> BOOLEAN]
      /\ ~injected'[s]
  <2>1. ~injected[s]
    BY <1>0, <1>2 DEF ScopeInv, InjectedCalled
  <2> QED BY <1>0, <1>2, <2>1
<1>4. /\ Posted(z)'
      /\ ready' \in Seq([op: {"deliver", "shield", "schedule"}, scope: Setup[z].scopes, value: Nat])
  <2>1. CASE ready' = ready
    BY <1>1, <1>3, <2>1, PostedSame DEF S!TypeOK
  <2>2. CASE ready' = Append(ready, [op |-> "deliver", scope |-> s, value |-> 0])
    <3>1. PICK c : c = [op |-> "deliver", scope |-> s, value |-> 0]
      OBVIOUS
    <3>2. /\ c \in [op: {"deliver", "shield", "schedule"}, scope: Setup[z].scopes, value: Nat]
          /\ c.op = "deliver" /\ c.scope = s
      BY <3>1
    <3> QED BY <1>0, <1>1, <1>3, <2>2, <3>1, <3>2, PostedAppend
  <2> QED BY <1>0, <2>1, <2>2
<1>5. S(z)!TypeOK'
  BY <1>0, <1>1, <1>3, <1>4 DEF S!TypeOK, S!TaskType, S!Exceptions, S!Infinite
<1>6. Untouched /\ Cancelled(z, s)
  BY <1>0 DEF Untouched, Cancelled
<1> QED BY <1>4, <1>5, <1>6, CancelStep

\* The timer of a deadline fires and cancels its scope.
LEMMA ExpireInv ==
    ASSUME NEW z \in ScopeScenes, ScopeInv(z), NEW s \in Setup[z].scopes,
           NEW v \in 1..Setup[z].time, S(z)!Expire(s, v)
    PROVE  ScopeInv(z)'
<1>0. /\ S(z)!CancelNow(s) /\ task.state = "suspended"
      /\ timers' = timers \ {<<s, v>>} /\ handle' = [handle EXCEPT ![s] = 0]
      /\ UNCHANGED <<now, exc, stack, at, due, taken, outer, active, saved, shield, deadline,
                     ready, entries, sets, ext, passed, caught>>
  BY DEF S!Expire, S!hostButTask, S!count
<1>1. S(z)!TypeOK /\ HostPlaced(z) /\ Posted(z)
  BY DEF ScopeInv
<1>2. /\ UNCHANGED <<cancel_called, task, injected>> \/ Cancelled(z, s)
      /\ task' \in S(z)!TaskType
      /\ cancel_called' \in [Setup[z].scopes -> BOOLEAN]
      /\ injected' \in [Setup[z].scopes -> BOOLEAN]
      /\ \A r \in Setup[z].foreign :
           cancel_called[r] /\ ~injected[r] => cancel_called'[r] /\ ~injected'[r]
  BY <1>0, <1>1, LoopInBody, CancelNowEffect
<1>3. S(z)!TypeOK'
  <2>1. timers' \subseteq Setup[z].scopes \X (1..Setup[z].time)
    BY <1>0, <1>1 DEF S!TypeOK
  <2>2. handle' \in [Setup[z].scopes -> 0..Setup[z].time]
    BY <1>0, <1>1, SetupFacts DEF S!TypeOK
  <2> QED BY <1>0, <1>1, <1>2, <2>1, <2>2 DEF S!TypeOK, S!TaskType, S!Exceptions, S!Infinite
<1>4. Posted(z)'
  BY <1>0, <1>1, <1>2, PostedSame
<1>5. Untouched
  BY <1>0 DEF Untouched
<1> QED BY <1>2, <1>3, <1>4, <1>5, CancelStep

\* A switched shield moves requests between the host and its snapshot.
LEMMA ApplyShieldBooks ==
    ASSUME NEW z \in ScopeScenes, S(z)!SafeUse, S(z)!TypeOK, S(z)!ScopesBound, Books(z), BooksAround,
           "shield" \in Setup[z].program,
           NEW s \in Setup[z].scopes, NEW on \in BOOLEAN, S(z)!ApplyShield(s, on),
           UNCHANGED <<stack, injected, ext, passed, taken>>
    PROVE  /\ Books(z)' /\ BooksAround'
           /\ task' \in S(z)!TaskType /\ saved' \in [Setup[z].scopes -> Nat]
           /\ task'.state = task.state /\ (task.state = "suspended" \/ task'.thrown = task.thrown)
           /\ \A r \in Setup[z].scopes : saved'[r] > 0 => saved[r] > 0 \/ active[r]
<1>0. /\ task \in S(z)!TaskType /\ saved \in [Setup[z].scopes -> Nat]
      /\ stack \in Seq(Setup[z].scopes)
  BY DEF S!TypeOK
<1>1. /\ task.cancels \in Nat /\ ext \in Nat /\ passed \in Nat
      /\ Total(saved, S(z)!OnStack) \in Nat /\ Cardinality(Injectors(Setup[z].scopes)) \in Nat
  BY LedgerNumbers
<1>2. CASE ~active[s]
  <2>1. UNCHANGED <<task, saved>>
    BY <1>2 DEF S!ApplyShield
  <2>2. task'.cancels \in Nat /\ task'.cancels <= task.cancels + 0 /\ ext' = ext + 0
    BY <1>1, <2>1
  <2>3. Books(z)' /\ BooksAround'
    BY <2>1, <2>2, BooksSame
  <2> QED BY <1>0, <2>1, <2>3
<1>3. CASE active[s]
  <2>1. DOMAIN stack = {1} /\ stack[1] = s
    <3>1. \A r \in Setup[z].scopes : r = s
      BY SafeFacts
    <3>2. Len(stack) \in Nat /\ DOMAIN stack = 1..Len(stack) /\ \A i \in 1..Len(stack) : stack[i] = s
      BY <1>0, <3>1, LenProperties, ElementOfSeq
    <3>3. PICK i \in DOMAIN stack : stack[i] = s
      BY <1>3 DEF S!ScopesBound
    <3>4. \A j \in DOMAIN stack : j = i
      BY <3>2 DEF S!ScopesBound
    <3>5. 1 \in DOMAIN stack
      BY <3>2
    <3>6. i = 1
      BY <3>4, <3>5
    <3> QED BY <3>3, <3>4, <3>6
  <2>2. S(z)!OnStack = {s} /\ S(z)!OnStack' = {s}
    BY <2>1 DEF S!OnStack
  <2>3. \A f \in [Setup[z].scopes -> Nat] : Total(f, {s}) = f[s]
    <3> TAKE f \in [Setup[z].scopes -> Nat]
    <3>1. PICK A, B : A = {} /\ B = {s}
      OBVIOUS
    <3>2. IsFiniteSet(A) /\ Total(f, A) = 0
      BY <3>1, FS_EmptySet, TotalEmpty
    <3>3. s \notin A /\ B = A \cup {s} /\ \A r \in B : f[r] \in Nat
      BY <3>1
    <3>4. Total(f, B) = Total(f, A) + f[s]
      BY <3>2, <3>3, TotalAdd
    <3>5. f[s] \in Nat
      OBVIOUS
    <3> QED BY <3>1, <3>2, <3>4, <3>5
  <2>4. BooksAround'
    <3> SUFFICES ASSUME NEW p \in DOMAIN stack
                 PROVE  (Total(saved, Around(p)) <= ext + passed + Cardinality(Injectors(Around(p))))'
      BY DEF BooksAround
    <3>1. Around(p)' = {} /\ (Injectors(Around(p)))' = {}
      BY <2>1 DEF Around, Injectors
    <3>2. Total(saved', {}) = 0 /\ Cardinality({}) = 0
      BY TotalEmpty, FS_EmptySet
    <3> QED BY <1>1, <3>1, <3>2 DEF Injectors
  <2>5. /\ saved' \in [Setup[z].scopes -> Nat] /\ task' \in S(z)!TaskType
        /\ task'.cancels \in Nat /\ task'.cancels + saved'[s] <= task.cancels + saved[s]
        /\ task'.state = task.state /\ (task.state = "suspended" \/ task'.thrown = task.thrown)
    <3>1. CASE on
      <4>1. /\ saved' = [saved EXCEPT ![s] = saved[s] + task.cancels]
            /\ task' = S(z)!UncancelTimes(task, task.cancels)
        BY <1>3, <3>1 DEF S!ApplyShield
      <4>2. /\ task' \in S(z)!TaskType /\ task'.state = task.state /\ task'.thrown = task.thrown
            /\ task'.cancels = IF task.cancels < task.cancels THEN task.cancels - task.cancels ELSE 0
        <5>1. task \in S(z)!TaskType /\ task.cancels \in Nat
          BY <1>0, <1>1
        <5> QED BY <4>1, <5>1, Uncancelling
      <4>3. task'.cancels = 0
        BY <1>1, <4>2
      <4>4. saved[s] \in Nat /\ saved'[s] = saved[s] + task.cancels /\ saved' \in [Setup[z].scopes -> Nat]
        BY <1>0, <1>1, <4>1
      <4> QED BY <1>1, <4>2, <4>3, <4>4
    <3>2. CASE ~on
      <4>1. /\ saved' = [saved EXCEPT ![s] = 0] /\ task' = S(z)!CancelTimes(task, saved[s])
        BY <1>3, <3>2 DEF S!ApplyShield
      <4>2. saved[s] \in Nat /\ saved'[s] = 0 /\ saved' \in [Setup[z].scopes -> Nat]
        BY <1>0, <4>1
      <4>3. /\ task' \in S(z)!TaskType /\ task'.state = task.state
            /\ task'.cancels <= task.cancels + saved[s]
            /\ task.state = "suspended" \/ task'.thrown = task.thrown
        <5>1. task \in S(z)!TaskType /\ saved[s] \in Nat
          BY <1>0, <4>2
        <5>2. LET c == S(z)!CancelTimes(task, saved[s])
              IN  /\ c \in S(z)!TaskType /\ c.state = task.state
                  /\ c.cancels <= task.cancels + saved[s]
                  /\ task.state = "suspended" \/ c.thrown = task.thrown
          BY <5>1, Cancelling
        <5> QED BY <4>1, <5>2
      <4>4. task'.cancels \in Nat
        BY <4>3 DEF S!TaskType
      <4> QED BY <1>1, <4>2, <4>3, <4>4
    <3> QED BY <3>1, <3>2
  <2>6. Books(z)'
    <3> DEFINE I == Cardinality(Injectors(Setup[z].scopes))
               T == IF taken THEN 1 ELSE 0
    <3>1. I' = I /\ T' = T
      BY DEF Injectors
    <3>2. saved[s] \in Nat /\ saved'[s] \in Nat /\ T \in Nat
      BY <1>0, <2>5
    <3>3. task.cancels + saved[s] <= ext + passed + I + T
      BY <1>0, <2>2, <2>3 DEF Books
    <3> HIDE DEF I, T
    <3>4. task'.cancels + saved'[s] <= ext' + passed' + I' + T'
      BY <1>1, <2>5, <3>1, <3>2, <3>3 DEF I
    <3> QED BY <2>2, <2>3, <2>5, <3>4 DEF Books, I, T
  <2>7. \A r \in Setup[z].scopes : r = s
    BY SafeFacts
  <2> QED BY <1>3, <2>4, <2>5, <2>6, <2>7
<1> QED BY <1>2, <1>3

\* A step that switches a shield, or posts that.
LEMMA ShieldStep ==
    ASSUME NEW z \in ScopeScenes, ScopeInv(z), "shield" \in Setup[z].program,
           S(z)!TypeOK', Posted(z)', Books(z)', BooksAround',
           task'.state = task.state, task.state = "suspended" \/ task'.thrown = task.thrown,
           \A r \in Setup[z].scopes : saved'[r] > 0 => saved[r] > 0 \/ active[r],
           UNCHANGED <<stack, at, taken, outer, exc, active, cancel_called, injected, entries>>
    PROVE  ScopeInv(z)'
<1>1. S(z)!ScopesBound'
  BY DEF ScopeInv, S!ScopesBound, S!Top
<1>2. HostPlaced(z)'
  BY DEF ScopeInv, HostPlaced, S!Top
<1>3. InjectedCalled(z)' /\ Snapshots(z)' /\ HostQuiet' /\ NoTimeout(z)' /\ OutsideKept(z)'
  BY DEF ScopeInv, InjectedCalled, Snapshots, HostQuiet, NoTimeout, OutsideKept
<1> QED BY <1>1, <1>2, <1>3 DEF ScopeInv

\* _schedule starts a timer, or cancels the scope, or does neither.
LEMMA ScheduleEffect ==
    ASSUME NEW z \in ScopeScenes, ScopeInv(z), at = "body", NEW s \in Setup[z].scopes,
           NEW v \in 0..Setup[z].time, NEW tm, tm \subseteq Setup[z].scopes \X (1..Setup[z].time),
           NEW h \in 0..Setup[z].time, S(z)!Schedule(s, v, tm, h)
    PROVE  /\ UNCHANGED <<cancel_called, task, injected>> \/ Cancelled(z, s)
           /\ task' \in S(z)!TaskType
           /\ cancel_called' \in [Setup[z].scopes -> BOOLEAN]
           /\ injected' \in [Setup[z].scopes -> BOOLEAN]
           /\ \A r \in Setup[z].foreign :
                cancel_called[r] /\ ~injected[r] => cancel_called'[r] /\ ~injected'[r]
           /\ timers' \subseteq Setup[z].scopes \X (1..Setup[z].time)
           /\ handle' \in [Setup[z].scopes -> 0..Setup[z].time]
<1>1. /\ task \in S(z)!TaskType /\ cancel_called \in [Setup[z].scopes -> BOOLEAN]
      /\ injected \in [Setup[z].scopes -> BOOLEAN]
  BY DEF ScopeInv, S!TypeOK
<1>2. now \in Nat /\ handle \in [Setup[z].scopes -> 0..Setup[z].time] /\ Setup[z].time \in Nat
  BY SetupFacts DEF ScopeInv, S!TypeOK
<1>3. CASE UNCHANGED <<cancel_called, task, injected>>
  <2>1. UNCHANGED <<cancel_called, task, injected>>
    BY <1>3
  <2>2. /\ timers' = tm \/ (v > now /\ timers' = tm \cup {<<s, v>>})
        /\ handle' = [handle EXCEPT ![s] = v] \/ handle' = [handle EXCEPT ![s] = h]
    BY DEF S!Schedule
  <2>3. timers' \subseteq Setup[z].scopes \X (1..Setup[z].time)
    <3>1. v > now => v \in 1..Setup[z].time
      BY <1>2
    <3> QED BY <2>2, <3>1
  <2>4. handle' \in [Setup[z].scopes -> 0..Setup[z].time]
    BY <1>2, <2>2
  <2> QED BY <1>1, <2>1, <2>3, <2>4
<1>4. CASE ~UNCHANGED <<cancel_called, task, injected>>
  <2>1. /\ S(z)!CancelNow(s)
        /\ timers' = tm \/ (v > now /\ timers' = tm \cup {<<s, v>>})
        /\ handle' = [handle EXCEPT ![s] = v] \/ handle' = [handle EXCEPT ![s] = h]
    BY <1>4 DEF S!Schedule
  <2>2. timers' \subseteq Setup[z].scopes \X (1..Setup[z].time)
    <3>1. v > now => v \in 1..Setup[z].time
      BY <1>2
    <3> QED BY <2>1, <3>1
  <2>3. handle' \in [Setup[z].scopes -> 0..Setup[z].time]
    BY <1>2, <2>1
  <2>4. /\ UNCHANGED <<cancel_called, task, injected>> \/ Cancelled(z, s)
        /\ task' \in S(z)!TaskType
        /\ cancel_called' \in [Setup[z].scopes -> BOOLEAN]
        /\ injected' \in [Setup[z].scopes -> BOOLEAN]
        /\ \A r \in Setup[z].foreign :
             cancel_called[r] /\ ~injected[r] => cancel_called'[r] /\ ~injected'[r]
    BY <2>1, CancelNowEffect
  <2> QED BY <2>2, <2>3, <2>4
<1> QED BY <1>3, <1>4

\* The deadline setter, from the loop or from another thread, re-arms or expires.
LEMMA SetDeadlineInv ==
    ASSUME NEW z \in ScopeScenes, ScopeInv(z), NEW s \in Setup[z].scopes,
           NEW v \in 0..S(z)!Infinite, NEW foreign \in BOOLEAN, S(z)!SetDeadline(s, v, foreign),
           IF foreign THEN s \in Setup[z].foreign ELSE S(z)!OnLoop
    PROVE  ScopeInv(z)'
<1>0. /\ sets < Setup[z].sets /\ sets' = sets + 1
      /\ deadline' = [deadline EXCEPT ![s] = v]
      /\ UNCHANGED <<now, exc, stack, at, due, taken, outer, active, saved, shield, entries, ext,
                     passed, caught>>
  BY DEF S!SetDeadline, S!hostButTask
<1>1. S(z)!TypeOK /\ HostPlaced(z) /\ Posted(z)
  BY DEF ScopeInv
<1>2. /\ Setup[z].time \in Nat /\ S(z)!Infinite = Setup[z].time + 1
      /\ v # S(z)!Infinite => v \in 0..Setup[z].time
  BY SetupFacts DEF S!Infinite
<1>3. /\ sets' \in 0..Setup[z].sets /\ deadline' \in [Setup[z].scopes -> 0..S(z)!Infinite]
  <2>1. sets' \in 0..Setup[z].sets
    BY <1>0, <1>1, SetupFacts, SMTT(30) DEF S!TypeOK
  <2>2. deadline \in [Setup[z].scopes -> 0..S(z)!Infinite]
    BY <1>1 DEF S!TypeOK
  <2> QED BY <1>0, <2>1, <2>2
<1>4. /\ task \in S(z)!TaskType /\ cancel_called \in [Setup[z].scopes -> BOOLEAN]
      /\ injected \in [Setup[z].scopes -> BOOLEAN]
      /\ timers \subseteq Setup[z].scopes \X (1..Setup[z].time)
      /\ handle \in [Setup[z].scopes -> 0..Setup[z].time]
      /\ ready \in Seq([op: {"deliver", "shield", "schedule"}, scope: Setup[z].scopes, value: Nat])
  BY <1>1 DEF S!TypeOK
<1>5. /\ UNCHANGED <<cancel_called, task, injected>> \/ Cancelled(z, s)
      /\ task' \in S(z)!TaskType
      /\ cancel_called' \in [Setup[z].scopes -> BOOLEAN]
      /\ injected' \in [Setup[z].scopes -> BOOLEAN]
      /\ timers' \subseteq Setup[z].scopes \X (1..Setup[z].time)
      /\ handle' \in [Setup[z].scopes -> 0..Setup[z].time]
      /\ ready' \in Seq([op: {"deliver", "shield", "schedule"}, scope: Setup[z].scopes, value: Nat])
      /\ Posted(z)'
  <2>1. CASE foreign \/ ~active[s] \/ v = S(z)!Infinite
    <3>1. /\ timers' = timers \ {<<s, handle[s]>>} /\ handle' = [handle EXCEPT ![s] = 0]
          /\ ready' = ready
             \/ (v # S(z)!Infinite /\ ready' = Append(ready, [op |-> "schedule", scope |-> s, value |-> v]))
          /\ UNCHANGED <<cancel_called, task, injected>>
      BY <2>1 DEF S!SetDeadline, S!DropTimer, S!Post
    <3>2. /\ timers' \subseteq Setup[z].scopes \X (1..Setup[z].time)
          /\ handle' \in [Setup[z].scopes -> 0..Setup[z].time]
      BY <1>2, <1>4, <3>1
    <3>3. \A r \in Setup[z].foreign :
             cancel_called[r] /\ ~injected[r] => cancel_called'[r] /\ ~injected'[r]
      BY <3>1
    <3>4. /\ Posted(z)'
          /\ ready' \in Seq([op: {"deliver", "shield", "schedule"}, scope: Setup[z].scopes, value: Nat])
      <4>1. CASE ready' = ready
        BY <1>1, <1>4, <3>3, <4>1, PostedSame
      <4>2. CASE v # S(z)!Infinite /\ ready' = Append(ready, [op |-> "schedule", scope |-> s, value |-> v])
        <5>1. PICK c : c = [op |-> "schedule", scope |-> s, value |-> v]
          OBVIOUS
        <5>2. v \in 0..Setup[z].time /\ v \in Nat
          BY <1>2, <4>2
        <5>3. /\ c \in [op: {"deliver", "shield", "schedule"}, scope: Setup[z].scopes, value: Nat]
              /\ c.op = "schedule" /\ c.value = v
          BY <5>1, <5>2
        <5> QED BY <1>1, <3>3, <4>2, <5>1, <5>2, <5>3, PostedAppend
      <4> QED BY <3>1, <4>1, <4>2
    <3> QED BY <1>4, <3>1, <3>2, <3>4
  <2>2. CASE ~(foreign \/ ~active[s] \/ v = S(z)!Infinite)
    <3>1. S(z)!Schedule(s, v, timers \ {<<s, handle[s]>>}, 0) /\ ready' = ready
      BY <2>2 DEF S!SetDeadline
    <3>2. at = "body"
      BY <1>1, <2>2, LoopInBody
    <3>3. PICK tm : tm = timers \ {<<s, handle[s]>>}
      OBVIOUS
    <3>4. /\ tm \subseteq Setup[z].scopes \X (1..Setup[z].time) /\ 0 \in 0..Setup[z].time
          /\ v \in 0..Setup[z].time
      BY <1>2, <1>4, <2>2, <3>3
    <3>5. S(z)!Schedule(s, v, tm, 0)
      BY <3>1, <3>3
    <3>6. /\ UNCHANGED <<cancel_called, task, injected>> \/ Cancelled(z, s)
          /\ task' \in S(z)!TaskType
          /\ cancel_called' \in [Setup[z].scopes -> BOOLEAN]
          /\ injected' \in [Setup[z].scopes -> BOOLEAN]
          /\ \A r \in Setup[z].foreign :
               cancel_called[r] /\ ~injected[r] => cancel_called'[r] /\ ~injected'[r]
          /\ timers' \subseteq Setup[z].scopes \X (1..Setup[z].time)
          /\ handle' \in [Setup[z].scopes -> 0..Setup[z].time]
      BY <3>2, <3>4, <3>5, ScheduleEffect
    <3>7. Posted(z)'
      BY <1>1, <3>1, <3>6, PostedSame
    <3> QED BY <1>4, <3>1, <3>6, <3>7
  <2> QED BY <2>1, <2>2
<1>6. S(z)!TypeOK'
  BY <1>0, <1>1, <1>3, <1>5 DEF S!TypeOK, S!TaskType, S!Exceptions, S!Infinite
<1>7. Untouched
  BY <1>0 DEF Untouched
<1> QED BY <1>5, <1>6, <1>7, CancelStep

\* The shield setter moves the pending count into the snapshot, or back.
LEMMA SetShieldInv ==
    ASSUME NEW z \in ScopeScenes, S(z)!SafeUse, ScopeInv(z), NEW s \in Setup[z].scopes,
           NEW foreign \in BOOLEAN, S(z)!SetShield(s, foreign)
    PROVE  ScopeInv(z)'
<1>0. /\ "shield" \in Setup[z].program
      /\ sets < Setup[z].sets /\ sets' = sets + 1
      /\ shield' = [shield EXCEPT ![s] = ~shield[s]]
      /\ UNCHANGED <<now, exc, stack, at, due, taken, outer, cancel_called, active, injected,
                     deadline, handle, timers, entries, ext, passed, caught>>
  BY DEF S!SetShield, S!hostButTask
<1>1. S(z)!TypeOK /\ S(z)!ScopesBound /\ Posted(z) /\ Books(z) /\ BooksAround
  BY DEF ScopeInv
<1>2. /\ sets' \in 0..Setup[z].sets
      /\ shield \in [Setup[z].scopes -> BOOLEAN] /\ shield' \in [Setup[z].scopes -> BOOLEAN]
      /\ task \in S(z)!TaskType /\ saved \in [Setup[z].scopes -> Nat]
      /\ ready \in Seq([op: {"deliver", "shield", "schedule"}, scope: Setup[z].scopes, value: Nat])
  <2>1. sets' \in 0..Setup[z].sets
    BY <1>0, <1>1, SetupFacts, SMTT(30) DEF S!TypeOK
  <2> QED BY <1>0, <1>1, <2>1 DEF S!TypeOK
<1>3. \A r \in Setup[z].foreign :
        cancel_called[r] /\ ~injected[r] => cancel_called'[r] /\ ~injected'[r]
  BY <1>0
<1>4. /\ Books(z)' /\ BooksAround'
      /\ task' \in S(z)!TaskType /\ saved' \in [Setup[z].scopes -> Nat]
      /\ task'.state = task.state /\ (task.state = "suspended" \/ task'.thrown = task.thrown)
      /\ \A r \in Setup[z].scopes : saved'[r] > 0 => saved[r] > 0 \/ active[r]
      /\ Posted(z)'
      /\ ready' \in Seq([op: {"deliver", "shield", "schedule"}, scope: Setup[z].scopes, value: Nat])
  <2>1. CASE foreign
    <3>1. /\ UNCHANGED <<task, saved>>
          /\ \/ ready' = ready
             \/ \E v \in {0, 1} : ready' = Append(ready, [op |-> "shield", scope |-> s, value |-> v])
      BY <2>1 DEF S!SetShield, S!Post
    <3>2. Books(z)' /\ BooksAround'
      <4>1. task.cancels \in Nat /\ ext \in Nat
        BY <1>1, LedgerNumbers
      <4>2. task'.cancels \in Nat /\ task'.cancels <= task.cancels + 0 /\ ext' = ext + 0
        BY <1>0, <3>1, <4>1
      <4> QED BY <1>0, <1>1, <3>1, <4>2, BooksSame
    <3>3. /\ Posted(z)'
          /\ ready' \in Seq([op: {"deliver", "shield", "schedule"}, scope: Setup[z].scopes, value: Nat])
      <4>1. CASE ready' = ready
        BY <1>1, <1>2, <1>3, <4>1, PostedSame
      <4>2. ASSUME NEW v \in {0, 1}, ready' = Append(ready, [op |-> "shield", scope |-> s, value |-> v])
            PROVE  /\ Posted(z)'
                   /\ ready' \in Seq([op: {"deliver", "shield", "schedule"}, scope: Setup[z].scopes,
                                      value: Nat])
        <5>1. PICK c : c = [op |-> "shield", scope |-> s, value |-> v]
          OBVIOUS
        <5>2. /\ c \in [op: {"deliver", "shield", "schedule"}, scope: Setup[z].scopes, value: Nat]
              /\ c.op = "shield"
          BY <5>1
        <5> QED BY <1>0, <1>1, <1>3, <4>2, <5>1, <5>2, PostedAppend
      <4> QED BY <3>1, <4>1, <4>2
    <3> QED BY <1>2, <3>1, <3>2, <3>3
  <2>2. CASE ~foreign
    <3>1. PICK on \in BOOLEAN : S(z)!ApplyShield(s, on)
      BY <1>2, <2>2 DEF S!SetShield
    <3>2. ready' = ready
      BY <2>2 DEF S!SetShield
    <3>3. /\ Books(z)' /\ BooksAround'
          /\ task' \in S(z)!TaskType /\ saved' \in [Setup[z].scopes -> Nat]
          /\ task'.state = task.state /\ (task.state = "suspended" \/ task'.thrown = task.thrown)
          /\ \A r \in Setup[z].scopes : saved'[r] > 0 => saved[r] > 0 \/ active[r]
      BY <1>0, <1>1, <3>1, ApplyShieldBooks
    <3>4. Posted(z)'
      BY <1>1, <1>3, <3>2, PostedSame
    <3> QED BY <1>2, <3>2, <3>3, <3>4
  <2> QED BY <2>1, <2>2
<1>5. S(z)!TypeOK'
  BY <1>0, <1>1, <1>2, <1>4 DEF S!TypeOK, S!TaskType, S!Exceptions, S!Infinite
<1> QED BY <1>0, <1>4, <1>5, ShieldStep

\* The loop runs the callback that another thread posted, in whatever state the host is.
LEMMA CallbackInv ==
    ASSUME NEW z \in ScopeScenes, S(z)!SafeUse, ScopeInv(z), S(z)!Callback
    PROVE  ScopeInv(z)'
<1> DEFINE c == Head(ready)
           C == [op: {"deliver", "shield", "schedule"}, scope: Setup[z].scopes, value: Nat]
<1>0. /\ task.state = "suspended" /\ ready # <<>> /\ ready' = Tail(ready)
      /\ UNCHANGED <<now, exc, stack, at, due, taken, outer, active, shield, entries, sets, ext,
                     passed, caught>>
  BY DEF S!Callback, S!hostButTask, S!count
<1>1. /\ S(z)!TypeOK /\ S(z)!ScopesBound /\ HostPlaced(z) /\ Posted(z) /\ Books(z) /\ BooksAround
  BY DEF ScopeInv
<1>2. at = "body"
  BY <1>0, <1>1, LoopInBody
<1>3. ready \in Seq(C) /\ 1 \in DOMAIN ready /\ c = ready[1] /\ c \in C
  <2>1. ready \in Seq(C)
    BY <1>1 DEF S!TypeOK
  <2>2. Len(ready) \in Nat /\ Len(ready) # 0 /\ DOMAIN ready = 1..Len(ready)
    BY <1>0, <2>1, LenProperties, EmptySeq
  <2>3. c = ready[1] /\ 1 \in DOMAIN ready
    BY <1>0, <2>1, <2>2, HeadTailProperties
  <2>4. ready[1] \in C
    <3>1. \A A : ready \in Seq(A) => ready[1] \in A
      BY <2>2, ElementOfSeq
    <3> QED BY <2>1, <3>1
  <2> QED BY <2>1, <2>3, <2>4
<1>4. /\ c.scope \in Setup[z].scopes /\ c.op \in {"deliver", "shield", "schedule"}
      /\ c.op = "schedule" => c.value \in 0..Setup[z].time
      /\ c.op = "shield" => "shield" \in Setup[z].program
      /\ c.op = "deliver" => cancel_called[c.scope] /\ ~injected[c.scope]
  BY <1>1, <1>3 DEF Posted
<1>5. /\ task \in S(z)!TaskType /\ cancel_called \in [Setup[z].scopes -> BOOLEAN]
      /\ injected \in [Setup[z].scopes -> BOOLEAN] /\ saved \in [Setup[z].scopes -> Nat]
      /\ timers \subseteq Setup[z].scopes \X (1..Setup[z].time)
      /\ handle \in [Setup[z].scopes -> 0..Setup[z].time]
  BY <1>1 DEF S!TypeOK
<1> HIDE DEF c, C
<1>6. CASE c.op = "deliver"
  <2>1. S(z)!Deliver(c.scope) /\ UNCHANGED <<cancel_called, saved, deadline, handle, timers>>
    BY <1>6 DEF S!Callback, c
  <2>2. CASE ~active[c.scope]
    <3>1. UNCHANGED <<task, injected>>
      BY <2>1, <2>2 DEF S!Deliver
    <3>2. \A r \in Setup[z].foreign :
             cancel_called[r] /\ ~injected[r] => cancel_called'[r] /\ ~injected'[r]
      BY <2>1, <3>1
    <3>3. Posted(z)' /\ ready' \in Seq(C)
      BY <1>0, <1>1, <3>2, PostedTail DEF C
    <3>4. S(z)!TypeOK'
      BY <1>0, <1>1, <2>1, <3>1, <3>3 DEF S!TypeOK, S!TaskType, S!Exceptions, S!Infinite, C
    <3>5. Untouched
      BY <1>0, <2>1 DEF Untouched
    <3> QED BY <2>1, <3>1, <3>3, <3>4, <3>5, CancelStep
  <2>3. CASE active[c.scope]
    <3>1. task' = S(z)!CancelTimes(task, 1) /\ injected' = [injected EXCEPT ![c.scope] = TRUE]
      BY <2>1, <2>3 DEF S!Deliver
    <3>2. \A r \in Setup[z].foreign :
             cancel_called[r] /\ ~injected[r] =>
                 cancel_called'[r] /\ (~injected'[r] \/ (c.op = "deliver" /\ c.scope = r))
      BY <1>4, <1>5, <1>6, <2>1, <3>1, SetupFacts
    <3>3. Posted(z)' /\ ready' \in Seq(C)
      BY <1>0, <1>1, <3>2, PostedTail DEF c, C
    <3>4. task' \in S(z)!TaskType /\ injected' \in [Setup[z].scopes -> BOOLEAN]
      <4>1. task' \in S(z)!TaskType
        BY <1>5, <3>1, Cancelling
      <4> QED BY <1>5, <3>1, <4>1
    <3>5. S(z)!TypeOK'
      BY <1>0, <1>1, <2>1, <3>3, <3>4 DEF S!TypeOK, S!TaskType, S!Exceptions, S!Infinite, C
    <3>6. Untouched
      BY <1>0, <2>1 DEF Untouched
    <3>7. cancel_called' = [cancel_called EXCEPT ![c.scope] = TRUE]
      BY <1>4, <1>5, <1>6, <2>1
    <3>8. Cancelled(z, c.scope)
      BY <1>2, <1>4, <1>6, <2>3, <3>1, <3>7 DEF Cancelled
    <3> QED BY <1>4, <3>3, <3>5, <3>6, <3>8, CancelStep
  <2> QED BY <2>2, <2>3
<1>7. CASE c.op = "shield"
  <2>1. /\ S(z)!ApplyShield(c.scope, c.value = 1)
        /\ UNCHANGED <<cancel_called, injected, deadline, handle, timers>>
    BY <1>7 DEF S!Callback, c
  <2>2. PICK on \in BOOLEAN : S(z)!ApplyShield(c.scope, on)
    BY <2>1
  <2>3. /\ Books(z)' /\ BooksAround'
        /\ task' \in S(z)!TaskType /\ saved' \in [Setup[z].scopes -> Nat]
        /\ task'.state = task.state /\ (task.state = "suspended" \/ task'.thrown = task.thrown)
        /\ \A r \in Setup[z].scopes : saved'[r] > 0 => saved[r] > 0 \/ active[r]
    BY <1>0, <1>1, <1>4, <1>7, <2>1, <2>2, ApplyShieldBooks
  <2>4. \A r \in Setup[z].foreign :
           cancel_called[r] /\ ~injected[r] => cancel_called'[r] /\ ~injected'[r]
    BY <2>1
  <2>5. Posted(z)' /\ ready' \in Seq(C)
    BY <1>0, <1>1, <2>4, PostedTail DEF C
  <2>6. S(z)!TypeOK'
    BY <1>0, <1>1, <2>1, <2>3, <2>5 DEF S!TypeOK, S!TaskType, S!Exceptions, S!Infinite, C
  <2> QED BY <1>0, <1>4, <1>7, <2>1, <2>3, <2>5, <2>6, ShieldStep
<1>8. CASE c.op = "schedule"
  <2>1. S(z)!Schedule(c.scope, c.value, timers, handle[c.scope]) /\ UNCHANGED <<deadline, saved>>
    BY <1>8 DEF S!Callback, c
  <2>2. PICK s \in Setup[z].scopes, v \in 0..Setup[z].time, h \in 0..Setup[z].time :
          S(z)!Schedule(s, v, timers, h)
    BY <1>4, <1>5, <1>8, <2>1
  <2>3. /\ UNCHANGED <<cancel_called, task, injected>> \/ Cancelled(z, s)
        /\ task' \in S(z)!TaskType
        /\ cancel_called' \in [Setup[z].scopes -> BOOLEAN]
        /\ injected' \in [Setup[z].scopes -> BOOLEAN]
        /\ \A r \in Setup[z].foreign :
             cancel_called[r] /\ ~injected[r] => cancel_called'[r] /\ ~injected'[r]
        /\ timers' \subseteq Setup[z].scopes \X (1..Setup[z].time)
        /\ handle' \in [Setup[z].scopes -> 0..Setup[z].time]
    BY <1>2, <1>5, <2>2, ScheduleEffect
  <2>4. Posted(z)' /\ ready' \in Seq(C)
    BY <1>0, <1>1, <2>3, PostedTail DEF C
  <2>5. S(z)!TypeOK'
    BY <1>0, <1>1, <2>1, <2>3, <2>4 DEF S!TypeOK, S!TaskType, S!Exceptions, S!Infinite, C
  <2>6. Untouched
    BY <1>0, <2>1 DEF Untouched
  <2> QED BY <2>3, <2>4, <2>5, <2>6, CancelStep
<1> QED BY <1>4, <1>6, <1>7, <1>8

-----------------------------------------------------------------------------
(* __aenter__ and __aexit__ *)

\* The top of the stack, and what is left when it is popped.
LEMMA PopFacts ==
    ASSUME NEW z \in ScopeScenes, S(z)!TypeOK, S(z)!ScopesBound, stack # <<>>, stack' = S(z)!Pop
    PROVE  /\ S(z)!Top \in Setup[z].scopes
           /\ stack' \in Seq(Setup[z].scopes)
           /\ Len(stack) \in DOMAIN stack
           /\ \A i \in DOMAIN stack' : i \in DOMAIN stack /\ stack'[i] = stack[i] /\ stack[i] # S(z)!Top
           /\ S(z)!OnStack = S(z)!OnStack' \cup {S(z)!Top} /\ S(z)!Top \notin S(z)!OnStack'
           /\ S(z)!OnStack' = Around(Len(stack))
           /\ \A p \in DOMAIN stack' : Around(p)' = Around(p) /\ S(z)!Top \notin Around(p)
<1> DEFINE n == Len(stack)
           t == S(z)!Top
<1>1. stack \in Seq(Setup[z].scopes)
  BY DEF S!TypeOK
<1>2. /\ stack' \in Seq(Setup[z].scopes)
      /\ n \in Nat /\ n > 0 /\ DOMAIN stack = 1..n /\ DOMAIN stack' = 1..(n - 1)
      /\ \A i \in 1..(n - 1) : stack'[i] = stack[i]
      /\ n \in DOMAIN stack /\ stack[n] \in Setup[z].scopes
  <2>1. stack' = SubSeq(stack, 1, Len(stack) - 1)
    BY DEF S!Pop
  <2>2. PICK C, q, u : C = Setup[z].scopes /\ q = stack /\ u = stack'
    OBVIOUS
  <2>3. q \in Seq(C) /\ q # <<>> /\ u = SubSeq(q, 1, Len(q) - 1)
    BY <1>1, <2>1, <2>2
  <2>4. /\ u \in Seq(C)
        /\ Len(q) \in Nat /\ Len(q) > 0
        /\ DOMAIN q = 1..Len(q) /\ DOMAIN u = 1..(Len(q) - 1)
        /\ \A i \in 1..(Len(q) - 1) : u[i] = q[i]
        /\ Len(q) \in DOMAIN q /\ q[Len(q)] \in C
    BY <2>3, Popped
  <2> QED BY <2>2, <2>4
<1>3. t = stack[n]
  BY DEF S!Top
<1>4. \A i, j \in 1..n : stack[i] = stack[j] => i = j
  BY <1>2 DEF S!ScopesBound
<1>5. \A i \in 1..(n - 1) : i \in 1..n /\ stack[i] # t
  BY <1>2, <1>3, <1>4
<1> HIDE DEF n, t
<1>6. S(z)!OnStack = {stack[i] : i \in 1..n} /\ S(z)!OnStack' = {stack[i] : i \in 1..(n - 1)}
  BY <1>2 DEF S!OnStack
<1>7. S(z)!OnStack = S(z)!OnStack' \cup {t} /\ t \notin S(z)!OnStack'
  <2>1. \A i \in 1..n : i = n \/ i \in 1..(n - 1)
    BY <1>2
  <2>2. n \in 1..n
    BY <1>2
  <2> QED BY <1>3, <1>5, <1>6, <2>1, <2>2
<1>8. \A p \in DOMAIN stack' : Around(p)' = Around(p) /\ t \notin Around(p)
  <2> TAKE p \in DOMAIN stack'
  <2>1. \A i \in 1..(p - 1) : i \in 1..(n - 1)
    BY <1>2
  <2> QED BY <1>2, <1>5, <2>1 DEF Around
<1>9. S(z)!OnStack' = Around(n)
  BY <1>6 DEF Around
<1> QED BY <1>2, <1>3, <1>5, <1>7, <1>8, <1>9 DEF n, t

\* _restore_saved_cancel_count gives the snapshot back.
LEMMA RestoredFacts ==
    ASSUME NEW z \in ScopeScenes, NEW k \in S(z)!TaskType, NEW s \in Setup[z].scopes,
           saved \in [Setup[z].scopes -> Nat], shield \in [Setup[z].scopes -> BOOLEAN]
    PROVE  /\ S(z)!Restored(s, k) \in S(z)!TaskType /\ S(z)!Restored(s, k).cancels \in Nat
           /\ S(z)!Restored(s, k).state = k.state
           /\ k.state = "suspended" \/ S(z)!Restored(s, k).thrown = k.thrown
           /\ S(z)!Restored(s, k).cancels <= k.cancels + saved[s]
           /\ S(z)!Interrupted(k) => S(z)!Interrupted(S(z)!Restored(s, k))
           /\ shield[s] /\ saved[s] > 0 /\ k.state # "done" => S(z)!Interrupted(S(z)!Restored(s, k))
           /\ S(z)!Spent(s) \in [Setup[z].scopes -> Nat]
           /\ \A r \in Setup[z].scopes : r # s => S(z)!Spent(s)[r] = saved[r]
           /\ shield[s] => S(z)!Spent(s)[s] = 0
           /\ ~shield[s] => S(z)!Spent(s)[s] = saved[s]
<1>0. saved[s] \in Nat /\ k.cancels \in Nat
  BY DEF S!TaskType
<1>1. CASE shield[s]
  <2>1. S(z)!Restored(s, k) = S(z)!CancelTimes(k, saved[s]) /\ S(z)!Spent(s) = [saved EXCEPT ![s] = 0]
    BY <1>1 DEF S!Restored, S!Spent
  <2>2. /\ S(z)!Restored(s, k) \in S(z)!TaskType /\ S(z)!Restored(s, k).state = k.state
        /\ S(z)!Restored(s, k).cancels <= k.cancels + saved[s]
        /\ k.state = "suspended" \/ S(z)!Restored(s, k).thrown = k.thrown
        /\ S(z)!Interrupted(k) => S(z)!Interrupted(S(z)!Restored(s, k))
        /\ saved[s] > 0 /\ k.state # "done" => S(z)!Interrupted(S(z)!Restored(s, k))
    <3>1. PICK n : n = saved[s] /\ n \in Nat
      BY <1>0
    <3>2. PICK c : c = S(z)!CancelTimes(k, n)
      OBVIOUS
    <3>3. /\ c \in S(z)!TaskType /\ c.state = k.state
          /\ c.cancels <= k.cancels + n
          /\ k.state = "suspended" \/ c.thrown = k.thrown
          /\ S(z)!Interrupted(k) => S(z)!Interrupted(c)
          /\ n > 0 /\ k.state # "done" => S(z)!Interrupted(c)
      BY <3>1, <3>2, Cancelling
    <3>4. c = S(z)!Restored(s, k)
      BY <2>1, <3>1, <3>2
    <3> QED BY <3>1, <3>3, <3>4
  <2>3. S(z)!Restored(s, k).cancels \in Nat
    BY <2>2 DEF S!TaskType
  <2>4. /\ S(z)!Spent(s) \in [Setup[z].scopes -> Nat] /\ S(z)!Spent(s)[s] = 0
        /\ \A r \in Setup[z].scopes : r # s => S(z)!Spent(s)[r] = saved[r]
    BY <2>1
  <2> QED BY <1>1, <2>2, <2>3, <2>4
<1>2. CASE ~shield[s]
  <2>1. S(z)!Restored(s, k) = k /\ S(z)!Spent(s) = saved
    BY <1>2 DEF S!Restored, S!Spent
  <2>2. k.cancels <= k.cancels + saved[s]
    BY <1>0
  <2> QED BY <1>0, <1>2, <2>1, <2>2
<1> QED BY <1>1, <1>2

\* A scope is left: what it kept is given back to the host or dropped, and if it
\* had injected, its request is taken back, or travels on, or was none of those
\* that the scopes around it keep.
LEMMA PopBooks ==
    ASSUME NEW z \in ScopeScenes, S(z)!TypeOK, S(z)!ScopesBound, Books(z), BooksAround,
           stack # <<>>, stack' = S(z)!Pop, saved' = S(z)!Spent(S(z)!Top),
           UNCHANGED <<injected, ext>>, ~taken', task'.cancels \in Nat,
           NEW c \in Nat, c <= task.cancels + saved[S(z)!Top],
           \/ passed' = passed /\ task'.cancels <= c /\ ~taken
           \/ passed' = passed + 1 /\ task'.cancels <= c
           \/ passed' = passed /\ task'.cancels + 1 <= c
           \/ passed' = passed /\ task'.cancels = 0
    PROVE  Books(z)' /\ BooksAround'
<1> DEFINE s == S(z)!Top
           A == S(z)!OnStack'
           J == Injectors(Setup[z].scopes)
           T == IF taken THEN 1 ELSE 0
<1>0. /\ saved \in [Setup[z].scopes -> Nat] /\ shield \in [Setup[z].scopes -> BOOLEAN]
      /\ task \in S(z)!TaskType
  BY DEF S!TypeOK
<1>1. /\ s \in Setup[z].scopes /\ Len(stack) \in DOMAIN stack
      /\ \A i \in DOMAIN stack' : i \in DOMAIN stack
      /\ S(z)!OnStack = A \cup {s} /\ s \notin A /\ A = Around(Len(stack))
      /\ \A p \in DOMAIN stack' : Around(p)' = Around(p) /\ s \notin Around(p)
  BY PopFacts
<1>2. /\ task.cancels \in Nat /\ ext \in Nat /\ passed \in Nat
      /\ S(z)!OnStack \subseteq Setup[z].scopes
      /\ IsFiniteSet(J) /\ Cardinality(J) \in Nat
      /\ \A p \in DOMAIN stack :
           /\ Around(p) \subseteq Setup[z].scopes
           /\ Total(saved, Around(p)) \in Nat
           /\ IsFiniteSet(Injectors(Around(p)))
           /\ Cardinality(Injectors(Around(p))) \in Nat
  BY LedgerNumbers
<1>3. /\ saved' \in [Setup[z].scopes -> Nat] /\ saved[s] \in Nat
      /\ \A r \in Setup[z].scopes : r # s => saved'[r] = saved[r]
  BY <1>0, <1>1, RestoredFacts
<1>4. A \subseteq Setup[z].scopes
  BY <1>1, <1>2
<1> HIDE DEF s, A
<1>5. /\ IsFiniteSet(A) /\ Total(saved, A) \in Nat /\ Total(saved', A) = Total(saved, A)
      /\ Total(saved, S(z)!OnStack) = Total(saved, A) + saved[s]
  <2>1. IsFiniteSet(A) /\ Total(saved, A) \in Nat
    BY <1>0, <1>4, Numbers
  <2>2. \A r \in A : saved'[r] = saved[r]
    BY <1>1, <1>3, <1>4
  <2>3. Total(saved', A) = Total(saved, A)
    BY <2>2, TotalSame
  <2>4. \A r \in S(z)!OnStack : saved[r] \in Nat
    BY <1>0, <1>2
  <2>5. Total(saved, S(z)!OnStack) = Total(saved, A) + saved[s]
    BY <1>1, <2>1, <2>4, TotalAdd
  <2> QED BY <2>1, <2>3, <2>5
<1>6. Total(saved, A) <= ext + passed + Cardinality(J)
  <2> DEFINE j == Injectors(A)
  <2>1. Total(saved, A) <= ext + passed + Cardinality(j) /\ Cardinality(j) \in Nat
    BY <1>1, <1>2 DEF BooksAround
  <2>2. j \in SUBSET J
    BY <1>4 DEF Injectors
  <2>3. Cardinality(j) <= Cardinality(J)
    BY <1>2, <2>2, FS_Subset
  <2> HIDE DEF j, J
  <2> QED BY <1>2, <1>5, <2>1, <2>3
<1>7. task.cancels + (Total(saved, A) + saved[s]) <= ext + passed + Cardinality(J) + T
  BY <1>5 DEF Books
<1>8. Books(z)'
  <2>1. J' = J
    BY DEF Injectors
  <2> DEFINE K == Total(saved, A)
             I == Cardinality(J)
  <2>2. K \in Nat /\ I \in Nat /\ T \in {0, 1} /\ (~taken => T = 0)
    BY <1>2, <1>5
  <2>3. c <= task.cancels + saved[s]
    BY DEF s
  <2> HIDE DEF K, I, J, T
  <2>4. task'.cancels + K <= ext + passed' + I
    <3>1. K <= ext + passed + I /\ task.cancels + (K + saved[s]) <= ext + passed + I + T
      BY <1>6, <1>7 DEF K, I
    <3>2. \A x, y, e, v \in Nat, w \in Nat, u \in {0, 1} :
             /\ K <= e + v + I
             /\ x + (K + w) <= e + v + I + u
             /\ c <= x + w
             => /\ y <= c /\ u = 0 => y + K <= e + v + I
                /\ y <= c => y + K <= e + (v + 1) + I
                /\ y + 1 <= c => y + K <= e + v + I
                /\ y = 0 => y + K <= e + v + I
      BY <2>2
    <3> DEFINE y == task'.cancels
    <3>3. /\ y <= c /\ T = 0 => y + K <= ext + passed + I
          /\ y <= c => y + K <= ext + (passed + 1) + I
          /\ y + 1 <= c => y + K <= ext + passed + I
          /\ y = 0 => y + K <= ext + passed + I
      BY <1>2, <1>3, <2>2, <2>3, <3>1, <3>2
    <3> QED BY <2>2, <3>3
  <2>5. task'.cancels + Total(saved', A) <= ext' + passed' + Cardinality(J') + (IF taken' THEN 1 ELSE 0)
    <3>1. passed' \in Nat
      BY <1>2
    <3> QED BY <1>2, <1>5, <2>1, <2>2, <2>4, <3>1 DEF K, I
  <2> QED BY <2>5 DEF Books, A, J
<1>9. BooksAround'
  <2> SUFFICES ASSUME NEW p \in DOMAIN stack'
               PROVE  (Total(saved, Around(p)) <= ext + passed + Cardinality(Injectors(Around(p))))'
    BY DEF BooksAround
  <2>1. p \in DOMAIN stack /\ Around(p)' = Around(p) /\ s \notin Around(p)
    BY <1>1
  <2>2. (Injectors(Around(p)))' = Injectors(Around(p))
    BY <2>1 DEF Injectors
  <2>3. Around(p) \subseteq Setup[z].scopes
    BY <1>2, <2>1
  <2>4. \A r \in Around(p) : saved'[r] = saved[r]
    BY <1>3, <2>1, <2>3
  <2>5. Total(saved', Around(p)) = Total(saved, Around(p))
    BY <2>4, TotalSame
  <2> DEFINE K == Total(saved, Around(p))
             I == Cardinality(Injectors(Around(p)))
  <2>6. K \in Nat /\ I \in Nat /\ K <= ext + passed + I
    BY <1>2, <2>1 DEF BooksAround
  <2> HIDE DEF K, I
  <2>7. K <= ext + passed' + I
    BY <1>2, <2>6, SMTT(30)
  <2> QED BY <2>1, <2>2, <2>5, <2>7 DEF K, I
<1> QED BY <1>8, <1>9

\* The innermost scope, and those around any scope.
LEMMA TopFacts ==
    ASSUME NEW z \in ScopeScenes, S(z)!TypeOK, S(z)!ScopesBound, stack # <<>>
    PROVE  /\ S(z)!Top \in Setup[z].scopes /\ Len(stack) \in DOMAIN stack
           /\ S(z)!Top = stack[Len(stack)]
           /\ \A p \in DOMAIN stack : S(z)!Top \notin Around(p)
<1>1. stack \in Seq(Setup[z].scopes)
  BY DEF S!TypeOK
<1>2. Len(stack) \in Nat /\ Len(stack) # 0 /\ DOMAIN stack = 1..Len(stack)
  BY <1>1, LenProperties, EmptySeq
<1>3. stack[Len(stack)] \in Setup[z].scopes /\ Len(stack) \in 1..Len(stack)
  BY <1>1, <1>2, ElementOfSeq
<1>4. \A i, j \in 1..Len(stack) : stack[i] = stack[j] => i = j
  BY <1>2 DEF S!ScopesBound
<1>5. ASSUME NEW p \in DOMAIN stack PROVE stack[Len(stack)] \notin Around(p)
  <2>1. p \in Nat /\ p <= Len(stack)
    BY <1>2
  <2>2. PICK n : n = Len(stack)
    OBVIOUS
  <2>3. p \in Nat /\ n \in Nat /\ p <= n
    BY <1>2, <2>1, <2>2
  <2>4. ASSUME NEW i \in 1..(p - 1) PROVE i \in 1..n /\ i # n
    BY <2>3
  <2> QED BY <1>3, <1>4, <2>2, <2>4 DEF Around
<1> QED BY <1>2, <1>3, <1>5 DEF S!Top

\* The scope on top is left: what remains is in order.
LEMMA PopStructure ==
    ASSUME NEW z \in ScopeScenes, ScopeInv(z), at # "body", stack' = S(z)!Pop,
           saved' = S(z)!Spent(S(z)!Top), active' = [active EXCEPT ![S(z)!Top] = FALSE],
           UNCHANGED <<injected, shield, ready, entries>>,
           at' = "body", ~taken', task'.state = "running", task'.thrown = task.thrown,
           ~injected[S(z)!Top],
           \A r \in Setup[z].scopes : cancel_called[r] => cancel_called'[r]
    PROVE  /\ S(z)!ScopesBound' /\ HostPlaced(z)' /\ InjectedCalled(z)' /\ Posted(z)'
           /\ Snapshots(z)' /\ HostQuiet'
<1> DEFINE s == S(z)!Top
<1>0. S(z)!TypeOK /\ S(z)!ScopesBound /\ HostPlaced(z) /\ stack # <<>> /\ task.state = "running"
  BY DEF ScopeInv, HostPlaced
<1>1. /\ s \in Setup[z].scopes
      /\ \A i \in DOMAIN stack' : i \in DOMAIN stack /\ stack'[i] = stack[i] /\ stack[i] # s
      /\ S(z)!OnStack = S(z)!OnStack' \cup {s}
  BY <1>0, PopFacts
<1>2. /\ active \in [Setup[z].scopes -> BOOLEAN] /\ saved \in [Setup[z].scopes -> Nat]
      /\ shield \in [Setup[z].scopes -> BOOLEAN] /\ task \in S(z)!TaskType
      /\ injected \in [Setup[z].scopes -> BOOLEAN]
  BY <1>0 DEF S!TypeOK
<1>3. /\ ~active'[s] /\ \A r \in Setup[z].scopes : r # s => active'[r] = active[r]
  BY <1>1, <1>2
<1>4. /\ \A r \in Setup[z].scopes : r # s => saved'[r] = saved[r]
      /\ shield[s] => saved'[s] = 0
      /\ ~shield[s] => saved'[s] = saved[s]
  BY <1>1, <1>2, RestoredFacts
<1>5. S(z)!Top = s
  OBVIOUS
<1> HIDE DEF s
<1>6. S(z)!ScopesBound'
  <2>1. \A i, j \in DOMAIN stack' : stack'[i] = stack'[j] => i = j
    BY <1>0, <1>1 DEF S!ScopesBound
  <2>2. ASSUME NEW r \in Setup[z].scopes
        PROVE  /\ active'[r] => \E i \in DOMAIN stack' : stack'[i] = r
               /\ injected'[r] => active'[r]
               /\ (\E i \in DOMAIN stack' : stack'[i] = r) => active'[r]
    <3>1. CASE r = s
      BY <1>1, <1>3, <1>5, <3>1
    <3>2. CASE r # s
      <4>1. active'[r] = active[r]
        BY <1>3, <3>2
      <4>2. active[r] => r \in S(z)!OnStack'
        <5>1. active[r] => r \in S(z)!OnStack
          BY <1>0 DEF S!ScopesBound, S!OnStack
        <5> QED BY <1>1, <3>2, <5>1
      <4>3. injected'[r] => active[r]
        BY <1>0 DEF S!ScopesBound
      <4>4. (\E i \in DOMAIN stack' : stack'[i] = r) => active[r]
        BY <1>0, <1>1, <1>5, <3>2 DEF S!ScopesBound
      <4> QED BY <4>1, <4>2, <4>3, <4>4 DEF S!OnStack
    <3> QED BY <3>1, <3>2
  <2> QED BY <2>1, <2>2 DEF S!ScopesBound
<1>7. HostPlaced(z)'
  BY DEF HostPlaced
<1>8. InjectedCalled(z)'
  BY DEF ScopeInv, InjectedCalled
<1>9. Posted(z)'
  <2>1. Posted(z) /\ Setup[z].foreign \subseteq Setup[z].scopes
    BY SetupFacts DEF ScopeInv
  <2>2. \A r \in Setup[z].foreign :
          cancel_called[r] /\ ~injected[r] => cancel_called'[r] /\ ~injected'[r]
    BY <2>1
  <2> QED BY <2>1, <2>2, PostedSame
<1>10. Snapshots(z)'
  <2>1. \A r \in Setup[z].scopes : (active'[r] => active[r]) /\ (saved'[r] > 0 => saved[r] > 0)
    <3>1. ~(0 > 0)
      OBVIOUS
    <3> QED BY <1>1, <1>2, <1>3, <1>4, <3>1
  <2>2. ASSUME "shield" \notin Setup[z].program, NEW r \in Setup[z].scopes, saved'[r] > 0
        PROVE  shield[r] /\ r \in S(z)!OnStack'
    <3>1. shield[r] /\ r \in S(z)!OnStack
      BY <2>1, <2>2 DEF ScopeInv, Snapshots
    <3>2. r # s
      <4>1. ~(0 > 0)
        OBVIOUS
      <4> QED BY <1>4, <2>2, <3>1, <4>1
    <3> QED BY <1>1, <3>1, <3>2
  <2> QED BY <2>1, <2>2 DEF ScopeInv, Snapshots
<1>11. HostQuiet'
  BY <1>0 DEF ScopeInv, HostQuiet
<1> QED BY <1>6, <1>7, <1>8, <1>9, <1>10, <1>11

\* The end of __aexit__: the injection is taken back, the snapshot of a shield given back.
LEMMA ExitEndInv ==
    ASSUME NEW z \in ScopeScenes, ScopeInv(z), S(z)!ExitEnd
    PROVE  ScopeInv(z)'
<1> DEFINE s == S(z)!Top
           k == S(z)!Restored(s, task)
           ce == exc = "cancelled"
           kind == Setup[z].kind[s]
           absorbs == kind = "move_on" /\ cancel_called[s]
           converts == kind = "fail" /\ cancel_called[s] /\ ce
           back == IF taken THEN S(z)!UncancelTimes(k, 1) ELSE k
<1>0. /\ task.state = "running" /\ at = "leave" /\ at' = "body" /\ taken' = FALSE
      /\ stack' = S(z)!Pop
      /\ task' = IF converts \/ absorbs \/ (cancel_called[s] /\ ~ce) THEN back ELSE k
      /\ passed' = IF ce /\ taken /\ kind = "plain" THEN passed + 1 ELSE passed
      /\ exc' \in {"timeout", outer[s], exc}
      /\ exc' = "timeout" => converts \/ outer[s] = "timeout" \/ exc = "timeout"
      /\ ~cancel_called[s] => exc' = IF exc = "none" THEN outer[s] ELSE exc
      /\ saved' = S(z)!Spent(s)
      /\ timers' = timers \ {<<s, handle[s]>>} /\ handle' = [handle EXCEPT ![s] = 0]
      /\ UNCHANGED <<now, due, outer, cancel_called, active, injected, shield, deadline, ready,
                     entries, sets, ext, caught>>
  BY DEF S!ExitEnd, S!TakeBack, S!Absorbs, S!DropTimer
<1>1. /\ S(z)!TypeOK /\ S(z)!ScopesBound /\ HostPlaced(z) /\ Books(z) /\ BooksAround /\ stack # <<>>
  BY <1>0 DEF ScopeInv, HostPlaced
<1>2. s \in Setup[z].scopes /\ Len(stack) \in DOMAIN stack /\ s = stack[Len(stack)]
  BY <1>1, TopFacts
<1>3. /\ task \in S(z)!TaskType /\ saved \in [Setup[z].scopes -> Nat]
      /\ shield \in [Setup[z].scopes -> BOOLEAN] /\ active \in [Setup[z].scopes -> BOOLEAN]
      /\ exc \in S(z)!Exceptions /\ outer \in [Setup[z].scopes -> S(z)!Exceptions]
      /\ handle \in [Setup[z].scopes -> 0..Setup[z].time]
      /\ timers \subseteq Setup[z].scopes \X (1..Setup[z].time)
      /\ taken \in BOOLEAN
  BY <1>1 DEF S!TypeOK
<1>4. ~active[s] /\ ~injected[s] /\ (taken => cancel_called[s])
  BY <1>0, <1>1, <1>2 DEF HostPlaced, S!ScopesBound
<1>5. kind \in {"plain", "fail", "move_on"}
  BY <1>2, SetupFacts
<1> HIDE DEF s, kind
<1>6. /\ k \in S(z)!TaskType /\ k.cancels \in Nat /\ k.state = "running"
      /\ k.thrown = task.thrown /\ k.cancels <= task.cancels + saved[s]
      /\ S(z)!Interrupted(task) => S(z)!Interrupted(k)
      /\ shield[s] /\ saved[s] > 0 => S(z)!Interrupted(k)
      /\ S(z)!Spent(s) \in [Setup[z].scopes -> Nat]
      /\ \A r \in Setup[z].scopes : r # s => S(z)!Spent(s)[r] = saved[r]
  <2>1. /\ s \in Setup[z].scopes /\ task \in S(z)!TaskType
        /\ saved \in [Setup[z].scopes -> Nat] /\ shield \in [Setup[z].scopes -> BOOLEAN]
    BY <1>2, <1>3
  <2>2. /\ k \in S(z)!TaskType /\ k.cancels \in Nat /\ k.state = task.state
        /\ task.state = "suspended" \/ k.thrown = task.thrown
        /\ k.cancels <= task.cancels + saved[s]
        /\ S(z)!Interrupted(task) => S(z)!Interrupted(k)
        /\ shield[s] /\ saved[s] > 0 /\ task.state # "done" => S(z)!Interrupted(k)
        /\ S(z)!Spent(s) \in [Setup[z].scopes -> Nat]
        /\ \A r \in Setup[z].scopes : r # s => S(z)!Spent(s)[r] = saved[r]
    BY <2>1, RestoredFacts
  <2> HIDE DEF k
  <2> QED BY <1>0, <2>2
<1> HIDE DEF k
<1>7. /\ back \in S(z)!TaskType /\ back.cancels \in Nat /\ back.state = "running"
      /\ back.thrown = task.thrown
      /\ taken => back.cancels + 1 <= k.cancels \/ back.cancels = 0
      /\ ~taken => back.cancels <= k.cancels
  <2>1. CASE taken
    <3>1. PICK u : u = S(z)!UncancelTimes(k, 1)
      OBVIOUS
    <3>2. /\ u \in S(z)!TaskType /\ u.state = k.state /\ u.thrown = k.thrown
          /\ u.cancels = IF 1 < k.cancels THEN k.cancels - 1 ELSE 0
      <4>1. k \in S(z)!TaskType /\ 1 \in Nat
        BY <1>6
      <4> QED BY <3>1, <4>1, Uncancelling
    <3>3. u.cancels \in Nat /\ (u.cancels + 1 <= k.cancels \/ u.cancels = 0)
      BY <1>6, <3>2
    <3>4. back = u
      BY <2>1, <3>1
    <3> QED BY <1>6, <2>1, <3>2, <3>3, <3>4
  <2>2. CASE ~taken
    <3>1. back = k
      BY <2>2
    <3> QED BY <1>6, <2>2, <3>1
  <2> QED BY <2>1, <2>2
<1> HIDE DEF back
<1>8. task' \in S(z)!TaskType /\ task'.cancels \in Nat /\ task'.state = "running" /\ task'.thrown = task.thrown
  BY <1>0, <1>6, <1>7
<1>9. passed \in Nat /\ passed' \in Nat
  BY <1>0, <1>1, LedgerNumbers
<1>10. \/ passed' = passed /\ task'.cancels <= k.cancels /\ ~taken
       \/ passed' = passed + 1 /\ task'.cancels <= k.cancels
       \/ passed' = passed /\ task'.cancels + 1 <= k.cancels
       \/ passed' = passed /\ task'.cancels = 0
  <2>1. k.cancels <= k.cancels
    BY <1>6
  <2>2. CASE ~taken
    BY <1>0, <1>7, <2>1, <2>2
  <2>3. CASE taken /\ ce /\ kind = "plain"
    <3>1. ~converts /\ ~absorbs
      BY <2>3
    <3> QED BY <1>0, <2>1, <2>3, <3>1
  <2>4. CASE taken /\ ~(ce /\ kind = "plain")
    <3>1. task' = back /\ passed' = passed
      BY <1>0, <1>4, <1>5, <2>4
    <3> QED BY <1>7, <2>4, <3>1
  <2> QED BY <1>3, <2>2, <2>3, <2>4
<1>11. Books(z)' /\ BooksAround'
  <2>1. S(z)!Top = s
    BY DEF s
  <2>2. ~taken'
    BY <1>0
  <2> QED BY <1>0, <1>1, <1>6, <1>8, <1>10, <2>1, <2>2, PopBooks
<1>12. /\ stack' \in Seq(Setup[z].scopes)
       /\ \A i \in DOMAIN stack : i = Len(stack) \/ (i \in DOMAIN stack' /\ stack'[i] = stack[i])
       /\ \A i \in DOMAIN stack' : i \in DOMAIN stack /\ stack'[i] = stack[i] /\ stack[i] # s
  <2>1. /\ stack' \in Seq(Setup[z].scopes)
        /\ \A i \in DOMAIN stack' : i \in DOMAIN stack /\ stack'[i] = stack[i] /\ stack[i] # s
    BY <1>0, <1>1, PopFacts DEF s
  <2>2. stack \in Seq(Setup[z].scopes) /\ stack' = SubSeq(stack, 1, Len(stack) - 1)
    BY <1>0, <1>1 DEF S!TypeOK, S!Pop
  <2>3. Len(stack) \in Nat /\ DOMAIN stack = 1..Len(stack) /\ DOMAIN stack' = 1..(Len(stack) - 1)
    BY <1>1, <2>2, Popped
  <2>4. \A i \in DOMAIN stack : i = Len(stack) \/ i \in DOMAIN stack'
    BY <2>3
  <2> QED BY <2>1, <2>4
<1>13. S(z)!TypeOK'
  <2>1. exc' \in S(z)!Exceptions
    BY <1>0, <1>2, <1>3 DEF S!Exceptions
  <2>2. /\ handle' \in [Setup[z].scopes -> 0..Setup[z].time]
        /\ timers' \subseteq Setup[z].scopes \X (1..Setup[z].time)
    <3>1. 0 \in 0..Setup[z].time
      BY SetupFacts
    <3> QED BY <1>0, <1>3, <3>1
  <2> QED BY <1>0, <1>1, <1>6, <1>8, <1>9, <1>12, <2>1, <2>2
          DEF S!TypeOK, S!TaskType, S!Exceptions, S!Infinite
<1>14. /\ S(z)!ScopesBound' /\ HostPlaced(z)' /\ InjectedCalled(z)' /\ Posted(z)'
       /\ Snapshots(z)' /\ HostQuiet'
  <2>1. active' = [active EXCEPT ![s] = FALSE] /\ at # "body"
    BY <1>0, <1>2, <1>3, <1>4
  <2>2. S(z)!Top = s
    BY DEF s
  <2>3. \A r \in Setup[z].scopes : cancel_called[r] => cancel_called'[r]
    BY <1>0
  <2> QED BY <1>0, <1>4, <1>8, <2>1, <2>2, <2>3, PopStructure
<1>15. NoTimeout(z)'
  BY <1>0, <1>2 DEF ScopeInv, NoTimeout
<1>16. OutsideKept(z)'
  <2> SUFFICES ASSUME "shield" \notin Setup[z].program, ext' > 0, ~caught',
                      \A r \in Setup[z].scopes : ~cancel_called'[r]
               PROVE  S(z)!Outstanding'
    BY DEF OutsideKept, S!ExternalKept
  <2>1. \A r \in Setup[z].scopes : ~cancel_called[r]
    BY <1>0
  <2>2. S(z)!Outstanding
    BY <1>0, <2>1 DEF ScopeInv, OutsideKept, S!ExternalKept
  <2>3. task' = k /\ exc' = IF exc = "none" THEN outer[s] ELSE exc
    BY <1>0, <1>2, <2>1
  <2>4. CASE S(z)!Interrupted(task)
    BY <1>6, <2>3, <2>4 DEF S!Outstanding
  <2>5. CASE exc = "cancelled"
    BY <2>3, <2>5 DEF S!Outstanding
  <2>6. ASSUME NEW i \in DOMAIN stack, outer[stack[i]] = "cancelled" \/ saved[stack[i]] > 0
        PROVE  S(z)!Outstanding'
    <3>1. CASE i # Len(stack)
      <4>1. i \in DOMAIN stack' /\ stack'[i] = stack[i] /\ stack[i] # s
        BY <1>12, <3>1
      <4>2. stack[i] \in Setup[z].scopes
        BY <1>1, <2>6, LedgerNumbers DEF S!OnStack
      <4>3. saved'[stack'[i]] = saved[stack[i]] /\ outer'[stack'[i]] = outer[stack[i]]
        BY <1>0, <1>6, <4>1, <4>2
      <4> QED BY <2>6, <4>1, <4>3 DEF S!Outstanding
    <3>2. CASE i = Len(stack) /\ outer[stack[i]] = "cancelled"
      <4>1. exc # "timeout"
        BY <2>1 DEF ScopeInv, NoTimeout
      <4>2. exc' = "cancelled"
        BY <1>2, <1>3, <2>3, <3>2, <4>1 DEF S!Exceptions
      <4> QED BY <4>2 DEF S!Outstanding
    <3>3. CASE i = Len(stack) /\ saved[stack[i]] > 0
      <4>1. shield[s] /\ saved[s] > 0
        BY <1>2, <3>3 DEF ScopeInv, Snapshots
      <4> QED BY <1>6, <2>3, <4>1 DEF S!Outstanding
    <3> QED BY <2>6, <3>1, <3>2, <3>3
  <2> QED BY <2>2, <2>4, <2>5, <2>6 DEF S!Outstanding
<1> QED BY <1>11, <1>13, <1>14, <1>15, <1>16 DEF ScopeInv

\* Frame of the two sections of __aenter__ that follow the entry.
Entering ==
    UNCHANGED <<now, due, taken, outer, shield, deadline, ready, entries, sets, ext, passed, caught>>

\* __aenter__ raises: the entry is undone, and nothing was injected.
LEMMA RaiseInv ==
    ASSUME NEW z \in ScopeScenes, ScopeInv(z), at \in {"arm", "check"}, Entering,
           NEW k \in S(z)!TaskType, k.state = task.state, k.thrown = task.thrown,
           k.cancels <= task.cancels, NEW e \in {"timeout", "cancelled"},
           S(z)!RaiseFromEnter(S(z)!Top, e, k),
           cancel_called' \in [Setup[z].scopes -> BOOLEAN],
           \A r \in Setup[z].scopes : cancel_called[r] => cancel_called'[r],
           \E r \in Setup[z].scopes : cancel_called'[r]
    PROVE  ScopeInv(z)'
<1> DEFINE s == S(z)!Top
           c == S(z)!Restored(s, k)
<1>0. /\ task' = c /\ saved' = S(z)!Spent(s) /\ stack' = S(z)!Pop
      /\ timers' = timers \ {<<s, handle[s]>>} /\ handle' = [handle EXCEPT ![s] = 0]
      /\ active' = [active EXCEPT ![s] = FALSE] /\ exc' = e /\ at' = "body" /\ injected' = injected
  BY DEF S!RaiseFromEnter, S!DropTimer
<1>1. /\ S(z)!TypeOK /\ S(z)!ScopesBound /\ Books(z) /\ BooksAround /\ stack # <<>>
      /\ task.state = "running" /\ ~injected[s] /\ ~taken
  BY DEF ScopeInv, HostPlaced
<1>2. s \in Setup[z].scopes /\ stack' \in Seq(Setup[z].scopes)
  BY <1>0, <1>1, PopFacts
<1>3. /\ saved \in [Setup[z].scopes -> Nat] /\ shield \in [Setup[z].scopes -> BOOLEAN]
      /\ active \in [Setup[z].scopes -> BOOLEAN]
      /\ handle \in [Setup[z].scopes -> 0..Setup[z].time]
      /\ timers \subseteq Setup[z].scopes \X (1..Setup[z].time)
  BY <1>1 DEF S!TypeOK
<1>4. /\ c \in S(z)!TaskType /\ c.cancels \in Nat /\ c.state = k.state
      /\ k.state = "suspended" \/ c.thrown = k.thrown
      /\ c.cancels <= k.cancels + saved[s]
      /\ S(z)!Spent(s) \in [Setup[z].scopes -> Nat]
  <2>1. /\ s \in Setup[z].scopes /\ k \in S(z)!TaskType
        /\ saved \in [Setup[z].scopes -> Nat] /\ shield \in [Setup[z].scopes -> BOOLEAN]
    BY <1>2, <1>3
  <2> QED BY <2>1, RestoredFacts
<1>5. c.cancels <= task.cancels + saved[s]
  <2>1. k.cancels \in Nat /\ task.cancels \in Nat /\ saved[s] \in Nat
    BY <1>1, <1>2, <1>3, LedgerNumbers DEF S!TaskType
  <2> HIDE DEF c, s
  <2> QED BY <1>4, <2>1
<1> HIDE DEF c
<1>6. Books(z)' /\ BooksAround'
  <2>1. /\ task'.cancels \in Nat /\ task'.cancels <= c.cancels /\ ~taken' /\ passed' = passed
        /\ UNCHANGED <<injected, ext>>
    BY <1>0, <1>1, <1>4 DEF Entering
  <2>2. c.cancels \in Nat /\ c.cancels <= task.cancels + saved[S(z)!Top]
    BY <1>4, <1>5
  <2>3. S(z)!TypeOK /\ S(z)!ScopesBound /\ Books(z) /\ BooksAround /\ stack # <<>> /\ ~taken
    BY <1>1
  <2>4. stack' = S(z)!Pop /\ saved' = S(z)!Spent(S(z)!Top)
    BY <1>0
  <2> QED BY <2>1, <2>2, <2>3, <2>4, PopBooks
<1>7. S(z)!TypeOK'
  <2>1. 0 \in 0..Setup[z].time
    BY SetupFacts
  <2>2. /\ handle' \in [Setup[z].scopes -> 0..Setup[z].time]
        /\ timers' \subseteq Setup[z].scopes \X (1..Setup[z].time)
        /\ active' \in [Setup[z].scopes -> BOOLEAN]
    BY <1>0, <1>3, <2>1
  <2>3. exc' \in S(z)!Exceptions
    BY <1>0 DEF S!Exceptions
  <2> QED BY <1>0, <1>1, <1>2, <1>4, <2>2, <2>3
          DEF S!TypeOK, S!TaskType, S!Exceptions, S!Infinite, Entering
<1>8. /\ S(z)!ScopesBound' /\ HostPlaced(z)' /\ InjectedCalled(z)' /\ Posted(z)'
      /\ Snapshots(z)' /\ HostQuiet'
  <2>1. task'.state = "running" /\ task'.thrown = task.thrown /\ ~taken' /\ at # "body"
    BY <1>0, <1>1, <1>4 DEF Entering
  <2>2. UNCHANGED <<injected, shield, ready, entries>>
    BY <1>0 DEF Entering
  <2> QED BY <1>0, <1>1, <2>1, <2>2, PopStructure
<1>9. NoTimeout(z)' /\ OutsideKept(z)'
  BY DEF NoTimeout, OutsideKept, S!ExternalKept
<1> QED BY <1>6, <1>7, <1>8, <1>9 DEF ScopeInv

\* A move_on scope injects on entry.
LEMMA InjectOnEntryInv ==
    ASSUME NEW z \in ScopeScenes, S(z)!SafeUse, ScopeInv(z), at \in {"arm", "check"}, Entering,
           S(z)!InjectOnEntry(S(z)!Top), Setup[z].kind[S(z)!Top] = "move_on",
           cancel_called' \in [Setup[z].scopes -> BOOLEAN],
           \A r \in Setup[z].scopes : cancel_called[r] => cancel_called'[r],
           cancel_called'[S(z)!Top]
    PROVE  ScopeInv(z)'
<1> DEFINE s == S(z)!Top
<1>0. /\ task' = S(z)!CancelTimes(task, 1) /\ injected' = [injected EXCEPT ![s] = TRUE]
      /\ at' = "body" /\ UNCHANGED <<exc, stack, active, saved, handle, timers>>
  BY DEF S!InjectOnEntry
<1>1. /\ S(z)!TypeOK /\ S(z)!ScopesBound /\ Books(z) /\ BooksAround /\ Posted(z) /\ stack # <<>>
      /\ task.state = "running" /\ active[s] /\ ~injected[s] /\ ~taken
  BY DEF ScopeInv, HostPlaced
<1>2. s \in Setup[z].scopes
  BY <1>1, TopFacts
<1>3. task \in S(z)!TaskType /\ injected \in [Setup[z].scopes -> BOOLEAN]
  BY <1>1 DEF S!TypeOK
<1> HIDE DEF s
<1>4. task' \in S(z)!TaskType /\ task'.state = "running" /\ task'.thrown = task.thrown
  <2>1. /\ S(z)!CancelTimes(task, 1) \in S(z)!TaskType
        /\ S(z)!CancelTimes(task, 1).state = task.state
        /\ task.state = "suspended" \/ S(z)!CancelTimes(task, 1).thrown = task.thrown
    BY <1>3, Cancelling
  <2> QED BY <1>0, <1>1, <2>1
<1>5. /\ injected'[s] /\ \A r \in Setup[z].scopes : r # s => injected'[r] = injected[r]
  BY <1>0, <1>2, <1>3
<1>6. S(z)!TypeOK'
  <2>1. injected' \in [Setup[z].scopes -> BOOLEAN]
    BY <1>0, <1>3
  <2> QED BY <1>0, <1>1, <1>4, <2>1 DEF S!TypeOK, S!TaskType, S!Exceptions, S!Infinite, Entering
<1>7. S(z)!ScopesBound'
  <2>1. \A r \in Setup[z].scopes : injected'[r] => active[r]
    BY <1>1, <1>5 DEF S!ScopesBound
  <2>2. at # "leave"
    OBVIOUS
  <2> QED BY <1>0, <1>1, <2>1, <2>2 DEF S!ScopesBound
<1>8. HostPlaced(z)' /\ HostQuiet'
  BY <1>0, <1>1, <1>4 DEF ScopeInv, HostPlaced, HostQuiet, Entering
<1>9. InjectedCalled(z)'
  BY <1>5 DEF ScopeInv, InjectedCalled, s
<1>10. Posted(z)'
  <2>1. \A r \in Setup[z].foreign : r \in Setup[z].scopes /\ r # s
    BY SetupFacts, SafeFacts DEF s
  <2>2. \A r \in Setup[z].foreign :
          cancel_called[r] /\ ~injected[r] => cancel_called'[r] /\ ~injected'[r]
    BY <1>5, <2>1
  <2> QED BY <1>1, <2>2, PostedSame DEF Entering
<1>11. Snapshots(z)'
  BY <1>0 DEF ScopeInv, Snapshots, S!OnStack, Entering
<1>12. Books(z)' /\ BooksAround'
  BY <1>0, <1>1, <1>2, BooksInject DEF Entering
<1>13. NoTimeout(z)' /\ OutsideKept(z)'
  BY <1>2 DEF NoTimeout, OutsideKept, S!ExternalKept, s
<1> QED BY <1>6, <1>7, <1>8, <1>9, <1>10, <1>11, <1>12, <1>13 DEF ScopeInv

\* __aenter__ goes on, or returns.
LEMMA EnteredInv ==
    ASSUME NEW z \in ScopeScenes, ScopeInv(z), at \in {"arm", "check"}, Entering,
           at' \in {"check", "body"},
           UNCHANGED <<task, exc, stack, cancel_called, active, injected, saved>>,
           timers' \subseteq Setup[z].scopes \X (1..Setup[z].time),
           handle' \in [Setup[z].scopes -> 0..Setup[z].time]
    PROVE  ScopeInv(z)'
<1>1. S(z)!TypeOK /\ Books(z) /\ BooksAround /\ Posted(z)
  BY DEF ScopeInv
<1>2. S(z)!TypeOK'
  BY <1>1 DEF S!TypeOK, S!TaskType, S!Exceptions, S!Infinite, Entering
<1>3. S(z)!ScopesBound' /\ HostPlaced(z)'
  <2>1. S(z)!ScopesBound'
    BY DEF ScopeInv, S!ScopesBound, S!Top
  <2>2. HostPlaced(z)'
    BY DEF ScopeInv, HostPlaced, S!Top, Entering
  <2> QED BY <2>1, <2>2
<1>4. InjectedCalled(z)' /\ Snapshots(z)' /\ HostQuiet' /\ NoTimeout(z)' /\ OutsideKept(z)'
  BY DEF ScopeInv, InjectedCalled, Snapshots, S!OnStack, HostQuiet, NoTimeout, OutsideKept,
         S!ExternalKept, S!Outstanding, Entering
<1>5. Posted(z)'
  <2>1. \A r \in Setup[z].foreign :
          cancel_called[r] /\ ~injected[r] => cancel_called'[r] /\ ~injected'[r]
    OBVIOUS
  <2> QED BY <1>1, <2>1, PostedSame DEF Entering
<1>6. Books(z)' /\ BooksAround'
  <2>1. task.cancels \in Nat /\ ext \in Nat
    BY <1>1, LedgerNumbers
  <2>2. task'.cancels \in Nat /\ task'.cancels <= task.cancels + 0 /\ ext' = ext + 0
    BY <2>1 DEF Entering
  <2> QED BY <1>1, <2>2, BooksSame DEF Entering
<1> QED BY <1>2, <1>3, <1>4, <1>5, <1>6 DEF ScopeInv

\* __aenter__ arms the timer of the deadline, or finds it past and raises or injects.
LEMMA EnterArmInv ==
    ASSUME NEW z \in ScopeScenes, S(z)!SafeUse, ScopeInv(z), S(z)!EnterArm
    PROVE  ScopeInv(z)'
<1> DEFINE s == S(z)!Top
<1>0. task.state = "running" /\ at = "arm" /\ Entering
  BY DEF S!EnterArm, S!count, Entering
<1>1. /\ S(z)!TypeOK /\ S(z)!ScopesBound /\ stack # <<>>
  BY <1>0 DEF ScopeInv, HostPlaced
<1>2. s \in Setup[z].scopes
  BY <1>1, TopFacts
<1>3. /\ cancel_called \in [Setup[z].scopes -> BOOLEAN] /\ task \in S(z)!TaskType
      /\ due \in 0..S(z)!Infinite
      /\ timers \subseteq Setup[z].scopes \X (1..Setup[z].time)
      /\ handle \in [Setup[z].scopes -> 0..Setup[z].time]
  BY <1>1 DEF S!TypeOK
<1>4. CASE due = 0
  <2>1. /\ cancel_called' = [cancel_called EXCEPT ![s] = TRUE]
        /\ Setup[z].kind[s] = "fail" => S(z)!RaiseFromEnter(s, "timeout", task)
        /\ Setup[z].kind[s] = "move_on" => S(z)!InjectOnEntry(s)
        /\ Setup[z].kind[s] = "plain" => S(z)!RaiseFromEnter(s, "cancelled", task)
    <3>1. ~(due > 0)
      BY <1>4
    <3> QED BY <1>4, <3>1 DEF S!EnterArm
  <2>2. /\ cancel_called' \in [Setup[z].scopes -> BOOLEAN] /\ cancel_called'[s]
        /\ \A r \in Setup[z].scopes : cancel_called[r] => cancel_called'[r]
    BY <1>2, <1>3, <2>1
  <2>3. Setup[z].kind[s] \in {"plain", "fail", "move_on"}
    BY <1>2, SetupFacts
  <2>4. task.cancels \in Nat /\ task.cancels <= task.cancels
    BY <1>3 DEF S!TaskType
  <2>5. CASE Setup[z].kind[s] = "fail"
    <3>1. S(z)!RaiseFromEnter(s, "timeout", task)
      BY <2>1, <2>5
    <3> QED BY <1>0, <1>2, <1>3, <2>2, <2>4, <3>1, RaiseInv
  <2>6. CASE Setup[z].kind[s] = "move_on"
    <3>1. S(z)!InjectOnEntry(s)
      BY <2>1, <2>6
    <3> QED BY <1>0, <2>2, <2>6, <3>1, InjectOnEntryInv
  <2>7. CASE Setup[z].kind[s] = "plain"
    <3>1. S(z)!RaiseFromEnter(s, "cancelled", task)
      BY <2>1, <2>7
    <3> QED BY <1>0, <1>2, <1>3, <2>2, <2>4, <3>1, RaiseInv
  <2> QED BY <2>3, <2>5, <2>6, <2>7
<1>5. CASE due # 0
  <2>1. /\ at' = "check"
        /\ IF due = S(z)!Infinite THEN UNCHANGED <<timers, handle>>
           ELSE timers' = timers \cup {<<s, due>>} /\ handle' = [handle EXCEPT ![s] = due]
        /\ UNCHANGED <<task, exc, stack, cancel_called, active, injected, saved>>
    BY <1>5 DEF S!EnterArm
  <2>2. due # S(z)!Infinite => due \in 1..Setup[z].time /\ due \in 0..Setup[z].time
    BY <1>3, <1>5, SetupFacts DEF S!Infinite
  <2>3. /\ timers' \subseteq Setup[z].scopes \X (1..Setup[z].time)
        /\ handle' \in [Setup[z].scopes -> 0..Setup[z].time]
    BY <1>2, <1>3, <2>1, <2>2
  <2> QED BY <1>0, <2>1, <2>3, EnteredInv
<1> QED BY <1>4, <1>5

\* __aenter__ raises or injects when its scope or one around it is cancelled already.
LEMMA EnterCheckInv ==
    ASSUME NEW z \in ScopeScenes, S(z)!SafeUse, ScopeInv(z), S(z)!EnterCheck
    PROVE  ScopeInv(z)'
<1> DEFINE s == S(z)!Top
           own == cancel_called[s]
           cleared == IF shield[s] THEN task ELSE S(z)!UncancelTimes(task, task.cancels)
<1>0. task.state = "running" /\ at = "check" /\ Entering /\ cancel_called' = cancel_called
  BY DEF S!EnterCheck, S!count, Entering
<1>1. /\ S(z)!TypeOK /\ S(z)!ScopesBound /\ stack # <<>>
  BY <1>0 DEF ScopeInv, HostPlaced
<1>2. s \in Setup[z].scopes
  BY <1>1, TopFacts
<1>3. /\ cancel_called \in [Setup[z].scopes -> BOOLEAN] /\ task \in S(z)!TaskType
      /\ timers \subseteq Setup[z].scopes \X (1..Setup[z].time)
      /\ handle \in [Setup[z].scopes -> 0..Setup[z].time]
  BY <1>1 DEF S!TypeOK
<1>4. task.cancels \in Nat /\ task.cancels <= task.cancels
  BY <1>3 DEF S!TaskType
<1>5. CASE ~S(z)!EffectivelyCancelled
  <2>1. at' = "body" /\ UNCHANGED <<task, exc, stack, active, injected, saved, handle, timers>>
    BY <1>5 DEF S!EnterCheck
  <2> QED BY <1>0, <1>3, <2>1, EnteredInv
<1>6. CASE S(z)!EffectivelyCancelled
  <2>1. /\ own /\ Setup[z].kind[s] = "fail" => S(z)!RaiseFromEnter(s, "timeout", task)
        /\ own /\ Setup[z].kind[s] = "move_on" => S(z)!InjectOnEntry(s)
        /\ ~own \/ Setup[z].kind[s] = "plain" => S(z)!RaiseFromEnter(s, "cancelled", cleared)
    BY <1>6 DEF S!EnterCheck
  <2>2. /\ cancel_called' \in [Setup[z].scopes -> BOOLEAN]
        /\ \A r \in Setup[z].scopes : cancel_called[r] => cancel_called'[r]
    BY <1>0, <1>3
  <2>3. \E r \in Setup[z].scopes : cancel_called'[r]
    <3>1. PICK i \in DOMAIN stack : cancel_called[stack[i]]
      BY <1>6 DEF S!EffectivelyCancelled
    <3>2. stack[i] \in Setup[z].scopes
      BY <1>1, LedgerNumbers DEF S!OnStack
    <3> QED BY <1>0, <3>1, <3>2
  <2>4. Setup[z].kind[s] \in {"plain", "fail", "move_on"} /\ own \in BOOLEAN
    BY <1>2, <1>3, SetupFacts
  <2>5. /\ cleared \in S(z)!TaskType /\ cleared.state = task.state /\ cleared.thrown = task.thrown
        /\ cleared.cancels <= task.cancels
    <3>1. PICK u : u = S(z)!UncancelTimes(task, task.cancels)
      OBVIOUS
    <3>2. task \in S(z)!TaskType /\ task.cancels \in Nat
      BY <1>3, <1>4
    <3>3. /\ u \in S(z)!TaskType /\ u.state = task.state /\ u.thrown = task.thrown
          /\ u.cancels = IF task.cancels < task.cancels THEN task.cancels - task.cancels ELSE 0
      BY <3>1, <3>2, Uncancelling
    <3>4. u.cancels <= task.cancels
      BY <1>4, <3>3
    <3>5. cleared = task \/ cleared = u
      BY <3>1
    <3> QED BY <1>3, <1>4, <3>3, <3>4, <3>5
  <2> HIDE DEF cleared
  <2>6. CASE own /\ Setup[z].kind[s] = "fail"
    <3>1. S(z)!RaiseFromEnter(s, "timeout", task)
      BY <2>1, <2>6
    <3> QED BY <1>0, <1>3, <1>4, <2>2, <2>3, <3>1, RaiseInv
  <2>7. CASE own /\ Setup[z].kind[s] = "move_on"
    <3>1. S(z)!InjectOnEntry(s) /\ cancel_called'[s]
      BY <1>0, <2>1, <2>7
    <3> QED BY <1>0, <2>2, <2>7, <3>1, InjectOnEntryInv
  <2>8. CASE ~own \/ Setup[z].kind[s] = "plain"
    <3>1. S(z)!RaiseFromEnter(s, "cancelled", cleared)
      BY <2>1, <2>8
    <3> QED BY <1>0, <2>2, <2>3, <2>5, <3>1, RaiseInv
  <2> QED BY <2>4, <2>6, <2>7, <2>8
<1> QED BY <1>5, <1>6

\* The beginning of __aexit__: the scope is detached and its injection, if any, is in hand.
LEMMA ExitBeginInv ==
    ASSUME NEW z \in ScopeScenes, ScopeInv(z), S(z)!ExitBegin
    PROVE  ScopeInv(z)'
<1> DEFINE s == S(z)!Top
<1>0. /\ task.state = "running" /\ at = "body" /\ stack # <<>> /\ at' = "leave"
      /\ taken' = injected[s] /\ injected' = [injected EXCEPT ![s] = FALSE]
      /\ active' = [active EXCEPT ![s] = FALSE]
      /\ UNCHANGED <<now, task, exc, stack, due, outer, cancel_called, saved, shield, deadline,
                     handle, timers, ready, entries, sets, ext, passed, caught>>
  BY DEF S!ExitBegin, S!InBody, S!count
<1>1. S(z)!TypeOK /\ S(z)!ScopesBound /\ Posted(z) /\ Books(z) /\ BooksAround /\ ~taken
  BY <1>0 DEF ScopeInv, HostPlaced
<1>2. /\ s \in Setup[z].scopes /\ s = stack[Len(stack)] /\ s' = s
      /\ \A p \in DOMAIN stack : s \notin Around(p)
  BY <1>0, <1>1, TopFacts DEF S!Top
<1>3. /\ injected \in [Setup[z].scopes -> BOOLEAN] /\ active \in [Setup[z].scopes -> BOOLEAN]
  BY <1>1 DEF S!TypeOK
<1> HIDE DEF s
<1>4. /\ ~injected'[s] /\ \A r \in Setup[z].scopes : r # s => injected'[r] = injected[r]
      /\ ~active'[s] /\ \A r \in Setup[z].scopes : r # s => active'[r] = active[r]
      /\ injected' \in [Setup[z].scopes -> BOOLEAN] /\ active' \in [Setup[z].scopes -> BOOLEAN]
      /\ taken' \in BOOLEAN
  BY <1>0, <1>2, <1>3
<1>5. S(z)!TypeOK'
  BY <1>0, <1>1, <1>4 DEF S!TypeOK, S!TaskType, S!Exceptions, S!Infinite
<1>6. S(z)!ScopesBound'
  <2>1. \A i, j \in DOMAIN stack' : stack'[i] = stack'[j] => i = j
    BY <1>0, <1>1 DEF S!ScopesBound
  <2>2. ASSUME NEW r \in Setup[z].scopes
        PROVE  /\ active'[r] => \E i \in DOMAIN stack' : stack'[i] = r
               /\ injected'[r] => active'[r]
               /\ (\E i \in DOMAIN stack' : stack'[i] = r) /\ ~active'[r] => r = s
    <3>1. CASE r = s
      BY <1>4, <3>1
    <3>2. CASE r # s
      BY <1>0, <1>1, <1>4, <3>2 DEF S!ScopesBound
    <3> QED BY <3>1, <3>2
  <2>3. S(z)!Top' = s
    BY <1>2 DEF s
  <2> QED BY <1>0, <2>1, <2>2, <2>3 DEF S!ScopesBound
<1>7. HostPlaced(z)'
  <2>1. S(z)!Top' = s
    BY <1>2 DEF s
  <2>2. injected[s] => cancel_called[s]
    BY <1>2 DEF ScopeInv, InjectedCalled
  <2> QED BY <1>0, <1>4, <2>1, <2>2 DEF HostPlaced
<1>8. InjectedCalled(z)' /\ HostQuiet' /\ NoTimeout(z)' /\ OutsideKept(z)'
  <2>1. \A r \in Setup[z].scopes : injected'[r] => injected[r]
    BY <1>4
  <2> QED BY <1>0, <2>1 DEF ScopeInv, InjectedCalled, HostQuiet, NoTimeout, OutsideKept,
             S!ExternalKept, S!Outstanding
<1>9. Posted(z)'
  <2>1. \A r \in Setup[z].foreign : r \in Setup[z].scopes
    BY SetupFacts
  <2>2. \A r \in Setup[z].foreign :
          cancel_called[r] /\ ~injected[r] => cancel_called'[r] /\ ~injected'[r]
    BY <1>0, <1>4, <2>1
  <2> QED BY <1>0, <1>1, <2>2, PostedSame
<1>10. Snapshots(z)'
  <2>1. \A r \in Setup[z].scopes : active'[r] => active[r]
    BY <1>4
  <2> QED BY <1>0, <2>1 DEF ScopeInv, Snapshots, S!OnStack
<1>11. Books(z)'
  <2> DEFINE J == Injectors(Setup[z].scopes)
             K == Total(saved, S(z)!OnStack)
             T == IF taken' THEN 1 ELSE 0
  <2>1. /\ IsFiniteSet(J) /\ Cardinality(J) \in Nat /\ K \in Nat /\ task.cancels \in Nat
        /\ ext \in Nat /\ passed \in Nat
    BY <1>1, LedgerNumbers
  <2>2. J' = J \ {s} /\ (s \in J <=> injected[s]) /\ K' = K
    <3>1. J' = J \ {s}
      BY <1>4 DEF Injectors
    <3> QED BY <1>0, <1>2, <3>1 DEF Injectors, S!OnStack
  <2>3. task.cancels + K <= ext + passed + Cardinality(J)
    BY <1>1, <2>1 DEF Books
  <2> HIDE DEF J, K
  <2>4. Cardinality(J') = IF s \in J THEN Cardinality(J) - 1 ELSE Cardinality(J)
    BY <2>1, <2>2, FS_RemoveElement
  <2>5. T = IF s \in J THEN 1 ELSE 0
    BY <1>0, <2>2
  <2>6. Cardinality(J) <= Cardinality(J') + T
    BY <2>1, <2>4, <2>5
  <2>7. Cardinality(J') \in Nat /\ T \in Nat
    <3>1. s \in J => Cardinality(J) # 0
      BY <2>1, FS_EmptySet
    <3> QED BY <2>1, <2>4, <3>1
  <2> HIDE DEF T
  <2>8. task.cancels + K <= ext + passed + Cardinality(J') + T
    BY <2>1, <2>3, <2>6, <2>7
  <2> QED BY <1>0, <2>2, <2>8 DEF Books, J, K, T
<1>12. BooksAround'
  <2> SUFFICES ASSUME NEW p \in DOMAIN stack
               PROVE  (Total(saved, Around(p)) <= ext + passed + Cardinality(Injectors(Around(p))))'
    BY <1>0 DEF BooksAround
  <2>1. Around(p)' = Around(p) /\ Around(p) \subseteq Setup[z].scopes
    BY <1>0, <1>1, LedgerNumbers DEF Around
  <2>2. (Injectors(Around(p)))' = Injectors(Around(p))
    BY <1>2, <1>4, <2>1 DEF Injectors
  <2> QED BY <1>0, <1>1, <2>1, <2>2 DEF BooksAround
<1> QED BY <1>5, <1>6, <1>7, <1>8, <1>9, <1>10, <1>11, <1>12 DEF ScopeInv

\* The beginning of __aenter__: the scope is pushed, a shield takes its snapshot.
LEMMA EnterBeginInv ==
    ASSUME NEW z \in ScopeScenes, S(z)!SafeUse, ScopeInv(z), NEW s \in Setup[z].scopes, S(z)!EnterBegin(s)
    PROVE  ScopeInv(z)'
<1> DEFINE n == Len(stack)
           A == S(z)!OnStack
<1>0. /\ task.state = "running" /\ at = "body" /\ at' = "arm"
      /\ ~active[s] /\ \A i \in DOMAIN stack : stack[i] # s
      /\ entries[s] < Setup[z].entries /\ entries' = [entries EXCEPT ![s] = entries[s] + 1]
      /\ active' = [active EXCEPT ![s] = TRUE]
      /\ injected' = [injected EXCEPT ![s] = FALSE]
      /\ saved' = IF shield[s] THEN [saved EXCEPT ![s] = task.cancels] ELSE saved
      /\ task' = IF shield[s] THEN S(z)!UncancelTimes(task, task.cancels) ELSE task
      /\ stack' = Append(stack, s)
      /\ outer' = [outer EXCEPT ![s] = exc] /\ exc' = "none"
      /\ due' = IF deadline[s] <= now THEN 0 ELSE deadline[s]
      /\ UNCHANGED <<now, taken, cancel_called, shield, deadline, handle, timers, ready, sets, ext,
                     passed, caught>>
  BY DEF S!EnterBegin, S!InBody
<1>1. S(z)!TypeOK /\ S(z)!ScopesBound /\ Posted(z) /\ Books(z) /\ BooksAround /\ ~taken
  BY <1>0 DEF ScopeInv, HostPlaced
<1>2. /\ task \in S(z)!TaskType /\ stack \in Seq(Setup[z].scopes)
      /\ active \in [Setup[z].scopes -> BOOLEAN] /\ injected \in [Setup[z].scopes -> BOOLEAN]
      /\ saved \in [Setup[z].scopes -> Nat] /\ shield \in [Setup[z].scopes -> BOOLEAN]
      /\ outer \in [Setup[z].scopes -> S(z)!Exceptions] /\ exc \in S(z)!Exceptions
      /\ entries \in [Setup[z].scopes -> 0..Setup[z].entries]
      /\ deadline \in [Setup[z].scopes -> 0..S(z)!Infinite]
  BY <1>1 DEF S!TypeOK
<1>3. /\ stack' \in Seq(Setup[z].scopes) /\ stack' # <<>>
      /\ n \in Nat /\ DOMAIN stack = 1..n /\ DOMAIN stack' = 1..(n + 1) /\ Len(stack') = n + 1
      /\ \A i \in 1..n : stack'[i] = stack[i]
      /\ stack'[n + 1] = s
  <2>1. stack \in Seq(Setup[z].scopes) /\ stack' = Append(stack, s)
    BY <1>0, <1>2
  <2>2. /\ stack' \in Seq(Setup[z].scopes) /\ stack' # <<>>
        /\ n \in Nat /\ DOMAIN stack = 1..n /\ DOMAIN stack' = 1..(n + 1) /\ Len(stack') = n + 1
        /\ \A i \in 1..n : stack'[i] = stack[i]
        /\ stack'[Len(stack')] = s
    BY <2>1, Pushed
  <2> QED BY <2>2
<1> HIDE DEF n
<1>4. /\ \A i \in DOMAIN stack : i \in DOMAIN stack' /\ stack'[i] = stack[i] /\ i # n + 1
      /\ \A i \in DOMAIN stack' : i \in DOMAIN stack \/ i = n + 1
      /\ n + 1 \in DOMAIN stack' /\ stack'[n + 1] = s /\ S(z)!Top' = s
  BY <1>3 DEF S!Top
<1>5. A' = A \cup {s} /\ s \notin A /\ A \subseteq Setup[z].scopes
  <2>1. A' = A \cup {s}
    BY <1>4 DEF S!OnStack
  <2>2. s \notin A
    BY <1>0 DEF S!OnStack
  <2> QED BY <1>1, <2>1, <2>2, LedgerNumbers
<1>6. /\ task.cancels \in Nat /\ ext \in Nat /\ passed \in Nat /\ Total(saved, A) \in Nat
      /\ IsFiniteSet(A)
      /\ Cardinality(Injectors(Setup[z].scopes)) \in Nat
      /\ task.cancels + Total(saved, A) <= ext + passed + Cardinality(Injectors(Setup[z].scopes))
  <2>1. /\ task.cancels \in Nat /\ ext \in Nat /\ passed \in Nat /\ Total(saved, A) \in Nat
        /\ Cardinality(Injectors(Setup[z].scopes)) \in Nat
    BY <1>1, LedgerNumbers
  <2>2. IsFiniteSet(A)
    BY <1>2, <1>5, Numbers
  <2>3. task.cancels + Total(saved, A)
          <= ext + passed + Cardinality(Injectors(Setup[z].scopes)) + (IF taken THEN 1 ELSE 0)
    BY <1>1 DEF Books
  <2>4. (IF taken THEN 1 ELSE 0) = 0
    BY <1>1
  <2> DEFINE I == Cardinality(Injectors(Setup[z].scopes))
             K == Total(saved, A)
  <2> HIDE DEF I, K
  <2>5. task.cancels + K <= ext + passed + I
    <3>1. K \in Nat /\ I \in Nat /\ task.cancels + K <= ext + passed + I + 0
      BY <2>1, <2>3, <2>4 DEF K, I
    <3> QED BY <2>1, <3>1
  <2> QED BY <2>1, <2>2, <2>5 DEF K, I
<1> HIDE DEF A
<1>7. ~injected[s] /\ injected' = injected
  <2>1. ~injected[s]
    BY <1>0, <1>1 DEF S!ScopesBound
  <2> QED BY <1>0, <1>2, <2>1
<1>8. ~shield[s] => saved[s] = 0
  <2>1. CASE "shield" \in Setup[z].program
    <3>1. entries[s] \in Nat /\ Setup[z].entries <= 1 /\ Setup[z].entries \in Nat
      BY <1>2, <2>1, SetupFacts, SafeFacts
    <3>2. ~(entries[s] > 0)
      BY <1>0, <3>1
    <3>3. ~(saved[s] > 0)
      BY <3>2 DEF ScopeInv, Snapshots
    <3> QED BY <1>2, <3>3
  <2>2. CASE "shield" \notin Setup[z].program
    <3>1. saved[s] > 0 => shield[s]
      BY <2>2 DEF ScopeInv, Snapshots
    <3> QED BY <1>2, <3>1
  <2> QED BY <2>1, <2>2
<1>9. /\ task' \in S(z)!TaskType /\ task'.cancels \in Nat /\ task'.state = "running"
      /\ task'.thrown = task.thrown
      /\ saved' \in [Setup[z].scopes -> Nat]
      /\ \A r \in Setup[z].scopes : r # s => saved'[r] = saved[r]
      /\ task'.cancels + saved'[s] = task.cancels
      /\ shield[s] => saved'[s] = task.cancels
      /\ saved'[s] > 0 => shield[s]
      /\ S(z)!Interrupted(task) => S(z)!Interrupted(task') \/ saved'[s] > 0
  <2>1. CASE shield[s]
    <3>1. saved' = [saved EXCEPT ![s] = task.cancels] /\ task' = S(z)!UncancelTimes(task, task.cancels)
      BY <1>0, <2>1
    <3>2. task \in S(z)!TaskType /\ task.cancels \in Nat
      BY <1>2, <1>6
    <3>3. /\ task' \in S(z)!TaskType /\ task'.state = task.state /\ task'.thrown = task.thrown
          /\ task'.cancels = IF task.cancels < task.cancels THEN task.cancels - task.cancels ELSE 0
          /\ task.cancels = 0 => task'.must = task.must
      BY <3>1, <3>2, Uncancelling
    <3>4. task'.cancels = 0
      BY <3>2, <3>3
    <3>5. /\ saved' \in [Setup[z].scopes -> Nat] /\ saved'[s] = task.cancels
          /\ \A r \in Setup[z].scopes : r # s => saved'[r] = saved[r]
      BY <1>2, <3>1, <3>2
    <3>6. S(z)!Interrupted(task) => S(z)!Interrupted(task') \/ saved'[s] > 0
      <4>1. task.cancels = 0 \/ task.cancels > 0
        BY <3>2
      <4> QED BY <3>3, <3>5, <4>1 DEF S!Interrupted
    <3>7. task'.cancels + saved'[s] = task.cancels /\ task'.cancels \in Nat
      BY <3>2, <3>4, <3>5
    <3> QED BY <1>0, <2>1, <3>3, <3>5, <3>6, <3>7
  <2>2. CASE ~shield[s]
    <3>1. saved' = saved /\ task' = task /\ saved[s] = 0
      BY <1>0, <1>8, <2>2
    <3>2. task.cancels + 0 = task.cancels /\ ~(0 > 0)
      BY <1>6
    <3> QED BY <1>0, <1>2, <1>6, <2>2, <3>1, <3>2
  <2> QED BY <2>1, <2>2
<1>10. S(z)!TypeOK'
  <2>1. active' \in [Setup[z].scopes -> BOOLEAN] /\ outer' \in [Setup[z].scopes -> S(z)!Exceptions]
    BY <1>0, <1>2
  <2>2. entries' \in [Setup[z].scopes -> 0..Setup[z].entries]
    <3>1. entries[s] + 1 \in 0..Setup[z].entries
      BY <1>0, <1>2, SetupFacts
    <3> QED BY <1>0, <1>2, <3>1
  <2>3. due' \in 0..S(z)!Infinite
    <3>1. 0 \in 0..S(z)!Infinite
      BY SetupFacts DEF S!Infinite
    <3> QED BY <1>0, <1>2, <3>1
  <2>4. exc' \in S(z)!Exceptions /\ injected' \in [Setup[z].scopes -> BOOLEAN]
    BY <1>0, <1>2, <1>7 DEF S!Exceptions
  <2> QED BY <1>0, <1>1, <1>3, <1>9, <2>1, <2>2, <2>3, <2>4
          DEF S!TypeOK, S!TaskType, S!Exceptions, S!Infinite
<1>11. S(z)!ScopesBound'
  <2>0. active'[s] /\ \A r \in Setup[z].scopes : r # s => active'[r] = active[r]
    BY <1>0, <1>2
  <2>1. ASSUME NEW i \in DOMAIN stack', NEW j \in DOMAIN stack', stack'[i] = stack'[j]
        PROVE  i = j
    <3>1. CASE i \in DOMAIN stack /\ j \in DOMAIN stack
      BY <1>1, <1>4, <2>1, <3>1 DEF S!ScopesBound
    <3>2. CASE i = n + 1 /\ j \in DOMAIN stack
      BY <1>0, <1>4, <2>1, <3>2
    <3>3. CASE i \in DOMAIN stack /\ j = n + 1
      BY <1>0, <1>4, <2>1, <3>3
    <3> QED BY <1>4, <3>1, <3>2, <3>3
  <2>2. ASSUME NEW r \in Setup[z].scopes
        PROVE  /\ active'[r] => \E i \in DOMAIN stack' : stack'[i] = r
               /\ injected'[r] => active'[r]
               /\ (\E i \in DOMAIN stack' : stack'[i] = r) => active'[r]
    <3>1. CASE r = s
      BY <1>4, <2>0, <3>1
    <3>2. CASE r # s
      <4>1. active[r] => \E i \in DOMAIN stack : stack[i] = r
        BY <1>1 DEF S!ScopesBound
      <4>2. (\E i \in DOMAIN stack' : stack'[i] = r) => \E i \in DOMAIN stack : stack[i] = r
        BY <1>4, <3>2
      <4>3. (\E i \in DOMAIN stack : stack[i] = r) => active[r]
        BY <1>0, <1>1 DEF S!ScopesBound
      <4>4. injected'[r] => active[r]
        BY <1>1, <1>7 DEF S!ScopesBound
      <4>5. (\E i \in DOMAIN stack : stack[i] = r) => \E i \in DOMAIN stack' : stack'[i] = r
        BY <1>4
      <4> QED BY <2>0, <3>2, <4>1, <4>2, <4>3, <4>4, <4>5
    <3> QED BY <3>1, <3>2
  <2> QED BY <2>1, <2>2 DEF S!ScopesBound
<1>12. HostPlaced(z)'
  <2>1. active'[s] /\ ~injected'[s]
    BY <1>0, <1>2, <1>7
  <2> QED BY <1>0, <1>1, <1>3, <1>4, <1>9, <2>1 DEF HostPlaced
<1>13. InjectedCalled(z)' /\ HostQuiet'
  BY <1>0, <1>7, <1>9 DEF ScopeInv, InjectedCalled, HostQuiet
<1>14. Posted(z)'
  <2>1. \A r \in Setup[z].foreign :
          cancel_called[r] /\ ~injected[r] => cancel_called'[r] /\ ~injected'[r]
    BY <1>0, <1>7
  <2> QED BY <1>0, <1>1, <2>1, PostedSame
<1>15. Snapshots(z)'
  <2>1. \A r \in Setup[z].scopes : active'[r] \/ saved'[r] > 0 => entries'[r] > 0
    <3>1. entries[s] + 1 > 0
      BY <1>2
    <3>2. \A r \in Setup[z].scopes : r # s => active'[r] = active[r] /\ entries'[r] = entries[r]
      BY <1>0, <1>2
    <3>3. entries'[s] > 0
      BY <1>0, <1>2, <3>1
    <3> QED BY <1>9, <3>2, <3>3 DEF ScopeInv, Snapshots
  <2>2. ASSUME "shield" \notin Setup[z].program, NEW r \in Setup[z].scopes, saved'[r] > 0
        PROVE  shield[r] /\ r \in A'
    <3>1. CASE r = s
      BY <1>5, <1>9, <2>2, <3>1
    <3>2. CASE r # s
      <4>1. saved[r] > 0
        BY <1>9, <2>2, <3>2
      <4>2. shield[r] /\ r \in A
        BY <2>2, <4>1 DEF ScopeInv, Snapshots, A
      <4> QED BY <1>5, <4>2
    <3> QED BY <3>1, <3>2
  <2> QED BY <1>0, <2>1, <2>2 DEF Snapshots, A
<1>16. Total(saved', A) = Total(saved, A) /\ Total(saved', A') = Total(saved, A) + saved'[s]
  <2>1. \A r \in A : saved'[r] = saved[r]
    BY <1>5, <1>9
  <2>2. Total(saved', A) = Total(saved, A)
    BY <2>1, TotalSame
  <2>3. \A r \in A' : saved'[r] \in Nat
    BY <1>5, <1>9
  <2>4. Total(saved', A') = Total(saved', A) + saved'[s]
    <3>1. PICK B, f : B = A' /\ f = saved'
      OBVIOUS
    <3>2. IsFiniteSet(A) /\ s \notin A /\ B = A \cup {s} /\ \A r \in B : f[r] \in Nat
      BY <1>5, <1>6, <2>3, <3>1
    <3>3. Total(f, B) = Total(f, A) + f[s]
      BY <3>2, TotalAdd
    <3> QED BY <3>1, <3>3
  <2> QED BY <2>2, <2>4
<1>17. Books(z)'
  <2> DEFINE I == Cardinality(Injectors(Setup[z].scopes))
             K == Total(saved, A)
  <2>1. I' = I
    BY <1>7 DEF Injectors
  <2>2. K \in Nat /\ I \in Nat /\ task.cancels + K <= ext + passed + I
    BY <1>6
  <2>3. saved'[s] \in Nat
    BY <1>9
  <2> HIDE DEF K, I
  <2>4. task'.cancels + (K + saved'[s]) <= ext + passed + I
    BY <1>6, <1>9, <2>2, <2>3
  <2>5. task'.cancels + Total(saved', A') <= ext + passed + I'
    BY <1>16, <2>1, <2>4 DEF K
  <2>6. \A x, y, v \in Nat : x + y + v = x + y + v + 0
    OBVIOUS
  <2>7. (IF taken' THEN 1 ELSE 0) = 0 /\ ext' = ext /\ passed' = passed
    BY <1>0, <1>1
  <2>8. task'.cancels + Total(saved', A') <= ext' + passed' + I' + (IF taken' THEN 1 ELSE 0)
    BY <1>6, <2>1, <2>2, <2>5, <2>6, <2>7
  <2> QED BY <2>8 DEF Books, I, A
<1>18. BooksAround'
  <2> SUFFICES ASSUME NEW p \in DOMAIN stack'
               PROVE  Total(saved', Around(p)')
                        <= ext + passed + Cardinality({r \in Around(p)' : injected[r]})
    BY <1>0, <1>7 DEF BooksAround, Injectors
  <2>1. CASE p \in DOMAIN stack
    <3>1. Around(p)' = Around(p)
      <4>1. \A i \in 1..(p - 1) : i \in DOMAIN stack
        BY <1>3, <2>1
      <4> QED BY <1>4, <4>1 DEF Around
    <3>2. Around(p) \subseteq A
      <4>1. \A i \in 1..(p - 1) : i \in DOMAIN stack
        BY <1>3, <2>1
      <4> QED BY <4>1 DEF Around, A, S!OnStack
    <3>3. \A r \in Around(p) : saved'[r] = saved[r]
      BY <1>5, <1>9, <3>2
    <3>4. Total(saved', Around(p)) = Total(saved, Around(p))
      BY <3>3, TotalSame
    <3> QED BY <1>1, <2>1, <3>1, <3>4 DEF BooksAround, Injectors
  <2>2. CASE p = n + 1
    <3>1. Around(p)' = A
      <4>1. p - 1 = n
        BY <1>3, <2>2
      <4>2. Around(p)' = {stack'[i] : i \in 1..n}
        BY <4>1 DEF Around
      <4> QED BY <1>3, <4>2 DEF A, S!OnStack
    <3>2. {r \in A : injected[r]} = Injectors(Setup[z].scopes)
      BY <1>1, <1>5 DEF Injectors, S!ScopesBound, A, S!OnStack
    <3> DEFINE I == Cardinality(Injectors(Setup[z].scopes))
               K == Total(saved, A)
    <3>3. K \in Nat /\ I \in Nat /\ task.cancels + K <= ext + passed + I
      BY <1>6
    <3> HIDE DEF I, K
    <3>4. K <= ext + passed + I
      BY <1>6, <3>3
    <3> QED BY <1>16, <3>1, <3>2, <3>4 DEF I, K
  <2> QED BY <1>4, <2>1, <2>2
<1>19. NoTimeout(z)'
  BY <1>0, <1>2 DEF ScopeInv, NoTimeout
<1>20. OutsideKept(z)'
  <2> SUFFICES ASSUME "shield" \notin Setup[z].program, ext' > 0, ~caught',
                      \A r \in Setup[z].scopes : ~cancel_called'[r]
               PROVE  S(z)!Outstanding'
    BY DEF OutsideKept, S!ExternalKept
  <2>1. S(z)!Outstanding
    BY <1>0 DEF ScopeInv, OutsideKept, S!ExternalKept
  <2>2. CASE S(z)!Interrupted(task)
    BY <1>4, <1>9, <2>2 DEF S!Outstanding
  <2>3. CASE exc = "cancelled"
    <3>1. outer'[s] = "cancelled"
      BY <1>0, <1>2, <2>3
    <3> QED BY <1>4, <3>1 DEF S!Outstanding
  <2>4. ASSUME NEW i \in DOMAIN stack, outer[stack[i]] = "cancelled" \/ saved[stack[i]] > 0
        PROVE  S(z)!Outstanding'
    <3>1. stack[i] \in Setup[z].scopes /\ stack[i] # s
      BY <1>0, <1>5 DEF A, S!OnStack
    <3>2. outer'[stack[i]] = outer[stack[i]] /\ saved'[stack[i]] = saved[stack[i]]
      BY <1>0, <1>2, <1>9, <3>1
    <3>3. i \in DOMAIN stack' /\ stack'[i] = stack[i]
      BY <1>4
    <3> QED BY <2>4, <3>2, <3>3 DEF S!Outstanding
  <2> QED BY <2>1, <2>2, <2>3, <2>4 DEF S!Outstanding
<1> QED BY <1>10, <1>11, <1>12, <1>13, <1>14, <1>15, <1>17, <1>18, <1>19, <1>20 DEF ScopeInv

\* Every step of CancelScope keeps the invariant.
LEMMA ScopeNext ==
    ASSUME NEW z \in ScopeScenes, S(z)!SafeUse, ScopeInv(z), S(z)!Next
    PROVE  ScopeInv(z)'
<1>1. ASSUME NEW s \in Setup[z].scopes, S(z)!Assign(s) PROVE ScopeInv(z)'
  BY <1>1, SetDeadlineInv, SetShieldInv DEF S!Assign
<1>2. CASE \E s \in Setup[z].scopes :
             S(z)!EnterBegin(s) \/ S(z)!cancel(s) \/ S(z)!ForeignCancel(s) \/ S(z)!Assign(s)
  BY <1>1, <1>2, EnterBeginInv, cancelInv, ForeignCancelInv
<1>3. CASE \E s \in Setup[z].scopes, v \in 1..Setup[z].time : S(z)!Expire(s, v)
  BY <1>3, ExpireInv
<1>4. CASE S(z)!EnterArm \/ S(z)!EnterCheck \/ S(z)!ExitBegin \/ S(z)!ExitEnd
  BY <1>4, EnterArmInv, EnterCheckInv, ExitBeginInv, ExitEndInv
<1>5. CASE \/ S(z)!Await \/ S(z)!Resume \/ S(z)!Checkpoint \/ S(z)!Catch \/ S(z)!Finish
           \/ S(z)!External \/ S(z)!Tick \/ S(z)!Callback
  BY <1>5, AwaitInv, ResumeInv, CheckpointInv, CatchInv, FinishInv, ExternalInv, TickInv, CallbackInv
<1> QED BY <1>2, <1>3, <1>4, <1>5 DEF S!Next

\* It holds when the host starts.
LEMMA ScopeInit ==
    ASSUME NEW z \in ScopeScenes, S(z)!Init
    PROVE  ScopeInv(z)
<1>1. S(z)!TypeOK
  <2>1. task \in S(z)!TaskType /\ exc \in S(z)!Exceptions
    BY DEF S!Init, S!FreshTask, S!TaskType, S!Exceptions
  <2>2. stack \in Seq(Setup[z].scopes)
        /\ ready \in Seq([op: {"deliver", "shield", "schedule"}, scope: Setup[z].scopes, value: Nat])
    BY EmptySeq DEF S!Init
  <2>3. /\ now \in 0..Setup[z].time /\ due \in 0..S(z)!Infinite
        /\ handle \in [Setup[z].scopes -> 0..Setup[z].time]
        /\ deadline \in [Setup[z].scopes -> 0..S(z)!Infinite]
        /\ entries \in [Setup[z].scopes -> 0..Setup[z].entries] /\ sets \in 0..Setup[z].sets
        /\ ext \in 0..Setup[z].external
    BY SetupFacts DEF S!Init, S!Infinite
  <2>4. /\ outer \in [Setup[z].scopes -> S(z)!Exceptions]
        /\ cancel_called \in [Setup[z].scopes -> BOOLEAN] /\ active \in [Setup[z].scopes -> BOOLEAN]
        /\ injected \in [Setup[z].scopes -> BOOLEAN] /\ shield \in [Setup[z].scopes -> BOOLEAN]
        /\ saved \in [Setup[z].scopes -> Nat]
    BY DEF S!Init, S!Exceptions
  <2> QED BY <2>1, <2>2, <2>3, <2>4 DEF S!Init, S!TypeOK
<1>2. DOMAIN stack = {} /\ DOMAIN ready = {}
  BY DEF S!Init
<1>3. S(z)!ScopesBound /\ HostPlaced(z) /\ InjectedCalled(z) /\ Posted(z) /\ BooksAround
  BY <1>2 DEF S!Init, S!ScopesBound, HostPlaced, InjectedCalled, Posted, BooksAround
<1>4. Snapshots(z)
  BY DEF S!Init, Snapshots
<1>5. Books(z)
  <2>1. S(z)!OnStack = {} /\ Injectors(Setup[z].scopes) = {}
    BY <1>2 DEF S!Init, S!OnStack, Injectors
  <2>2. Total(saved, {}) = 0 /\ Cardinality({}) = 0
    BY TotalEmpty, FS_EmptySet
  <2>3. task.cancels = 0 /\ ext = 0 /\ passed = 0
    BY DEF S!Init, S!FreshTask
  <2> QED BY <2>1, <2>2, <2>3 DEF Books
<1>6. HostQuiet /\ NoTimeout(z) /\ OutsideKept(z)
  BY DEF S!Init, S!FreshTask, HostQuiet, NoTimeout, OutsideKept, S!ExternalKept
<1> QED BY <1>1, <1>3, <1>4, <1>5, <1>6 DEF ScopeInv

\* The scenes that use their scopes so that the ledger balances.
SafeScenes == {z \in ScopeScenes : S(z)!SafeUse}

\* Their scopes satisfy it.
ScopesInv == \A z \in SafeScenes : scene = z => ScopeInv(z)

\* Every step of every scene keeps it.
LEMMA ScopesNext == ScopesInv /\ [MNext]_mvars => ScopesInv'
<1> SUFFICES ASSUME ScopesInv, [MNext]_mvars, NEW z \in SafeScenes, scene' = z PROVE ScopeInv(z)'
  BY DEF ScopesInv
<1>0. scene' = scene /\ z \in ScopeScenes /\ S(z)!SafeUse
  BY DEF MNext, mvars, ScopesRun, GroupsRun, ContextRuns, SafeScenes
<1>1. ScopeInv(z)
  BY <1>0 DEF ScopesInv
<1>2. CASE ScopesRun
  BY <1>0, <1>1, <1>2, ScopeNext DEF ScopesRun
<1>3. CASE UNCHANGED scopevars
  <2>0. /\ UNCHANGED <<now, task, exc, stack, at, due, taken, outer, cancel_called, active>>
        /\ UNCHANGED <<injected, saved, shield, deadline, handle, timers, ready, entries, sets>>
        /\ UNCHANGED <<ext, passed, caught>>
    BY <1>3 DEF scopevars
  <2>1. S(z)!TypeOK /\ S(z)!TypeOK'
    BY <1>1, <2>0, ZenonT(60) DEF ScopeInv, S!TypeOK, S!TaskType, S!Exceptions, S!Infinite
  <2>2. Posted(z)'
    BY <1>1, <2>0 DEF ScopeInv, Posted
  <2>3. Untouched /\ UNCHANGED <<cancel_called, task, injected>>
    BY <2>0 DEF Untouched
  <2> QED BY <1>0, <1>1, <2>1, <2>2, <2>3, CancelStep
<1> QED BY <1>2, <1>3 DEF MNext, mvars, scopevars, GroupsRun, ContextRuns

\* The scopes of every scene start in it.
LEMMA ScopesInit == MInit => ScopesInv
BY ScopeInit DEF MInit, ScopesInv, SafeScenes

-----------------------------------------------------------------------------
(* Scopes, however they are used *)

\* Where the host is: outside __aenter__ and __aexit__ whenever it waits; the
\* scope it enters is bound and has injected nothing, the one it leaves is not.
HostBound(z) ==
    /\ at # "body" => task.state = "running" /\ stack # <<>>
    /\ at \in {"arm", "check"} => active[S(z)!Top] /\ ~injected[S(z)!Top]
    /\ at = "leave" => ~active[S(z)!Top]

\* A deadline posted is a time.
TimesPosted(z) ==
    \A i \in DOMAIN ready : ready[i].op = "schedule" => ready[i].value \in 0..Setup[z].time

\* The scopes of scene z, in any use: the invariant.
BoundInv(z) == S(z)!TypeOK /\ S(z)!ScopesBound /\ HostBound(z) /\ TimesPosted(z)

\* Code on the loop runs only while the host is in no section of a scope.
LEMMA LoopBound ==
    ASSUME NEW z, HostBound(z), S(z)!OnLoop \/ task.state = "suspended" PROVE at = "body"
BY DEF HostBound, S!OnLoop, S!InBody

\* A step that neither pushes a scope nor pops one, and lets no scope inject but
\* a bound one.
LEMMA BoundSame ==
    ASSUME NEW z \in ScopeScenes, BoundInv(z), S(z)!TypeOK', TimesPosted(z)',
           UNCHANGED <<stack, active>>,
           at' = at \/ (at # "leave" /\ at' \in {"check", "body"}),
           at' # "body" => task'.state = "running" /\ at # "body" /\ injected' = injected,
           \A r \in Setup[z].scopes : injected'[r] => injected[r] \/ active[r]
    PROVE  BoundInv(z)'
<1>1. S(z)!ScopesBound'
  BY DEF BoundInv, S!ScopesBound, S!Top
<1>2. HostBound(z)'
  <2>1. HostBound(z) /\ at \in {"body", "arm", "check", "leave"}
    BY DEF BoundInv, S!TypeOK
  <2>2. S(z)!Top' = S(z)!Top
    BY DEF S!Top
  <2> QED BY <2>1, <2>2 DEF HostBound
<1> QED BY <1>1, <1>2 DEF BoundInv

\* The scope on top is popped, and it has nothing to take back.
LEMMA BoundPopped ==
    ASSUME NEW z \in ScopeScenes, BoundInv(z), at # "body", stack' = S(z)!Pop,
           active' = [active EXCEPT ![S(z)!Top] = FALSE], injected' = injected,
           at' = "body", ready' = ready, S(z)!TypeOK'
    PROVE  BoundInv(z)'
<1> DEFINE s == S(z)!Top
<1>0. S(z)!TypeOK /\ S(z)!ScopesBound /\ HostBound(z) /\ stack # <<>>
  BY DEF BoundInv, HostBound
<1>1. /\ s \in Setup[z].scopes
      /\ \A i \in DOMAIN stack' : i \in DOMAIN stack /\ stack'[i] = stack[i] /\ stack[i] # s
      /\ S(z)!OnStack = S(z)!OnStack' \cup {s}
  BY <1>0, PopFacts
<1>2. /\ active \in [Setup[z].scopes -> BOOLEAN] /\ injected \in [Setup[z].scopes -> BOOLEAN]
      /\ at \in {"arm", "check", "leave"}
  BY <1>0 DEF S!TypeOK
<1>3. /\ ~active'[s] /\ \A r \in Setup[z].scopes : r # s => active'[r] = active[r]
  BY <1>1, <1>2
<1>4. S(z)!Top = s
  OBVIOUS
<1>5. ~injected[s]
  BY <1>0, <1>1, <1>2 DEF HostBound, S!ScopesBound
<1> HIDE DEF s
<1>6. S(z)!ScopesBound'
  <2>1. \A i, j \in DOMAIN stack' : stack'[i] = stack'[j] => i = j
    BY <1>0, <1>1 DEF S!ScopesBound
  <2>2. ASSUME NEW r \in Setup[z].scopes
        PROVE  /\ active'[r] => \E i \in DOMAIN stack' : stack'[i] = r
               /\ injected'[r] => active'[r]
               /\ (\E i \in DOMAIN stack' : stack'[i] = r) => active'[r]
    <3>1. CASE r = s
      BY <1>1, <1>3, <1>5, <3>1
    <3>2. CASE r # s
      <4>1. active'[r] = active[r]
        BY <1>3, <3>2
      <4>2. active[r] => r \in S(z)!OnStack'
        <5>1. active[r] => r \in S(z)!OnStack
          BY <1>0 DEF S!ScopesBound, S!OnStack
        <5> QED BY <1>1, <3>2, <5>1
      <4>3. injected'[r] => active[r]
        BY <1>0 DEF S!ScopesBound
      <4>4. (\E i \in DOMAIN stack' : stack'[i] = r) => active[r]
        BY <1>0, <1>1, <1>4, <3>2 DEF S!ScopesBound
      <4> QED BY <4>1, <4>2, <4>3, <4>4 DEF S!OnStack
    <3> QED BY <3>1, <3>2
  <2> QED BY <2>1, <2>2 DEF S!ScopesBound
<1>7. HostBound(z)' /\ TimesPosted(z)'
  BY DEF BoundInv, HostBound, TimesPosted
<1> QED BY <1>6, <1>7 DEF BoundInv

\* What the host does by itself.
LEMMA HostBounds ==
    ASSUME NEW z \in ScopeScenes, BoundInv(z),
           \/ S(z)!Await \/ S(z)!Resume \/ S(z)!Checkpoint \/ S(z)!Catch
           \/ S(z)!Finish \/ S(z)!External \/ S(z)!Tick
    PROVE  BoundInv(z)'
<1>0. S(z)!TypeOK /\ HostBound(z) /\ TimesPosted(z)
  BY DEF BoundInv
<1>1. task \in S(z)!TaskType /\ task.cancels \in Nat /\ task.must \in BOOLEAN
  BY <1>0, HostFields
<1>2. UNCHANGED <<stack, at, due, taken, outer, S(z)!flags, ready, entries, sets, passed>>
  BY DEF S!Await, S!Resume, S!Checkpoint, S!Catch, S!Finish, S!External, S!Tick, S!host, S!count
<1>3. now' \in 0..Setup[z].time /\ ext' \in 0..Setup[z].external
  <2>1. /\ now' = now \/ (now < Setup[z].time /\ now' = now + 1)
        /\ ext' = ext \/ (ext < Setup[z].external /\ ext' = ext + 1)
    BY DEF S!Await, S!Resume, S!Checkpoint, S!Catch, S!Finish, S!External, S!Tick, S!count
  <2>2. /\ now \in 0..Setup[z].time /\ Setup[z].time \in Nat
        /\ ext \in 0..Setup[z].external /\ Setup[z].external \in Nat
    BY <1>0, SetupFacts DEF S!TypeOK
  <2> QED BY <2>1, <2>2
<1>4. exc' \in S(z)!Exceptions /\ caught' \in BOOLEAN
  BY <1>0
     DEF S!TypeOK, S!Await, S!Resume, S!Checkpoint, S!Catch, S!Finish, S!External, S!Tick,
         S!host, S!count, S!Exceptions
<1>5. task' \in S(z)!TaskType /\ (at # "body" => task'.state = "running")
  <2>1. CASE S(z)!Await
    BY <1>1, <2>1 DEF S!Await, S!InBody, S!Suspended, S!TaskType
  <2>2. CASE S(z)!Resume
    BY <1>1, <2>2 DEF S!Resume, S!Resumed, S!TaskType
  <2>3. CASE S(z)!Checkpoint
    <3>1. task' = S(z)!UncancelTimes(task, task.cancels) /\ at = "body"
      BY <2>3 DEF S!Checkpoint, S!InBody
    <3> QED BY <1>1, <3>1, Uncancelling
  <2>4. CASE S(z)!Catch \/ S(z)!Tick
    <3>1. task' = task
      BY <2>4 DEF S!Catch, S!Tick, S!host
    <3> QED BY <1>0, <1>1, <3>1 DEF HostBound
  <2>5. CASE S(z)!Finish
    BY <1>1, <2>5 DEF S!Finish, S!InBody, S!TaskType
  <2>6. CASE S(z)!External
    <3>1. task' = S(z)!CancelTimes(task, 1) /\ 1 \in Nat
      BY <2>6 DEF S!External
    <3>2. task' \in S(z)!TaskType /\ task'.state = task.state
      BY <1>1, <3>1, Cancelling
    <3> QED BY <1>0, <3>2 DEF HostBound
  <2> QED BY <2>1, <2>2, <2>3, <2>4, <2>5, <2>6
<1>6. S(z)!TypeOK'
  BY <1>0, <1>2, <1>3, <1>4, <1>5 DEF S!TypeOK, S!flags, S!TaskType, S!Exceptions, S!Infinite
<1>7. TimesPosted(z)'
  BY <1>0, <1>2 DEF TimesPosted
<1> QED BY <1>2, <1>5, <1>6, <1>7, BoundSame DEF S!flags

\* cancel() on the loop lets a bound scope inject, if any.
LEMMA CancelNowBound ==
    ASSUME NEW z \in ScopeScenes, S(z)!TypeOK, NEW s \in Setup[z].scopes, S(z)!CancelNow(s)
    PROVE  /\ task' \in S(z)!TaskType
           /\ cancel_called' \in [Setup[z].scopes -> BOOLEAN]
           /\ injected' \in [Setup[z].scopes -> BOOLEAN]
           /\ \A r \in Setup[z].scopes : injected'[r] => injected[r] \/ active[r]
<1>1. /\ task \in S(z)!TaskType /\ cancel_called \in [Setup[z].scopes -> BOOLEAN]
      /\ injected \in [Setup[z].scopes -> BOOLEAN]
  BY DEF S!TypeOK
<1>2. \/ UNCHANGED <<cancel_called, task, injected>>
      \/ /\ cancel_called' = [cancel_called EXCEPT ![s] = TRUE]
         /\ \/ UNCHANGED <<task, injected>>
            \/ /\ active[s] /\ task' = S(z)!CancelTimes(task, 1)
               /\ injected' = [injected EXCEPT ![s] = TRUE]
  BY DEF S!CancelNow
<1>3. S(z)!CancelTimes(task, 1) \in S(z)!TaskType
  BY <1>1, Cancelling
<1>4. task' \in S(z)!TaskType /\ cancel_called' \in [Setup[z].scopes -> BOOLEAN]
  BY <1>1, <1>2, <1>3
<1>5. CASE injected' = injected
  BY <1>1, <1>4, <1>5
<1>6. CASE active[s] /\ injected' = [injected EXCEPT ![s] = TRUE]
  BY <1>1, <1>4, <1>6
<1> QED BY <1>2, <1>5, <1>6

\* _schedule starts a timer at a time to come, or cancels the scope.
LEMMA ScheduleBound ==
    ASSUME NEW z \in ScopeScenes, S(z)!TypeOK, NEW s \in Setup[z].scopes,
           NEW v \in 0..Setup[z].time, NEW tm, tm \subseteq Setup[z].scopes \X (1..Setup[z].time),
           NEW h \in 0..Setup[z].time, S(z)!Schedule(s, v, tm, h)
    PROVE  /\ task' \in S(z)!TaskType
           /\ cancel_called' \in [Setup[z].scopes -> BOOLEAN]
           /\ injected' \in [Setup[z].scopes -> BOOLEAN]
           /\ \A r \in Setup[z].scopes : injected'[r] => injected[r] \/ active[r]
           /\ timers' \subseteq Setup[z].scopes \X (1..Setup[z].time)
           /\ handle' \in [Setup[z].scopes -> 0..Setup[z].time]
<1>1. /\ timers' = tm \/ (v > now /\ timers' = tm \cup {<<s, v>>})
      /\ handle' = [handle EXCEPT ![s] = v] \/ handle' = [handle EXCEPT ![s] = h]
      /\ S(z)!CancelNow(s) \/ UNCHANGED <<cancel_called, task, injected>>
  BY DEF S!Schedule
<1>2. /\ now \in Nat /\ handle \in [Setup[z].scopes -> 0..Setup[z].time]
      /\ Setup[z].time \in Nat
  BY SetupFacts DEF S!TypeOK
<1>3. timers' \subseteq Setup[z].scopes \X (1..Setup[z].time)
  <2>1. v > now => v \in 1..Setup[z].time
    BY <1>2
  <2> QED BY <1>1, <2>1
<1>4. handle' \in [Setup[z].scopes -> 0..Setup[z].time]
  BY <1>1, <1>2
<1>5. /\ task' \in S(z)!TaskType
      /\ cancel_called' \in [Setup[z].scopes -> BOOLEAN]
      /\ injected' \in [Setup[z].scopes -> BOOLEAN]
      /\ \A r \in Setup[z].scopes : injected'[r] => injected[r] \/ active[r]
  <2>1. CASE S(z)!CancelNow(s)
    BY <2>1, CancelNowBound
  <2>2. CASE UNCHANGED <<cancel_called, task, injected>>
    BY <2>2 DEF S!TypeOK
  <2> QED BY <1>1, <2>1, <2>2
<1> QED BY <1>3, <1>4, <1>5

\* A callback is posted, or the first one runs.
LEMMA TimesAppend ==
    ASSUME NEW z \in ScopeScenes, S(z)!TypeOK, TimesPosted(z), NEW c, ready' = Append(ready, c),
           c \in [op: {"deliver", "shield", "schedule"}, scope: Setup[z].scopes, value: Nat],
           c.op = "schedule" => c.value \in 0..Setup[z].time
    PROVE  /\ TimesPosted(z)'
           /\ ready' \in Seq([op: {"deliver", "shield", "schedule"}, scope: Setup[z].scopes,
                              value: Nat])
<1> DEFINE C == [op: {"deliver", "shield", "schedule"}, scope: Setup[z].scopes, value: Nat]
           n == Len(ready)
<1>1. ready \in Seq(C) /\ c \in C
  BY DEF S!TypeOK
<1> HIDE DEF C
<1>2. /\ ready' \in Seq(C) /\ n \in Nat /\ DOMAIN ready = 1..n /\ DOMAIN ready' = 1..(n + 1)
      /\ Len(ready') = n + 1
      /\ \A i \in 1..n : ready'[i] = ready[i]
      /\ ready'[Len(ready')] = c
  BY <1>1, Pushed
<1>3. \A i \in DOMAIN ready' : i \in DOMAIN ready \/ i = Len(ready')
  BY <1>2
<1>4. \A i \in DOMAIN ready : ready'[i] = ready[i]
  BY <1>2
<1> HIDE DEF n
<1> QED BY <1>2, <1>3, <1>4 DEF TimesPosted, C

LEMMA TimesTail ==
    ASSUME NEW z \in ScopeScenes, S(z)!TypeOK, TimesPosted(z), ready # <<>>, ready' = Tail(ready)
    PROVE  /\ TimesPosted(z)'
           /\ ready' \in Seq([op: {"deliver", "shield", "schedule"}, scope: Setup[z].scopes,
                              value: Nat])
           /\ Head(ready) \in [op: {"deliver", "shield", "schedule"}, scope: Setup[z].scopes,
                               value: Nat]
           /\ Head(ready).op = "schedule" => Head(ready).value \in 0..Setup[z].time
<1> DEFINE C == [op: {"deliver", "shield", "schedule"}, scope: Setup[z].scopes, value: Nat]
           n == Len(ready)
<1>1. ready \in Seq(C)
  BY DEF S!TypeOK
<1> HIDE DEF C
<1>2. n \in Nat /\ n # 0 /\ DOMAIN ready = 1..n
  BY <1>1, LenProperties, EmptySeq
<1>3. Head(ready) = ready[1] /\ Head(ready) \in C
  BY <1>1, <1>2, HeadTailProperties, ElementOfSeq
<1>4. /\ ready' \in Seq(C) /\ Len(ready') = n - 1
      /\ \A i \in 1..(n - 1) : ready'[i] = ready[i + 1]
  BY <1>1, <1>2, HeadTailProperties
<1>5. DOMAIN ready' = 1..(n - 1)
  BY <1>2, <1>4, LenProperties
<1>6. \A i \in DOMAIN ready' : i + 1 \in DOMAIN ready /\ ready'[i] = ready[i + 1]
  BY <1>2, <1>4, <1>5
<1>7. 1 \in DOMAIN ready
  BY <1>2
<1> HIDE DEF n
<1>8. TimesPosted(z)'
  BY <1>6 DEF TimesPosted
<1>9. Head(ready).op = "schedule" => Head(ready).value \in 0..Setup[z].time
  BY <1>3, <1>7 DEF TimesPosted
<1> QED BY <1>3, <1>4, <1>8, <1>9 DEF C

\* cancel(), from the loop, from another thread or by a timer.
LEMMA CancelBounds ==
    ASSUME NEW z \in ScopeScenes, BoundInv(z), NEW s \in Setup[z].scopes,
           \/ S(z)!cancel(s) \/ S(z)!ForeignCancel(s)
           \/ \E v \in 1..Setup[z].time : S(z)!Expire(s, v)
    PROVE  BoundInv(z)'
<1>0. S(z)!TypeOK /\ HostBound(z) /\ TimesPosted(z)
  BY DEF BoundInv
<1>1. UNCHANGED <<now, stack, at, exc, due, taken, outer, active, saved, shield, deadline,
                  entries, sets, ext, passed, caught>>
  BY DEF S!cancel, S!ForeignCancel, S!Expire, S!host, S!hostButTask, S!count
<1>2. CASE S(z)!cancel(s) \/ \E v \in 1..Setup[z].time : S(z)!Expire(s, v)
  <2>1. S(z)!CancelNow(s) /\ at = "body" /\ ready' = ready
    BY <1>0, <1>2, LoopBound DEF S!cancel, S!Expire
  <2>2. /\ task' \in S(z)!TaskType
        /\ cancel_called' \in [Setup[z].scopes -> BOOLEAN]
        /\ injected' \in [Setup[z].scopes -> BOOLEAN]
        /\ \A r \in Setup[z].scopes : injected'[r] => injected[r] \/ active[r]
    BY <1>0, <2>1, CancelNowBound
  <2>3. /\ timers' \subseteq Setup[z].scopes \X (1..Setup[z].time)
        /\ handle' \in [Setup[z].scopes -> 0..Setup[z].time]
    <3>1. /\ timers' \subseteq timers
          /\ handle' = handle \/ handle' = [handle EXCEPT ![s] = 0]
      BY <1>2 DEF S!cancel, S!Expire
    <3>2. 0 \in 0..Setup[z].time
      BY SetupFacts
    <3> QED BY <1>0, <3>1, <3>2 DEF S!TypeOK
  <2>4. S(z)!TypeOK'
    BY <1>0, <1>1, <2>1, <2>2, <2>3 DEF S!TypeOK, S!TaskType, S!Exceptions, S!Infinite
  <2>5. TimesPosted(z)'
    BY <1>0, <2>1 DEF TimesPosted
  <2> QED BY <1>1, <2>1, <2>2, <2>4, <2>5, BoundSame
<1>3. CASE S(z)!ForeignCancel(s)
  <2>1. /\ cancel_called' = [cancel_called EXCEPT ![s] = TRUE]
        /\ ready' = Append(ready, [op |-> "deliver", scope |-> s, value |-> 0]) \/ ready' = ready
        /\ UNCHANGED <<task, injected, timers, handle>>
    BY <1>3 DEF S!ForeignCancel, S!Post, S!host
  <2>2. /\ TimesPosted(z)'
        /\ ready' \in Seq([op: {"deliver", "shield", "schedule"}, scope: Setup[z].scopes,
                           value: Nat])
    <3>1. CASE ready' = ready
      BY <1>0, <3>1 DEF S!TypeOK, TimesPosted
    <3>2. CASE ready' = Append(ready, [op |-> "deliver", scope |-> s, value |-> 0])
      <4>1. PICK c : c = [op |-> "deliver", scope |-> s, value |-> 0]
        OBVIOUS
      <4>2. /\ c \in [op: {"deliver", "shield", "schedule"}, scope: Setup[z].scopes, value: Nat]
            /\ c.op # "schedule"
        BY <4>1
      <4> QED BY <1>0, <3>2, <4>1, <4>2, TimesAppend
    <3> QED BY <2>1, <3>1, <3>2
  <2>3. cancel_called' \in [Setup[z].scopes -> BOOLEAN]
    BY <1>0, <2>1 DEF S!TypeOK
  <2>4. S(z)!TypeOK'
    BY <1>0, <1>1, <2>1, <2>2, <2>3 DEF S!TypeOK, S!TaskType, S!Exceptions, S!Infinite
  <2>5. at # "body" => task'.state = "running"
    BY <1>0, <2>1 DEF HostBound
  <2> QED BY <1>1, <2>1, <2>2, <2>4, <2>5, BoundSame
<1> QED BY <1>2, <1>3

\* _apply_shield moves requests between the host and a snapshot.
LEMMA ApplyShieldBound ==
    ASSUME NEW z \in ScopeScenes, S(z)!TypeOK, NEW s \in Setup[z].scopes, NEW on \in BOOLEAN,
           S(z)!ApplyShield(s, on)
    PROVE  task' \in S(z)!TaskType /\ saved' \in [Setup[z].scopes -> Nat]
<1>1. task \in S(z)!TaskType /\ task.cancels \in Nat /\ saved \in [Setup[z].scopes -> Nat]
  BY HostFields DEF S!TypeOK
<1>2. saved[s] \in Nat /\ saved[s] + task.cancels \in Nat
  BY <1>1
<1>3. /\ S(z)!UncancelTimes(task, task.cancels) \in S(z)!TaskType
      /\ S(z)!CancelTimes(task, saved[s]) \in S(z)!TaskType
  <2>1. S(z)!UncancelTimes(task, task.cancels) \in S(z)!TaskType
    BY <1>1, Uncancelling
  <2>2. S(z)!CancelTimes(task, saved[s]) \in S(z)!TaskType
    BY <1>1, <1>2, Cancelling
  <2> QED BY <2>1, <2>2
<1> QED BY <1>1, <1>2, <1>3 DEF S!ApplyShield

\* The setters, from the loop or from another thread.
LEMMA AssignBounds ==
    ASSUME NEW z \in ScopeScenes, BoundInv(z), NEW s \in Setup[z].scopes, S(z)!Assign(s)
    PROVE  BoundInv(z)'
<1>0. S(z)!TypeOK /\ HostBound(z) /\ TimesPosted(z)
  BY DEF BoundInv
<1>1. PICK foreign \in BOOLEAN :
        /\ ~foreign => S(z)!OnLoop
        /\ \/ \E v \in 0..S(z)!Infinite : S(z)!SetDeadline(s, v, foreign)
           \/ S(z)!SetShield(s, foreign)
  BY DEF S!Assign
<1>2. /\ sets < Setup[z].sets /\ sets' = sets + 1
      /\ UNCHANGED <<now, stack, at, exc, due, taken, outer, active, entries, ext, passed, caught>>
  BY <1>1 DEF S!SetDeadline, S!SetShield, S!hostButTask
<1>3. sets' \in 0..Setup[z].sets
  BY <1>0, <1>2, SetupFacts, SMTT(30) DEF S!TypeOK
<1>4. ~foreign => at = "body"
  BY <1>0, <1>1, LoopBound
<1>5. ASSUME NEW v \in 0..S(z)!Infinite, S(z)!SetDeadline(s, v, foreign) PROVE BoundInv(z)'
  <2>1. deadline' = [deadline EXCEPT ![s] = v] /\ UNCHANGED <<saved, shield>>
    BY <1>5 DEF S!SetDeadline
  <2>2. /\ Setup[z].time \in Nat /\ 0 \in 0..Setup[z].time
        /\ v # S(z)!Infinite => v \in 0..Setup[z].time /\ v \in Nat
    BY SetupFacts DEF S!Infinite
  <2>3. deadline' \in [Setup[z].scopes -> 0..S(z)!Infinite]
    <3>1. deadline \in [Setup[z].scopes -> 0..S(z)!Infinite]
      BY <1>0 DEF S!TypeOK
    <3> QED BY <2>1, <3>1
  <2>4. CASE foreign \/ ~active[s] \/ v = S(z)!Infinite
    <3>1. /\ timers' = timers \ {<<s, handle[s]>>} /\ handle' = [handle EXCEPT ![s] = 0]
          /\ ready' = ready
             \/ (v # S(z)!Infinite /\ ready' = Append(ready, [op |-> "schedule", scope |-> s, value |-> v]))
          /\ UNCHANGED <<cancel_called, task, injected>>
      BY <1>5, <2>4 DEF S!SetDeadline, S!DropTimer, S!Post
    <3>2. /\ timers' \subseteq Setup[z].scopes \X (1..Setup[z].time)
          /\ handle' \in [Setup[z].scopes -> 0..Setup[z].time]
      BY <1>0, <2>2, <3>1 DEF S!TypeOK
    <3>3. /\ TimesPosted(z)'
          /\ ready' \in Seq([op: {"deliver", "shield", "schedule"}, scope: Setup[z].scopes,
                             value: Nat])
      <4>1. CASE ready' = ready
        BY <1>0, <4>1 DEF S!TypeOK, TimesPosted
      <4>2. CASE v # S(z)!Infinite /\ ready' = Append(ready, [op |-> "schedule", scope |-> s, value |-> v])
        <5>1. PICK c : c = [op |-> "schedule", scope |-> s, value |-> v]
          OBVIOUS
        <5>2. /\ c \in [op: {"deliver", "shield", "schedule"}, scope: Setup[z].scopes, value: Nat]
              /\ c.value \in 0..Setup[z].time
          BY <2>2, <4>2, <5>1
        <5> QED BY <1>0, <4>2, <5>1, <5>2, TimesAppend
      <4> QED BY <3>1, <4>1, <4>2
    <3>4. S(z)!TypeOK'
      BY <1>0, <1>2, <1>3, <2>1, <2>3, <3>1, <3>2, <3>3
         DEF S!TypeOK, S!TaskType, S!Exceptions, S!Infinite
    <3>5. at # "body" => task'.state = "running"
      BY <1>0, <3>1 DEF HostBound
    <3> QED BY <1>2, <3>1, <3>3, <3>4, <3>5, BoundSame
  <2>5. CASE ~(foreign \/ ~active[s] \/ v = S(z)!Infinite)
    <3>1. S(z)!Schedule(s, v, timers \ {<<s, handle[s]>>}, 0) /\ ready' = ready
      BY <1>5, <2>5 DEF S!SetDeadline
    <3>2. PICK tm : tm = timers \ {<<s, handle[s]>>}
      OBVIOUS
    <3>3. tm \subseteq Setup[z].scopes \X (1..Setup[z].time) /\ v \in 0..Setup[z].time
      BY <1>0, <2>2, <2>5, <3>2 DEF S!TypeOK
    <3>4. PICK h \in 0..Setup[z].time : S(z)!Schedule(s, v, tm, h)
      BY <2>2, <3>1, <3>2
    <3>5. /\ task' \in S(z)!TaskType
          /\ cancel_called' \in [Setup[z].scopes -> BOOLEAN]
          /\ injected' \in [Setup[z].scopes -> BOOLEAN]
          /\ \A r \in Setup[z].scopes : injected'[r] => injected[r] \/ active[r]
          /\ timers' \subseteq Setup[z].scopes \X (1..Setup[z].time)
          /\ handle' \in [Setup[z].scopes -> 0..Setup[z].time]
      BY <1>0, <3>3, <3>4, ScheduleBound
    <3>6. S(z)!TypeOK'
      BY <1>0, <1>2, <1>3, <2>1, <2>3, <3>1, <3>5
         DEF S!TypeOK, S!TaskType, S!Exceptions, S!Infinite
    <3>7. TimesPosted(z)' /\ at = "body"
      BY <1>0, <1>4, <2>5, <3>1 DEF TimesPosted
    <3> QED BY <1>2, <3>5, <3>6, <3>7, BoundSame
  <2> QED BY <2>4, <2>5
<1>6. CASE S(z)!SetShield(s, foreign)
  <2>1. /\ shield' = [shield EXCEPT ![s] = ~shield[s]]
        /\ UNCHANGED <<cancel_called, injected, deadline, handle, timers>>
    BY <1>6 DEF S!SetShield
  <2>2. shield' \in [Setup[z].scopes -> BOOLEAN]
    BY <1>0, <2>1 DEF S!TypeOK
  <2>3. /\ task' \in S(z)!TaskType /\ saved' \in [Setup[z].scopes -> Nat]
        /\ TimesPosted(z)'
        /\ ready' \in Seq([op: {"deliver", "shield", "schedule"}, scope: Setup[z].scopes,
                           value: Nat])
        /\ at # "body" => task'.state = "running"
    <3>1. CASE foreign
      <4>1. /\ UNCHANGED <<task, saved>>
            /\ \/ ready' = ready
               \/ \E v \in {0, 1} : ready' = Append(ready, [op |-> "shield", scope |-> s, value |-> v])
        BY <1>6, <3>1 DEF S!SetShield, S!Post
      <4>2. /\ TimesPosted(z)'
            /\ ready' \in Seq([op: {"deliver", "shield", "schedule"}, scope: Setup[z].scopes,
                               value: Nat])
        <5>1. CASE ready' = ready
          BY <1>0, <5>1 DEF S!TypeOK, TimesPosted
        <5>2. ASSUME NEW v \in {0, 1}, ready' = Append(ready, [op |-> "shield", scope |-> s, value |-> v])
              PROVE  /\ TimesPosted(z)'
                     /\ ready' \in Seq([op: {"deliver", "shield", "schedule"},
                                        scope: Setup[z].scopes, value: Nat])
          <6>1. PICK c : c = [op |-> "shield", scope |-> s, value |-> v]
            OBVIOUS
          <6>2. /\ c \in [op: {"deliver", "shield", "schedule"}, scope: Setup[z].scopes, value: Nat]
                /\ c.op # "schedule"
            BY <6>1
          <6> QED BY <1>0, <5>2, <6>1, <6>2, TimesAppend
        <5> QED BY <4>1, <5>1, <5>2
      <4> QED BY <1>0, <4>1, <4>2 DEF S!TypeOK, HostBound
    <3>2. CASE ~foreign
      <4>1. ready' = ready /\ at = "body"
        BY <1>4, <1>6, <3>2 DEF S!SetShield
      <4>2. PICK on \in BOOLEAN : S(z)!ApplyShield(s, on)
        <5>1. shield[s] \in BOOLEAN
          BY <1>0 DEF S!TypeOK
        <5> QED BY <1>6, <3>2, <5>1 DEF S!SetShield
      <4>3. task' \in S(z)!TaskType /\ saved' \in [Setup[z].scopes -> Nat]
        BY <1>0, <4>2, ApplyShieldBound
      <4> QED BY <1>0, <4>1, <4>3 DEF S!TypeOK, TimesPosted
    <3> QED BY <3>1, <3>2
  <2>4. S(z)!TypeOK'
    BY <1>0, <1>2, <1>3, <2>1, <2>2, <2>3 DEF S!TypeOK, S!TaskType, S!Exceptions, S!Infinite
  <2> QED BY <1>2, <2>1, <2>3, <2>4, BoundSame
<1> QED BY <1>1, <1>5, <1>6

\* The loop runs the callback that another thread posted.
LEMMA CallbackBounds ==
    ASSUME NEW z \in ScopeScenes, BoundInv(z), S(z)!Callback
    PROVE  BoundInv(z)'
<1> DEFINE c == Head(ready)
           C == [op: {"deliver", "shield", "schedule"}, scope: Setup[z].scopes, value: Nat]
<1>0. /\ task.state = "suspended" /\ ready # <<>> /\ ready' = Tail(ready)
      /\ UNCHANGED <<now, exc, stack, at, due, taken, outer, active, shield, entries, sets, ext,
                     passed, caught>>
  BY DEF S!Callback, S!hostButTask, S!count
<1>1. S(z)!TypeOK /\ HostBound(z) /\ TimesPosted(z)
  BY DEF BoundInv
<1>2. at = "body"
  BY <1>0, <1>1, LoopBound
<1>3. /\ TimesPosted(z)' /\ ready' \in Seq(C) /\ c \in C
      /\ c.op = "schedule" => c.value \in 0..Setup[z].time
  BY <1>0, <1>1, TimesTail
<1>4. /\ task \in S(z)!TaskType /\ cancel_called \in [Setup[z].scopes -> BOOLEAN]
      /\ injected \in [Setup[z].scopes -> BOOLEAN] /\ saved \in [Setup[z].scopes -> Nat]
      /\ timers \subseteq Setup[z].scopes \X (1..Setup[z].time)
      /\ handle \in [Setup[z].scopes -> 0..Setup[z].time]
  BY <1>1 DEF S!TypeOK
<1>5. c.scope \in Setup[z].scopes /\ c.op \in {"deliver", "shield", "schedule"}
  BY <1>3
<1> HIDE DEF c
<1>6. /\ task' \in S(z)!TaskType /\ saved' \in [Setup[z].scopes -> Nat]
      /\ cancel_called' \in [Setup[z].scopes -> BOOLEAN]
      /\ injected' \in [Setup[z].scopes -> BOOLEAN]
      /\ \A r \in Setup[z].scopes : injected'[r] => injected[r] \/ active[r]
      /\ timers' \subseteq Setup[z].scopes \X (1..Setup[z].time)
      /\ handle' \in [Setup[z].scopes -> 0..Setup[z].time]
      /\ deadline' = deadline
  <2>1. CASE c.op = "deliver"
    <3>1. S(z)!Deliver(c.scope) /\ UNCHANGED <<cancel_called, saved, deadline, handle, timers>>
      BY <2>1 DEF S!Callback, c
    <3>2. CASE ~active[c.scope]
      BY <1>4, <3>1, <3>2 DEF S!Deliver
    <3>3. CASE active[c.scope]
      <4>1. task' = S(z)!CancelTimes(task, 1) /\ injected' = [injected EXCEPT ![c.scope] = TRUE]
        BY <3>1, <3>3 DEF S!Deliver
      <4>2. task' \in S(z)!TaskType
        BY <1>4, <4>1, Cancelling
      <4> QED BY <1>4, <1>5, <3>1, <3>3, <4>1, <4>2
    <3> QED BY <3>2, <3>3
  <2>2. CASE c.op = "shield"
    <3>1. /\ S(z)!ApplyShield(c.scope, c.value = 1)
          /\ UNCHANGED <<cancel_called, injected, deadline, handle, timers>>
      BY <2>2 DEF S!Callback, c
    <3>2. PICK s \in Setup[z].scopes, on \in BOOLEAN : S(z)!ApplyShield(s, on)
      BY <1>5, <3>1
    <3>3. task' \in S(z)!TaskType /\ saved' \in [Setup[z].scopes -> Nat]
      BY <1>1, <3>2, ApplyShieldBound
    <3> QED BY <1>4, <3>1, <3>3
  <2>3. CASE c.op = "schedule"
    <3>1. S(z)!Schedule(c.scope, c.value, timers, handle[c.scope]) /\ UNCHANGED <<deadline, saved>>
      BY <2>3 DEF S!Callback, c
    <3>2. PICK s \in Setup[z].scopes, v \in 0..Setup[z].time, h \in 0..Setup[z].time :
            S(z)!Schedule(s, v, timers, h)
      BY <1>3, <1>4, <1>5, <2>3, <3>1 DEF c
    <3>3. /\ task' \in S(z)!TaskType
          /\ cancel_called' \in [Setup[z].scopes -> BOOLEAN]
          /\ injected' \in [Setup[z].scopes -> BOOLEAN]
          /\ \A r \in Setup[z].scopes : injected'[r] => injected[r] \/ active[r]
          /\ timers' \subseteq Setup[z].scopes \X (1..Setup[z].time)
          /\ handle' \in [Setup[z].scopes -> 0..Setup[z].time]
      BY <1>1, <1>4, <3>2, ScheduleBound
    <3> QED BY <1>4, <3>1, <3>3
  <2> QED BY <1>5, <2>1, <2>2, <2>3
<1>7. S(z)!TypeOK'
  BY <1>0, <1>1, <1>3, <1>6 DEF S!TypeOK, S!TaskType, S!Exceptions, S!Infinite
<1> QED BY <1>0, <1>2, <1>3, <1>6, <1>7, BoundSame

\* __aenter__ raises: the scope is popped again.
LEMMA RaiseBound ==
    ASSUME NEW z \in ScopeScenes, BoundInv(z), at \in {"arm", "check"}, Entering,
           NEW k \in S(z)!TaskType, NEW e \in {"timeout", "cancelled"},
           S(z)!RaiseFromEnter(S(z)!Top, e, k),
           cancel_called' \in [Setup[z].scopes -> BOOLEAN]
    PROVE  BoundInv(z)'
<1> DEFINE s == S(z)!Top
<1>0. /\ task' = S(z)!Restored(s, k) /\ saved' = S(z)!Spent(s) /\ stack' = S(z)!Pop
      /\ timers' = timers \ {<<s, handle[s]>>} /\ handle' = [handle EXCEPT ![s] = 0]
      /\ active' = [active EXCEPT ![s] = FALSE] /\ exc' = e /\ at' = "body" /\ injected' = injected
  BY DEF S!RaiseFromEnter, S!DropTimer
<1>1. S(z)!TypeOK /\ S(z)!ScopesBound /\ stack # <<>>
  BY DEF BoundInv, HostBound
<1>2. s \in Setup[z].scopes /\ stack' \in Seq(Setup[z].scopes)
  BY <1>0, <1>1, PopFacts
<1>3. /\ saved \in [Setup[z].scopes -> Nat] /\ shield \in [Setup[z].scopes -> BOOLEAN]
      /\ active \in [Setup[z].scopes -> BOOLEAN]
      /\ handle \in [Setup[z].scopes -> 0..Setup[z].time]
      /\ timers \subseteq Setup[z].scopes \X (1..Setup[z].time)
  BY <1>1 DEF S!TypeOK
<1>4. S(z)!Restored(s, k) \in S(z)!TaskType /\ S(z)!Spent(s) \in [Setup[z].scopes -> Nat]
  BY <1>2, <1>3, RestoredFacts
<1>5. S(z)!TypeOK'
  <2>1. 0 \in 0..Setup[z].time
    BY SetupFacts
  <2>2. /\ handle' \in [Setup[z].scopes -> 0..Setup[z].time]
        /\ timers' \subseteq Setup[z].scopes \X (1..Setup[z].time)
        /\ active' \in [Setup[z].scopes -> BOOLEAN]
    BY <1>0, <1>3, <2>1
  <2>3. exc' \in S(z)!Exceptions
    BY <1>0 DEF S!Exceptions
  <2> QED BY <1>0, <1>1, <1>2, <1>4, <2>2, <2>3
          DEF S!TypeOK, S!TaskType, S!Exceptions, S!Infinite, Entering
<1> QED BY <1>0, <1>5, BoundPopped DEF Entering

\* A move_on scope injects on entry.
LEMMA InjectBound ==
    ASSUME NEW z \in ScopeScenes, BoundInv(z), at \in {"arm", "check"}, Entering,
           S(z)!InjectOnEntry(S(z)!Top), cancel_called' \in [Setup[z].scopes -> BOOLEAN]
    PROVE  BoundInv(z)'
<1> DEFINE s == S(z)!Top
<1>0. /\ task' = S(z)!CancelTimes(task, 1) /\ injected' = [injected EXCEPT ![s] = TRUE]
      /\ at' = "body" /\ UNCHANGED <<exc, stack, active, saved, handle, timers>>
  BY DEF S!InjectOnEntry
<1>1. S(z)!TypeOK /\ S(z)!ScopesBound /\ TimesPosted(z) /\ stack # <<>> /\ active[s]
  BY DEF BoundInv, HostBound
<1>2. s \in Setup[z].scopes
  BY <1>1, TopFacts
<1>3. task \in S(z)!TaskType /\ injected \in [Setup[z].scopes -> BOOLEAN]
  BY <1>1 DEF S!TypeOK
<1> HIDE DEF s
<1>4. task' \in S(z)!TaskType
  BY <1>0, <1>3, Cancelling
<1>5. /\ injected' \in [Setup[z].scopes -> BOOLEAN]
      /\ \A r \in Setup[z].scopes : injected'[r] => injected[r] \/ active[r]
  BY <1>0, <1>1, <1>2, <1>3
<1>6. S(z)!TypeOK'
  BY <1>0, <1>1, <1>4, <1>5 DEF S!TypeOK, S!TaskType, S!Exceptions, S!Infinite, Entering
<1>7. TimesPosted(z)'
  BY <1>1 DEF TimesPosted, Entering
<1> QED BY <1>0, <1>5, <1>6, <1>7, BoundSame

\* __aenter__ goes on, or returns.
LEMMA EnteredBound ==
    ASSUME NEW z \in ScopeScenes, BoundInv(z), at \in {"arm", "check"}, Entering,
           at' \in {"check", "body"},
           UNCHANGED <<task, exc, stack, cancel_called, active, injected, saved>>,
           timers' \subseteq Setup[z].scopes \X (1..Setup[z].time),
           handle' \in [Setup[z].scopes -> 0..Setup[z].time]
    PROVE  BoundInv(z)'
<1>1. S(z)!TypeOK /\ HostBound(z) /\ TimesPosted(z)
  BY DEF BoundInv
<1>2. S(z)!TypeOK'
  BY <1>1 DEF S!TypeOK, S!TaskType, S!Exceptions, S!Infinite, Entering
<1>3. TimesPosted(z)' /\ task'.state = "running"
  BY <1>1 DEF TimesPosted, HostBound, Entering
<1> QED BY <1>2, <1>3, BoundSame

\* The sections of __aenter__ after the first.
LEMMA EnterArmBound ==
    ASSUME NEW z \in ScopeScenes, BoundInv(z), S(z)!EnterArm
    PROVE  BoundInv(z)'
<1> DEFINE s == S(z)!Top
<1>0. at = "arm" /\ Entering
  BY DEF S!EnterArm, S!count, Entering
<1>1. S(z)!TypeOK /\ S(z)!ScopesBound /\ stack # <<>>
  BY <1>0 DEF BoundInv, HostBound
<1>2. s \in Setup[z].scopes
  BY <1>1, TopFacts
<1>3. /\ cancel_called \in [Setup[z].scopes -> BOOLEAN] /\ task \in S(z)!TaskType
      /\ due \in 0..S(z)!Infinite
      /\ timers \subseteq Setup[z].scopes \X (1..Setup[z].time)
      /\ handle \in [Setup[z].scopes -> 0..Setup[z].time]
  BY <1>1 DEF S!TypeOK
<1>4. CASE due = 0
  <2>1. /\ cancel_called' = [cancel_called EXCEPT ![s] = TRUE]
        /\ Setup[z].kind[s] = "fail" => S(z)!RaiseFromEnter(s, "timeout", task)
        /\ Setup[z].kind[s] = "move_on" => S(z)!InjectOnEntry(s)
        /\ Setup[z].kind[s] = "plain" => S(z)!RaiseFromEnter(s, "cancelled", task)
    <3>1. ~(due > 0)
      BY <1>4
    <3> QED BY <1>4, <3>1 DEF S!EnterArm
  <2>2. cancel_called' \in [Setup[z].scopes -> BOOLEAN]
    BY <1>2, <1>3, <2>1
  <2>3. \/ S(z)!InjectOnEntry(s)
        \/ \E e \in {"timeout", "cancelled"} : S(z)!RaiseFromEnter(s, e, task)
    <3>1. Setup[z].kind[s] \in {"plain", "fail", "move_on"}
      BY <1>2, SetupFacts
    <3> QED BY <2>1, <3>1
  <2> QED BY <1>0, <1>3, <2>2, <2>3, RaiseBound, InjectBound
<1>5. CASE due # 0
  <2>1. /\ at' = "check"
        /\ IF due = S(z)!Infinite THEN UNCHANGED <<timers, handle>>
           ELSE timers' = timers \cup {<<s, due>>} /\ handle' = [handle EXCEPT ![s] = due]
        /\ UNCHANGED <<task, exc, stack, cancel_called, active, injected, saved>>
    BY <1>5 DEF S!EnterArm
  <2>2. due # S(z)!Infinite => due \in 1..Setup[z].time /\ due \in 0..Setup[z].time
    BY <1>3, <1>5, SetupFacts DEF S!Infinite
  <2>3. /\ timers' \subseteq Setup[z].scopes \X (1..Setup[z].time)
        /\ handle' \in [Setup[z].scopes -> 0..Setup[z].time]
    BY <1>2, <1>3, <2>1, <2>2
  <2> QED BY <1>0, <2>1, <2>3, EnteredBound
<1> QED BY <1>4, <1>5

LEMMA EnterCheckBound ==
    ASSUME NEW z \in ScopeScenes, BoundInv(z), S(z)!EnterCheck
    PROVE  BoundInv(z)'
<1> DEFINE s == S(z)!Top
           cleared == IF shield[s] THEN task ELSE S(z)!UncancelTimes(task, task.cancels)
<1>0. at = "check" /\ Entering /\ cancel_called' = cancel_called
  BY DEF S!EnterCheck, S!count, Entering
<1>1. S(z)!TypeOK /\ S(z)!ScopesBound /\ stack # <<>>
  BY <1>0 DEF BoundInv, HostBound
<1>2. s \in Setup[z].scopes
  BY <1>1, TopFacts
<1>3. /\ cancel_called \in [Setup[z].scopes -> BOOLEAN]
      /\ task \in S(z)!TaskType /\ task.cancels \in Nat
      /\ timers \subseteq Setup[z].scopes \X (1..Setup[z].time)
      /\ handle \in [Setup[z].scopes -> 0..Setup[z].time]
  BY <1>1, HostFields DEF S!TypeOK
<1>4. CASE ~S(z)!EffectivelyCancelled
  <2>1. at' = "body" /\ UNCHANGED <<task, exc, stack, active, injected, saved, handle, timers>>
    BY <1>4 DEF S!EnterCheck
  <2> QED BY <1>0, <1>3, <2>1, EnteredBound
<1>5. CASE S(z)!EffectivelyCancelled
  <2>1. cleared \in S(z)!TaskType
    <3>1. S(z)!UncancelTimes(task, task.cancels) \in S(z)!TaskType
      BY <1>3, Uncancelling
    <3> QED BY <1>3, <3>1
  <2>2. \/ S(z)!InjectOnEntry(s)
        \/ S(z)!RaiseFromEnter(s, "timeout", task)
        \/ S(z)!RaiseFromEnter(s, "cancelled", cleared)
    <3>1. /\ Setup[z].kind[s] \in {"plain", "fail", "move_on"}
          /\ cancel_called[s] \in BOOLEAN
      BY <1>2, <1>3, SetupFacts
    <3> QED BY <1>5, <3>1 DEF S!EnterCheck
  <2> HIDE DEF cleared
  <2>3. \/ S(z)!InjectOnEntry(s)
        \/ \E k \in S(z)!TaskType, e \in {"timeout", "cancelled"} : S(z)!RaiseFromEnter(s, e, k)
    BY <1>3, <2>1, <2>2
  <2>4. cancel_called' \in [Setup[z].scopes -> BOOLEAN] /\ at \in {"arm", "check"}
    BY <1>0, <1>3
  <2> QED BY <1>0, <2>3, <2>4, RaiseBound, InjectBound
<1> QED BY <1>4, <1>5

\* __aexit__ unbinds the scope and pops it.
LEMMA ExitBounds ==
    ASSUME NEW z \in ScopeScenes, BoundInv(z), S(z)!ExitBegin \/ S(z)!ExitEnd
    PROVE  BoundInv(z)'
<1> DEFINE s == S(z)!Top
<1>0. stack # <<>>
  BY DEF BoundInv, HostBound, S!ExitBegin, S!ExitEnd
<1>1. S(z)!TypeOK /\ S(z)!ScopesBound /\ HostBound(z) /\ TimesPosted(z)
  BY DEF BoundInv
<1>2. s \in Setup[z].scopes /\ s = stack[Len(stack)]
  BY <1>0, <1>1, TopFacts
<1>3. /\ task \in S(z)!TaskType /\ saved \in [Setup[z].scopes -> Nat]
      /\ shield \in [Setup[z].scopes -> BOOLEAN] /\ active \in [Setup[z].scopes -> BOOLEAN]
      /\ injected \in [Setup[z].scopes -> BOOLEAN]
      /\ exc \in S(z)!Exceptions /\ outer \in [Setup[z].scopes -> S(z)!Exceptions]
      /\ handle \in [Setup[z].scopes -> 0..Setup[z].time]
      /\ timers \subseteq Setup[z].scopes \X (1..Setup[z].time)
      /\ passed \in Nat
  BY <1>1 DEF S!TypeOK
<1>4. CASE S(z)!ExitBegin
  <2>0. /\ task.state = "running" /\ at = "body" /\ at' = "leave"
        /\ taken' = injected[s] /\ injected' = [injected EXCEPT ![s] = FALSE]
        /\ active' = [active EXCEPT ![s] = FALSE]
        /\ UNCHANGED <<now, task, exc, stack, due, outer, cancel_called, saved, shield, deadline,
                       handle, timers, ready, entries, sets, ext, passed, caught>>
    BY <1>4 DEF S!ExitBegin, S!InBody, S!count
  <2>1. s' = s
    BY <2>0 DEF S!Top
  <2> HIDE DEF s
  <2>2. /\ ~injected'[s] /\ \A r \in Setup[z].scopes : r # s => injected'[r] = injected[r]
        /\ ~active'[s] /\ \A r \in Setup[z].scopes : r # s => active'[r] = active[r]
        /\ injected' \in [Setup[z].scopes -> BOOLEAN] /\ active' \in [Setup[z].scopes -> BOOLEAN]
        /\ taken' \in BOOLEAN
    BY <1>2, <1>3, <2>0
  <2>3. S(z)!TypeOK'
    BY <1>1, <2>0, <2>2 DEF S!TypeOK, S!TaskType, S!Exceptions, S!Infinite
  <2>4. S(z)!ScopesBound'
    <3>1. \A i, j \in DOMAIN stack' : stack'[i] = stack'[j] => i = j
      BY <1>1, <2>0 DEF S!ScopesBound
    <3>2. ASSUME NEW r \in Setup[z].scopes
          PROVE  /\ active'[r] => \E i \in DOMAIN stack' : stack'[i] = r
                 /\ injected'[r] => active'[r]
                 /\ (\E i \in DOMAIN stack' : stack'[i] = r) /\ ~active'[r] => r = s
      <4>1. CASE r = s
        BY <2>2, <4>1
      <4>2. CASE r # s
        BY <1>1, <2>0, <2>2, <4>2 DEF S!ScopesBound
      <4> QED BY <4>1, <4>2
    <3>3. S(z)!Top' = s
      BY <2>1 DEF s
    <3> QED BY <2>0, <3>1, <3>2, <3>3 DEF S!ScopesBound
  <2>5. HostBound(z)'
    <3>1. S(z)!Top' = s
      BY <2>1 DEF s
    <3> QED BY <1>0, <2>0, <2>2, <3>1 DEF HostBound
  <2>6. TimesPosted(z)'
    BY <1>1, <2>0 DEF TimesPosted
  <2> QED BY <2>3, <2>4, <2>5, <2>6 DEF BoundInv
<1>5. CASE S(z)!ExitEnd
  <2>0. /\ at = "leave" /\ at' = "body" /\ taken' = FALSE /\ stack' = S(z)!Pop
        /\ saved' = S(z)!Spent(s)
        /\ timers' = timers \ {<<s, handle[s]>>} /\ handle' = [handle EXCEPT ![s] = 0]
        /\ UNCHANGED <<now, due, outer, cancel_called, active, injected, shield, deadline, ready,
                       entries, sets, ext, caught>>
    BY <1>5 DEF S!ExitEnd, S!DropTimer
  <2>1. /\ task' = S(z)!TakeBack(S(z)!Restored(s, task)) \/ task' = S(z)!Restored(s, task)
        /\ passed' = passed + 1 \/ passed' = passed
        /\ exc' \in {"timeout", outer[s], exc}
    BY <1>5 DEF S!ExitEnd
  <2>2. PICK k : k = S(z)!Restored(s, task)
    OBVIOUS
  <2>3. k \in S(z)!TaskType /\ S(z)!Spent(s) \in [Setup[z].scopes -> Nat]
    BY <1>2, <1>3, <2>2, RestoredFacts
  <2>4. S(z)!TakeBack(k) \in S(z)!TaskType
    <3>1. S(z)!UncancelTimes(k, 1) \in S(z)!TaskType
      BY <2>3, Uncancelling
    <3> QED BY <2>3, <3>1 DEF S!TakeBack
  <2>5. task' \in S(z)!TaskType /\ saved' \in [Setup[z].scopes -> Nat]
    BY <2>0, <2>1, <2>2, <2>3, <2>4
  <2>6. active' = [active EXCEPT ![s] = FALSE]
    <3>1. active[s] = FALSE
      BY <1>1, <1>2, <1>3, <2>0 DEF HostBound
    <3> QED BY <1>2, <1>3, <2>0, <3>1
  <2>7. stack' \in Seq(Setup[z].scopes)
    BY <1>0, <1>1, <2>0, PopFacts
  <2>8. S(z)!TypeOK'
    <3>1. 0 \in 0..Setup[z].time
      BY SetupFacts
    <3>2. /\ handle' \in [Setup[z].scopes -> 0..Setup[z].time]
          /\ timers' \subseteq Setup[z].scopes \X (1..Setup[z].time)
      BY <1>3, <2>0, <3>1
    <3>3. exc' \in S(z)!Exceptions /\ passed' \in Nat
      BY <1>2, <1>3, <2>1 DEF S!Exceptions
    <3> QED BY <1>1, <2>0, <2>5, <2>7, <3>2, <3>3
            DEF S!TypeOK, S!TaskType, S!Exceptions, S!Infinite
  <2> QED BY <2>0, <2>6, <2>8, BoundPopped
<1> QED BY <1>4, <1>5

\* __aenter__ binds the scope and pushes it.
LEMMA EnterBeginBound ==
    ASSUME NEW z \in ScopeScenes, BoundInv(z), NEW s \in Setup[z].scopes, S(z)!EnterBegin(s)
    PROVE  BoundInv(z)'
<1> DEFINE n == Len(stack)
<1>0. /\ task.state = "running" /\ at = "body" /\ at' = "arm"
      /\ ~active[s] /\ \A i \in DOMAIN stack : stack[i] # s
      /\ entries[s] < Setup[z].entries /\ entries' = [entries EXCEPT ![s] = entries[s] + 1]
      /\ active' = [active EXCEPT ![s] = TRUE]
      /\ injected' = [injected EXCEPT ![s] = FALSE]
      /\ saved' = IF shield[s] THEN [saved EXCEPT ![s] = task.cancels] ELSE saved
      /\ task' = IF shield[s] THEN S(z)!UncancelTimes(task, task.cancels) ELSE task
      /\ stack' = Append(stack, s)
      /\ outer' = [outer EXCEPT ![s] = exc] /\ exc' = "none"
      /\ due' = IF deadline[s] <= now THEN 0 ELSE deadline[s]
      /\ UNCHANGED <<now, taken, cancel_called, shield, deadline, handle, timers, ready, sets, ext,
                     passed, caught>>
  BY DEF S!EnterBegin, S!InBody
<1>1. S(z)!TypeOK /\ S(z)!ScopesBound /\ TimesPosted(z)
  BY DEF BoundInv
<1>2. /\ task \in S(z)!TaskType /\ task.cancels \in Nat /\ stack \in Seq(Setup[z].scopes)
      /\ active \in [Setup[z].scopes -> BOOLEAN] /\ injected \in [Setup[z].scopes -> BOOLEAN]
      /\ saved \in [Setup[z].scopes -> Nat] /\ shield \in [Setup[z].scopes -> BOOLEAN]
      /\ outer \in [Setup[z].scopes -> S(z)!Exceptions] /\ exc \in S(z)!Exceptions
      /\ entries \in [Setup[z].scopes -> 0..Setup[z].entries]
      /\ deadline \in [Setup[z].scopes -> 0..S(z)!Infinite]
  BY <1>1, HostFields DEF S!TypeOK
<1>3. /\ stack' \in Seq(Setup[z].scopes) /\ stack' # <<>>
      /\ n \in Nat /\ DOMAIN stack = 1..n /\ DOMAIN stack' = 1..(n + 1) /\ Len(stack') = n + 1
      /\ \A i \in 1..n : stack'[i] = stack[i]
      /\ stack'[n + 1] = s
  <2>1. stack \in Seq(Setup[z].scopes) /\ stack' = Append(stack, s)
    BY <1>0, <1>2
  <2>2. /\ stack' \in Seq(Setup[z].scopes) /\ stack' # <<>>
        /\ n \in Nat /\ DOMAIN stack = 1..n /\ DOMAIN stack' = 1..(n + 1) /\ Len(stack') = n + 1
        /\ \A i \in 1..n : stack'[i] = stack[i]
        /\ stack'[Len(stack')] = s
    BY <2>1, Pushed
  <2> QED BY <2>2
<1> HIDE DEF n
<1>4. /\ \A i \in DOMAIN stack : i \in DOMAIN stack' /\ stack'[i] = stack[i] /\ i # n + 1
      /\ \A i \in DOMAIN stack' : i \in DOMAIN stack \/ i = n + 1
      /\ n + 1 \in DOMAIN stack' /\ stack'[n + 1] = s /\ S(z)!Top' = s
  BY <1>3 DEF S!Top
<1>5. ~injected[s] /\ injected' = injected
  <2>1. ~injected[s]
    BY <1>0, <1>1 DEF S!ScopesBound
  <2> QED BY <1>0, <1>2, <2>1
<1>6. /\ task' \in S(z)!TaskType /\ task'.state = "running"
      /\ saved' \in [Setup[z].scopes -> Nat]
  <2>1. PICK u : u = S(z)!UncancelTimes(task, task.cancels)
    OBVIOUS
  <2>2. task \in S(z)!TaskType /\ task.cancels \in Nat
    BY <1>2
  <2>3. u \in S(z)!TaskType /\ u.state = task.state
    BY <2>1, <2>2, Uncancelling
  <2> QED BY <1>0, <1>2, <2>1, <2>3
<1>7. S(z)!TypeOK'
  <2>1. active' \in [Setup[z].scopes -> BOOLEAN] /\ outer' \in [Setup[z].scopes -> S(z)!Exceptions]
    BY <1>0, <1>2
  <2>2. entries' \in [Setup[z].scopes -> 0..Setup[z].entries]
    <3>1. entries[s] + 1 \in 0..Setup[z].entries
      BY <1>0, <1>2, SetupFacts
    <3> QED BY <1>0, <1>2, <3>1
  <2>3. due' \in 0..S(z)!Infinite
    <3>1. 0 \in 0..S(z)!Infinite
      BY SetupFacts DEF S!Infinite
    <3> QED BY <1>0, <1>2, <3>1
  <2>4. exc' \in S(z)!Exceptions /\ injected' \in [Setup[z].scopes -> BOOLEAN]
    BY <1>0, <1>2, <1>5 DEF S!Exceptions
  <2> QED BY <1>0, <1>1, <1>3, <1>6, <2>1, <2>2, <2>3, <2>4
          DEF S!TypeOK, S!TaskType, S!Exceptions, S!Infinite
<1>8. S(z)!ScopesBound'
  <2>0. active'[s] /\ \A r \in Setup[z].scopes : r # s => active'[r] = active[r]
    BY <1>0, <1>2
  <2>1. ASSUME NEW i \in DOMAIN stack', NEW j \in DOMAIN stack', stack'[i] = stack'[j]
        PROVE  i = j
    <3>1. CASE i \in DOMAIN stack /\ j \in DOMAIN stack
      BY <1>1, <1>4, <2>1, <3>1 DEF S!ScopesBound
    <3>2. CASE i = n + 1 /\ j \in DOMAIN stack
      BY <1>0, <1>4, <2>1, <3>2
    <3>3. CASE i \in DOMAIN stack /\ j = n + 1
      BY <1>0, <1>4, <2>1, <3>3
    <3> QED BY <1>4, <3>1, <3>2, <3>3
  <2>2. ASSUME NEW r \in Setup[z].scopes
        PROVE  /\ active'[r] => \E i \in DOMAIN stack' : stack'[i] = r
               /\ injected'[r] => active'[r]
               /\ (\E i \in DOMAIN stack' : stack'[i] = r) => active'[r]
    <3>1. CASE r = s
      BY <1>4, <2>0, <3>1
    <3>2. CASE r # s
      <4>1. active[r] => \E i \in DOMAIN stack : stack[i] = r
        BY <1>1 DEF S!ScopesBound
      <4>2. (\E i \in DOMAIN stack' : stack'[i] = r) => \E i \in DOMAIN stack : stack[i] = r
        BY <1>4, <3>2
      <4>3. (\E i \in DOMAIN stack : stack[i] = r) => active[r]
        BY <1>0, <1>1 DEF S!ScopesBound
      <4>4. injected'[r] => active[r]
        BY <1>1, <1>5 DEF S!ScopesBound
      <4>5. (\E i \in DOMAIN stack : stack[i] = r) => \E i \in DOMAIN stack' : stack'[i] = r
        BY <1>4
      <4> QED BY <2>0, <3>2, <4>1, <4>2, <4>3, <4>4, <4>5
    <3> QED BY <3>1, <3>2
  <2> QED BY <2>1, <2>2 DEF S!ScopesBound
<1>9. HostBound(z)'
  <2>1. active'[s] /\ ~injected'[s]
    BY <1>0, <1>2, <1>5
  <2> QED BY <1>0, <1>3, <1>4, <1>6, <2>1 DEF HostBound
<1>10. TimesPosted(z)'
  BY <1>0, <1>1 DEF TimesPosted
<1> QED BY <1>7, <1>8, <1>9, <1>10 DEF BoundInv

\* Every step of CancelScope keeps the invariant, in any use.
LEMMA BoundNext ==
    ASSUME NEW z \in ScopeScenes, BoundInv(z), S(z)!Next
    PROVE  BoundInv(z)'
<1>1. CASE \E s \in Setup[z].scopes :
             S(z)!EnterBegin(s) \/ S(z)!cancel(s) \/ S(z)!ForeignCancel(s) \/ S(z)!Assign(s)
  BY <1>1, EnterBeginBound, CancelBounds, AssignBounds
<1>2. CASE \E s \in Setup[z].scopes, v \in 1..Setup[z].time : S(z)!Expire(s, v)
  BY <1>2, CancelBounds
<1>3. CASE S(z)!EnterArm \/ S(z)!EnterCheck \/ S(z)!ExitBegin \/ S(z)!ExitEnd
  BY <1>3, EnterArmBound, EnterCheckBound, ExitBounds
<1>4. CASE \/ S(z)!Await \/ S(z)!Resume \/ S(z)!Checkpoint \/ S(z)!Catch \/ S(z)!Finish
           \/ S(z)!External \/ S(z)!Tick \/ S(z)!Callback
  BY <1>4, HostBounds, CallbackBounds
<1> QED BY <1>1, <1>2, <1>3, <1>4 DEF S!Next

\* The scopes on stage satisfy it.
BoundsInv == \A z \in ScopeScenes : scene = z => BoundInv(z)

\* Every step of every scene keeps it.
LEMMA BoundsNext == BoundsInv /\ [MNext]_mvars => BoundsInv'
<1> SUFFICES ASSUME BoundsInv, [MNext]_mvars, NEW z \in ScopeScenes, scene' = z
             PROVE  BoundInv(z)'
  BY DEF BoundsInv
<1>0. scene' = scene
  BY DEF MNext, mvars, ScopesRun, GroupsRun, ContextRuns
<1>1. BoundInv(z)
  BY <1>0 DEF BoundsInv
<1>2. CASE ScopesRun
  BY <1>0, <1>1, <1>2, BoundNext DEF ScopesRun
<1>3. CASE UNCHANGED scopevars
  <2>0. /\ UNCHANGED <<now, task, exc, stack, at, due, taken, outer, cancel_called, active>>
        /\ UNCHANGED <<injected, saved, shield, deadline, handle, timers, ready, entries, sets>>
        /\ UNCHANGED <<ext, passed, caught>>
    BY <1>3 DEF scopevars
  <2>1. S(z)!TypeOK /\ S(z)!TypeOK'
    BY <1>1, <2>0, ZenonT(60) DEF BoundInv, S!TypeOK, S!TaskType, S!Exceptions, S!Infinite
  <2>2. TimesPosted(z)' /\ (at # "body" => task'.state = "running")
    BY <1>1, <2>0 DEF BoundInv, TimesPosted, HostBound
  <2> QED BY <1>1, <2>0, <2>1, <2>2, BoundSame
<1> QED BY <1>2, <1>3 DEF MNext, mvars, scopevars, GroupsRun, ContextRuns

\* The scopes of every scene start in it.
LEMMA BoundsInit == MInit => BoundsInv
<1>1. ASSUME NEW z \in ScopeScenes, S(z)!Init PROVE BoundInv(z)
  <2>1. S(z)!TypeOK /\ S(z)!ScopesBound
    BY <1>1, ScopeInit DEF ScopeInv
  <2>2. HostBound(z) /\ TimesPosted(z)
    <3>1. DOMAIN ready = {} /\ at = "body"
      BY <1>1 DEF S!Init
    <3> QED BY <3>1 DEF HostBound, TimesPosted
  <2> QED BY <2>1, <2>2 DEF BoundInv
<1> QED BY <1>1 DEF MInit, BoundsInv

-----------------------------------------------------------------------------
(* The theorems *)

\* CancelScope, for any number of scopes, of entries and of assignments to their
\* deadlines and shields, whatever other threads, timers and the host's own code
\* do: a scope is bound to the host exactly while it is on the stack, and only a
\* bound one has an injection to take back.  If, moreover, the use is safe (no
\* other thread cancels a move_on scope, and shields are switched only on a
\* single scope entered once), no request is counted in Task.cancelling() that
\* nobody made or that a scope has taken back.
THEOREM ScopesTheorem == MSpec => []ScopesSound
<1>1. ScopesInv /\ BoundsInv => ScopesSound
  <2> SUFFICES ASSUME ScopesInv, BoundsInv, NEW z \in ScopeScenes, scene = z
               PROVE  S(z)!TypeOK /\ S(z)!ScopesBound /\ (S(z)!SafeUse => S(z)!Ledger)
    BY DEF ScopesSound
  <2>1. S(z)!TypeOK /\ S(z)!ScopesBound
    BY DEF BoundsInv, BoundInv
  <2>2. ASSUME S(z)!SafeUse PROVE S(z)!Ledger
    BY <2>2, BooksKept DEF ScopesInv, SafeScenes, ScopeInv
  <2> QED BY <2>1, <2>2
<1> QED BY <1>1, ScopesInit, ScopesNext, BoundsInit, BoundsNext, PTL DEF MSpec

\* While no scope of the host was cancelled, the scopes and shields it passes
\* through lose no cancellation from outside, if their use is safe and shields
\* are not switched; a task group never loses one, though it cancels its
\* children with the host.
THEOREM CancellationTheorem == MSpec => []CancellationKept
<1>1. ScopesInv =>
        \A z \in ScopeScenes :
          scene = z /\ S(z)!SafeUse /\ "shield" \notin Setup[z].program => S(z)!ExternalKept
  BY DEF ScopesInv, SafeScenes, ScopeInv, OutsideKept
<1>2. ScopesInv /\ GroupsInv => CancellationKept
  BY <1>1, GroupsSound DEF CancellationKept
<1> QED BY <1>2, ScopesInit, ScopesNext, GroupsInit, GroupsNext, PTL DEF MSpec
=============================================================================
