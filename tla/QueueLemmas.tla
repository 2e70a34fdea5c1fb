---------------------------- MODULE QueueLemmas ----------------------------
(***************************************************************************)
(* What the queue operators do to a queue in which no waiter repeats, and  *)
(* how the number of tasks in a set changes when one enters or leaves it.  *)
(***************************************************************************)
EXTENDS Queues, SequenceTheorems, FiniteSetTheorems, WellFoundedInduction, TLAPS

\* The waiters at the places J, and the first k waiters.
Standing(q, J) == {q[i] : i \in J}
Front(q, k) == {q[i] : i \in 1..k}

\* No waiter is in the queue twice.
NoRepeat(q) == \A i, j \in DOMAIN q : q[i] = q[j] => i = j

\* Appending a task that is not queued queues it last, and changes nothing else.
LEMMA AppendQueue ==
    ASSUME NEW S, NEW q \in Seq(S), NEW t \in S, NoRepeat(q), ~InQueue(t, q)
    PROVE  /\ Append(q, t) \in Seq(S)
           /\ NoRepeat(Append(q, t))
           /\ \A x : InQueue(x, Append(q, t)) <=> InQueue(x, q) \/ x = t
<1> DEFINE s == Append(q, t)
<1>1. /\ s \in Seq(S) /\ Len(s) = Len(q) + 1
      /\ DOMAIN q = 1..Len(q) /\ DOMAIN s = 1..(Len(q) + 1) /\ Len(q) \in Nat
      /\ s[Len(q) + 1] = t /\ \A i \in 1..Len(q) : s[i] = q[i]
  BY AppendProperties, LenProperties
<1> HIDE DEF s
<1>2. NoRepeat(s)
  BY <1>1 DEF NoRepeat, InQueue
<1>3. ASSUME NEW x PROVE InQueue(x, s) <=> InQueue(x, q) \/ x = t
  BY <1>1 DEF InQueue
<1> QED BY <1>1, <1>2, <1>3 DEF s

\* _discard_waiter removes a queued task, and only that one.
LEMMA DiscardQueue ==
    ASSUME NEW S, NEW q \in Seq(S), NEW t \in S, NoRepeat(q), InQueue(t, q)
    PROVE  /\ Discard(q, t) \in Seq(S)
           /\ NoRepeat(Discard(q, t))
           /\ \A x : InQueue(x, Discard(q, t)) <=> InQueue(x, q) /\ x # t
<1> DEFINE k == CHOOSE i \in DOMAIN q : q[i] = t
           n == Len(q) - 1
           s == [i \in 1..n |-> IF i < k THEN q[i] ELSE q[i + 1]]
<1>1. k \in DOMAIN q /\ q[k] = t
  BY DEF InQueue
<1>2. Len(q) \in Nat /\ DOMAIN q = 1..Len(q) /\ \A i \in 1..Len(q) : q[i] \in S
  BY LenProperties, ElementOfSeq
<1>3. n \in Nat /\ Len(q) = n + 1 /\ k \in 1..(n + 1)
  BY <1>1, <1>2
<1> HIDE DEF k, n
<1>4. \A i \in 1..n : s[i] \in S
  BY <1>2, <1>3
<1>5. s \in Seq(S) /\ DOMAIN s = 1..n
  BY <1>3, <1>4, IsASeq
<1>6. s = Discard(q, t)
  BY DEF Discard, k, n
<1>7. NoRepeat(s)
  BY <1>2, <1>3, <1>5 DEF NoRepeat
<1>8. ASSUME NEW x PROVE InQueue(x, s) <=> InQueue(x, q) /\ x # t
  <2>1. ASSUME InQueue(x, s) PROVE InQueue(x, q) /\ x # t
    <3>1. PICK i \in 1..n : s[i] = x
      BY <2>1, <1>5 DEF InQueue
    <3>2. PICK j \in 1..(n + 1) : q[j] = x /\ j # k
      BY <3>1, <1>3
    <3> QED BY <3>2, <1>1, <1>2, <1>3 DEF InQueue, NoRepeat
  <2>2. ASSUME InQueue(x, q), x # t PROVE InQueue(x, s)
    <3>1. PICK j \in 1..(n + 1) : q[j] = x /\ j # k
      BY <2>2, <1>1, <1>2, <1>3 DEF InQueue
    <3>2. CASE j < k
      <4>1. j \in 1..n /\ s[j] = x
        BY <3>1, <3>2, <1>3
      <4> QED BY <4>1, <1>5 DEF InQueue
    <3>3. CASE j > k
      <4>1. j - 1 \in 1..n /\ s[j - 1] = x
        BY <3>1, <3>3, <1>3
      <4> QED BY <4>1, <1>5 DEF InQueue
    <3> QED BY <3>1, <3>2, <3>3, <1>3
  <2> QED BY <2>1, <2>2
<1> QED BY <1>5, <1>6, <1>7, <1>8

\* A queue without its first k waiters: the others stay, in their order.
LEMMA SuffixQueue ==
    ASSUME NEW S, NEW q \in Seq(S), NoRepeat(q), NEW k \in Nat, k <= Len(q),
           NEW rest, rest = SubSeq(q, k + 1, Len(q))
    PROVE  /\ rest \in Seq(S)
           /\ NoRepeat(rest)
           /\ Len(rest) = Len(q) - k
           /\ \A x : InQueue(x, rest) <=> InQueue(x, q) /\ x \notin Front(q, k)
<1> DEFINE n == Len(q)
           l == Len(rest)
<1>1. n \in Nat /\ DOMAIN q = 1..n /\ \A i \in 1..n : q[i] \in S
  BY LenProperties, ElementOfSeq
<1>2. k + 1 \in Int /\ n \in Int /\ \A i \in (k + 1)..n : q[i] \in S
  BY <1>1
<1>3. /\ rest \in Seq(S)
      /\ l = IF k + 1 <= n THEN n - (k + 1) + 1 ELSE 0
      /\ \A i \in 1..(n - (k + 1) + 1) : rest[i] = q[(k + 1) + i - 1]
  BY ONLY <1>2, rest = SubSeq(q, k + 1, Len(q)), SubSeqProperties
<1>4. DOMAIN rest = 1..l
  BY <1>3, LenProperties
<1>5. k \in 0..n
  OBVIOUS
<1> HIDE DEF n, l
<1>6. l = n - k
  <2>1. n \in Nat /\ l = IF k + 1 <= n THEN n - (k + 1) + 1 ELSE 0
    BY <1>1, <1>3
  <2> QED BY ONLY <1>5, <2>1
<1>7. ASSUME NEW i \in 1..l PROVE rest[i] = q[k + i]
  <2>1. i \in 1..(n - (k + 1) + 1) /\ (k + 1) + i - 1 = k + i
    BY <1>1, <1>5, <1>6
  <2> QED BY <1>3, <2>1
<1>8. NoRepeat(rest)
  <2>1. SUFFICES ASSUME NEW i \in 1..l, NEW j \in 1..l, rest[i] = rest[j] PROVE i = j
    BY <1>4 DEF NoRepeat
  <2>2. k + i \in DOMAIN q /\ k + j \in DOMAIN q /\ q[k + i] = q[k + j]
    BY <1>1, <1>5, <1>6, <1>7, <2>1
  <2>3. k + i = k + j
    BY <2>2 DEF NoRepeat
  <2> QED BY <1>1, <1>5, <1>6, <2>3
<1>9. ASSUME NEW x PROVE InQueue(x, rest) <=> InQueue(x, q) /\ \A i \in 1..k : q[i] # x
  <2>1. ASSUME InQueue(x, rest) PROVE InQueue(x, q) /\ \A i \in 1..k : q[i] # x
    <3>1. PICK j \in 1..l : rest[j] = x
      BY <1>4, <2>1 DEF InQueue
    <3>2. k + j \in 1..n /\ q[k + j] = x /\ \A i \in 1..k : i \in 1..n /\ i # k + j
      BY <1>1, <1>5, <1>6, <1>7, <3>1
    <3> QED BY <1>1, <3>2 DEF InQueue, NoRepeat
  <2>2. ASSUME InQueue(x, q), \A i \in 1..k : q[i] # x PROVE InQueue(x, rest)
    <3>1. PICK j \in 1..n : q[j] = x
      BY <1>1, <2>2 DEF InQueue
    <3>2. j - k \in 1..l /\ k + (j - k) = j
      BY <1>1, <1>5, <1>6, <2>2, <3>1
    <3>3. rest[j - k] = x
      BY <1>7, <3>1, <3>2
    <3> QED BY <1>4, <3>2, <3>3 DEF InQueue
  <2> QED BY <2>1, <2>2
<1>10. \A x : (\A i \in 1..k : q[i] # x) <=> x \notin Front(q, k)
  BY DEF Front
<1> QED BY <1>3, <1>6, <1>8, <1>9, <1>10 DEF n, l

\* A queue without its first waiter.
LEMMA TailQueue ==
    ASSUME NEW S, NEW q \in Seq(S), NoRepeat(q), q # <<>>
    PROVE  /\ Tail(q) \in Seq(S) /\ NoRepeat(Tail(q)) /\ Len(Tail(q)) = Len(q) - 1
           /\ q[1] \in S /\ InQueue(q[1], q)
           /\ \A x : InQueue(x, Tail(q)) <=> InQueue(x, q) /\ x # q[1]
<1>1. /\ Len(q) \in Nat \ {0} /\ DOMAIN q = 1..Len(q) /\ q[1] \in S
      /\ \A i \in 1..Len(q) : q[i] \in S
  BY LenProperties, ElementOfSeq, EmptySeq
<1>2. Tail(q) = SubSeq(q, 2, Len(q))
  BY TailIsSubSeq
<1>3. 1 \in Nat /\ 1 <= Len(q) /\ Tail(q) = SubSeq(q, 1 + 1, Len(q))
  BY <1>1, <1>2
<1>4. /\ Tail(q) \in Seq(S) /\ NoRepeat(Tail(q)) /\ Len(Tail(q)) = Len(q) - 1
      /\ \A x : InQueue(x, Tail(q)) <=> InQueue(x, q) /\ x \notin Front(q, 1)
  BY ONLY NoRepeat(q), q \in Seq(S), <1>3, SuffixQueue
<1>5. 1 \in DOMAIN q /\ \A x : x \notin Front(q, 1) <=> x # q[1]
  BY <1>1 DEF Front
<1>6. InQueue(q[1], q)
  BY <1>5 DEF InQueue
<1> QED BY <1>1, <1>4, <1>5, <1>6

\* A queue is empty just when nobody is in it.
LEMMA EmptyQueue ==
    ASSUME NEW S, NEW q \in Seq(S)
    PROVE  q = <<>> <=> \A x \in S : ~InQueue(x, q)
<1>1. Len(q) \in Nat /\ DOMAIN q = 1..Len(q) /\ \A i \in 1..Len(q) : q[i] \in S
  BY LenProperties, ElementOfSeq
<1>2. q # <<>> => 1 \in DOMAIN q
  BY <1>1, EmptySeq
<1> QED BY <1>1, <1>2, EmptySeq DEF InQueue

-----------------------------------------------------------------------------
(* Counting *)

\* A task enters a set, leaves it, or takes another's place.
LEMMA CountAdd ==
    ASSUME NEW A, NEW B, IsFiniteSet(A), NEW x, x \notin A, B = A \cup {x}
    PROVE  IsFiniteSet(B) /\ Cardinality(A) \in Nat /\ Cardinality(B) = Cardinality(A) + 1
BY FS_AddElement, FS_CardinalityType

\* Removing a member lowers the count by one.
LEMMA CountRemove ==
    ASSUME NEW A, NEW B, IsFiniteSet(A), NEW x, x \in A, B = A \ {x}
    PROVE  /\ IsFiniteSet(B) /\ Cardinality(B) = Cardinality(A) - 1
           /\ Cardinality(A) \in Nat \ {0} /\ Cardinality(B) \in Nat
<1>1. IsFiniteSet(B) /\ Cardinality(B) = Cardinality(A) - 1
  BY FS_RemoveElement
<1>2. Cardinality(A) \in Nat /\ Cardinality(B) \in Nat
  BY <1>1, FS_CardinalityType
<1> QED BY <1>1, <1>2

\* Exchanging a member for another leaves the count.
LEMMA CountSwap ==
    ASSUME NEW A, NEW B, IsFiniteSet(A), NEW x, NEW y, x \in A, y \notin A,
           B = (A \ {x}) \cup {y}
    PROVE  IsFiniteSet(B) /\ Cardinality(B) = Cardinality(A)
<1> DEFINE C == A \ {x}
<1>1. /\ IsFiniteSet(C) /\ Cardinality(C) = Cardinality(A) - 1
      /\ Cardinality(A) \in Nat
  BY CountRemove
<1>2. y \notin C /\ B = C \cup {y}
  OBVIOUS
<1> HIDE DEF C
<1>3. IsFiniteSet(B) /\ Cardinality(B) = Cardinality(C) + 1
  BY <1>1, <1>2, CountAdd
<1> QED BY <1>1, <1>3

\* Some tasks enter a set that held none of them.
LEMMA CountUnion ==
    ASSUME NEW A, NEW B, NEW C, IsFiniteSet(A), IsFiniteSet(C), A \cap C = {}, B = A \cup C
    PROVE  /\ IsFiniteSet(B) /\ Cardinality(B) = Cardinality(A) + Cardinality(C)
           /\ Cardinality(A) \in Nat /\ Cardinality(C) \in Nat
<1>1. /\ IsFiniteSet(A \cup C)
      /\ Cardinality(A \cup C) = Cardinality(A) + Cardinality(C) - Cardinality(A \cap C)
  BY FS_Union
<1>2. Cardinality(A \cap C) = 0 /\ Cardinality(A) \in Nat /\ Cardinality(C) \in Nat
  BY FS_EmptySet, FS_CardinalityType
<1> QED BY <1>1, <1>2

\* Different places of a queue hold different tasks.
LEMMA CountStanding ==
    ASSUME NEW S, NEW q \in Seq(S), NoRepeat(q), NEW J, J \subseteq DOMAIN q
    PROVE  /\ IsFiniteSet(J) /\ IsFiniteSet(Standing(q, J))
           /\ Cardinality(Standing(q, J)) = Cardinality(J)
<1> DEFINE P == Standing(q, J)
           f == [i \in J |-> q[i]]
<1>1. Len(q) \in Nat /\ DOMAIN q = 1..Len(q)
  BY LenProperties
<1>2. IsFiniteSet(J)
  <2>1. IsFiniteSet(1..Len(q))
    BY <1>1, FS_Interval
  <2> QED BY <1>1, <2>1, FS_Subset
<1>3. f \in Bijection(J, P)
  <2>1. f \in Injection(J, P)
    BY <1>1 DEF Injection, NoRepeat, IsInjective, Standing
  <2>2. f \in Surjection(J, P)
    BY DEF Surjection, Standing
  <2> QED BY <2>1, <2>2 DEF Bijection
<1>4. ExistsBijection(J, P)
  BY <1>3 DEF ExistsBijection
<1> QED BY <1>2, <1>4, FS_Bijection

\* The first k waiters of a queue are k tasks.
LEMMA CountPrefix ==
    ASSUME NEW S, NEW q \in Seq(S), NoRepeat(q), NEW k \in Nat, k <= Len(q)
    PROVE  IsFiniteSet(Front(q, k)) /\ Cardinality(Front(q, k)) = k
<1>1. Front(q, k) = Standing(q, 1..k) /\ 1..k \subseteq DOMAIN q
  BY LenProperties DEF Front, Standing
<1>2. Cardinality(1..k) = k
  <2>1. 1 \in Int /\ k \in Int
    OBVIOUS
  <2>2. Cardinality(1..k) = IF 1 > k THEN 0 ELSE k - 1 + 1
    BY <2>1, FS_Interval
  <2> QED BY <2>2
<1>3. PICK J : J = 1..k
  OBVIOUS
<1>4. IsFiniteSet(Standing(q, J)) /\ Cardinality(Standing(q, J)) = Cardinality(J)
  BY <1>1, <1>3, CountStanding
<1> QED BY <1>1, <1>2, <1>3, <1>4

\* A set of numbers that is not empty has a least one.
LEMMA LeastNatural ==
    ASSUME NEW T, T \subseteq Nat, T # {}
    PROVE  \E x \in T : \A y \in T : x <= y
<1> DEFINE R == OpToRel(<, Nat)
<1>1. IsWellFoundedOn(R, Nat)
  BY NatLessThanWellFounded
<1>2. \A x, y \in Nat : y < x => <<y, x>> \in R
  BY DEF OpToRel
<1> HIDE DEF R
<1>3. PICK x \in T : \A y \in T : ~ (<<y, x>> \in R)
  BY <1>1, WFMin
<1>4. \A y \in T : y \in Nat /\ x \in Nat /\ ~(y < x)
  BY <1>2, <1>3
<1> QED BY <1>3, <1>4

\* The places of L up to k.
UpTo(L, k) == {j \in L : j <= k}

\* Counting places from the front, every number up to the number of places is
\* reached at one of them.
LEMMA CountCut ==
    ASSUME NEW m \in Nat, NEW L, L \subseteq 1..m, NEW n \in Nat, n # 0, n <= Cardinality(L)
    PROVE  \E k \in L : Cardinality(UpTo(L, k)) = n
<1>0. \A j \in L : j \in 1..m /\ j \in Nat /\ j <= m /\ 1 <= j
  OBVIOUS
<1>1. IsFiniteSet(L)
  <2>1. IsFiniteSet(1..m)
    BY FS_Interval
  <2> QED BY <2>1, FS_Subset
<1>2. \A k : IsFiniteSet(UpTo(L, k)) /\ Cardinality(UpTo(L, k)) \in Nat
  <2> TAKE k
  <2>1. UpTo(L, k) \in SUBSET L
    BY DEF UpTo
  <2>2. IsFiniteSet(UpTo(L, k))
    BY <1>1, <2>1, FS_Subset
  <2> QED BY <2>2, FS_CardinalityType
<1>3. PICK f : f = [k \in 0..m |-> Cardinality(UpTo(L, k))]
  OBVIOUS
<1>4. PICK K : K = {k \in 0..m : f[k] >= n}
  OBVIOUS
<1>5. m \in K
  <2>1. UpTo(L, m) = L
    BY <1>0 DEF UpTo
  <2> QED BY <2>1, <1>2, <1>3, <1>4
<1>6. PICK k \in K : \A i \in K : k <= i
  <2>1. \A i \in K : i \in Nat
    BY <1>4
  <2>2. K \subseteq Nat /\ K # {}
    BY <1>5, <2>1
  <2>3. \E k \in K : \A i \in K : k <= i
    BY <2>2, LeastNatural
  <2> QED BY <2>3
<1>7. f[0] = 0
  <2>1. \A j \in L : ~(j <= 0)
    BY <1>0
  <2>2. UpTo(L, 0) = {}
    BY <2>1 DEF UpTo
  <2>3. 0 \in 0..m
    OBVIOUS
  <2>4. f[0] = Cardinality(UpTo(L, 0))
    BY <1>3, <2>3
  <2> QED BY <2>2, <2>4, FS_EmptySet
<1>8. \A i \in 0..m : f[i] \in Nat
  BY <1>2, <1>3
<1>9. k \in 1..m /\ k - 1 \in 0..m /\ f[k - 1] < n /\ f[k] >= n
  <2>1. k \in 0..m /\ f[k] >= n /\ k # 0
    BY <1>4, <1>6, <1>7
  <2>2. k - 1 \in 0..m /\ k - 1 \notin K
    BY <2>1, <1>4, <1>6
  <2> QED BY <1>4, <1>8, <2>1, <2>2
<1>10. UpTo(L, k) = IF k \in L THEN UpTo(L, k - 1) \cup {k} ELSE UpTo(L, k - 1)
  <2>1. \A j \in L : j <= k <=> j <= k - 1 \/ j = k
    BY <1>0, <1>9
  <2>2. k \in L => UpTo(L, k) = UpTo(L, k - 1) \cup {k}
    BY <2>1 DEF UpTo
  <2>3. k \notin L => UpTo(L, k) = UpTo(L, k - 1)
    BY <2>1 DEF UpTo
  <2> QED BY <2>2, <2>3
<1>11. f[k] = IF k \in L THEN f[k - 1] + 1 ELSE f[k - 1]
  <2>1. k \notin UpTo(L, k - 1)
    BY <1>9 DEF UpTo
  <2>2. Cardinality(UpTo(L, k - 1) \cup {k}) = Cardinality(UpTo(L, k - 1)) + 1
    BY <1>2, <2>1, FS_AddElement
  <2>3. /\ f[k] = Cardinality(UpTo(L, k)) 
        /\ f[k - 1] = Cardinality(UpTo(L, k - 1))
    BY <1>3, <1>9
  <2> QED BY <1>10, <2>2, <2>3
<1>12. k \in L /\ f[k] = n
  BY <1>8, <1>9, <1>11
<1> QED BY <1>3, <1>9, <1>12

\* How a concatenation is grouped does not matter.
LEMMA Regrouped ==
    ASSUME NEW S, NEW b \in Seq(S), NEW x \in Seq(S), NEW y \in Seq(S)
    PROVE  (b \o x) \o y = b \o (x \o y)
<1>0. Len(b) \in Nat /\ Len(x) \in Nat /\ Len(y) \in Nat
  OBVIOUS
<1>1. \A d, e \in Seq(S) :
        /\ d \o e \in Seq(S) /\ Len(d \o e) = Len(d) + Len(e)
        /\ \A i \in 1..(Len(d) + Len(e)) : (d \o e)[i] = IF i <= Len(d) THEN d[i] ELSE e[i - Len(d)]
  BY ConcatProperties
<1> DEFINE l == (b \o x) \o y
           r == b \o (x \o y)
<1>2. b \o x \in Seq(S) /\ x \o y \in Seq(S)
  BY <1>1
<1>3. l \in Seq(S) /\ Len(l) = Len(b) + Len(x) + Len(y)
  BY <1>0, <1>1, <1>2
<1>4. r \in Seq(S) /\ Len(r) = Len(b) + Len(x) + Len(y)
  BY <1>0, <1>1, <1>2
<1>6. ASSUME NEW i \in 1..Len(l) PROVE l[i] = r[i]
  <2>1. CASE i <= Len(b)
    <3>1. l[i] = (b \o x)[i] /\ (b \o x)[i] = b[i] /\ r[i] = b[i]
      BY <1>0, <1>1, <1>2, <1>3, <2>1
    <3> QED BY <3>1
  <2>2. CASE i > Len(b) /\ i <= Len(b) + Len(x)
    <3>1. l[i] = (b \o x)[i] /\ (b \o x)[i] = x[i - Len(b)]
      BY <1>0, <1>1, <1>2, <1>3, <2>2
    <3>2. r[i] = (x \o y)[i - Len(b)] /\ (x \o y)[i - Len(b)] = x[i - Len(b)]
      BY <1>0, <1>1, <1>2, <1>3, <2>2
    <3> QED BY <3>1, <3>2
  <2>3. CASE i > Len(b) + Len(x)
    <3>1. l[i] = y[i - (Len(b) + Len(x))]
      BY <1>0, <1>1, <1>2, <1>3, <2>3
    <3>2. r[i] = (x \o y)[i - Len(b)] /\ (x \o y)[i - Len(b)] = y[i - Len(b) - Len(x)]
      BY <1>0, <1>1, <1>2, <1>3, <2>3
    <3> QED BY <1>0, <3>1, <3>2
  <2> QED BY <1>0, <1>3, <2>1, <2>2, <2>3
<1> HIDE DEF l, r
<1>7. l = r
  BY <1>3, <1>4, <1>6, SeqEqual
<1> QED BY <1>7 DEF l, r

\* A sequence cut in two is the first piece before the second, behind any other.
LEMMA Arrives ==
    ASSUME NEW S, NEW b \in Seq(S), NEW q \in Seq(S), NEW n \in 1..Len(q)
    PROVE  /\ SubSeq(q, 1, n) \in Seq(S) /\ SubSeq(q, n + 1, Len(q)) \in Seq(S)
           /\ SubSeq(q, 1, n) \o SubSeq(q, n + 1, Len(q)) = q
           /\ b \o SubSeq(q, 1, n) \in Seq(S)
           /\ (b \o SubSeq(q, 1, n)) \o SubSeq(q, n + 1, Len(q)) = b \o q
<1>1. Len(q) \in Nat /\ n \in Nat /\ 1 <= n /\ n <= Len(q)
      /\ \A i \in 1..Len(q) : q[i] \in S
  OBVIOUS
<1>2. PICK x : x = SubSeq(q, 1, n)
  OBVIOUS
<1>3. PICK y : y = SubSeq(q, n + 1, Len(q))
  OBVIOUS
<1>4. x \in Seq(S)
  <2>1. \A i \in 1..n : q[i] \in S
    BY <1>1
  <2> QED BY <1>1, <1>2, <2>1, SubSeqProperties
<1>5. y \in Seq(S)
  <2>1. \A i \in (n + 1)..Len(q) : q[i] \in S
    BY <1>1
  <2> QED BY <1>1, <1>3, <2>1, SubSeqProperties
<1>6. x \o y = q
  <2>1. x \o y = SubSeq(q, 1, Len(q))
    BY <1>1, <1>2, <1>3, ConcatAdjacentSubSeq
  <2>2. SubSeq(q, 1, Len(q)) = q
    BY SubSeqFull
  <2> QED BY <2>1, <2>2, Zenon
<1>7. b \o x \in Seq(S)
  BY <1>4, ConcatProperties
<1>8. (b \o x) \o y = b \o (x \o y)
  BY <1>4, <1>5, Regrouped
<1> QED BY <1>2, <1>3, <1>4, <1>5, <1>6, <1>7, <1>8, Zenon
=============================================================================
