------------------------------- MODULE Queues -------------------------------
(***************************************************************************)
(* The waiter queues of the primitives: an OrderedDict, a deque or a       *)
(* VecDeque in arrival order, in which a waiter is registered at most once *)
(* and from which it may withdraw wherever it stands.                      *)
(***************************************************************************)
EXTENDS Naturals, Sequences

Elems(q) == {q[k] : k \in DOMAIN q}
InQueue(t, q) == \E k \in DOMAIN q : q[k] = t

\* q without t, the others in the same order; q itself if t is not in it.
Discard(q, t) ==
    LET k == CHOOSE i \in DOMAIN q : q[i] = t
    IN IF InQueue(t, q)
       THEN [i \in 1..(Len(q) - 1) |-> IF i < k THEN q[i] ELSE q[i + 1]]
       ELSE q
=============================================================================
