------------------------------ MODULE FifoQueue ------------------------------
(***************************************************************************)
(* What a Channel promises its users: a bounded first-in first-out queue.  *)
(* in is every item the queue accepted, out every item it gave away, in    *)
(* that order; queue is what lies between.                                 *)
(***************************************************************************)
EXTENDS Naturals, Sequences

CONSTANTS Capacity,   \* 0 = unbounded
          Values

VARIABLES queue, in, out
qvars == <<queue, in, out>>

Init ==
    /\ queue = <<>>
    /\ in = <<>>
    /\ out = <<>>

Put(v) ==
    /\ Capacity = 0 \/ Len(queue) < Capacity
    /\ queue' = Append(queue, v)
    /\ in' = Append(in, v)
    /\ UNCHANGED out

Get ==
    /\ queue # <<>>
    /\ queue' = Tail(queue)
    /\ out' = Append(out, Head(queue))
    /\ UNCHANGED in

\* An item put while a consumer waits at an empty queue passes straight through.
PassThrough(v) ==
    /\ queue = <<>>
    /\ in' = Append(in, v)
    /\ out' = Append(out, v)
    /\ UNCHANGED queue

Next ==
    \/ \E v \in Values : Put(v) \/ PassThrough(v)
    \/ Get

Spec == Init /\ [][Next]_qvars
=============================================================================
