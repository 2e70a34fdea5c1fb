------------------------------ MODULE MCRWMutex ------------------------------
(* Two readers and two writers. *)
EXTENDS RWMutex

CONSTANTS r1, r2, w1, w2

TwoReaders == {r1, r2}
TwoWriters == {w1, w2}
All == Users
None == {}
=============================================================================
