--------------------------- MODULE PinningServer ---------------------------
(***************************************************************************)
(* The ConnectionPinningServer of server.py: an accept loop on every       *)
(* worker, the connections pinned to it, and one controller that starts    *)
(* and closes the server, perhaps several times.  Workers are threads of   *)
(* their own; a posted cancellation runs when its loop gets to it, before  *)
(* or after what became ready meanwhile.                                   *)
(***************************************************************************)
EXTENDS Naturals, FiniteSets

CONSTANTS
    Workers,     \* the loops of the pool
    Conns,       \* clients, each connects once
    MaxStarts    \* bound: calls of start()

\* What the constants are.
ServerParams == IsFiniteSet(Workers) /\ IsFiniteSet(Conns) /\ MaxStarts \in Nat

\* The accept loop of a worker, for the sockets of the n-th start().
Loops == Workers \X (1..MaxStarts)
NoLoop == <<>>

VARIABLES
    running,
    gen,           \* calls of start() so far
    open,          \* the current sockets are open
    pc,            \* the controller: "idle", or in start() ("spawn") or in
                   \* close() ("flagged", "drain", "cut")
    clean,         \* the drain ended because nothing was active
    accept_tasks,
    loop,          \* "none", "posted", "waiting" in sock_accept, "accepted" a
                   \* client it was not resumed for, "spinning" or "over"
    stopping,      \* loops whose cancellation is posted
    linked,        \* loops whose set of tasks is in _worker_conn_tasks
    conn,          \* "none", "accepted", "new", "connecting", "open" or "over"
    by,            \* the loop that accepted a client
    tracked,       \* the connections in _worker_conn_tasks
    cut,           \* connections whose cancellation is posted
    late,          \* connections made after close() had begun
    hurt           \* others that a drained close() cancels

vars == <<running, gen, open, pc, clean, accept_tasks, loop, stopping, linked, conn, by,
          tracked, cut, late, hurt>>
control == <<running, gen, open, pc, clean, accept_tasks, stopping>>

TypeOK ==
    /\ running \in BOOLEAN /\ open \in BOOLEAN /\ clean \in BOOLEAN
    /\ gen \in 0..MaxStarts
    /\ pc \in {"idle", "spawn", "flagged", "drain", "cut"}
    /\ \A L \in {accept_tasks, stopping, linked} : L \subseteq Loops
    /\ loop \in [Loops -> {"none", "posted", "waiting", "accepted", "spinning", "over"}]
    /\ conn \in [Conns -> {"none", "accepted", "new", "connecting", "open", "over"}]
    /\ by \in [Conns -> Loops \cup {NoLoop}]
    /\ \A C \in {tracked, cut, late, hurt} : C \subseteq Conns

Init ==
    /\ running = FALSE /\ gen = 0 /\ open = FALSE /\ pc = "idle" /\ clean = FALSE
    /\ accept_tasks = {} /\ stopping = {} /\ linked = {}
    /\ loop = [l \in Loops |-> "none"]
    /\ conn = [c \in Conns |-> "none"] /\ by = [c \in Conns |-> NoLoop]
    /\ tracked = {} /\ cut = {} /\ late = {} /\ hurt = {}

Live(c) == conn[c] \in {"new", "connecting", "open"}
\* A loop whose sockets are closed spins without awaiting while the server
\* runs: nothing else happens on its worker.
Free(w) == \A g \in 1..MaxStarts : loop[<<w, g>>] # "spinning"

-----------------------------------------------------------------------------
(* start *)

\* Bind the sockets, one per worker or a shared one, and mark the server.
StartListen ==
    /\ pc = "idle" /\ ~running
    /\ gen < MaxStarts /\ gen' = gen + 1
    /\ running' = TRUE /\ open' = TRUE /\ accept_tasks' = {}
    /\ pc' = "spawn"
    /\ UNCHANGED <<clean, loop, stopping, linked, conn, by, tracked, cut, late, hurt>>

\* Post the accept loop of the next worker.
StartSpawn ==
    /\ pc = "spawn"
    /\ \E w \in Workers :
         /\ <<w, gen>> \notin accept_tasks
         /\ loop' = [loop EXCEPT ![<<w, gen>>] = "posted"]
         /\ accept_tasks' = accept_tasks \cup {<<w, gen>>}
    /\ pc' = IF Cardinality(accept_tasks') = Cardinality(Workers) THEN "idle" ELSE "spawn"
    /\ UNCHANGED <<running, gen, open, clean, stopping, linked, conn, by, tracked, cut,
                   late, hurt>>

-----------------------------------------------------------------------------
(* close *)

CloseFlag ==
    /\ pc = "idle" /\ running
    /\ running' = FALSE /\ pc' = "flagged"
    /\ UNCHANGED <<gen, open, clean, accept_tasks, loop, stopping, linked, conn, by,
                   tracked, cut, late, hurt>>

\* Cancel the accept loops and close the sockets.
CloseListeners ==
    /\ pc = "flagged"
    /\ stopping' = stopping \cup accept_tasks /\ accept_tasks' = {}
    /\ open' = FALSE
    /\ pc' = "drain"
    /\ UNCHANGED <<running, gen, clean, loop, linked, conn, by, tracked, cut, late, hurt>>

\* The drain ends: nothing is active, or the time is up.
CloseDrained ==
    /\ pc = "drain"
    /\ clean' = (\A c \in tracked : ~Live(c))
    /\ pc' = "cut"
    /\ UNCHANGED <<running, gen, open, accept_tasks, loop, stopping, linked, conn, by,
                   tracked, cut, late, hurt>>

\* Take the connections that are left and post their cancellation.
CloseCut ==
    /\ pc = "cut" /\ pc' = "idle"
    /\ LET left == {c \in tracked : Live(c)} IN
       /\ cut' = cut \cup left
       /\ hurt' = hurt \cup (IF clean THEN left \ late ELSE {})
    /\ tracked' = {} /\ linked' = {}
    /\ UNCHANGED <<running, gen, open, clean, accept_tasks, loop, stopping, conn, by, late>>

-----------------------------------------------------------------------------
(* _worker_accept_loop *)

\* The head of the loop: go on while the server runs.
Again(l) ==
    CASE ~running -> "over"
      [] running /\ open /\ l[2] = gen -> "waiting"
      [] running /\ ~(open /\ l[2] = gen) -> "spinning"

\* The loop begins: it finds or makes the set of its worker.
LoopBegin(l) ==
    /\ loop[l] = "posted" /\ Free(l[1])
    /\ linked' = linked \cup {l}
    /\ loop' = [loop EXCEPT ![l] = Again(l)]
    /\ UNCHANGED <<control, conn, by, tracked, cut, late, hurt>>

\* A client connects to an open socket and completes sock_accept.
Connect(l, c) ==
    /\ loop[l] = "waiting" /\ open /\ l[2] = gen /\ Free(l[1])
    /\ conn[c] = "none"
    /\ loop' = [loop EXCEPT ![l] = "accepted"]
    /\ conn' = [conn EXCEPT ![c] = "accepted"] /\ by' = [by EXCEPT ![c] = l]
    /\ UNCHANGED <<control, linked, tracked, cut, late, hurt>>

\* The loop is resumed: it starts the connection's task and records it.
Accept(l) ==
    /\ loop[l] = "accepted" /\ Free(l[1])
    /\ \E c \in Conns :
         /\ by[c] = l /\ conn[c] = "accepted"
         /\ conn' = [conn EXCEPT ![c] = "new"]
         /\ tracked' = IF l \in linked THEN tracked \cup {c} ELSE tracked
         /\ late' = IF running /\ l[2] = gen THEN late ELSE late \cup {c}
    /\ loop' = [loop EXCEPT ![l] = Again(l)]
    /\ UNCHANGED <<control, linked, by, cut, hurt>>

\* The cancellation arrives; a client that was just accepted is dropped.
LoopCancelled(l) ==
    /\ l \in stopping /\ loop[l] \in {"posted", "waiting", "accepted"} /\ Free(l[1])
    /\ loop' = [loop EXCEPT ![l] = "over"]
    /\ conn' = [c \in Conns |-> IF by[c] = l /\ conn[c] = "accepted" THEN "over" ELSE conn[c]]
    /\ UNCHANGED <<control, linked, by, tracked, cut, late, hurt>>

\* sock_accept fails: the loop tries again, now or after a pause, unless the
\* server was closed.
LoopFails(l) ==
    /\ loop[l] \in {"waiting", "spinning"} /\ ~running
    /\ loop' = [loop EXCEPT ![l] = "over"]
    /\ UNCHANGED <<control, linked, conn, by, tracked, cut, late, hurt>>

-----------------------------------------------------------------------------
(* _run_pinned_connection *)

\* What the task does next: hand the socket to a transport, which may fail, and
\* run the handler.
Onward(c) ==
    CASE conn[c] = "new" -> {"connecting"}
      [] conn[c] = "connecting" -> {"open", "over"}
      [] conn[c] = "open" -> {"over"}

\* A step of the task; once over it is discarded from its set.
ConnStep(c) ==
    /\ Live(c) /\ Free(by[c][1])
    /\ \E s \in Onward(c) :
         /\ conn' = [conn EXCEPT ![c] = s]
         /\ tracked' = IF s = "over" THEN tracked \ {c} ELSE tracked
    /\ UNCHANGED <<control, loop, linked, by, cut, late, hurt>>

\* The cancellation arrives: the socket or the transport is closed.
ConnCancelled(c) ==
    /\ c \in cut /\ Live(c) /\ Free(by[c][1])
    /\ conn' = [conn EXCEPT ![c] = "over"]
    /\ UNCHANGED <<control, loop, linked, by, tracked, cut, late, hurt>>

Next ==
    \/ StartListen \/ StartSpawn \/ CloseFlag \/ CloseListeners \/ CloseDrained \/ CloseCut
    \/ \E l \in Loops :
         LoopBegin(l) \/ Accept(l) \/ LoopCancelled(l) \/ LoopFails(l)
         \/ \E c \in Conns : Connect(l, c)
    \/ \E c \in Conns : ConnStep(c) \/ ConnCancelled(c)

Spec == Init /\ [][Next]_vars

-----------------------------------------------------------------------------
(* Properties *)

\* Every living connection is known to close(), or being cancelled, unless its
\* loop accepted it while close() was already under way; and of these
\* stragglers each loop makes at most one.
ConnectionsOwned ==
    /\ \A c \in Conns : Live(c) => c \in tracked \cup cut \cup late
    /\ \A c, d \in late : by[c] = by[d] => c = d

\* A close() that drained cancels no connection made before it.
DrainSpares == hurt = {}

Stopped ==
    /\ \A l \in Loops : loop[l] \in {"none", "over"}
    /\ \A c \in Conns : Live(c) => c \in late

\* Once the server is closed for good its loops end, and the connections that
\* close() knew of too.
ServerStops == (pc = "cut" /\ gen = MaxStarts) ~> Stopped

\* "cleanly drain all in-flight connections": no connection outlives close().
\* Fails, see the README.
CloseDrains == pc = "idle" /\ ~running => \A c \in Conns : Live(c) => c \in cut

\* The loops of closed sockets leave their workers free.  Fails with two
\* starts, see the README.
WorkersFree == \A w \in Workers : Free(w)
=============================================================================
