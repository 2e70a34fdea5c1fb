----------------------------- MODULE ServeProofs -----------------------------
(***************************************************************************)
(* Proofs about the serving side: the lifespan manager for any callers;    *)
(* the accept loops for any workers, clients and starts; the ASGI worker;  *)
(* and a WebSocket connection for any peer.                                *)
(***************************************************************************)
EXTENDS MCServe, QueueLemmas

-----------------------------------------------------------------------------
(* The lifespan manager *)

\* Whoever is inside the lock waits for what the state says; an answer that no
\* application gave was given by the end of the runner; a runner begins with the
\* first startup() of a manager that has one.
LifeInv(C, m) ==
    /\ Life(C, m)!TypeOK
    /\ Life(C, m)!StartupHonest /\ Life(C, m)!NoOrphan
    /\ (lLock = "nobody") = (lPc = "idle")
    /\ lPc = "starting" => lState = "STARTING"
    /\ lPc = "failing" => lState = "FAILED"
    /\ lPc \in {"stopping", "reaping"} => lState = "STOPPING"
    /\ lState = "UNINITIALIZED" => lRunner = "none"
    /\ m = "off" => lRunner = "none"
    /\ lRunner = "none" => m = "off" \/ lState = "UNINITIALIZED"
    /\ lStarted => lStatus # {}
    /\ lStatus \cap {"unsupported", "exception"} # {} => lRunner = "done"

\* The manager's initial state satisfies the invariant.
LEMMA LifeInit ==
    ASSUME NEW C, NEW m, Life(C, m)!LifespanParams, Life(C, m)!Init
    PROVE  LifeInv(C, m)
BY DEF Life!LifespanParams, Life!Init, LifeInv, Life!TypeOK, Life!StartupHonest, Life!NoOrphan, Life!Nobody

\* What the manager's types say of one variable each.
LEMMA LifeTypes ==
    ASSUME NEW C, NEW m
    PROVE  Life(C, m)!TypeOK <=>
           /\ lState \in {"UNINITIALIZED", "STARTING", "RUNNING", "STOPPING", "STOPPED", "FAILED"}
           /\ lLock \in C \cup {"nobody"}
           /\ lPc \in {"idle", "starting", "failing", "stopping", "reaping"}
           /\ lRunner \in {"none", "running", "done"}
           /\ lStatus \subseteq {"complete", "failed", "unsupported", "exception"}
           /\ lAsked \in BOOLEAN /\ lSent \in BOOLEAN /\ lStarted \in BOOLEAN
           /\ lStopped \in BOOLEAN /\ lTrigger \in BOOLEAN
BY Zenon DEF Life!TypeOK, Life!Nobody

\* Every step of the manager, its callers and its application keeps the invariant.
LEMMA LifeStep ==
    ASSUME NEW C, NEW m, Life(C, m)!LifespanParams, LifeInv(C, m), Life(C, m)!Next
    PROVE  LifeInv(C, m)'
<1> USE DEF LifeInv, Life!StartupHonest, Life!NoOrphan, Life!Nobody, Life!Wait, Life!Return, Life!app
<1>0. /\ lState \in {"UNINITIALIZED", "STARTING", "RUNNING", "STOPPING", "STOPPED", "FAILED"}
      /\ lLock \in C \cup {"nobody"} /\ "nobody" \notin C
      /\ lPc \in {"idle", "starting", "failing", "stopping", "reaping"}
      /\ lRunner \in {"none", "running", "done"}
      /\ lStatus \subseteq {"complete", "failed", "unsupported", "exception"}
      /\ lAsked \in BOOLEAN /\ lSent \in BOOLEAN /\ lStarted \in BOOLEAN
      /\ lStopped \in BOOLEAN /\ lTrigger \in BOOLEAN
      /\ m \in {"off", "auto", "on"}
  BY LifeTypes DEF Life!LifespanParams
<1>1. Life(C, m)!TypeOK'
  <2>1. /\ lState' \in {"UNINITIALIZED", "STARTING", "RUNNING", "STOPPING", "STOPPED", "FAILED"}
        /\ lLock' \in C \cup {"nobody"}
        /\ lPc' \in {"idle", "starting", "failing", "stopping", "reaping"}
        /\ lRunner' \in {"none", "running", "done"}
        /\ lStatus' \subseteq {"complete", "failed", "unsupported", "exception"}
        /\ lAsked' \in BOOLEAN /\ lSent' \in BOOLEAN /\ lStarted' \in BOOLEAN
        /\ lStopped' \in BOOLEAN /\ lTrigger' \in BOOLEAN
    <3>1. CASE \E c \in C : Life(C, m)!startup(c) \/ Life(C, m)!shutdown(c)
      BY <1>0, <3>1 DEF Life!startup, Life!shutdown
    <3>2. CASE Life(C, m)!StartupReturn
      <4>1. Life(C, m)!Verdict \in {"RUNNING", "FAILED"}
        BY DEF Life!Verdict
      <4> QED BY <1>0, <3>2, <4>1 DEF Life!StartupReturn
    <3>3. CASE Life(C, m)!StartupTimeout \/ Life(C, m)!ShutdownGoesOn \/ Life(C, m)!Reaped \/ Life(C, m)!CancelCaller
      BY <1>0, <3>3, ZenonT(60) DEF Life!StartupTimeout, Life!ShutdownGoesOn, Life!Reaped, Life!CancelCaller
    <3>4. CASE Life(C, m)!Receive \/ Life(C, m)!Send \/ Life(C, m)!RunnerEnds
      BY <1>0, <3>4, ZenonT(60) DEF Life!Receive, Life!Send, Life!RunnerEnds
    <3> QED BY <3>1, <3>2, <3>3, <3>4 DEF Life!Next
  <2> QED BY <2>1, LifeTypes DEF Life!TypeOK
<1>2. ASSUME NEW c \in C, Life(C, m)!startup(c) PROVE LifeInv(C, m)'
  BY <1>0, <1>1, <1>2 DEF Life!startup
<1>3. ASSUME NEW c \in C, Life(C, m)!shutdown(c) PROVE LifeInv(C, m)'
  BY <1>0, <1>1, <1>3 DEF Life!shutdown
<1>4. CASE Life(C, m)!StartupTimeout
  BY <1>0, <1>1, <1>4 DEF Life!StartupTimeout
<1>5. CASE Life(C, m)!StartupReturn
  <2>1. lState' \in {"RUNNING", "FAILED"}
    BY <1>5 DEF Life!StartupReturn, Life!Verdict
  <2>2. lState' = "RUNNING" => "complete" \in lStatus \/ (m = "auto" /\ lRunner = "done")
    BY <1>0, <1>5 DEF Life!StartupReturn, Life!Verdict
  <2>3. lState' = "FAILED" => "failed" \in lStatus \/ lRunner = "done"
    BY <1>0, <1>5 DEF Life!StartupReturn, Life!Verdict
  <2> QED BY <1>0, <1>1, <1>5, <2>1, <2>2, <2>3 DEF Life!StartupReturn
<1>6. CASE Life(C, m)!ShutdownGoesOn
  BY <1>0, <1>1, <1>6 DEF Life!ShutdownGoesOn
<1>7. CASE Life(C, m)!Reaped
  BY <1>0, <1>1, <1>7 DEF Life!Reaped
<1>8. CASE Life(C, m)!CancelCaller
  BY <1>0, <1>1, <1>8 DEF Life!CancelCaller
<1>9. CASE Life(C, m)!Receive
  BY <1>0, <1>1, <1>9 DEF Life!Receive
<1>10. CASE Life(C, m)!Send
  BY <1>0, <1>1, <1>10 DEF Life!Send
<1>11. CASE Life(C, m)!RunnerEnds
  BY <1>0, <1>1, <1>11 DEF Life!RunnerEnds
<1> QED BY <1>2, <1>3, <1>4, <1>5, <1>6, <1>7, <1>8, <1>9, <1>10, <1>11 DEF Life!Next

-----------------------------------------------------------------------------
(* The server *)

\* The loops: those of a later start() do not exist yet, the ones that start() has
\* still to post neither, and one of the sockets in use that can accept has its
\* set among those close() will look through.
LoopsPlaced(s) ==
    /\ running => gen > 0
    /\ pc = "spawn" => running
    /\ pc \in {"flagged", "drain", "cut"} => ~running
    /\ \A l \in Srv(s)!Loops : l[2] > gen => loop[l] = "none"
    /\ pc = "spawn" => \A l \in Srv(s)!Loops : l[2] = gen /\ l \notin accept_tasks => loop[l] = "none"
    /\ \A l \in Srv(s)!Loops :
         running /\ l[2] = gen /\ loop[l] \in {"waiting", "accepted"} => l \in linked

\* The connections: a straggler's loop does not accept again; what is left when the
\* drain has found nothing are stragglers; and after close() every living connection
\* is a straggler or being cancelled.
ConnsPlaced(s) ==
    /\ \A c \in late :
         /\ conn[c] \notin {"none", "accepted"}
         /\ by[c] \in Srv(s)!Loops /\ loop[by[c]] \in {"spinning", "over"}
    /\ pc = "cut" /\ clean => \A c \in tracked : Srv(s)!Live(c) => c \in late
    /\ pc = "idle" /\ ~running => \A c \in Clients[s] : Srv(s)!Live(c) => c \in cut \cup late

\* The server of scene s: every thread and connection is where its state says.
ServerInv(s) ==
    /\ Srv(s)!TypeOK
    /\ LoopsPlaced(s) /\ ConnsPlaced(s)
    /\ Srv(s)!ConnectionsOwned /\ Srv(s)!DrainSpares

\* The types, one variable at a time.
LEMMA ServerTypes ==
    ASSUME NEW s
    PROVE  Srv(s)!TypeOK <=>
           /\ running \in BOOLEAN /\ open \in BOOLEAN /\ clean \in BOOLEAN
           /\ gen \in 0..Starts[s]
           /\ pc \in {"idle", "spawn", "flagged", "drain", "cut"}
           /\ accept_tasks \subseteq Srv(s)!Loops /\ stopping \subseteq Srv(s)!Loops
           /\ linked \subseteq Srv(s)!Loops
           /\ loop \in [Srv(s)!Loops -> {"none", "posted", "waiting", "accepted", "spinning", "over"}]
           /\ conn \in [Clients[s] -> {"none", "accepted", "new", "connecting", "open", "over"}]
           /\ by \in [Clients[s] -> Srv(s)!Loops \cup {Srv(s)!NoLoop}]
           /\ tracked \subseteq Clients[s] /\ cut \subseteq Clients[s]
           /\ late \subseteq Clients[s] /\ hurt \subseteq Clients[s]
BY Zenon DEF Srv!TypeOK

\* A server that was never started satisfies the invariant.
LEMMA ServerInit ==
    ASSUME NEW s \in ServerParts, Srv(s)!Init
    PROVE  ServerInv(s)
<1>1. Starts[s] \in Nat
  BY ServeAssumptions DEF Srv!ServerParams
<1>2. Srv(s)!TypeOK
  <2>1. gen \in 0..Starts[s]
    BY <1>1 DEF Srv!Init
  <2> QED BY <2>1, ServerTypes DEF Srv!Init
<1> QED BY <1>2 DEF Srv!Init, ServerInv, LoopsPlaced, ConnsPlaced, Srv!ConnectionsOwned, Srv!DrainSpares, Srv!Live

\* A loop is a worker and the number of a start().
LEMMA LoopShape ==
    ASSUME NEW s \in ServerParts, NEW l \in Srv(s)!Loops
    PROVE  l[1] \in Crews[s] /\ l[2] \in 1..Starts[s] /\ l[2] \in Nat /\ l[2] > 0 /\ l = <<l[1], l[2]>>
<1>1. Starts[s] \in Nat
  BY ServeAssumptions DEF Srv!ServerParams
<1> QED BY <1>1 DEF Srv!Loops

\* Where the head of a loop sends it.
LEMMA AgainIs ==
    ASSUME NEW s, running \in BOOLEAN, open \in BOOLEAN, NEW l
    PROVE  /\ Srv(s)!Again(l) \in {"over", "waiting", "spinning"}
           /\ Srv(s)!Again(l) = "waiting" => running /\ l[2] = gen
           /\ running /\ l[2] # gen => Srv(s)!Again(l) = "spinning"
           /\ ~running => Srv(s)!Again(l) = "over"
<1>1. CASE ~running
  BY <1>1 DEF Srv!Again
<1>2. CASE running /\ open /\ l[2] = gen
  BY <1>2 DEF Srv!Again
<1>3. CASE running /\ ~(open /\ l[2] = gen)
  BY <1>3 DEF Srv!Again
<1> QED BY <1>1, <1>2, <1>3

\* start() and close() keep the invariant.
LEMMA ControlStep ==
    ASSUME NEW s \in ServerParts, ServerInv(s),
           \/ Srv(s)!StartListen \/ Srv(s)!StartSpawn \/ Srv(s)!CloseFlag
           \/ Srv(s)!CloseListeners \/ Srv(s)!CloseDrained \/ Srv(s)!CloseCut
    PROVE  ServerInv(s)'
<1> USE DEF ServerInv, Srv!Live
<1>0. /\ running \in BOOLEAN /\ open \in BOOLEAN /\ clean \in BOOLEAN
      /\ Starts[s] \in Nat /\ gen \in 0..Starts[s] /\ gen \in Nat
      /\ pc \in {"idle", "spawn", "flagged", "drain", "cut"}
      /\ accept_tasks \subseteq Srv(s)!Loops /\ stopping \subseteq Srv(s)!Loops
      /\ linked \subseteq Srv(s)!Loops
      /\ loop \in [Srv(s)!Loops -> {"none", "posted", "waiting", "accepted", "spinning", "over"}]
      /\ conn \in [Clients[s] -> {"none", "accepted", "new", "connecting", "open", "over"}]
      /\ by \in [Clients[s] -> Srv(s)!Loops \cup {Srv(s)!NoLoop}]
      /\ tracked \subseteq Clients[s] /\ cut \subseteq Clients[s]
      /\ late \subseteq Clients[s] /\ hurt \subseteq Clients[s]
  <2>1. Starts[s] \in Nat
    BY ServeAssumptions DEF Srv!ServerParams
  <2> QED BY <2>1, ServerTypes
<1>1. CASE Srv(s)!StartListen
  <2>1. gen' = gen + 1 /\ gen' \in 0..Starts[s] /\ gen' > 0
    BY <1>0, <1>1 DEF Srv!StartListen
  <2>2. Srv(s)!TypeOK'
    BY <1>0, <1>1, <2>1, ServerTypes DEF Srv!StartListen, Srv!TypeOK
  <2>3. LoopsPlaced(s)'
    <3>1. \A l \in Srv(s)!Loops : l[2] \in Nat
      BY LoopShape
    <3>2. \A l \in Srv(s)!Loops : l[2] >= gen' => loop'[l] = "none"
      BY <1>0, <1>1, <2>1, <3>1 DEF Srv!StartListen, LoopsPlaced
    <3> QED BY <1>0, <1>1, <2>1, <3>1, <3>2 DEF Srv!StartListen, LoopsPlaced
  <2>4. ConnsPlaced(s)' /\ Srv(s)!ConnectionsOwned' /\ Srv(s)!DrainSpares'
    BY <1>1 DEF Srv!StartListen, ConnsPlaced, Srv!ConnectionsOwned, Srv!DrainSpares
  <2> QED BY <2>2, <2>3, <2>4
<1>2. CASE Srv(s)!StartSpawn
  <2>1. PICK w \in Crews[s] : /\ <<w, gen>> \notin accept_tasks
                              /\ loop' = [loop EXCEPT ![<<w, gen>>] = "posted"]
                              /\ accept_tasks' = accept_tasks \cup {<<w, gen>>}
    BY <1>2 DEF Srv!StartSpawn
  <2>2. /\ pc = "spawn" /\ pc' \in {"idle", "spawn"} /\ running /\ gen > 0
        /\ UNCHANGED <<running, gen, open, clean, stopping, linked, conn, by, tracked, cut, late, hurt>>
    BY <1>2 DEF Srv!StartSpawn, LoopsPlaced
  <2>3. <<w, gen>> \in Srv(s)!Loops /\ <<w, gen>>[2] = gen
    BY <1>0, <2>2 DEF Srv!Loops
  <2>4. loop[<<w, gen>>] = "none"
    BY <2>1, <2>2, <2>3 DEF LoopsPlaced
  <2>5. Srv(s)!TypeOK'
    <3>1. /\ accept_tasks' \subseteq Srv(s)!Loops
          /\ loop' \in [Srv(s)!Loops -> {"none", "posted", "waiting", "accepted", "spinning", "over"}]
      BY <1>0, <2>1, <2>3
    <3> QED BY <1>0, <2>2, <3>1, ServerTypes DEF Srv!TypeOK
  <2>6. /\ \A l \in Srv(s)!Loops : l # <<w, gen>> => loop'[l] = loop[l]
        /\ loop'[<<w, gen>>] = "posted"
    BY <1>0, <2>1, <2>3
  <2>7. LoopsPlaced(s)'
    BY <1>0, <2>1, <2>2, <2>3, <2>6 DEF LoopsPlaced
  <2>8. ConnsPlaced(s)' /\ Srv(s)!ConnectionsOwned' /\ Srv(s)!DrainSpares'
    <3>1. \A c \in late : by[c] # <<w, gen>>
      BY <2>4 DEF ConnsPlaced
    <3> QED BY <2>2, <2>6, <3>1 DEF ConnsPlaced, Srv!ConnectionsOwned, Srv!DrainSpares
  <2> QED BY <2>5, <2>7, <2>8
<1>3. CASE Srv(s)!CloseFlag
  <2>1. Srv(s)!TypeOK'
    BY <1>0, <1>3, ServerTypes DEF Srv!CloseFlag, Srv!TypeOK
  <2> QED BY <1>3, <2>1 DEF Srv!CloseFlag, LoopsPlaced, ConnsPlaced, Srv!ConnectionsOwned, Srv!DrainSpares
<1>4. CASE Srv(s)!CloseListeners
  <2>1. Srv(s)!TypeOK'
    BY <1>0, <1>4, ServerTypes DEF Srv!CloseListeners, Srv!TypeOK
  <2> QED BY <1>4, <2>1 DEF Srv!CloseListeners, LoopsPlaced, ConnsPlaced, Srv!ConnectionsOwned, Srv!DrainSpares
<1>5. CASE Srv(s)!CloseDrained
  <2>0. clean' \in BOOLEAN
    BY <1>5 DEF Srv!CloseDrained
  <2>1. Srv(s)!TypeOK'
    BY <1>0, <1>5, <2>0, ServerTypes DEF Srv!CloseDrained, Srv!TypeOK
  <2> QED BY <1>5, <2>1 DEF Srv!CloseDrained, LoopsPlaced, ConnsPlaced, Srv!ConnectionsOwned, Srv!DrainSpares
<1>6. CASE Srv(s)!CloseCut
  <2> DEFINE rest == {c \in tracked : Srv(s)!Live(c)}
  <2>0. /\ pc = "cut" /\ pc' = "idle" /\ cut' = cut \cup rest /\ tracked' = {} /\ linked' = {}
        /\ hurt' = hurt \cup (IF clean THEN rest \ late ELSE {})
        /\ UNCHANGED <<running, gen, open, clean, accept_tasks, loop, stopping, conn, by, late>>
    BY <1>6 DEF Srv!CloseCut
  <2>1. clean => rest \ late = {}
    BY <2>0 DEF ConnsPlaced
  <2>2. hurt' = {}
    BY <2>0, <2>1 DEF Srv!DrainSpares
  <2>3. Srv(s)!TypeOK'
    BY <1>0, <2>0, <2>2, ServerTypes DEF Srv!TypeOK
  <2>4. \A c \in Clients[s] : Srv(s)!Live(c) => c \in cut' \cup late
    BY <2>0 DEF Srv!ConnectionsOwned
  <2>5. ConnsPlaced(s)' /\ Srv(s)!ConnectionsOwned' /\ Srv(s)!DrainSpares'
    BY <2>0, <2>2, <2>4 DEF ConnsPlaced, Srv!ConnectionsOwned, Srv!DrainSpares
  <2>6. LoopsPlaced(s)'
    BY <2>0 DEF LoopsPlaced
  <2> QED BY <2>3, <2>5, <2>6
<1> QED BY <1>1, <1>2, <1>3, <1>4, <1>5, <1>6

\* The accept loops keep the invariant.
LEMMA LoopStep ==
    ASSUME NEW s \in ServerParts, ServerInv(s), NEW l \in Srv(s)!Loops,
           \/ Srv(s)!LoopBegin(l) \/ Srv(s)!Accept(l)
           \/ Srv(s)!LoopCancelled(l) \/ Srv(s)!LoopFails(l)
           \/ \E c \in Clients[s] : Srv(s)!Connect(l, c)
    PROVE  ServerInv(s)'
<1> USE DEF ServerInv, Srv!Live
<1>0. /\ running \in BOOLEAN /\ open \in BOOLEAN /\ clean \in BOOLEAN
      /\ gen \in 0..Starts[s]
      /\ pc \in {"idle", "spawn", "flagged", "drain", "cut"}
      /\ accept_tasks \subseteq Srv(s)!Loops /\ stopping \subseteq Srv(s)!Loops
      /\ linked \subseteq Srv(s)!Loops
      /\ loop \in [Srv(s)!Loops -> {"none", "posted", "waiting", "accepted", "spinning", "over"}]
      /\ conn \in [Clients[s] -> {"none", "accepted", "new", "connecting", "open", "over"}]
      /\ by \in [Clients[s] -> Srv(s)!Loops \cup {Srv(s)!NoLoop}]
      /\ tracked \subseteq Clients[s] /\ cut \subseteq Clients[s]
      /\ late \subseteq Clients[s] /\ hurt \subseteq Clients[s]
  BY ServerTypes
<1>1. /\ Srv(s)!Again(l) \in {"over", "waiting", "spinning"}
      /\ Srv(s)!Again(l) = "waiting" => running /\ l[2] = gen
      /\ running /\ l[2] # gen => Srv(s)!Again(l) = "spinning"
      /\ ~running => Srv(s)!Again(l) = "over"
  BY <1>0, AgainIs
<1>2. ASSUME NEW v \in {"over", "waiting", "spinning", "accepted"}, loop' = [loop EXCEPT ![l] = v], loop[l] # "none",
             v = "waiting" => running /\ l[2] = gen,
             v \in {"waiting", "accepted"} => l \in linked' \/ ~running,
             v \in {"waiting", "accepted"} => loop[l] \notin {"spinning", "over"},
             linked \subseteq linked', linked' \subseteq Srv(s)!Loops,
             UNCHANGED <<running, gen, open, pc, clean, accept_tasks, stopping>>
      PROVE  /\ LoopsPlaced(s)'
             /\ loop' \in [Srv(s)!Loops -> {"none", "posted", "waiting", "accepted", "spinning", "over"}]
             /\ \A k \in Srv(s)!Loops : loop[k] \in {"spinning", "over"} => loop'[k] \in {"spinning", "over"}
  <2>1. /\ \A k \in Srv(s)!Loops : k # l => loop'[k] = loop[k]
        /\ loop'[l] = v
        /\ loop' \in [Srv(s)!Loops -> {"none", "posted", "waiting", "accepted", "spinning", "over"}]
    BY <1>0, <1>2
  <2>2. \A k \in Srv(s)!Loops : k[2] > gen => loop'[k] = "none"
    BY <1>2, <2>1 DEF LoopsPlaced
  <2>3. pc = "spawn" => \A k \in Srv(s)!Loops : k[2] = gen /\ k \notin accept_tasks => loop'[k] = "none"
    BY <1>2, <2>1 DEF LoopsPlaced
  <2>4. \A k \in Srv(s)!Loops :
          running /\ k[2] = gen /\ loop'[k] \in {"waiting", "accepted"} => k \in linked'
    BY <1>2, <2>1 DEF LoopsPlaced
  <2> QED BY <1>2, <2>1, <2>2, <2>3, <2>4 DEF LoopsPlaced
<1>3. CASE Srv(s)!LoopBegin(l)
  <2>1. /\ loop[l] = "posted" /\ linked' = linked \cup {l} /\ loop' = [loop EXCEPT ![l] = Srv(s)!Again(l)]
        /\ UNCHANGED <<running, gen, open, pc, clean, accept_tasks, stopping>>
        /\ UNCHANGED <<conn, by, tracked, cut, late, hurt>>
    BY <1>3 DEF Srv!LoopBegin, Srv!control
  <2>2. /\ LoopsPlaced(s)'
        /\ loop' \in [Srv(s)!Loops -> {"none", "posted", "waiting", "accepted", "spinning", "over"}]
        /\ \A k \in Srv(s)!Loops : loop[k] \in {"spinning", "over"} => loop'[k] \in {"spinning", "over"}
    BY <1>0, <1>1, <1>2, <2>1
  <2>3. Srv(s)!TypeOK'
    BY <1>0, <2>1, <2>2, ServerTypes DEF Srv!TypeOK
  <2> QED BY <2>1, <2>2, <2>3 DEF ConnsPlaced, Srv!ConnectionsOwned, Srv!DrainSpares
<1>4. CASE Srv(s)!Accept(l)
  <2>1. PICK c \in Clients[s] :
          /\ by[c] = l /\ conn[c] = "accepted"
          /\ conn' = [conn EXCEPT ![c] = "new"]
          /\ tracked' = IF l \in linked THEN tracked \cup {c} ELSE tracked
          /\ late' = IF running /\ l[2] = gen THEN late ELSE late \cup {c}
    BY <1>4 DEF Srv!Accept
  <2>2. /\ loop[l] = "accepted" /\ loop' = [loop EXCEPT ![l] = Srv(s)!Again(l)]
        /\ UNCHANGED <<running, gen, open, pc, clean, accept_tasks, stopping>>
        /\ UNCHANGED <<linked, by, cut, hurt>>
    BY <1>4 DEF Srv!Accept, Srv!control
  <2>3. /\ LoopsPlaced(s)'
        /\ loop' \in [Srv(s)!Loops -> {"none", "posted", "waiting", "accepted", "spinning", "over"}]
        /\ \A k \in Srv(s)!Loops : loop[k] \in {"spinning", "over"} => loop'[k] \in {"spinning", "over"}
    <3>1. running /\ l[2] = gen => l \in linked
      BY <2>2 DEF LoopsPlaced
    <3> QED BY <1>0, <1>1, <1>2, <2>2, <3>1
  <2>4. /\ \A d \in Clients[s] : d # c => conn'[d] = conn[d]
        /\ conn'[c] = "new"
        /\ conn' \in [Clients[s] -> {"none", "accepted", "new", "connecting", "open", "over"}]
        /\ tracked' \subseteq Clients[s] /\ late' \subseteq Clients[s]
        /\ late \subseteq late' /\ late' \subseteq late \cup {c}
        /\ tracked \subseteq tracked' /\ tracked' \subseteq tracked \cup {c}
    BY <1>0, <2>1
  <2>5. Srv(s)!TypeOK'
    BY <1>0, <2>2, <2>3, <2>4, ServerTypes DEF Srv!TypeOK
  <2>6. c \in late' => ~(running /\ l[2] = gen) /\ loop'[l] \in {"spinning", "over"}
    <3>1. c \notin late
      BY <2>1, <2>2 DEF ConnsPlaced
    <3>2. loop'[l] = Srv(s)!Again(l)
      BY <1>0, <2>2
    <3> QED BY <1>1, <2>1, <3>1, <3>2
  <2>7. ~running => c \in late'
    BY <2>1
  <2>8. ConnsPlaced(s)'
    <3>1. \A e \in late' : /\ conn'[e] \notin {"none", "accepted"}
                           /\ by[e] \in Srv(s)!Loops /\ loop'[by[e]] \in {"spinning", "over"}
      BY <2>1, <2>3, <2>4, <2>6 DEF ConnsPlaced
    <3>2. pc = "cut" => ~running
      BY DEF LoopsPlaced
    <3>3. pc = "cut" /\ clean => \A e \in tracked' : conn'[e] \in {"new", "connecting", "open"} => e \in late'
      BY <1>0, <2>4, <2>7, <3>2 DEF ConnsPlaced
    <3>4. pc = "idle" /\ ~running => \A e \in Clients[s] : conn'[e] \in {"new", "connecting", "open"} => e \in cut \cup late'
      BY <2>4, <2>7 DEF ConnsPlaced
    <3> QED BY <2>2, <3>1, <3>3, <3>4 DEF ConnsPlaced
  <2>9. Srv(s)!ConnectionsOwned'
    <3>1. running /\ l[2] = gen => l \in linked
      BY <2>2 DEF LoopsPlaced
    <3>2. c \in tracked' \cup late'
      BY <2>1, <3>1
    <3>3. \A e \in late : by[e] # l
      BY <2>2 DEF ConnsPlaced
    <3> QED BY <2>1, <2>2, <2>4, <3>2, <3>3 DEF Srv!ConnectionsOwned
  <2> QED BY <2>2, <2>3, <2>5, <2>8, <2>9 DEF Srv!DrainSpares
<1>5. CASE Srv(s)!LoopCancelled(l)
  <2>1. /\ loop[l] # "none" /\ loop' = [loop EXCEPT ![l] = "over"]
        /\ conn' = [c \in Clients[s] |-> IF by[c] = l /\ conn[c] = "accepted" THEN "over" ELSE conn[c]]
        /\ UNCHANGED <<running, gen, open, pc, clean, accept_tasks, stopping>>
        /\ UNCHANGED <<linked, by, tracked, cut, late, hurt>>
    BY <1>5 DEF Srv!LoopCancelled, Srv!control
  <2>2. /\ LoopsPlaced(s)'
        /\ loop' \in [Srv(s)!Loops -> {"none", "posted", "waiting", "accepted", "spinning", "over"}]
        /\ \A k \in Srv(s)!Loops : loop[k] \in {"spinning", "over"} => loop'[k] \in {"spinning", "over"}
    BY <1>0, <1>2, <2>1
  <2>3. /\ conn' \in [Clients[s] -> {"none", "accepted", "new", "connecting", "open", "over"}]
        /\ \A c \in Clients[s] : conn[c] # "accepted" => conn'[c] = conn[c]
        /\ \A c \in Clients[s] : conn'[c] \in {conn[c], "over"}
    BY <1>0, <2>1
  <2>4. Srv(s)!TypeOK'
    BY <1>0, <2>1, <2>2, <2>3, ServerTypes DEF Srv!TypeOK
  <2>5. ConnsPlaced(s)'
    BY <1>0, <2>1, <2>2, <2>3 DEF ConnsPlaced
  <2> QED BY <2>1, <2>2, <2>3, <2>4, <2>5 DEF Srv!ConnectionsOwned, Srv!DrainSpares
<1>6. CASE Srv(s)!LoopFails(l)
  <2>1. /\ loop[l] # "none" /\ loop' = [loop EXCEPT ![l] = "over"]
        /\ UNCHANGED <<running, gen, open, pc, clean, accept_tasks, stopping>>
        /\ UNCHANGED <<linked, conn, by, tracked, cut, late, hurt>>
    BY <1>6 DEF Srv!LoopFails, Srv!control
  <2>2. /\ LoopsPlaced(s)'
        /\ loop' \in [Srv(s)!Loops -> {"none", "posted", "waiting", "accepted", "spinning", "over"}]
        /\ \A k \in Srv(s)!Loops : loop[k] \in {"spinning", "over"} => loop'[k] \in {"spinning", "over"}
    BY <1>0, <1>2, <2>1
  <2>3. Srv(s)!TypeOK'
    BY <1>0, <2>1, <2>2, ServerTypes DEF Srv!TypeOK
  <2> QED BY <2>1, <2>2, <2>3 DEF ConnsPlaced, Srv!ConnectionsOwned, Srv!DrainSpares
<1>7. ASSUME NEW c \in Clients[s], Srv(s)!Connect(l, c) PROVE ServerInv(s)'
  <2>1. /\ loop[l] = "waiting" /\ l[2] = gen /\ conn[c] = "none"
        /\ loop' = [loop EXCEPT ![l] = "accepted"]
        /\ conn' = [conn EXCEPT ![c] = "accepted"] /\ by' = [by EXCEPT ![c] = l]
        /\ UNCHANGED <<running, gen, open, pc, clean, accept_tasks, stopping>>
        /\ UNCHANGED <<linked, tracked, cut, late, hurt>>
    BY <1>7 DEF Srv!Connect, Srv!control
  <2>2. /\ LoopsPlaced(s)'
        /\ loop' \in [Srv(s)!Loops -> {"none", "posted", "waiting", "accepted", "spinning", "over"}]
        /\ \A k \in Srv(s)!Loops : loop[k] \in {"spinning", "over"} => loop'[k] \in {"spinning", "over"}
    <3>1. l \in linked \/ ~running
      BY <2>1 DEF LoopsPlaced
    <3> QED BY <1>0, <1>2, <2>1, <3>1
  <2>3. /\ conn' \in [Clients[s] -> {"none", "accepted", "new", "connecting", "open", "over"}]
        /\ by' \in [Clients[s] -> Srv(s)!Loops \cup {Srv(s)!NoLoop}]
        /\ conn'[c] = "accepted"
        /\ \A e \in Clients[s] : e # c => conn'[e] = conn[e] /\ by'[e] = by[e]
    BY <1>0, <2>1
  <2>4. Srv(s)!TypeOK'
    BY <1>0, <2>1, <2>2, <2>3, ServerTypes DEF Srv!TypeOK
  <2>5. c \notin late
    BY <2>1 DEF ConnsPlaced
  <2>6. ConnsPlaced(s)'
    BY <1>0, <2>1, <2>2, <2>3, <2>5 DEF ConnsPlaced
  <2>7. Srv(s)!ConnectionsOwned'
    BY <1>0, <2>1, <2>3, <2>5 DEF Srv!ConnectionsOwned
  <2> QED BY <2>1, <2>2, <2>4, <2>6, <2>7 DEF Srv!DrainSpares
<1> QED BY <1>3, <1>4, <1>5, <1>6, <1>7

\* The pinned connections keep the invariant.
LEMMA ConnStepKept ==
    ASSUME NEW s \in ServerParts, ServerInv(s), NEW c \in Clients[s],
           Srv(s)!ConnStep(c) \/ Srv(s)!ConnCancelled(c)
    PROVE  ServerInv(s)'
<1> USE DEF ServerInv
<1>0. /\ tracked \subseteq Clients[s] /\ late \subseteq Clients[s]
      /\ conn \in [Clients[s] -> {"none", "accepted", "new", "connecting", "open", "over"}]
  BY ServerTypes
<1>1. PICK v \in {"connecting", "open", "over"} :
        /\ conn' = [conn EXCEPT ![c] = v]
        /\ tracked' = (IF v = "over" THEN tracked \ {c} ELSE tracked) \/ (v = "over" /\ tracked' = tracked)
        /\ Srv(s)!Live(c)
        /\ UNCHANGED <<running, gen, open, pc, clean, accept_tasks, stopping>>
        /\ UNCHANGED <<loop, linked, by, cut, late, hurt>>
  <2>1. CASE Srv(s)!ConnStep(c)
    <3>1. Srv(s)!Live(c) => Srv(s)!Onward(c) \subseteq {"connecting", "open", "over"}
      BY DEF Srv!Live, Srv!Onward
    <3> QED BY <2>1, <3>1 DEF Srv!ConnStep, Srv!control
  <2>2. CASE Srv(s)!ConnCancelled(c)
    BY <2>2 DEF Srv!ConnCancelled, Srv!control
  <2> QED BY <2>1, <2>2
<1>2. /\ conn' \in [Clients[s] -> {"none", "accepted", "new", "connecting", "open", "over"}]
      /\ conn'[c] = v /\ \A e \in Clients[s] : e # c => conn'[e] = conn[e]
      /\ tracked' \subseteq tracked /\ \A e \in tracked : e # c => e \in tracked'
      /\ v # "over" => tracked' = tracked
  BY <1>0, <1>1
<1>3. Srv(s)!TypeOK'
  BY <1>0, <1>1, <1>2, ServerTypes DEF Srv!TypeOK
<1>4. \A e \in Clients[s] : conn'[e] \in {"new", "connecting", "open"} => Srv(s)!Live(e) /\ (e # c \/ v # "over")
  BY <1>1, <1>2 DEF Srv!Live
<1>5. ConnsPlaced(s)'
  BY <1>0, <1>1, <1>2, <1>4 DEF ConnsPlaced, Srv!Live
<1>6. Srv(s)!ConnectionsOwned'
  BY <1>0, <1>1, <1>2, <1>4 DEF Srv!ConnectionsOwned, Srv!Live
<1>7. LoopsPlaced(s)' /\ Srv(s)!DrainSpares'
  BY <1>1 DEF LoopsPlaced, Srv!DrainSpares
<1> QED BY <1>3, <1>5, <1>6, <1>7

\* Every step of the server keeps the invariant.
LEMMA ServerStepKept ==
    ASSUME NEW s \in ServerParts, ServerInv(s), Srv(s)!Next
    PROVE  ServerInv(s)'
BY ControlStep, LoopStep, ConnStepKept DEF Srv!Next

-----------------------------------------------------------------------------
(* The ASGI worker *)

\* The worker's two parts keep their invariants, and its call in progress says how
\* far they are: the server runs from its start() to its close(), all that time with
\* a manager that runs, and only then does the manager stop.
WorkerInv ==
    /\ LifeInv({Asgi!Self}, WorkerMode) /\ ServerInv("worker")
    /\ step \in {"new", "startup", "bound", "serving", "closing", "shutdown", "over", "failed"}
    /\ gen = 0 => step \in {"new", "startup", "failed"} /\ lState \notin {"STOPPING", "STOPPED"}
    /\ gen # 0 => step \in {"bound", "serving", "closing", "shutdown", "over"}
    /\ running => step \in {"bound", "serving"}
    /\ step \in {"bound", "serving", "closing"} => lState = "RUNNING"
    /\ step \notin {"bound", "closing"} => pc = "idle"

\* The lifespan manager of the worker is an instance with one caller.
LEMMA ManagerIs ==
    LET C == {Asgi!Self}
    IN  /\ Asgi!Manager!TypeOK <=> Life(C, WorkerMode)!TypeOK
        /\ Asgi!Manager!Init <=> Life(C, WorkerMode)!Init
        /\ Asgi!Manager!startup(Asgi!Self) => Life(C, WorkerMode)!startup(Asgi!Self)
        /\ Asgi!Manager!shutdown(Asgi!Self) => Life(C, WorkerMode)!shutdown(Asgi!Self)
        /\ Asgi!Manager!StartupTimeout => Life(C, WorkerMode)!StartupTimeout
        /\ Asgi!Manager!StartupReturn => Life(C, WorkerMode)!StartupReturn
        /\ Asgi!Manager!ShutdownGoesOn => Life(C, WorkerMode)!ShutdownGoesOn
        /\ Asgi!Manager!Reaped => Life(C, WorkerMode)!Reaped
        /\ Asgi!Manager!CancelCaller => Life(C, WorkerMode)!CancelCaller
        /\ Asgi!Manager!Receive => Life(C, WorkerMode)!Receive
        /\ Asgi!Manager!Send => Life(C, WorkerMode)!Send
        /\ Asgi!Manager!RunnerEnds => Life(C, WorkerMode)!RunnerEnds
<1> DEFINE C == {Asgi!Self}
<1> USE DEF Asgi!Manager!Nobody, Life!Nobody, Asgi!Manager!Wait, Life!Wait, Asgi!Manager!Return,
            Life!Return, Asgi!Manager!app, Life!app
<1>1. Asgi!Manager!TypeOK <=> Life(C, WorkerMode)!TypeOK
  BY Zenon DEF Asgi!Manager!TypeOK, Life!TypeOK
<1>2. Asgi!Manager!Init <=> Life(C, WorkerMode)!Init
  BY Zenon DEF Asgi!Manager!Init, Life!Init
<1>3. Asgi!Manager!startup(Asgi!Self) => Life(C, WorkerMode)!startup(Asgi!Self)
  BY DEF Asgi!Manager!startup, Life!startup
<1>4. Asgi!Manager!shutdown(Asgi!Self) => Life(C, WorkerMode)!shutdown(Asgi!Self)
  BY DEF Asgi!Manager!shutdown, Life!shutdown
<1>5. Asgi!Manager!StartupTimeout => Life(C, WorkerMode)!StartupTimeout
  BY DEF Asgi!Manager!StartupTimeout, Life!StartupTimeout
<1>6. Asgi!Manager!StartupReturn => Life(C, WorkerMode)!StartupReturn
  BY DEF Asgi!Manager!StartupReturn, Life!StartupReturn, Asgi!Manager!Verdict, Life!Verdict
<1>7. Asgi!Manager!ShutdownGoesOn => Life(C, WorkerMode)!ShutdownGoesOn
  BY DEF Asgi!Manager!ShutdownGoesOn, Life!ShutdownGoesOn
<1>8. Asgi!Manager!Reaped => Life(C, WorkerMode)!Reaped
  BY DEF Asgi!Manager!Reaped, Life!Reaped
<1>9. Asgi!Manager!CancelCaller => Life(C, WorkerMode)!CancelCaller
  BY DEF Asgi!Manager!CancelCaller, Life!CancelCaller
<1>10. Asgi!Manager!Receive => Life(C, WorkerMode)!Receive
  BY DEF Asgi!Manager!Receive, Life!Receive
<1>11. Asgi!Manager!Send => Life(C, WorkerMode)!Send
  BY DEF Asgi!Manager!Send, Life!Send
<1>12. Asgi!Manager!RunnerEnds => Life(C, WorkerMode)!RunnerEnds
  BY DEF Asgi!Manager!RunnerEnds, Life!RunnerEnds
<1> QED BY <1>1, <1>2, <1>3, <1>4, <1>5, <1>6, <1>7, <1>8, <1>9, <1>10, <1>11, <1>12

\* The server of the worker is an instance like the others.
LEMMA ServerIs ==
    /\ Asgi!Server!TypeOK <=> Srv("worker")!TypeOK
    /\ Asgi!Server!Init <=> Srv("worker")!Init
    /\ Asgi!Server!StartListen => Srv("worker")!StartListen
    /\ Asgi!Server!StartSpawn => Srv("worker")!StartSpawn
    /\ Asgi!Server!CloseFlag => Srv("worker")!CloseFlag
    /\ Asgi!Server!CloseListeners => Srv("worker")!CloseListeners
    /\ Asgi!Server!CloseDrained => Srv("worker")!CloseDrained
    /\ Asgi!Server!CloseCut => Srv("worker")!CloseCut
    /\ Asgi!Server!Loops = Srv("worker")!Loops
    /\ \A l \in Srv("worker")!Loops :
         /\ Asgi!Server!LoopBegin(l) => Srv("worker")!LoopBegin(l)
         /\ Asgi!Server!Accept(l) => Srv("worker")!Accept(l)
         /\ Asgi!Server!LoopCancelled(l) => Srv("worker")!LoopCancelled(l)
         /\ Asgi!Server!LoopFails(l) => Srv("worker")!LoopFails(l)
         /\ \A c \in Clients["worker"] : Asgi!Server!Connect(l, c) => Srv("worker")!Connect(l, c)
    /\ \A c \in Clients["worker"] :
         /\ Asgi!Server!ConnStep(c) => Srv("worker")!ConnStep(c)
         /\ Asgi!Server!ConnCancelled(c) => Srv("worker")!ConnCancelled(c)
<1> USE DEF Asgi!Server!Live, Srv!Live, Asgi!Server!Free, Srv!Free, Asgi!Server!control,
            Srv!control, Asgi!Server!NoLoop, Srv!NoLoop, Asgi!Server!Loops, Srv!Loops,
            Asgi!Server!Again, Srv!Again, Asgi!Server!Onward, Srv!Onward
<1>1. Asgi!Server!TypeOK <=> Srv("worker")!TypeOK
  BY Zenon DEF Asgi!Server!TypeOK, Srv!TypeOK
<1>2. Asgi!Server!Init <=> Srv("worker")!Init
  BY Zenon DEF Asgi!Server!Init, Srv!Init
<1>3. Asgi!Server!StartListen => Srv("worker")!StartListen
  BY Zenon DEF Asgi!Server!StartListen, Srv!StartListen
<1>4. Asgi!Server!StartSpawn => Srv("worker")!StartSpawn
  <2>1. \A S : Asgi!Server!Cardinality(S) = Srv("worker")!Cardinality(S)
    BY DEF Asgi!Server!Cardinality, Srv!Cardinality
  <2> QED BY Zenon, <2>1 DEF Asgi!Server!StartSpawn, Srv!StartSpawn
<1>5. Asgi!Server!CloseFlag => Srv("worker")!CloseFlag
  BY Zenon DEF Asgi!Server!CloseFlag, Srv!CloseFlag
<1>6. Asgi!Server!CloseListeners => Srv("worker")!CloseListeners
  BY Zenon DEF Asgi!Server!CloseListeners, Srv!CloseListeners
<1>7. Asgi!Server!CloseDrained => Srv("worker")!CloseDrained
  BY Zenon DEF Asgi!Server!CloseDrained, Srv!CloseDrained
<1>8. Asgi!Server!CloseCut => Srv("worker")!CloseCut
  BY Zenon DEF Asgi!Server!CloseCut, Srv!CloseCut
<1>9. ASSUME NEW l \in Srv("worker")!Loops
      PROVE  /\ Asgi!Server!LoopBegin(l) => Srv("worker")!LoopBegin(l)
             /\ Asgi!Server!Accept(l) => Srv("worker")!Accept(l)
             /\ Asgi!Server!LoopCancelled(l) => Srv("worker")!LoopCancelled(l)
             /\ Asgi!Server!LoopFails(l) => Srv("worker")!LoopFails(l)
             /\ \A c \in Clients["worker"] : Asgi!Server!Connect(l, c) => Srv("worker")!Connect(l, c)
  <2>1. Asgi!Server!LoopBegin(l) => Srv("worker")!LoopBegin(l)
    BY Zenon DEF Asgi!Server!LoopBegin, Srv!LoopBegin
  <2>2. Asgi!Server!Accept(l) => Srv("worker")!Accept(l)
    BY Zenon DEF Asgi!Server!Accept, Srv!Accept
  <2>3. Asgi!Server!LoopCancelled(l) => Srv("worker")!LoopCancelled(l)
    BY Zenon DEF Asgi!Server!LoopCancelled, Srv!LoopCancelled
  <2>4. Asgi!Server!LoopFails(l) => Srv("worker")!LoopFails(l)
    BY Zenon DEF Asgi!Server!LoopFails, Srv!LoopFails
  <2>5. \A c \in Clients["worker"] : Asgi!Server!Connect(l, c) => Srv("worker")!Connect(l, c)
    BY Zenon DEF Asgi!Server!Connect, Srv!Connect
  <2> QED BY <2>1, <2>2, <2>3, <2>4, <2>5
<1>10. \A c \in Clients["worker"] :
         /\ Asgi!Server!ConnStep(c) => Srv("worker")!ConnStep(c)
         /\ Asgi!Server!ConnCancelled(c) => Srv("worker")!ConnCancelled(c)
  BY Zenon DEF Asgi!Server!ConnStep, Srv!ConnStep, Asgi!Server!ConnCancelled, Srv!ConnCancelled
<1>11. Asgi!Server!Loops = Srv("worker")!Loops
  OBVIOUS
<1> QED BY <1>1, <1>2, <1>3, <1>4, <1>5, <1>6, <1>7, <1>8, <1>9, <1>10, <1>11

\* The worker's steps are steps of its parts, or leave a part alone.
LEMMA WorkerParts ==
    ASSUME WorkerInv, Asgi!Next
    PROVE  LifeInv({Asgi!Self}, WorkerMode)' /\ ServerInv("worker")'
<1> DEFINE C == {Asgi!Self}
<1>1. Life(C, WorkerMode)!LifespanParams
  BY ServeAssumptions DEF Life!LifespanParams, Life!Nobody, Asgi!Self, LifeModes
<1>2. Life(C, WorkerMode)!Next \/ UNCHANGED lifevars
  <2>1. CASE Asgi!Start
    BY <2>1, ManagerIs DEF Asgi!Start, Asgi!manager, lifevars, Life!Next
  <2>2. CASE Asgi!Shutdown
    BY <2>2, ManagerIs DEF Asgi!Shutdown, Asgi!manager, lifevars, Life!Next
  <2>3. CASE Asgi!ManagerGoesOn \/ Asgi!ManagerStep
    BY <2>3, ManagerIs DEF Asgi!ManagerGoesOn, Asgi!ManagerStep, Life!Next
  <2>4. CASE Asgi!Close \/ Asgi!StartFails \/ Asgi!Bind \/ Asgi!Serving \/ Asgi!Closed \/ Asgi!ServerGoesOn \/ Asgi!ServerStep
    BY <2>4 DEF Asgi!Close, Asgi!StartFails, Asgi!Bind, Asgi!Serving, Asgi!Closed, Asgi!ServerGoesOn,
                Asgi!ServerStep, Asgi!manager, lifevars
  <2> QED BY <2>1, <2>2, <2>3, <2>4 DEF Asgi!Next, Asgi!WorkerStep
<1>3. Srv("worker")!Next \/ UNCHANGED servervars
  <2>1. CASE Asgi!Bind
    BY <2>1, ServerIs DEF Asgi!Bind, Asgi!server, servervars, Srv!Next
  <2>2. CASE Asgi!Close
    BY <2>2, ServerIs DEF Asgi!Close, Srv!Next
  <2>3. CASE Asgi!ServerGoesOn
    BY <2>3, ServerIs DEF Asgi!ServerGoesOn, Srv!Next
  <2>4. CASE Asgi!ServerStep
    BY <2>4, ServerIs DEF Asgi!ServerStep, Srv!Next
  <2>5. CASE Asgi!Start \/ Asgi!StartFails \/ Asgi!Serving \/ Asgi!Shutdown \/ Asgi!Closed \/ Asgi!ManagerGoesOn \/ Asgi!ManagerStep
    BY <2>5 DEF Asgi!Start, Asgi!StartFails, Asgi!Serving, Asgi!Shutdown, Asgi!Closed, Asgi!ManagerGoesOn,
                Asgi!ManagerStep, Asgi!server, servervars
  <2> QED BY <2>1, <2>2, <2>3, <2>4, <2>5 DEF Asgi!Next, Asgi!WorkerStep
<1>4. LifeInv(C, WorkerMode)'
  <2>1. CASE Life(C, WorkerMode)!Next
    BY <1>1, <2>1, LifeStep DEF WorkerInv
  <2>2. CASE UNCHANGED lifevars
    <3>1. UNCHANGED <<lState, lLock, lPc, lRunner, lAsked, lSent, lStatus, lStarted, lStopped, lTrigger>>
      BY <2>2 DEF lifevars
    <3> QED BY <3>1 DEF WorkerInv, LifeInv, Life!TypeOK, Life!StartupHonest, Life!NoOrphan
  <2> QED BY <1>2, <2>1, <2>2
<1>5. ServerInv("worker")'
  <2>1. CASE Srv("worker")!Next
    BY <2>1, ServerStepKept DEF WorkerInv, ServerParts
  <2>2. CASE UNCHANGED servervars
    <3>1. UNCHANGED <<running, gen, open, pc, clean, accept_tasks, loop, stopping, linked, conn, by, tracked, cut, late, hurt>>
      BY <2>2 DEF servervars
    <3> QED BY <3>1 DEF WorkerInv, ServerInv, Srv!TypeOK, LoopsPlaced, ConnsPlaced, Srv!ConnectionsOwned, Srv!DrainSpares, Srv!Live
  <2> QED BY <1>3, <2>1, <2>2
<1> QED BY <1>4, <1>5

\* Every step of the worker keeps its invariant.
LEMMA WorkerStepKept ==
    ASSUME WorkerInv, Asgi!Next
    PROVE  WorkerInv'
<1>0. /\ lPc # "idle" => lState \in {"STARTING", "FAILED", "STOPPING"}
      /\ lPc \in {"idle", "starting", "failing", "stopping", "reaping"}
      /\ lPc = "starting" => lState = "STARTING"
      /\ lPc = "failing" => lState = "FAILED"
      /\ lPc \in {"stopping", "reaping"} => lState = "STOPPING"
  BY LifeTypes DEF WorkerInv, LifeInv
<1>1. gen \in 0..1 /\ running \in BOOLEAN /\ pc \in {"idle", "spawn", "flagged", "drain", "cut"} /\ Starts["worker"] = 1
  BY ServeAssumptions, ServerTypes DEF WorkerInv, ServerInv
<1>2. /\ running => gen > 0
      /\ pc = "spawn" => running
      /\ pc \in {"flagged", "drain", "cut"} => ~running
  BY DEF WorkerInv, ServerInv, LoopsPlaced
<1>3. LifeInv({Asgi!Self}, WorkerMode)' /\ ServerInv("worker")'
  BY WorkerParts
<1> USE DEF Asgi!Goto
<1>4. CASE Asgi!Start
  <2>1. gen = 0 /\ step' = "startup" /\ UNCHANGED <<running, gen, pc>>
    BY <1>1, <1>4 DEF Asgi!Start, Asgi!server
  <2>2. lState' \in {lState, "RUNNING", "STARTING"}
    BY <1>4 DEF Asgi!Start, Asgi!Manager!startup, Asgi!manager
  <2> QED BY <1>1, <1>2, <1>3, <2>1, <2>2 DEF WorkerInv
<1>5. CASE Asgi!StartFails
  BY <1>3, <1>5 DEF Asgi!StartFails, Asgi!manager, Asgi!server, WorkerInv
<1>6. CASE Asgi!Bind
  <2>1. step = "startup" /\ lState = "RUNNING" /\ lState' = lState /\ gen = 0
    BY <1>6 DEF Asgi!Bind, WorkerInv, Asgi!manager
  <2>2. CASE step' = "bound" /\ Asgi!Server!StartListen
    <3>1. gen' = 1 /\ pc' = "spawn"
      BY <2>1, <2>2 DEF Asgi!Server!StartListen
    <3> QED BY <1>3, <2>1, <2>2, <3>1 DEF WorkerInv
  <2>3. CASE step' = "failed" /\ UNCHANGED <<running, gen, pc>>
    BY <1>3, <2>1, <2>3 DEF WorkerInv
  <2> QED BY <1>6, <2>2, <2>3 DEF Asgi!Bind, Asgi!server
<1>7. CASE Asgi!Serving
  BY <1>3, <1>7 DEF Asgi!Serving, Asgi!manager, Asgi!server, WorkerInv
<1>8. CASE Asgi!Close
  BY <1>3, <1>8 DEF Asgi!Close, Asgi!manager, Asgi!Server!CloseFlag, WorkerInv
<1>9. CASE Asgi!Shutdown
  BY <1>3, <1>9 DEF Asgi!Shutdown, Asgi!server, WorkerInv
<1>10. CASE Asgi!Closed
  BY <1>3, <1>10 DEF Asgi!Closed, Asgi!manager, Asgi!server, WorkerInv
<1>11. CASE Asgi!ManagerGoesOn \/ Asgi!ManagerStep
  <2>1. UNCHANGED <<running, gen, pc, step>>
    BY <1>11 DEF Asgi!ManagerGoesOn, Asgi!ManagerStep, Asgi!server
  <2>2. /\ lState = "RUNNING" => lState' = "RUNNING"
        /\ lState' \in {"STOPPING", "STOPPED"} => lState \in {"STOPPING", "STOPPED"}
    <3>1. CASE Asgi!Manager!StartupTimeout
      BY <1>0, <3>1 DEF Asgi!Manager!StartupTimeout
    <3>2. CASE Asgi!Manager!StartupReturn
      <4>1. Asgi!Manager!Verdict \in {"RUNNING", "FAILED"}
        BY DEF Asgi!Manager!Verdict
      <4> QED BY <1>0, <3>2, <4>1 DEF Asgi!Manager!StartupReturn
    <3>3. CASE Asgi!Manager!ShutdownGoesOn \/ Asgi!Manager!Reaped
      BY <1>0, <3>3 DEF Asgi!Manager!ShutdownGoesOn, Asgi!Manager!Reaped
    <3>4. CASE Asgi!Manager!CancelCaller \/ Asgi!Manager!Receive \/ Asgi!Manager!Send \/ Asgi!Manager!RunnerEnds
      BY <3>4 DEF Asgi!Manager!CancelCaller, Asgi!Manager!Receive, Asgi!Manager!Send, Asgi!Manager!RunnerEnds
    <3> QED BY <1>11, <3>1, <3>2, <3>3, <3>4 DEF Asgi!ManagerGoesOn, Asgi!ManagerStep
  <2> QED BY <1>3, <2>1, <2>2 DEF WorkerInv
<1>12. CASE Asgi!ServerGoesOn
  <2>1. UNCHANGED <<running, gen, lState, step>> /\ pc # "idle"
    BY <1>12 DEF Asgi!ServerGoesOn, Asgi!manager, Asgi!Server!StartSpawn, Asgi!Server!CloseListeners,
                 Asgi!Server!CloseDrained, Asgi!Server!CloseCut
  <2> QED BY <1>3, <2>1 DEF WorkerInv
<1>13. CASE Asgi!ServerStep
  <2>1. UNCHANGED <<running, gen, pc, lState, step>>
    BY <1>13 DEF Asgi!ServerStep, Asgi!manager, Asgi!Server!LoopBegin, Asgi!Server!Accept, Asgi!Server!LoopCancelled,
                 Asgi!Server!LoopFails, Asgi!Server!Connect, Asgi!Server!ConnStep, Asgi!Server!ConnCancelled, Asgi!Server!control
  <2> QED BY <1>3, <2>1 DEF WorkerInv
<1> QED BY <1>4, <1>5, <1>6, <1>7, <1>8, <1>9, <1>10, <1>11, <1>12, <1>13 DEF Asgi!Next, Asgi!WorkerStep

\* What the invariant says of the worker.
LEMMA WorkerSound ==
    ASSUME WorkerInv
    PROVE  Asgi!TypeOK /\ Asgi!ServedWhileUp /\ Asgi!ClosedMeansOver
<1>1. Asgi!TypeOK
  BY ManagerIs, ServerIs DEF WorkerInv, LifeInv, ServerInv, Asgi!TypeOK
<1>2. Asgi!ServedWhileUp
  <2> SUFFICES ASSUME NEW c \in Clients["worker"], conn[c] = "open", lState # "RUNNING"
               PROVE  c \in late \cup cut
    BY DEF Asgi!ServedWhileUp
  <2>1. ~running /\ pc = "idle"
    BY ServerTypes DEF WorkerInv
  <2> QED BY <2>1 DEF WorkerInv, ServerInv, ConnsPlaced, Srv!Live
<1>3. Asgi!ClosedMeansOver
  BY DEF Asgi!ClosedMeansOver, WorkerInv, LifeInv, Life!NoOrphan
<1> QED BY <1>1, <1>2, <1>3

-----------------------------------------------------------------------------
(* The WebSocket connection *)

\* What the reader may have to do about one frame.
Scripts == {<<>>, <<"receive">>, <<"pong">>, <<"close", "stop">>, <<"close", "disconnect">>,
            <<"stop">>, <<"disconnect">>}

\* The handshake: until it is done nothing but its answer was written, and neither
\* the reader nor a message of the application is under way.
Shaking ==
    /\ "close" \in called \/ app = "over" \/ (called = {"accept"}) = (handshake_done \/ app = "accepting")
    /\ called = {} => wire = <<>>
    /\ app \in {"close", "closing", "refusing"} => "close" \in called
    /\ ~handshake_done =>
         /\ wire \in {<<>>, <<"101">>, <<"403">>}
         /\ reader \in {"shake", "over"} /\ app \notin {"text", "texting", "close", "closing"}
    /\ app = "accepting" => wire = <<"101">> /\ called = {"accept"} /\ ~handshake_done
    /\ handshake_done =>
         /\ Len(wire) > 0 /\ wire[1] = "101"
         /\ \A i \in 2..Len(wire) : wire[i] \notin {"101", "403"}

\* A disconnect is the last thing in the inbound channel.
Disconnected == inbox # <<>> /\ inbox[Len(inbox)] = 0

\* The reader: its script, and when it has gone for good.
Reading ==
    /\ todo \in Scripts
    /\ (reader \in {"act", "drain"}) = (todo # <<>>)
    /\ reader = "drain" => Head(todo) \in {"close", "pong"}
    /\ app = "over" => reader = "over"
    /\ Disconnected => reader = "over"
    /\ closed_event /\ "close" \notin called => reader = "over"
    /\ told /\ "close" \notin called => reader = "over"

\* The messages: what the peer said is what the application heard, what is in the
\* channel and what the reader has in hand.
Tallied ==
    app # "over" => heard + Len(inbox) + (IF todo = <<"receive">> THEN 1 ELSE 0)
                      = said + (IF Disconnected THEN 1 ELSE 0)

\* The connection of part s: its handshake, its reader and its messages agree.
SocketInv(s) ==
    /\ Sock(s)!TypeOK
    /\ Sock(s)!MessagesInOrder
    /\ Shaking /\ Reading /\ Tallied

\* The types, one variable at a time.
LEMMA SocketTypes ==
    ASSUME NEW s
    PROVE  Sock(s)!TypeOK <=>
           /\ state \in {"CONNECTING", "OPEN", "CLOSING", "CLOSED"}
           /\ handshake_done \in BOOLEAN /\ closed_event \in BOOLEAN /\ connect_sent \in BOOLEAN
           /\ fragmented \in BOOLEAN /\ gone \in BOOLEAN /\ told \in BOOLEAN
           /\ inbox \in Seq(Nat) /\ Len(inbox) <= Rooms[s]
           /\ app \in {"running", "receiving", "accepting", "refusing", "text", "texting", "close",
                       "closing", "over"}
           /\ called \subseteq {"accept", "close"}
           /\ reader \in {"shake", "read", "act", "drain", "over"}
           /\ todo \in Seq({"close", "pong", "receive", "disconnect", "stop"})
           /\ lock \in {"free", "app", "reader"}
           /\ wire \in Seq({"101", "403", "text", "close", "pong"})
           /\ said \in Nat /\ heard \in Nat
           /\ frames \in 0..FrameMax[s] /\ texts \in 0..TextMax[s]
BY DEF Sock!TypeOK

\* What is left of a script is one, and a message is delivered at the end of its own.
LEMMA ScriptFacts ==
    ASSUME NEW t \in Scripts, t # <<>>
    PROVE  /\ Tail(t) \in Scripts /\ Tail(t) # <<"receive">>
           /\ (Head(t) = "receive") = (t = <<"receive">>)
           /\ Head(t) = "receive" => Tail(t) = <<>>
           /\ t # <<"receive">> => Tail(t) = <<>> \/ Tail(t) = <<"stop">> \/ Tail(t) = <<"disconnect">>
<1>1. CASE t = <<"receive">>
  BY <1>1 DEF Scripts
<1>2. CASE t = <<"pong">>
  BY <1>2 DEF Scripts
<1>3. CASE t = <<"close", "stop">>
  BY <1>3 DEF Scripts
<1>4. CASE t = <<"close", "disconnect">>
  BY <1>4 DEF Scripts
<1>5. CASE t = <<"stop">>
  BY <1>5 DEF Scripts
<1>6. CASE t = <<"disconnect">>
  BY <1>6 DEF Scripts
<1> QED BY <1>1, <1>2, <1>3, <1>4, <1>5, <1>6 DEF Scripts

\* Scripts are sequences of the reader's operations.
LEMMA ScriptTypes == \A t \in Scripts : t \in Seq({"close", "pong", "receive", "disconnect", "stop"})
<1> DEFINE O == {"close", "pong", "receive", "disconnect", "stop"}
<1>1. <<>> \in Seq(O) /\ <<"receive">> \in Seq(O) /\ <<"pong">> \in Seq(O)
  OBVIOUS
<1>2. <<"stop">> \in Seq(O) /\ <<"disconnect">> \in Seq(O)
  OBVIOUS
<1>3. <<"close", "stop">> \in Seq(O) /\ <<"close", "disconnect">> \in Seq(O)
  OBVIOUS
<1> QED BY <1>1, <1>2, <1>3 DEF Scripts

\* Every frame has a script.
LEMMA FrameScript ==
    ASSUME NEW s \in SocketParts, fragmented \in BOOLEAN, NEW kind \in Frames[s]
    PROVE  Sock(s)!Script(kind) \in Scripts
<1>1. kind \in {"text", "garbled", "first", "more", "last", "garbledlast", "toobig", "ping",
                "close", "bad", "eof", "reset"}
  BY ServeAssumptions DEF Sock!SocketParams, Sock!AllKinds
<1> USE DEF Sock!Error, Sock!Fatal
<1>2. CASE kind = "text"
  BY <1>2 DEF Sock!Script, Scripts
<1>3. CASE kind = "garbled"
  BY <1>3 DEF Sock!Script, Scripts
<1>4. CASE kind = "first"
  BY <1>4 DEF Sock!Script, Scripts
<1>5. CASE kind = "more"
  BY <1>5 DEF Sock!Script, Scripts
<1>6. CASE kind = "last"
  BY <1>6 DEF Sock!Script, Scripts
<1>7. CASE kind \in {"garbledlast", "toobig"}
  BY <1>7 DEF Sock!Script, Scripts
<1>8. CASE kind \in {"ping", "close"}
  BY <1>8 DEF Sock!Script, Scripts
<1>9. CASE kind \in {"bad", "eof", "reset"}
  BY <1>9 DEF Sock!Script, Scripts
<1> QED BY <1>1, <1>2, <1>3, <1>4, <1>5, <1>6, <1>7, <1>8, <1>9

\* A connection that begins satisfies the invariant.
LEMMA SocketInit ==
    ASSUME NEW s \in SocketParts, Sock(s)!Init
    PROVE  SocketInv(s)
<1>1. Rooms[s] \in Nat /\ FrameMax[s] \in Nat /\ TextMax[s] \in Nat
  BY ServeAssumptions DEF Sock!SocketParams
<1>2. Sock(s)!TypeOK
  <2>1. inbox \in Seq(Nat) /\ Len(inbox) <= Rooms[s] /\ 0 \in 0..FrameMax[s] /\ 0 \in 0..TextMax[s]
    BY <1>1 DEF Sock!Init
  <2>2. <<>> \in Seq({"close", "pong", "receive", "disconnect", "stop"})
        /\ <<>> \in Seq({"101", "403", "text", "close", "pong"})
    OBVIOUS
  <2>3. /\ state = "CONNECTING" /\ handshake_done = FALSE /\ closed_event = FALSE /\ connect_sent = FALSE
        /\ app = "running" /\ called = {} /\ reader = "shake" /\ todo = <<>> /\ fragmented = FALSE
        /\ lock = "free" /\ wire = <<>> /\ gone = FALSE
        /\ said = 0 /\ heard = 0 /\ told = FALSE /\ frames = 0 /\ texts = 0
    BY DEF Sock!Init
  <2>4. said \in Nat /\ heard \in Nat /\ frames \in 0..FrameMax[s] /\ texts \in 0..TextMax[s]
    BY <2>1, <2>3
  <2>5. /\ handshake_done \in BOOLEAN /\ closed_event \in BOOLEAN /\ connect_sent \in BOOLEAN
        /\ fragmented \in BOOLEAN /\ gone \in BOOLEAN /\ told \in BOOLEAN
    BY Zenon, <2>3
  <2>6. /\ todo \in Seq({"close", "pong", "receive", "disconnect", "stop"})
        /\ wire \in Seq({"101", "403", "text", "close", "pong"})
    BY <2>2, <2>3
  <2>7. /\ state \in {"CONNECTING", "OPEN", "CLOSING", "CLOSED"}
        /\ app \in {"running", "receiving", "accepting", "refusing", "text", "texting", "close",
                    "closing", "over"}
        /\ called \subseteq {"accept", "close"}
        /\ reader \in {"shake", "read", "act", "drain", "over"}
        /\ lock \in {"free", "app", "reader"}
    BY <2>3
  <2> QED BY Zenon, <2>1, <2>4, <2>5, <2>6, <2>7, SocketTypes
<1>3. ~Disconnected /\ inbox = <<>>
  BY DEF Sock!Init, Disconnected
<1>4. Sock(s)!MessagesInOrder /\ Shaking
  BY DEF Sock!Init, Sock!MessagesInOrder, Shaking
<1>5. Reading
  BY <1>3 DEF Sock!Init, Reading, Scripts
<1>6. Tallied
  BY <1>3 DEF Sock!Init, Tallied
<1> QED BY <1>2, <1>4, <1>5, <1>6 DEF SocketInv

\* The application's calls of receive() keep the invariant.
LEMMA ReceiveKept ==
    ASSUME NEW s \in SocketParts, SocketInv(s),
           Sock(s)!ReceiveConnect \/ Sock(s)!Receive \/ Sock(s)!Received
    PROVE  SocketInv(s)'
<1> USE DEF SocketInv, Sock!flags, Sock!readvars
<1>0. /\ told \in BOOLEAN /\ inbox \in Seq(Nat) /\ Len(inbox) <= Rooms[s]
      /\ said \in Nat /\ heard \in Nat /\ Len(inbox) \in Nat /\ Rooms[s] \in Nat
  BY SocketTypes, ServeAssumptions, LenProperties DEF Sock!SocketParams
<1>4. DOMAIN inbox = 1..Len(inbox)
  BY <1>0, LenProperties
<1>1. CASE Sock(s)!ReceiveConnect
  BY <1>1 DEF Sock!ReceiveConnect, Sock!TypeOK, Sock!MessagesInOrder, Shaking, Reading, Tallied, Disconnected
<1>2. CASE Sock(s)!Receive
  <2>1. /\ app = "running" /\ app' \in {"running", "receiving"} /\ told' \in BOOLEAN
        /\ told' => told \/ (closed_event /\ inbox = <<>>)
        /\ UNCHANGED <<state, handshake_done, closed_event, connect_sent, inbox, called, reader, todo,
                       fragmented, lock, wire, gone, said, heard, frames, texts>>
    <3>1. CASE closed_event /\ inbox = <<>> /\ told' = TRUE /\ UNCHANGED app
      BY <1>0, <1>2, <3>1 DEF Sock!Receive
    <3>2. CASE app' = "receiving" /\ told' = told
      BY <1>0, <1>2, <3>2 DEF Sock!Receive
    <3> QED BY <1>2, <3>1, <3>2 DEF Sock!Receive
  <2>2. closed_event /\ inbox = <<>> /\ "close" \notin called => reader = "over" /\ heard = said
    <3>1. inbox = <<>> => Len(inbox) = 0 /\ ~Disconnected
      BY DEF Disconnected
    <3>2. reader = "over" => todo = <<>>
      BY DEF Reading
    <3> QED BY <1>0, <2>1, <3>1, <3>2 DEF Reading, Tallied
  <2>3. Sock(s)!MessagesInOrder'
    BY <2>1, <2>2 DEF Sock!MessagesInOrder
  <2>4. Reading' /\ Tallied'
    BY <2>1, <2>2 DEF Reading, Tallied, Disconnected
  <2>5. Shaking'
    BY <2>1 DEF Shaking
  <2>6. Sock(s)!TypeOK'
    BY <2>1 DEF Sock!TypeOK
  <2> QED BY <2>3, <2>4, <2>5, <2>6
<1>3. CASE Sock(s)!Received
  <2>1. /\ app = "receiving" /\ inbox # <<>> /\ app' = "running" /\ inbox' = Tail(inbox)
        /\ UNCHANGED <<state, handshake_done, closed_event, connect_sent, called, reader, todo,
                       fragmented, lock, wire, gone, said, frames, texts>>
    BY <1>3 DEF Sock!Received
  <2>2. /\ Head(inbox) = inbox[1] /\ inbox' \in Seq(Nat) /\ Len(inbox') = Len(inbox) - 1 /\ Len(inbox) > 0
        /\ Len(inbox') \in Nat
        /\ \A i \in 1..Len(inbox') : inbox'[i] = inbox[i + 1]
    BY <1>0, <2>1, HeadTailProperties, EmptySeq, LenProperties
  <2>7. DOMAIN inbox' = 1..Len(inbox')
    BY <2>2, LenProperties
  <2>3. /\ \A i \in 1..Len(inbox) : inbox[i] = 0 \/ inbox[i] = heard + i
        /\ \A i \in 1..Len(inbox) : inbox[i] = 0 => i = Len(inbox)
    <3>1. /\ \A i \in DOMAIN inbox : inbox[i] = 0 \/ inbox[i] = heard + i
          /\ \A i \in DOMAIN inbox : inbox[i] = 0 => i = Len(inbox)
      BY DEF Sock!MessagesInOrder
    <3> QED BY Zenon, <1>4, <3>1
  <2>4. Shaking'
    BY <2>1 DEF Shaking
  <2>5. CASE inbox[1] = 0
    <3>1. told' = TRUE /\ heard' = heard
      BY <1>3, <2>2, <2>5 DEF Sock!Received
    <3>2. Len(inbox) = 1 /\ inbox' = <<>> /\ Disconnected
      <4>1. Len(inbox) = 1
        BY <1>0, <2>2, <2>3, <2>5
      <4>2. inbox' = <<>>
        BY <2>2, <4>1, EmptySeq
      <4> QED BY <2>1, <2>5, <4>1, <4>2 DEF Disconnected
    <3>3. reader = "over" /\ todo = <<>>
      BY <3>2 DEF Reading
    <3>4. heard = said
      BY <1>0, <2>1, <3>2, <3>3 DEF Tallied
    <3>5. ~Disconnected' /\ Len(inbox') = 0
      BY <3>2 DEF Disconnected
    <3>6. Sock(s)!TypeOK'
      BY <1>0, <2>1, <2>2, <3>1 DEF Sock!TypeOK
    <3>7. Sock(s)!MessagesInOrder'
      BY <2>1, <3>1, <3>2, <3>4 DEF Sock!MessagesInOrder
    <3>8. Reading'
      BY <2>1, <3>3, <3>5 DEF Reading
    <3>9. Tallied'
      BY <1>0, <2>1, <3>1, <3>3, <3>4, <3>5 DEF Tallied
    <3> QED BY <2>4, <3>6, <3>7, <3>8, <3>9
  <2>6. CASE inbox[1] # 0
    <3>1. told' = told /\ heard' = heard + 1 /\ heard' \in Nat
      <4>1. inbox[1] = heard + 1
        BY <1>0, <2>2, <2>3, <2>6
      <4> QED BY <1>0, <1>3, <2>2, <2>6, <4>1 DEF Sock!Received
    <3>2. /\ \A i \in 1..Len(inbox') : inbox'[i] = 0 \/ inbox'[i] = heard' + i
          /\ \A i \in 1..Len(inbox') : inbox'[i] = 0 => i = Len(inbox')
      <4> SUFFICES ASSUME NEW i \in 1..Len(inbox')
                   PROVE  /\ inbox'[i] = 0 \/ inbox'[i] = heard' + i
                          /\ inbox'[i] = 0 => i = Len(inbox')
        OBVIOUS
      <4>1. i + 1 \in 1..Len(inbox) /\ i \in Nat
        BY <1>0, <2>2, SMTT(30)
      <4>2. inbox'[i] = inbox[i + 1]
        BY <2>2
      <4>3. inbox[i + 1] = 0 \/ inbox[i + 1] = heard + (i + 1)
        BY <2>3, <4>1
      <4>4. inbox[i + 1] = 0 => i + 1 = Len(inbox)
        BY <2>3, <4>1
      <4> QED BY <1>0, <2>2, <3>1, <4>1, <4>2, <4>3, <4>4
    <3>3. Disconnected' = Disconnected
      <4>1. CASE Len(inbox) = 1
        <5>1. inbox' = <<>>
          BY <2>2, <4>1, EmptySeq
        <5> QED BY <2>6, <4>1, <5>1 DEF Disconnected
      <4>2. CASE Len(inbox) # 1
        <5>1. Len(inbox') \in 1..Len(inbox') /\ Len(inbox') + 1 = Len(inbox) /\ inbox' # <<>>
          BY <1>0, <2>2, <4>2
        <5>2. inbox'[Len(inbox')] = inbox[Len(inbox)]
          BY <2>2, <5>1
        <5> QED BY <2>1, <5>1, <5>2 DEF Disconnected
      <4> QED BY <4>1, <4>2
    <3>4. ~(told /\ "close" \notin called)
      BY <2>1 DEF Sock!MessagesInOrder
    <3>5. Sock(s)!TypeOK'
      BY <1>0, <2>1, <2>2, <3>1 DEF Sock!TypeOK
    <3>6. Sock(s)!MessagesInOrder'
      BY Zenon, <2>1, <2>7, <3>1, <3>2, <3>4 DEF Sock!MessagesInOrder
    <3>7. Reading'
      BY <2>1, <3>1, <3>3 DEF Reading
    <3>8. Tallied'
      <4>1. heard' + Len(inbox') = heard + Len(inbox)
        BY <1>0, <2>2, <3>1
      <4> QED BY <2>1, <3>3, <4>1 DEF Tallied
    <3> QED BY <2>4, <3>5, <3>6, <3>7, <3>8
  <2> QED BY <2>5, <2>6
<1> QED BY <1>1, <1>2, <1>3

\* A step that touches neither the messages nor the reader, and only goes on in the
\* application, keeps what is said of them.
LEMMA MessagesKept ==
    ASSUME NEW s \in SocketParts, SocketInv(s), app # "over",
           UNCHANGED <<inbox, said, heard, told, reader, todo>>, called \subseteq called',
           closed_event' => closed_event \/ "close" \in called', app' # "over"
    PROVE  Sock(s)!MessagesInOrder' /\ Reading' /\ Tallied'
<1>1. Disconnected' = Disconnected
  BY DEF Disconnected
<1>2. Sock(s)!MessagesInOrder'
  BY DEF SocketInv, Sock!MessagesInOrder
<1>3. Reading'
  BY <1>1 DEF SocketInv, Reading
<1>4. Tallied'
  BY <1>1 DEF SocketInv, Tallied
<1> QED BY <1>2, <1>3, <1>4

\* The application's calls of send() keep the invariant.
LEMMA SendKept ==
    ASSUME NEW s \in SocketParts, SocketInv(s),
           \/ Sock(s)!SendAccept \/ Sock(s)!Accepted \/ Sock(s)!Refuse
           \/ Sock(s)!SendFrame \/ Sock(s)!AppWrites \/ Sock(s)!AppDrained
    PROVE  SocketInv(s)'
<1> USE DEF Sock!flags, Sock!readvars
<1>0. /\ Sock(s)!TypeOK /\ Shaking
      /\ wire \in Seq({"101", "403", "text", "close", "pong"}) /\ called \subseteq {"accept", "close"}
      /\ TextMax[s] \in Nat /\ texts \in 0..TextMax[s]
  BY SocketTypes, ServeAssumptions DEF SocketInv, Sock!SocketParams
<1>7. handshake_done \in BOOLEAN /\ closed_event \in BOOLEAN /\ gone \in BOOLEAN
  BY SocketTypes DEF SocketInv
<1> DEFINE W == {"101", "403", "text", "close", "pong"}
<1>8. <<"101">> \in Seq(W) /\ <<"403">> \in Seq(W) /\ Append(<<>>, "101") = <<"101">> /\ Append(<<>>, "403") = <<"403">>
  OBVIOUS
<1>1. CASE Sock(s)!SendAccept
  <2>1. /\ app = "running" /\ called = {} /\ called' = {"accept"} /\ app' = "accepting"
        /\ UNCHANGED <<state, handshake_done, closed_event, connect_sent, inbox, reader, todo, fragmented,
                       lock, gone, said, heard, told, frames, texts>>
    BY <1>1 DEF Sock!SendAccept
  <2>2. ~handshake_done /\ wire = <<>>
    BY <1>0, <2>1 DEF Shaking
  <2>3. wire' = <<"101">>
    BY <1>1, <1>8, <2>2 DEF Sock!SendAccept
  <2>4. Shaking'
    BY <1>0, <2>1, <2>2, <2>3 DEF Shaking
  <2>5. Sock(s)!TypeOK'
    BY <1>0, <1>8, <2>1, <2>3 DEF Sock!TypeOK
  <2> QED BY <2>1, <2>4, <2>5, MessagesKept DEF SocketInv
<1>2. CASE Sock(s)!Accepted
  <2>1. /\ app = "accepting" /\ app' = "running" /\ state' = "OPEN" /\ handshake_done' = TRUE
        /\ UNCHANGED <<closed_event, connect_sent, inbox, called, reader, todo, fragmented,
                       lock, wire, gone, said, heard, told, frames, texts>>
    BY <1>2 DEF Sock!Accepted
  <2>2. wire' = <<"101">> /\ called' = {"accept"}
    BY <1>0, <2>1 DEF Shaking
  <2>3. Len(wire') = 1 /\ wire'[1] = "101"
    BY <2>2
  <2>4. Shaking'
    BY <1>0, <2>1, <2>2, <2>3 DEF Shaking
  <2>5. Sock(s)!TypeOK'
    BY <1>0, <2>1 DEF Sock!TypeOK
  <2> QED BY <2>1, <2>4, <2>5, MessagesKept DEF SocketInv
<1>3. CASE Sock(s)!Refuse
  <2>1. /\ app = "running" /\ "close" \notin called /\ ~handshake_done
        /\ called' = called \cup {"close"} /\ app' = "refusing" /\ state' = "CLOSED" /\ closed_event' = TRUE
        /\ UNCHANGED <<handshake_done, connect_sent, inbox, reader, todo, fragmented,
                       lock, gone, said, heard, told, frames, texts>>
    BY <1>3 DEF Sock!Refuse
  <2>2. called = {} /\ wire = <<>>
    BY <1>0, <2>1 DEF Shaking
  <2>3. wire' = <<"403">> /\ called' = {"close"}
    BY <1>3, <1>8, <2>1, <2>2 DEF Sock!Refuse
  <2>4. Shaking'
    BY <1>0, <2>1, <2>3 DEF Shaking
  <2>5. Sock(s)!TypeOK'
    BY <1>0, <1>8, <2>1, <2>3 DEF Sock!TypeOK
  <2> QED BY <2>1, <2>3, <2>4, <2>5, MessagesKept DEF SocketInv
<1>4. CASE Sock(s)!SendFrame
  <2>1. /\ app = "running" /\ handshake_done /\ "close" \notin called
        /\ UNCHANGED <<handshake_done, closed_event, connect_sent, inbox, reader, todo, fragmented,
                       lock, wire, gone, said, heard, told, frames>>
    BY <1>4 DEF Sock!SendFrame
  <2>2. \/ /\ texts' \in 0..TextMax[s] /\ app' = "text" /\ called' = called /\ state' = state
        \/ /\ called' = called \cup {"close"} /\ app' = "close" /\ state' = "CLOSING" /\ texts' = texts
    BY <1>0, <1>4 DEF Sock!SendFrame
  <2>3. called \subseteq called' /\ called' \subseteq {"accept", "close"} /\ app' \in {"text", "close"}
    BY <1>0, <2>2
  <2>4. Shaking'
    <3>1. CASE app' = "text" /\ called' = called
      BY <1>0, <2>1, <3>1 DEF Shaking
    <3>2. CASE app' = "close" /\ called' = called \cup {"close"}
      BY <1>0, <2>1, <3>2 DEF Shaking
    <3> QED BY <2>2, <3>1, <3>2
  <2>5. Sock(s)!TypeOK'
    BY <1>0, <2>1, <2>2, <2>3 DEF Sock!TypeOK
  <2> QED BY <2>1, <2>3, <2>4, <2>5, MessagesKept DEF SocketInv
<1>5. CASE Sock(s)!AppWrites
  <2>1. /\ app \in {"text", "close"} /\ app' = (IF app = "text" THEN "texting" ELSE "closing") /\ lock' = "app"
        /\ wire' = Append(wire, app)
        /\ UNCHANGED <<state, handshake_done, closed_event, connect_sent, inbox, called, reader, todo, fragmented,
                       gone, said, heard, told, frames, texts>>
    BY <1>5 DEF Sock!AppWrites
  <2>2. handshake_done /\ Len(wire) > 0 /\ wire[1] = "101"
        /\ \A i \in 2..Len(wire) : wire[i] \notin {"101", "403"}
    BY <1>0, <2>1 DEF Shaking
  <2>3. /\ wire' \in Seq(W) /\ Len(wire') = Len(wire) + 1 /\ wire'[1] = "101"
        /\ \A i \in 2..Len(wire') : wire'[i] \notin {"101", "403"}
    BY <1>0, <2>1, <2>2, AppendProperties
  <2>4. Shaking'
    BY <1>0, <2>1, <2>2, <2>3 DEF Shaking
  <2>5. Sock(s)!TypeOK'
    BY <1>0, <2>1, <2>3 DEF Sock!TypeOK
  <2> QED BY <2>1, <2>4, <2>5, MessagesKept DEF SocketInv
<1>6. CASE Sock(s)!AppDrained
  <2>1. /\ app \in {"refusing", "texting", "closing"} /\ app' = "running"
        /\ closed_event' = (closed_event \/ app = "closing")
        /\ UNCHANGED <<handshake_done, connect_sent, inbox, called, reader, todo, fragmented,
                       wire, said, heard, told, frames, texts>>
    BY <1>6 DEF Sock!AppDrained
  <2>2. lock' \in {"free", "app", "reader"} /\ state' \in {"CONNECTING", "OPEN", "CLOSING", "CLOSED"}
    BY <1>0, <1>6 DEF Sock!AppDrained, Sock!TypeOK
  <2>3. gone' \in BOOLEAN /\ closed_event' \in BOOLEAN
    BY <1>6, <1>7 DEF Sock!AppDrained
  <2>4. Shaking'
    BY <1>0, <2>1 DEF Shaking
  <2>5. Sock(s)!TypeOK'
    BY <1>0, <2>1, <2>2, <2>3 DEF Sock!TypeOK
  <2>6. closed_event' => closed_event \/ "close" \in called'
    BY <1>0, <2>1 DEF Shaking
  <2> QED BY <2>1, <2>4, <2>5, <2>6, MessagesKept DEF SocketInv
<1> QED BY <1>1, <1>2, <1>3, <1>4, <1>5, <1>6

\* run() ends both the application and the reader.
LEMMA EndKept ==
    ASSUME NEW s \in SocketParts, SocketInv(s), Sock(s)!End
    PROVE  SocketInv(s)'
<1>1. /\ app' = "over" /\ reader' = "over" /\ todo' = <<>> /\ state' = "CLOSED" /\ closed_event' = TRUE
      /\ lock' = "free"
      /\ UNCHANGED <<handshake_done, connect_sent, inbox, called, fragmented, said, frames, wire, gone, heard,
                     told, texts>>
  BY DEF Sock!End
<1>2. <<>> \in Seq({"close", "pong", "receive", "disconnect", "stop"})
  OBVIOUS
<1>3. Sock(s)!TypeOK'
  BY <1>1, <1>2 DEF SocketInv, Sock!TypeOK
<1>4. Shaking'
  BY <1>1 DEF SocketInv, Shaking
<1>5. Reading' /\ Tallied'
  BY <1>1 DEF Reading, Tallied, Scripts
<1>6. Sock(s)!MessagesInOrder'
  BY <1>1 DEF SocketInv, Sock!MessagesInOrder
<1> QED BY <1>3, <1>4, <1>5, <1>6 DEF SocketInv

\* The reader's own steps leave the application's variables alone, and write at most
\* what no handshake looks like.
LEMMA ReaderShakes ==
    ASSUME NEW s \in SocketParts, SocketInv(s), handshake_done, UNCHANGED <<handshake_done, app, called>>,
           wire' = wire \/ \E x \in {"close", "pong"} : wire' = Append(wire, x)
    PROVE  Shaking' /\ wire' \in Seq({"101", "403", "text", "close", "pong"})
<1>1. wire \in Seq({"101", "403", "text", "close", "pong"}) /\ Shaking
  BY SocketTypes DEF SocketInv
<1>2. CASE wire' = wire
  BY <1>1, <1>2 DEF Shaking
<1>3. ASSUME NEW x \in {"close", "pong"}, wire' = Append(wire, x)
      PROVE  Shaking' /\ wire' \in Seq({"101", "403", "text", "close", "pong"})
  <2>2. Len(wire) > 0 /\ wire[1] = "101" /\ \A i \in 2..Len(wire) : wire[i] \notin {"101", "403"}
    BY <1>1 DEF Shaking
  <2>3. /\ wire' \in Seq({"101", "403", "text", "close", "pong"}) /\ Len(wire') = Len(wire) + 1 /\ wire'[1] = "101"
        /\ \A i \in 2..Len(wire') : wire'[i] \notin {"101", "403"}
    BY <1>1, <1>3, <2>2, AppendProperties
  <2>4. wire' # <<>> /\ called # {} /\ app # "accepting"
    <3>1. wire # <<>>
      BY <1>1, <2>2
    <3> QED BY <1>1, <2>3, <3>1 DEF Shaking
  <2> QED BY <1>1, <2>3, <2>4 DEF Shaking
<1> QED BY <1>2, <1>3

\* The reader begins, reads a frame, or writes: the channel is not touched.
LEMMA ReadKept ==
    ASSUME NEW s \in SocketParts, SocketInv(s),
           \/ Sock(s)!ReaderBegin \/ \E kind \in Frames[s] : Sock(s)!Read(kind)
           \/ Sock(s)!ReaderWrites \/ Sock(s)!ReaderDrained
    PROVE  SocketInv(s)'
<1> USE DEF Sock!flags, Sock!appvars
<1>0. /\ Sock(s)!TypeOK /\ Shaking /\ Reading /\ Tallied /\ Sock(s)!MessagesInOrder
      /\ FrameMax[s] \in Nat /\ frames \in 0..FrameMax[s] /\ said \in Nat /\ heard \in Nat
      /\ inbox \in Seq(Nat) /\ Len(inbox) \in Nat
  BY SocketTypes, ServeAssumptions, LenProperties DEF SocketInv, Sock!SocketParams
<1>1. /\ handshake_done \in BOOLEAN /\ closed_event \in BOOLEAN /\ told \in BOOLEAN /\ fragmented \in BOOLEAN
      /\ gone \in BOOLEAN
  BY SocketTypes DEF SocketInv
<1>2. <<>> \in Scripts /\ Scripts \subseteq Seq({"close", "pong", "receive", "disconnect", "stop"})
  BY ScriptTypes DEF Scripts
<1>3. inbox' = inbox => Disconnected' = Disconnected
  BY DEF Disconnected
<1>4. reader \in {"read", "act", "drain"} => handshake_done
  BY <1>0 DEF Shaking
<1>5. CASE Sock(s)!ReaderBegin
  <2>1. /\ reader = "shake" /\ handshake_done /\ reader' = (IF closed_event THEN "over" ELSE "read")
        /\ UNCHANGED <<state, handshake_done, closed_event, inbox, connect_sent, app, called, heard, told, texts,
                       todo, fragmented, said, frames, lock, wire, gone>>
    BY <1>5 DEF Sock!ReaderBegin
  <2>2. Shaking'
    BY <1>0, <2>1, ReaderShakes
  <2>3. Sock(s)!TypeOK' /\ Sock(s)!MessagesInOrder'
    BY <1>0, <2>1 DEF Sock!TypeOK, Sock!MessagesInOrder
  <2>4. Reading' /\ Tallied'
    BY <1>0, <1>3, <2>1 DEF Reading, Tallied
  <2> QED BY <2>2, <2>3, <2>4 DEF SocketInv
<1>6. ASSUME NEW kind \in Frames[s], Sock(s)!Read(kind) PROVE SocketInv(s)'
  <2> DEFINE ops == Sock(s)!Script(kind)
  <2>1. ops \in Scripts
    BY <1>1, FrameScript
  <2>2. /\ reader = "read" /\ todo' = ops
        /\ reader' = (IF ops # <<>> THEN "act" ELSE IF closed_event THEN "over" ELSE "read")
        /\ said' = (IF ops = <<"receive">> THEN said + 1 ELSE said)
        /\ UNCHANGED <<handshake_done, closed_event, inbox, connect_sent, app, called, heard, told, texts, lock, wire, gone>>
    BY <1>6 DEF Sock!Read, Sock!GoOn
  <2>3. frames' \in 0..FrameMax[s]
    BY <1>0, <1>6 DEF Sock!Read
  <2>4. fragmented' \in BOOLEAN
    <3>1. CASE kind = "first"
      BY <1>6, <3>1 DEF Sock!Read
    <3>2. CASE kind \in {"last", "garbledlast"}
      BY <1>6, <3>2 DEF Sock!Read
    <3>3. CASE kind \notin {"first", "last", "garbledlast"}
      BY <1>1, <1>6, <3>3 DEF Sock!Read
    <3> QED BY <3>1, <3>2, <3>3
  <2>5. state' \in {"CONNECTING", "OPEN", "CLOSING", "CLOSED"}
    BY <1>0, <1>6 DEF Sock!Read, Sock!TypeOK
  <2> HIDE DEF ops
  <2>6. said' \in Nat /\ reader' \in {"act", "over", "read"} /\ todo' \in Scripts
    BY <1>0, <2>1, <2>2
  <2>7. Shaking'
    BY <1>4, <2>2, ReaderShakes
  <2>8. Sock(s)!TypeOK'
    BY <1>0, <1>2, <2>2, <2>3, <2>4, <2>5, <2>6 DEF Sock!TypeOK
  <2>9. todo = <<>> /\ ~Disconnected /\ app # "over" /\ ~(told /\ "close" \notin called)
    BY <1>0, <2>2 DEF Reading
  <2>10. Sock(s)!MessagesInOrder'
    BY <1>0, <2>2, <2>9 DEF Sock!MessagesInOrder
  <2>11. Reading'
    <3>1. (reader' \in {"act", "drain"}) = (todo' # <<>>)
      BY <2>2
    <3>2. reader' # "drain"
      BY <2>2
    <3>3. app' # "over" /\ ~Disconnected' /\ ~(told' /\ "close" \notin called')
      BY <1>3, <2>2, <2>9
    <3>4. ~(closed_event' /\ "close" \notin called')
      BY <1>0, <2>2 DEF Reading
    <3> QED BY <2>6, <3>1, <3>2, <3>3, <3>4 DEF Reading
  <2>12. Tallied'
    <3>1. heard + Len(inbox) = said
      BY <1>0, <2>9 DEF Tallied
    <3>2. ~Disconnected' /\ heard' = heard /\ Len(inbox') = Len(inbox)
      BY <1>3, <2>2, <2>9
    <3>3. heard' + Len(inbox') + (IF todo' = <<"receive">> THEN 1 ELSE 0) = said'
      BY <1>0, <2>2, <3>1, <3>2
    <3> QED BY <2>6, <3>2, <3>3 DEF Tallied
  <2> QED BY <2>7, <2>8, <2>10, <2>11, <2>12 DEF SocketInv
<1>7. CASE Sock(s)!ReaderWrites
  <2>1. /\ reader = "act" /\ Head(todo) \in {"close", "pong"} /\ lock' = "reader" /\ reader' = "drain"
        /\ wire' = (IF gone THEN wire ELSE Append(wire, Head(todo)))
        /\ UNCHANGED <<state, handshake_done, closed_event, inbox, connect_sent, app, called, heard, told, texts,
                       todo, fragmented, said, frames, gone>>
    BY <1>7 DEF Sock!ReaderWrites
  <2>2. Shaking' /\ wire' \in Seq({"101", "403", "text", "close", "pong"})
    BY <1>4, <2>1, ReaderShakes
  <2>3. Sock(s)!TypeOK'
    BY <1>0, <2>1, <2>2 DEF Sock!TypeOK
  <2>4. Sock(s)!MessagesInOrder'
    BY <1>0, <2>1 DEF Sock!MessagesInOrder
  <2>5. Reading' /\ Tallied'
    BY <1>0, <1>3, <2>1 DEF Reading, Tallied
  <2> QED BY <2>2, <2>3, <2>4, <2>5 DEF SocketInv
<1>8. CASE Sock(s)!ReaderDrained
  <2>1. /\ reader = "drain" /\ lock' = "free" /\ todo' = Tail(todo)
        /\ reader' = (IF Tail(todo) # <<>> THEN "act" ELSE IF closed_event THEN "over" ELSE "read")
        /\ UNCHANGED <<state, handshake_done, closed_event, inbox, connect_sent, app, called, heard, told, texts,
                       fragmented, said, frames, wire, gone>>
    BY <1>8 DEF Sock!ReaderDrained, Sock!GoOn
  <2>2. /\ todo \in Scripts /\ todo # <<>> /\ Head(todo) \in {"close", "pong"} /\ app # "over"
        /\ ~Disconnected /\ ~(told /\ "close" \notin called) /\ ~(closed_event /\ "close" \notin called)
    BY <1>0, <2>1 DEF Reading
  <2>3. todo' \in Scripts /\ todo' # <<"receive">> /\ todo # <<"receive">>
    BY <2>1, <2>2, ScriptFacts
  <2>4. Shaking'
    BY <1>4, <2>1, ReaderShakes
  <2>5. Sock(s)!TypeOK'
    <3>1. reader' \in {"act", "over", "read"}
      BY <2>1
    <3>2. todo' \in Seq({"close", "pong", "receive", "disconnect", "stop"})
      BY <1>2, <2>3
    <3>3. /\ lock' = "free"
          /\ UNCHANGED <<state, handshake_done, closed_event, inbox, connect_sent, app, called, heard, told, texts,
                         fragmented, said, frames, wire, gone>>
      BY <2>1
    <3> QED BY <1>0, <3>1, <3>2, <3>3 DEF Sock!TypeOK
  <2>6. Sock(s)!MessagesInOrder'
    BY <1>0, <2>1 DEF Sock!MessagesInOrder
  <2>7. Reading'
    BY <1>3, <2>1, <2>2, <2>3 DEF Reading
  <2>8. Tallied'
    <3>1. heard' = heard /\ inbox' = inbox /\ said' = said /\ app' = app /\ ~Disconnected'
      BY <1>3, <2>1, <2>2
    <3>2. heard + Len(inbox) + 0 = said + 0
      BY <1>0, <2>2, <2>3 DEF Tallied
    <3> QED BY <2>3, <3>1, <3>2 DEF Tallied
  <2> QED BY <2>4, <2>5, <2>6, <2>7, <2>8 DEF SocketInv
<1> QED BY <1>5, <1>6, <1>7, <1>8

\* A message, or a disconnect, goes into the channel behind all others.
LEMMA DeliverKept ==
    ASSUME NEW s \in SocketParts, SocketInv(s), Sock(s)!Deliver \/ Sock(s)!ReaderEnds
    PROVE  SocketInv(s)'
<1> USE DEF Sock!flags, Sock!appvars
<1>0. /\ Sock(s)!TypeOK /\ Shaking /\ Reading /\ Tallied /\ Sock(s)!MessagesInOrder
      /\ said \in Nat /\ heard \in Nat /\ inbox \in Seq(Nat) /\ Len(inbox) \in Nat /\ Rooms[s] \in Nat
  BY SocketTypes, ServeAssumptions, LenProperties DEF SocketInv, Sock!SocketParams
<1>1. reader = "act" /\ UNCHANGED <<handshake_done, connect_sent, app, called, heard, told, texts, fragmented, said,
                                    frames, lock, wire, gone>>
  BY DEF Sock!Deliver, Sock!ReaderEnds
<1>2. /\ handshake_done /\ todo \in Scripts /\ todo # <<>> /\ app # "over" /\ ~Disconnected
      /\ ~(told /\ "close" \notin called) /\ ~(closed_event /\ "close" \notin called)
  BY <1>0, <1>1 DEF Shaking, Reading
<1>3. Shaking'
  BY <1>1, <1>2, ReaderShakes
<1>4. <<>> \in Scripts /\ <<>> \in Seq({"close", "pong", "receive", "disconnect", "stop"})
  BY DEF Scripts
<1>5. DOMAIN inbox = 1..Len(inbox)
  BY <1>0, LenProperties
<1>6. \A i \in 1..Len(inbox) : inbox[i] = heard + i
  <2>1. /\ \A i \in DOMAIN inbox : inbox[i] = 0 \/ inbox[i] = heard + i
        /\ \A i \in DOMAIN inbox : inbox[i] = 0 => i = Len(inbox)
    BY <1>0 DEF Sock!MessagesInOrder
  <2>2. \A i \in 1..Len(inbox) : /\ inbox[i] = 0 \/ inbox[i] = heard + i
                                 /\ inbox[i] = 0 => i = Len(inbox)
    BY Zenon, <1>5, <2>1
  <2> SUFFICES ASSUME NEW i \in 1..Len(inbox), inbox[i] = 0 PROVE FALSE
    BY <2>2
  <2>3. i = Len(inbox) /\ Len(inbox) # 0
    BY <1>0, <2>2
  <2>4. inbox # <<>>
    BY <2>3
  <2> QED BY <1>2, <2>3, <2>4 DEF Disconnected
<1>7. ASSUME NEW x \in Nat, inbox' = Append(inbox, x), Len(inbox) < Rooms[s],
             x # 0 => x = heard + Len(inbox) + 1
      PROVE  /\ inbox' \in Seq(Nat) /\ Len(inbox') = Len(inbox) + 1 /\ Len(inbox') <= Rooms[s]
             /\ Disconnected' = (x = 0) /\ Sock(s)!MessagesInOrder'
  <2>1. /\ inbox' \in Seq(Nat) /\ Len(inbox') = Len(inbox) + 1 /\ inbox'[Len(inbox) + 1] = x
        /\ \A i \in 1..Len(inbox) : inbox'[i] = inbox[i]
    BY <1>0, <1>7, AppendProperties
  <2>2. Len(inbox') <= Rooms[s] /\ Len(inbox') \in Nat
    BY <1>0, <1>7, <2>1
  <2>3. inbox' # <<>>
    BY <1>0, <2>1
  <2>4. Disconnected' = (x = 0)
    BY <2>1, <2>3 DEF Disconnected
  <2>5. \A i \in 1..Len(inbox') : /\ inbox'[i] = 0 \/ inbox'[i] = heard' + i
                                  /\ inbox'[i] = 0 => i = Len(inbox')
    <3> SUFFICES ASSUME NEW i \in 1..Len(inbox')
                 PROVE  /\ inbox'[i] = 0 \/ inbox'[i] = heard + i
                        /\ inbox'[i] = 0 => i = Len(inbox')
      BY <1>1
    <3>1. CASE i = Len(inbox) + 1
      BY <1>0, <1>7, <2>1, <3>1
    <3>2. CASE i # Len(inbox) + 1
      <4>1. i \in 1..Len(inbox) /\ i \in Nat /\ i > 0
        BY <1>0, <2>1, <3>2
      <4>2. inbox'[i] = heard + i
        BY <1>6, <2>1, <4>1
      <4> QED BY <1>0, <4>1, <4>2
    <3> QED BY <3>1, <3>2
  <2>6. DOMAIN inbox' = 1..Len(inbox')
    BY <2>1, LenProperties
  <2>7. ~(told' /\ "close" \notin called')
    BY <1>1, <1>2
  <2>8. Sock(s)!MessagesInOrder'
    BY Zenon, <2>5, <2>6, <2>7 DEF Sock!MessagesInOrder
  <2> QED BY <2>1, <2>2, <2>4, <2>8
<1>8. CASE Sock(s)!Deliver
  <2>1. /\ Head(todo) = "receive" /\ Len(inbox) < Rooms[s] /\ inbox' = Append(inbox, said)
        /\ todo' = Tail(todo) /\ UNCHANGED <<state, closed_event>>
        /\ reader' = (IF Tail(todo) # <<>> THEN "act" ELSE IF closed_event THEN "over" ELSE "read")
    BY <1>8 DEF Sock!Deliver, Sock!GoOn
  <2>2. todo = <<"receive">> /\ todo' = <<>>
    BY <1>2, <2>1, ScriptFacts
  <2>3. said = heard + Len(inbox) + 1 /\ said # 0
    BY <1>0, <1>2, <2>2 DEF Tallied
  <2>4. /\ inbox' \in Seq(Nat) /\ Len(inbox') = Len(inbox) + 1 /\ Len(inbox') <= Rooms[s]
        /\ ~Disconnected' /\ Sock(s)!MessagesInOrder'
    BY <1>0, <1>7, <2>1, <2>3
  <2>5. reader' \in {"over", "read"}
    BY <2>1, <2>2
  <2>6. Sock(s)!TypeOK'
    BY <1>0, <1>1, <1>4, <2>1, <2>2, <2>4, <2>5 DEF Sock!TypeOK
  <2>7. Reading'
    BY <1>1, <1>2, <1>4, <2>1, <2>2, <2>4, <2>5 DEF Reading
  <2>8. Tallied'
    <3>1. heard' + Len(inbox') + 0 = said' + 0
      BY <1>0, <1>1, <2>3, <2>4
    <3> QED BY <2>2, <2>4, <3>1 DEF Tallied
  <2> QED BY <1>3, <2>4, <2>6, <2>7, <2>8 DEF SocketInv
<1>9. CASE Sock(s)!ReaderEnds
  <2>1. reader' = "over" /\ todo' = <<>>
    BY <1>9 DEF Sock!ReaderEnds
  <2>2. Head(todo) # "receive" /\ todo # <<"receive">>
    <3>1. Head(todo) # "receive"
      BY <1>9 DEF Sock!ReaderEnds
    <3> QED BY <1>2, <3>1, ScriptFacts
  <2>3. heard + Len(inbox) = said
    BY <1>0, <1>2, <2>2 DEF Tallied
  <2>4. CASE UNCHANGED <<state, closed_event, inbox>>
    <3>1. ~Disconnected' /\ Sock(s)!MessagesInOrder'
      BY <1>0, <1>1, <1>2, <2>4 DEF Disconnected, Sock!MessagesInOrder
    <3>2. Sock(s)!TypeOK'
      BY <1>0, <1>1, <1>4, <2>1, <2>4 DEF Sock!TypeOK
    <3>3. Reading'
      BY <1>4, <2>1 DEF Reading
    <3>4. Tallied'
      BY <1>0, <1>1, <2>1, <2>3, <2>4, <3>1 DEF Tallied
    <3> QED BY <1>3, <3>1, <3>2, <3>3, <3>4 DEF SocketInv
  <2>5. CASE /\ Len(inbox) < Rooms[s] /\ inbox' = Append(inbox, 0)
             /\ state' = "CLOSED" /\ closed_event' = TRUE
    <3>1. /\ inbox' \in Seq(Nat) /\ Len(inbox') = Len(inbox) + 1 /\ Len(inbox') <= Rooms[s]
          /\ Disconnected' /\ Sock(s)!MessagesInOrder'
      BY <1>7, <2>5
    <3>2. Sock(s)!TypeOK'
      BY <1>0, <1>1, <1>4, <2>1, <2>5, <3>1 DEF Sock!TypeOK
    <3>3. Reading'
      BY <1>4, <2>1 DEF Reading
    <3>4. Tallied'
      <4>1. heard' + Len(inbox') + 0 = said' + 1
        <5>1. heard' = heard /\ said' = said /\ Len(inbox') = Len(inbox) + 1
          BY <1>1, <3>1
        <5> QED BY <1>0, <2>3, <5>1
      <4> QED BY <2>1, <3>1, <4>1 DEF Tallied
    <3> QED BY <1>3, <3>1, <3>2, <3>3, <3>4 DEF SocketInv
  <2> QED BY <1>9, <2>4, <2>5 DEF Sock!ReaderEnds
<1> QED BY <1>8, <1>9

\* Every step of the application, the reader and run() keeps the invariant.
LEMMA SocketStep ==
    ASSUME NEW s \in SocketParts, SocketInv(s), Sock(s)!Next
    PROVE  SocketInv(s)'
BY ReceiveKept, SendKept, EndKept, ReadKept, DeliverKept DEF Sock!Next

\* The wire begins with the answer to the handshake.
LEMMA HandshakeHeld ==
    ASSUME NEW s \in SocketParts, SocketInv(s)
    PROVE  Sock(s)!HandshakeFirst
<1>1. Shaking /\ handshake_done \in BOOLEAN
  BY SocketTypes DEF SocketInv
<1>2. CASE handshake_done
  BY <1>1, <1>2 DEF Shaking, Sock!HandshakeFirst
<1>3. CASE ~handshake_done
  <2>1. wire \in {<<>>, <<"101">>, <<"403">>}
    BY <1>1, <1>3 DEF Shaking
  <2>2. CASE wire = <<"101">>
    <3>1. wire[1] = "101" /\ Len(wire) = 1
      BY <2>2
    <3>2. \A i \in 2..Len(wire) : FALSE
      BY <3>1
    <3> QED BY <3>1, <3>2 DEF Sock!HandshakeFirst
  <2> QED BY <2>1, <2>2 DEF Sock!HandshakeFirst
<1> QED BY <1>1, <1>2, <1>3

-----------------------------------------------------------------------------
(* The serving side *)

\* The part on stage keeps its invariant.
ServeInv ==
    /\ part \in Parts
    /\ \A m \in LifeModes : part = m => LifeInv(Callers, m)
    /\ \A s \in {"served", "restarted"} : part = s => ServerInv(s)
    /\ \A s \in SocketParts : part = s => SocketInv(s)
    /\ part = "worker" => WorkerInv

\* Every part begins in a state of its invariant.
LEMMA ServeInitially == ServeInit => ServeInv
<1> SUFFICES ASSUME ServeInit PROVE ServeInv
  OBVIOUS
<1>1. ASSUME NEW m \in LifeModes PROVE LifeInv(Callers, m)
  <2>1. Life(Callers, m)!Init
    BY DEF ServeInit, Life!Init, Life!Nobody
  <2> QED BY <2>1, LifeInit, ServeAssumptions
<1>2. ASSUME NEW s \in {"served", "restarted"}, part = s PROVE ServerInv(s)
  BY <1>2, ServerInit DEF ServeInit, ServerParts
<1>3. ASSUME NEW s \in SocketParts PROVE SocketInv(s)
  <2>1. Sock(s)!Init
    BY DEF ServeInit, Sock!Init
  <2> QED BY <2>1, SocketInit
<1>4. ASSUME part = "worker" PROVE WorkerInv
  <2>1. Srv("worker")!Init
    BY <1>4, ServerIs DEF ServeInit, Asgi!Server!Init, Srv!Init
  <2>2. ServerInv("worker") /\ gen = 0 /\ running = FALSE /\ pc = "idle"
    BY <2>1, ServerInit DEF ServerParts, Srv!Init
  <2>3. Life({Asgi!Self}, WorkerMode)!Init
    BY DEF ServeInit, Life!Init, Life!Nobody
  <2>4. Life({Asgi!Self}, WorkerMode)!LifespanParams
    BY ServeAssumptions DEF Life!LifespanParams, Life!Nobody, Asgi!Self, LifeModes
  <2>5. LifeInv({Asgi!Self}, WorkerMode) /\ lState = "UNINITIALIZED"
    BY <2>3, <2>4, LifeInit DEF Life!Init
  <2> QED BY <2>2, <2>5 DEF WorkerInv, ServeInit
<1> QED BY <1>1, <1>2, <1>3, <1>4 DEF ServeInv, ServeInit

\* Nothing changes for a part when its variables do not.
LEMMA ServeStutters ==
    ASSUME ServeInv, UNCHANGED servevars
    PROVE  ServeInv'
<1>1. UNCHANGED <<lState, lLock, lPc, lRunner, lAsked, lSent, lStatus, lStarted, lStopped, lTrigger>>
  BY DEF servevars, lifevars
<1>2. UNCHANGED <<running, gen, open, pc, clean, accept_tasks, loop, stopping, linked, conn, by, tracked, cut, late, hurt>>
  BY DEF servevars, servervars
<1>3. UNCHANGED <<state, handshake_done, closed_event, connect_sent, inbox, app, called, reader, todo, fragmented, lock,
                  wire, gone, said, heard, told, frames, texts>>
  BY DEF servevars, socketvars
<1>4. UNCHANGED <<part, step>>
  BY DEF servevars
<1>5. ASSUME NEW C, NEW m, LifeInv(C, m) PROVE LifeInv(C, m)'
  BY <1>1, <1>5 DEF LifeInv, Life!TypeOK, Life!StartupHonest, Life!NoOrphan
<1>6. ASSUME NEW s, ServerInv(s) PROVE ServerInv(s)'
  BY <1>2, <1>6 DEF ServerInv, Srv!TypeOK, LoopsPlaced, ConnsPlaced, Srv!ConnectionsOwned, Srv!DrainSpares, Srv!Live
<1>7. ASSUME NEW s, SocketInv(s) PROVE SocketInv(s)'
  BY <1>3, <1>7 DEF SocketInv, Sock!TypeOK, Sock!MessagesInOrder, Shaking, Reading, Tallied, Disconnected
<1>8. WorkerInv => WorkerInv'
  BY <1>1, <1>2, <1>4, <1>5, <1>6 DEF WorkerInv
<1> QED BY <1>4, <1>5, <1>6, <1>7, <1>8 DEF ServeInv

\* Every step of the part on stage keeps its invariant.
LEMMA ServeStep == ServeInv /\ [ServeNext]_servevars => ServeInv'
<1> SUFFICES ASSUME ServeInv, [ServeNext]_servevars PROVE ServeInv'
  OBVIOUS
<1> USE DEF Parts, LifeModes, SocketParts, ServerParts
<1>1. CASE UNCHANGED servevars
  BY <1>1, ServeStutters
<1>2. ASSUME NEW m \in LifeModes, Lives(m) PROVE ServeInv'
  <2>1. part = m /\ part' = m /\ Life(Callers, m)!Next
    BY <1>2 DEF Lives
  <2>2. LifeInv(Callers, m)'
    BY <2>1, LifeStep, ServeAssumptions DEF ServeInv
  <2> QED BY <2>1, <2>2 DEF ServeInv
<1>3. ASSUME NEW s \in {"served", "restarted"}, Serves(s) PROVE ServeInv'
  <2>1. part = s /\ part' = s /\ Srv(s)!Next
    BY <1>3 DEF Serves
  <2>2. ServerInv(s)'
    BY <2>1, ServerStepKept DEF ServeInv
  <2> QED BY <2>1, <2>2 DEF ServeInv
<1>4. ASSUME NEW s \in SocketParts, Talks(s) PROVE ServeInv'
  <2>1. part = s /\ part' = s /\ Sock(s)!Next
    BY <1>4 DEF Talks
  <2>2. SocketInv(s)'
    BY <2>1, SocketStep DEF ServeInv
  <2> QED BY <2>1, <2>2 DEF ServeInv
<1>5. CASE JobsRun
  BY <1>5 DEF JobsRun, ServeInv
<1>6. CASE WorkerRuns
  <2>1. part = "worker" /\ part' = "worker" /\ Asgi!Next
    BY <1>6 DEF WorkerRuns
  <2>2. WorkerInv'
    BY <2>1, WorkerStepKept DEF ServeInv
  <2> QED BY <2>1, <2>2 DEF ServeInv
<1> QED BY <1>1, <1>2, <1>3, <1>4, <1>5, <1>6
        DEF ServeNext, OffRuns, AutoRuns, OnRuns, ServedRuns, RestartedRuns, PoliteRuns, RudeRuns

\* The invariant of the serving side holds throughout.
LEMMA ServeInvariant == ServeSpec => []ServeInv
BY ServeInitially, ServeStep, PTL DEF ServeSpec

\* LifespanManager, in each of its modes and for any callers: it runs only with an
\* application that completed its startup or takes no part; stopped it leaves no
\* runner behind, and failed it leaves one only if the application had sent
\* startup.failed, whose path raises without cancelling the runner.
THEOREM LifespanTheorem == ServeSpec => []LifespanSound
<1>1. ServeInv => LifespanSound
  BY DEF ServeInv, LifespanSound, LifeInv
<1> QED BY <1>1, ServeInvariant, PTL

\* ConnectionPinningServer, for any workers, clients and number of starts: close()
\* knows of every connection but the one each loop may accept while it is closing, and
\* a drained close() cancels nothing that was there before.  MultiloopASGIWorker: the
\* application serves only between its startup and its shutdown.
THEOREM ServerTheorem == ServeSpec => []ServerSound
<1>1. ServeInv => ServerSound
  BY WorkerSound DEF ServeInv, ServerSound, ServerInv
<1> QED BY <1>1, ServeInvariant, PTL

\* WebSocketConnection, for any peer, any channel and any number of messages: nothing
\* precedes the answer to the handshake, the messages of the peer reach the application
\* in order and without a gap, and a disconnect comes after all of them.
THEOREM SocketTheorem == ServeSpec => []SocketSound
<1>1. ServeInv => SocketSound
  BY HandshakeHeld DEF ServeInv, SocketSound, SocketInv
<1> QED BY <1>1, ServeInvariant, PTL
=============================================================================
