----------------------------- MODULE AsgiWorker -----------------------------
(***************************************************************************)
(* MultiloopASGIWorker (asgi.py), which composes the lifespan manager and  *)
(* the server: start() is the manager's startup() and then the server's    *)
(* start(), close() is the server's close() and then shutdown().           *)
(* serve_app (cli.py) is its caller.                                       *)
(***************************************************************************)
EXTENDS Naturals, FiniteSets

CONSTANTS
    Workers, Conns, Mode,
    Attempts     \* bound: calls of start()

WorkerParams == Attempts \in Nat

VARIABLES
    lState, lLock, lPc, lRunner, lAsked, lSent, lStatus, lStarted, lStopped, lTrigger,
    running, gen, open, pc, clean, accept_tasks, loop, stopping, linked, conn, by,
    tracked, cut, late, hurt,
    step     \* the worker: "new", in start() ("startup", "bound"), "serving", in
             \* close() ("closing", "shutdown"), "over", or "failed" in start()

Self == "worker"

Manager == INSTANCE Lifespan WITH
    Callers <- {Self},
    state <- lState, lock <- lLock, pc <- lPc, runner <- lRunner, asked <- lAsked,
    sent <- lSent, status <- lStatus, started <- lStarted, stopped <- lStopped,
    trigger <- lTrigger
Server == INSTANCE PinningServer WITH MaxStarts <- Attempts

manager == <<lState, lLock, lPc, lRunner, lAsked, lSent, lStatus, lStarted, lStopped,
             lTrigger>>
server == <<running, gen, open, pc, clean, accept_tasks, loop, stopping, linked, conn,
            by, tracked, cut, late, hurt>>
vars == <<manager, server, step>>

TypeOK ==
    /\ Manager!TypeOK /\ Server!TypeOK
    /\ step \in {"new", "startup", "bound", "serving", "closing", "shutdown", "over", "failed"}

Init == Manager!Init /\ Server!Init /\ step = "new"

Goto(where) == step' = where

\* start() calls startup(), which does nothing but the first time.
Start ==
    /\ step \in {"new", "over", "failed"} /\ gen < Attempts /\ lLock = Manager!Nobody
    /\ \/ Manager!startup(Self)
       \/ lState # "UNINITIALIZED" /\ UNCHANGED manager
    /\ Goto("startup") /\ UNCHANGED server

\* startup() raised: by its verdict or time-out, or by a cancellation.
StartFails ==
    /\ step = "startup" /\ lPc = "idle" /\ lState \in {"FAILED", "STARTING"}
    /\ Goto("failed") /\ UNCHANGED <<manager, server>>

\* startup() returned; the server binds its sockets, or cannot.
Bind ==
    /\ step = "startup" /\ lPc = "idle"
    /\ lState \in {"RUNNING", "STOPPING", "STOPPED"}
    /\ \/ Server!StartListen /\ Goto("bound")
       \/ Goto("failed") /\ UNCHANGED server
    /\ UNCHANGED manager

Serving == step = "bound" /\ pc = "idle" /\ Goto("serving") /\ UNCHANGED <<manager, server>>

Close == step = "serving" /\ Server!CloseFlag /\ Goto("closing") /\ UNCHANGED manager

\* Mutant of Shutdown: it does not wait for the server.
ShutdownEarly ==
    /\ step = "closing"
    /\ \/ Manager!shutdown(Self)
       \/ lState # "RUNNING" /\ UNCHANGED manager
    /\ Goto("shutdown") /\ UNCHANGED server

\* The server's close() has returned.
Shutdown ==
    /\ step = "closing" /\ pc = "idle"
    /\ \/ Manager!shutdown(Self)
       \/ lState # "RUNNING" /\ UNCHANGED manager
    /\ Goto("shutdown") /\ UNCHANGED server

Closed ==
    /\ step = "shutdown" /\ lPc = "idle" /\ Goto("over")
    /\ UNCHANGED <<manager, server>>

\* What the manager and the application do, and the caller's cancellation.
ManagerGoesOn ==
    /\ \/ Manager!StartupTimeout \/ Manager!ShutdownGoesOn \/ Manager!Reaped
       \/ (lAsked /\ Manager!RunnerEnds)
    /\ UNCHANGED <<server, step>>
ManagerStep ==
    /\ \/ Manager!StartupReturn \/ Manager!CancelCaller
       \/ Manager!Receive \/ Manager!Send
       \/ (~lAsked /\ Manager!RunnerEnds)
    /\ UNCHANGED <<server, step>>

ServerGoesOn ==
    /\ \/ Server!StartSpawn \/ Server!CloseListeners
       \/ Server!CloseDrained \/ Server!CloseCut
    /\ UNCHANGED <<manager, step>>
ServerStep ==
    /\ \/ \E l \in Server!Loops :
            \/ Server!LoopBegin(l) \/ Server!Accept(l)
            \/ Server!LoopCancelled(l) \/ Server!LoopFails(l)
            \/ \E c \in Conns : Server!Connect(l, c)
       \/ \E c \in Conns : Server!ConnStep(c) \/ Server!ConnCancelled(c)
    /\ UNCHANGED <<manager, step>>

WorkerStep == StartFails \/ Bind \/ Serving \/ Shutdown \/ Closed

Next ==
    \/ Start \/ Close \/ WorkerStep
    \/ ManagerGoesOn \/ ManagerStep \/ ServerGoesOn \/ ServerStep

Spec == Init /\ [][Next]_vars

-----------------------------------------------------------------------------
(* Properties *)

\* The application serves connections only between its startup and its shutdown,
\* except those that close() has cancelled and its stragglers.
ServedWhileUp ==
    \A c \in Conns : conn[c] = "open" => lState = "RUNNING" \/ c \in late \cup cut

\* A close() that was not interrupted leaves nothing of the application behind.
ClosedMeansOver == step = "over" /\ lState = "STOPPED" => lRunner # "running" /\ ~running

\* start() returns or raises, and so does close().
WorkerReturns ==
    step \in {"startup", "bound", "closing", "shutdown"} ~> step \in {"serving", "over", "failed"}

\* A start() that failed leaves no application running.  Fails, see the README.
FailedMeansOver == step = "failed" => lRunner # "running"
=============================================================================
