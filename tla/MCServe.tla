------------------------------ MODULE MCServe ------------------------------
(***************************************************************************)
(* The serving side, one part at a time: the lifespan manager in its three *)
(* modes ("off", "auto", "on"); the accept loops of a server that is       *)
(* started once ("served") or, on one worker, twice ("restarted"); a       *)
(* WebSocket connection with a peer that keeps to the protocol ("polite")  *)
(* or does anything ("rude"); and the pool under them, with a job that     *)
(* blocks its thread ("jobs"); and an ASGI worker, which composes manager  *)
(* and server ("worker").                                                  *)
(***************************************************************************)
EXTENDS Naturals, Sequences, FiniteSets

CONSTANTS
    Callers,                 \* of the lifespan manager
    Crews, Clients, Starts,  \* of a server, in each part: its workers, who connects,
                             \* and how often it may be started
    WorkerMode,              \* the ASGI worker's lifespan option
    Frames,                  \* in each part, what a peer may send
    Rooms,                   \* and the capacity of the inbound channel,
    FrameMax, TextMax,       \* and bounds on the frames and the messages sent
    w1, w2, g1, NoWorker     \* of the pool

Parts == {"off", "auto", "on", "served", "restarted", "polite", "rude", "jobs", "worker"}
LifeModes == {"off", "auto", "on"}
ServerParts == {"served", "restarted", "worker"}
SocketParts == {"polite", "rude"}

StartsEach == [served |-> 1, restarted |-> 2, worker |-> 1]
PoliteFrames == {"text", "ping", "garbled", "close", "reset"}
RudeFrames == PoliteFrames \cup {"first", "more", "last", "garbledlast", "toobig", "bad", "eof"}
FramesEach == [polite |-> PoliteFrames, rude |-> RudeFrames]
RoomEach == [polite |-> 1, rude |-> 2]
FrameEach == [polite |-> 3, rude |-> 4]
TextEach == [polite |-> 2, rude |-> 1]
CrewEach == [served |-> {w1, w2}, restarted |-> {w1}, worker |-> {w1}]
ClientEach == [served |-> {"n1", "n2"}, restarted |-> {"n1", "n2"}, worker |-> {"n1"}]

VARIABLES
    part,
    lState, lLock, lPc, lRunner, lAsked, lSent, lStatus, lStarted, lStopped, lTrigger,
    running, gen, open, pc, clean, accept_tasks, loop, stopping, linked, conn, by,
    tracked, cut, late, hurt,
    state, handshake_done, closed_event, connect_sent, inbox, app, called, reader, todo,
    fragmented, lock, wire, gone, said, heard, told, frames, texts,
    pRunning, nclose, global, local, buffer, outstanding, idle, event, posted, disp,
    processed, pLoop, stops, spc, fut, job, at, cpc, mode, joined, swept, pClean,
    closedEvent, step

Life(C, m) == INSTANCE Lifespan WITH
    Callers <- C, Mode <- m,
    state <- lState, lock <- lLock, pc <- lPc, runner <- lRunner, asked <- lAsked,
    sent <- lSent, status <- lStatus, started <- lStarted, stopped <- lStopped,
    trigger <- lTrigger

Srv(s) == INSTANCE PinningServer WITH
    Workers <- Crews[s], Conns <- Clients[s], MaxStarts <- Starts[s]

Asgi == INSTANCE AsgiWorker WITH
    Workers <- Crews["worker"], Conns <- Clients["worker"], Mode <- WorkerMode,
    Attempts <- Starts["worker"]

Sock(s) == INSTANCE WebSocket WITH
    Kinds <- Frames[s], Capacity <- Rooms[s], MaxFrames <- FrameMax[s], MaxTexts <- TextMax[s]

Crew == INSTANCE Pool WITH
    Workers <- {w1, w2}, Jobs <- {g1}, Pin <- [j \in {g1} |-> NoWorker],
    LocalCapacity <- 1, BatchMax <- 2, Stubborn <- {g1}, Coroutines <- {g1},
    Modes <- {"close"}, running <- pRunning, loop <- pLoop, clean <- pClean

\* The constants of the instances are within their modules' assumptions.  The
\* worker is started once: a second start() skips the startup (see the README).
ASSUME ServeAssumptions ==
    /\ \A m \in LifeModes : Life(Callers, m)!LifespanParams
    /\ \A s \in ServerParts : Srv(s)!ServerParams
    /\ \A s \in SocketParts : Sock(s)!SocketParams
    /\ Asgi!WorkerParams /\ WorkerMode \in LifeModes /\ Starts["worker"] = 1

lifevars == <<lState, lLock, lPc, lRunner, lAsked, lSent, lStatus, lStarted, lStopped,
              lTrigger>>
servervars == <<running, gen, open, pc, clean, accept_tasks, loop, stopping, linked, conn,
                by, tracked, cut, late, hurt>>
socketvars == <<state, handshake_done, closed_event, connect_sent, inbox, app, called,
                reader, todo, fragmented, lock, wire, gone, said, heard, told, frames,
                texts>>
poolvars == <<pRunning, nclose, global, local, buffer, outstanding, idle, event, posted,
              disp, processed, pLoop, stops, spc, fut, job, at, cpc, mode, joined, swept,
              pClean, closedEvent>>
asgivars == <<lifevars, servervars, step>>
servevars == <<part, step, lifevars, servervars, socketvars, poolvars>>

\* The parts that are not on stage rest in an initial state.
ServeInit ==
    /\ part \in Parts
    /\ Life(Callers, "off")!Init
    /\ CASE part = "restarted" -> Srv("restarted")!Init
         [] part = "worker" -> Asgi!Server!Init
         [] part \notin {"restarted", "worker"} -> Srv("served")!Init
    /\ step = "new" /\ Sock("polite")!Init /\ Crew!Init

Lives(m) == part = m /\ Life(Callers, m)!Next /\ UNCHANGED <<part, step, servervars, socketvars, poolvars>>
Serves(s) == part = s /\ Srv(s)!Next /\ UNCHANGED <<part, step, lifevars, socketvars, poolvars>>
Talks(s) == part = s /\ Sock(s)!Next /\ UNCHANGED <<part, step, lifevars, servervars, poolvars>>
OffRuns == Lives("off")
AutoRuns == Lives("auto")
OnRuns == Lives("on")
ServedRuns == Serves("served")
RestartedRuns == Serves("restarted")
PoliteRuns == Talks("polite")
RudeRuns == Talks("rude")
JobsRun == part = "jobs" /\ Crew!Next /\ UNCHANGED <<part, step, lifevars, servervars, socketvars>>
WorkerRuns == part = "worker" /\ Asgi!Next /\ UNCHANGED <<part, socketvars, poolvars>>
ServeNext ==
    \/ OffRuns \/ AutoRuns \/ OnRuns
    \/ ServedRuns \/ RestartedRuns
    \/ PoliteRuns \/ RudeRuns \/ JobsRun \/ WorkerRuns

\* The fairness of the part on stage.  Time-outs of the manager fire, and an
\* application that was cancelled ends in the end; a start() or close() that
\* began goes on, and the workers run what is ready; the transport drains, and a
\* peer leaves in the end; the pool is Pool's Fairness.
ServeFairness ==
    /\ \A m \in {"auto", "on"} :
         /\ WF_lifevars(part = m /\ Life(Callers, m)!StartupTimeout)
         /\ WF_lifevars(part = m /\ Life(Callers, m)!ShutdownGoesOn)
         /\ WF_lifevars(part = m /\ Life(Callers, m)!Reaped)
         /\ WF_lifevars(part = m /\ lAsked /\ Life(Callers, m)!RunnerEnds)
    /\ WF_servervars(part = "served" /\ Srv("served")!StartSpawn)
    /\ WF_servervars(part = "served" /\ Srv("served")!CloseListeners)
    /\ WF_servervars(part = "served" /\ Srv("served")!CloseDrained)
    /\ WF_servervars(part = "served" /\ Srv("served")!CloseCut)
    /\ \A l \in Srv("served")!Loops :
         /\ WF_servervars(part = "served" /\ Srv("served")!LoopBegin(l))
         /\ WF_servervars(part = "served" /\ Srv("served")!Accept(l))
         /\ WF_servervars(part = "served" /\ Srv("served")!LoopCancelled(l))
    /\ \A c \in Clients["served"] : WF_servervars(part = "served" /\ Srv("served")!ConnCancelled(c))
    /\ WF_socketvars(part = "polite" /\ Sock("polite")!Received)
    /\ WF_socketvars(part = "polite" /\ Sock("polite")!AppWrites)
    /\ WF_socketvars(part = "polite" /\ Sock("polite")!AppDrained)
    /\ WF_socketvars(part = "polite" /\ Sock("polite")!ReaderBegin)
    /\ WF_socketvars(part = "polite" /\ Sock("polite")!ReaderWrites)
    /\ WF_socketvars(part = "polite" /\ Sock("polite")!ReaderDrained)
    /\ WF_socketvars(part = "polite" /\ Sock("polite")!Deliver)
    /\ WF_socketvars(part = "polite" /\ Sock("polite")!ReaderEnds)
    /\ WF_socketvars(part = "polite" /\ \E kind \in Sock("polite")!Ending : Sock("polite")!Read(kind))
    /\ WF_poolvars(part = "jobs" /\ Crew!Submit(g1))
    /\ WF_poolvars(part = "jobs" /\ Crew!Execute(g1))
    /\ WF_poolvars(part = "jobs" /\ Crew!Closer)
    /\ \A w \in {w1, w2} :
         /\ WF_poolvars(part = "jobs" /\ Crew!Dispatcher(w))
         /\ WF_poolvars(part = "jobs" /\ Crew!Thread(w))
         /\ SF_poolvars(part = "jobs" /\ Crew!Drain(w) /\ Crew!PopGlobal(w, g1))
    /\ WF_asgivars(part = "worker" /\ Asgi!WorkerStep)
    /\ WF_asgivars(part = "worker" /\ Asgi!ServerGoesOn)
    /\ WF_asgivars(part = "worker" /\ Asgi!ManagerGoesOn)

ServeSpec == ServeInit /\ [][ServeNext]_servevars /\ ServeFairness
-----------------------------------------------------------------------------

\* LifespanManager: it runs only with an application that completed its
\* startup, or takes no part; stopped it leaves no runner behind, and failed
\* only that of an application which reported startup.failed.
LifespanSound ==
    \A m \in LifeModes : part = m =>
        Life(Callers, m)!TypeOK /\ Life(Callers, m)!StartupHonest /\ Life(Callers, m)!NoOrphan

\* ConnectionPinningServer: close() knows of every connection but the one that
\* each loop may accept while it is closing, and a drained close() cancels
\* nothing that was there before.  MultiloopASGIWorker: the application serves
\* only between its startup and its shutdown, but for what close() cancelled.
ServerSound ==
    /\ \A s \in {"served", "restarted"} : part = s =>
         Srv(s)!TypeOK /\ Srv(s)!ConnectionsOwned /\ Srv(s)!DrainSpares
    /\ part = "worker" => Asgi!TypeOK /\ Asgi!ServedWhileUp /\ Asgi!ClosedMeansOver

\* WebSocketConnection: nothing precedes the handshake, messages keep their
\* order and are all there before a disconnect.
SocketSound ==
    \A s \in SocketParts : part = s =>
        Sock(s)!TypeOK /\ Sock(s)!HandshakeFirst /\ Sock(s)!MessagesInOrder

\* startup() and shutdown() return, and so do the worker's start() and close(); a
\* closed server stops; receive() answers while the peer keeps to the protocol.
ServingReturns ==
    /\ \A m \in {"auto", "on"} : part = m => Life(Callers, m)!CallsReturn
    /\ (part = "served" /\ pc = "cut") ~> (part = "served" /\ Srv("served")!Stopped)
    /\ part = "polite" => Sock("polite")!ReceiveReturns
    /\ part = "worker" => Asgi!WorkerReturns

\* EventLoopThreadPool: the future of a job that submit() accepted is completed,
\* by the job or by close(), though the job blocks its thread and the closing of
\* its coroutine raises.
FutureCompletes == part = "jobs" => Crew!FutureCompletes
=============================================================================
