------------------------------- MODULE MCWeb -------------------------------
(***************************************************************************)
(* What runs behind the accept loops, one part at a time: an HTTP/1.1      *)
(* connection with an application that reads its requests and completes    *)
(* its answers ("attentive"), or takes every liberty ("careless"); the     *)
(* admission of WSGI connections that each have a loop of their own        *)
(* ("apart") or share one ("crowded"); a WSGI exchange with an application *)
(* that keeps to PEP 3333 ("strict") or not ("liberal"); and the           *)
(* supervisor, whose watcher scans in time ("watched") or late             *)
(* ("overtaken").                                                          *)
(***************************************************************************)
EXTENDS Naturals, Sequences

CONSTANTS
    Scenes,                 \* the scenes a behaviour may show
    Pipelined, Kinds, Habits,   \* requests; in each scene, their kinds and the application's habits
    QueueSize, QueueLow,    \* where reading pauses and resumes
    Keepalive, PartsMax,    \* requests per connection; in each scene, the parts of a response
    Connections,            \* of the WSGI worker
    Homes, Limits,          \* in each scene, their loops and how many are admitted
    BodyPieces, Taken,      \* in each scene, the body and the application's liberties
    BodyMax, OutMax,        \* the capacities of an exchange's channels
    DataMax,                \* bound: what an application yields
    Edits, Deaths           \* bounds: modifications, and children that crash

EveryScene == {"attentive", "careless", "apart", "crowded", "strict", "liberal",
               "watched", "overtaken"}
Crowded == {"crowded"}
FourConnections == 1..4
K(chunks, keep, ws, bad) == [chunks |-> chunks, keep |-> keep, ws |-> ws, bad |-> bad]
Plain == K(0, TRUE, FALSE, FALSE)
Upload == K(2, TRUE, FALSE, FALSE)
Garbled == K(2, TRUE, FALSE, TRUE)
Final == K(0, FALSE, FALSE, FALSE)
Upgrade == K(0, TRUE, TRUE, FALSE)
KindsSent == [attentive |-> {Plain, Upload, Garbled, Final, Upgrade}, careless |-> {Plain, Upload}]
HabitsHad == [attentive |-> {}, careless |-> {"early", "short", "raise", "wait"}]
PartsWritten == [attentive |-> 2, careless |-> 1]
HomeLoops == [apart |-> <<1, 2, 3, 4>>, crowded |-> <<1, 1, 2, 2>>]
HomeLimits == [apart |-> 2, crowded |-> 1]
Bodies == [strict |-> 2, liberal |-> 1]
LibertiesTaken == [strict |-> {}, liberal |-> {"pipe", "text", "restart"}]

VARIABLES
    scene,
    stream, hGone, h,
    aPc, aLock, count,
    xGone, left, handler, next, sent, active, chunked, xWire, feeder, fcancel, body, out,
    thread, xTodo, starts, end, ahead, got, eof, xSaid, xCut,
    code, child, loaded, crashes, watcher, seen, reload, stop, sup

Htp(s) == INSTANCE Http11 WITH
    Requests <- Pipelined, Kinds <- Kinds[s], Habits <- Habits[s], QueueMax <- QueueSize,
    QueueResume <- QueueLow, MaxKeepalive <- Keepalive, MaxParts <- PartsMax[s], gone <- hGone

Adm(s) == INSTANCE WsgiAdmission WITH
    Handlers <- Connections, Home <- Homes[s], Limit <- Limits[s], pc <- aPc, lock <- aLock

Xch(s) == INSTANCE WsgiExchange WITH
    Pieces <- BodyPieces[s], Liberties <- Taken[s],
    BodyCapacity <- BodyMax, OutCapacity <- OutMax, MaxData <- DataMax,
    gone <- xGone, wire <- xWire, todo <- xTodo, said <- xSaid, cut <- xCut

Sup(s) == INSTANCE Supervisor WITH
    MaxEdits <- Edits, MaxCrashes <- Deaths, ScanFirst <- (s = "watched")

\* The constants of the instances are within their modules' assumptions; "apart",
\* no two connections share a loop, a "strict" application takes no liberty, and
\* an "attentive" one has no habits.
ASSUME WebAssumptions ==
    /\ \A s \in {"attentive", "careless"} : Htp(s)!HttpParams
    /\ Habits["attentive"] = {}
    /\ \A s \in {"apart", "crowded"} : Adm(s)!AdmissionParams
    /\ \A c, d \in Connections : Homes["apart"][c] = Homes["apart"][d] => c = d
    /\ \A s \in {"strict", "liberal"} : Xch(s)!ExchangeParams
    /\ Taken["strict"] = {}
    /\ \A s \in {"watched", "overtaken"} : Sup(s)!SupervisorParams

httpvars == <<stream, hGone, h>>
admitvars == <<aPc, aLock, count>>
wsgivars == <<xGone, left, handler, next, sent, active, chunked, xWire, feeder, fcancel,
              body, out, thread, xTodo, starts, end, ahead, got, eof, xSaid, xCut>>
supervars == <<code, child, loaded, crashes, watcher, seen, reload, stop, sup>>
mvars == <<scene, httpvars, admitvars, wsgivars, supervars>>

\* The parts that are not on stage rest in one initial state.
MInit ==
    /\ scene \in Scenes
    /\ IF scene = "careless" THEN Htp("careless")!Init ELSE Htp("attentive")!Init
    /\ \/ scene \in {"attentive", "careless"}
       \/ stream = Htp("attentive")!Sends([r \in 1..Pipelined |-> CHOOSE k \in Kinds["attentive"] : TRUE])
    /\ Adm("apart")!Init
    /\ IF scene = "liberal" THEN Xch("liberal")!Init ELSE Xch("strict")!Init
    /\ scene \in {"strict", "liberal"} \/ chunked
    /\ Sup("watched")!Init

HttpRest == UNCHANGED <<scene, admitvars, wsgivars, supervars>>
AdmitRest == UNCHANGED <<scene, httpvars, wsgivars, supervars>>
WsgiRest == UNCHANGED <<scene, httpvars, admitvars, supervars>>
SuperRest == UNCHANGED <<scene, httpvars, admitvars, wsgivars>>

AttentiveRuns == scene = "attentive" /\ Htp("attentive")!Next /\ HttpRest
CarelessRuns == scene = "careless" /\ Htp("careless")!Next /\ HttpRest
ApartRuns == scene = "apart" /\ Adm("apart")!Next /\ AdmitRest
CrowdedRuns == scene = "crowded" /\ Adm("crowded")!Next /\ AdmitRest
StrictRuns == scene = "strict" /\ Xch("strict")!Next /\ WsgiRest
LiberalRuns == scene = "liberal" /\ Xch("liberal")!Next /\ WsgiRest
WatchedRuns == scene = "watched" /\ Sup("watched")!Next /\ SuperRest
OvertakenRuns == scene = "overtaken" /\ Sup("overtaken")!Next /\ SuperRest
MNext ==
    \/ AttentiveRuns \/ CarelessRuns \/ ApartRuns \/ CrowdedRuns
    \/ StrictRuns \/ LiberalRuns \/ WatchedRuns \/ OvertakenRuns

\* The loops and threads run what is ready, applications and children go on.
MFairness ==
    /\ WF_httpvars(scene = "attentive" /\ Htp("attentive")!data_received)
    /\ WF_httpvars(scene = "attentive" /\ Htp("attentive")!connection_lost)
    /\ WF_httpvars(scene = "attentive" /\ Htp("attentive")!resume_writing)
    /\ \A r \in 1..Pipelined : /\ WF_httpvars(scene = "attentive" /\ Htp("attentive")!AppStep(r))
                       /\ WF_httpvars(scene = "attentive" /\ Htp("attentive")!Cancelled(r))
    /\ WF_admitvars(scene = "apart" /\ Adm("apart")!Next)
    /\ WF_wsgivars(scene = "strict" /\ Xch("strict")!Feeds)
    /\ WF_wsgivars(scene = "strict" /\ Xch("strict")!Thread)
    /\ WF_wsgivars(scene = "strict" /\ Xch("strict")!Handles)
    /\ WF_supervars(scene = "watched" /\ Sup("watched")!Watches)
    /\ WF_supervars(scene = "watched" /\ Sup("watched")!Imports)
    /\ WF_supervars(scene = "watched" /\ Sup("watched")!Supervises)

MSpec == MInit /\ [][MNext]_mvars
MFairSpec == MSpec /\ MFairness

-----------------------------------------------------------------------------

\* Http11Protocol: one application at a time serves the connection and is given
\* its own body; responses come in the order of the requests and are begun once;
\* the parser keeps pipelined requests apart.  With an application that reads
\* what it is sent and completes what it begins, no response is begun inside
\* another, and reading is not paused with nobody to resume it.
HttpSound ==
    /\ scene = "attentive" =>
         /\ Htp("attentive")!TypeOK /\ Htp("attentive")!OwnBody /\ Htp("attentive")!InOrder
         /\ Htp("attentive")!NeverPending /\ Htp("attentive")!NotInterleaved /\ Htp("attentive")!PauseOwned
    /\ scene = "careless" =>
         Htp("careless")!TypeOK /\ Htp("careless")!OwnBody /\ Htp("careless")!InOrder /\ Htp("careless")!NeverPending

\* With such an application, every request is served unless the connection ends.
HttpAnswers == scene = "attentive" => Htp("attentive")!RequestsAnswered

\* The WSGI worker: the count of admitted connections is exact whatever the loops
\* do at once; the body an application reads is a prefix of what was sent, ended
\* early only by an abort.  A response to an application that keeps to PEP 3333
\* has one head, the last one accepted, and looks complete only if it is.
WsgiSound ==
    /\ scene = "apart" => Adm("apart")!TypeOK /\ Adm("apart")!CountExact /\ Adm("apart")!HolderRuns
    /\ scene = "crowded" => Adm("crowded")!TypeOK /\ Adm("crowded")!CountExact
    /\ scene = "strict" => Xch("strict")!TypeOK /\ Xch("strict")!BodyHonest /\ Xch("strict")!HeadOnce /\ Xch("strict")!CompleteHonest
    /\ scene = "liberal" => Xch("liberal")!TypeOK /\ Xch("liberal")!BodyHonest

\* Every admitted or refused connection ends, where no two handlers share a loop;
\* and an exchange ends, with its feeder and its thread, wherever the client, a
\* time-out or a cancellation cuts it.
WsgiReturns ==
    /\ scene = "apart" => Adm("apart")!AllLeave
    /\ scene = "strict" => Xch("strict")!AllEnd

\* The supervisor has one child at a time, leaves none behind, and ends only after
\* a signal.
SupervisorSound ==
    /\ scene = "watched" => Sup("watched")!TypeOK /\ Sup("watched")!ChildOwned
    /\ scene = "overtaken" => Sup("overtaken")!TypeOK /\ Sup("overtaken")!ChildOwned

\* A modification reaches the child, whenever it comes, and a signal ends the
\* supervisor.
SupervisorFollows == scene = "watched" => Sup("watched")!Reloads /\ Sup("watched")!Stops

\* A handler that awaits while it holds _sync_task_lock can go on.
HolderRuns == scene = "crowded" => Adm("crowded")!HolderRuns
=============================================================================
