------------------------------ MODULE Lifespan ------------------------------
(***************************************************************************)
(* The LifespanManager of _lifespan.py: startup() and shutdown(), called   *)
(* by several tasks of one loop under an asyncio.Lock, against an          *)
(* application that answers in time or late, fails, returns, or ignores    *)
(* its cancellation for a while.  The code between two awaits is one step; *)
(* whoever waits for the lock has not begun.                               *)
(***************************************************************************)

CONSTANTS
    Callers,    \* tasks that call startup() and shutdown()
    Mode        \* the lifespan option: "off", "auto" or "on"

Nobody == "nobody"

\* What the constants are.
LifespanParams == Nobody \notin Callers /\ Mode \in {"off", "auto", "on"}

VARIABLES
    state,
    lock,       \* the caller inside _lock
    pc,         \* where it waits: "starting" or "stopping" for the application,
                \* "failing" or "reaping" for the end of the runner
    runner,     \* _lifespan_task: "none", "running" or "done"
    asked,      \* cancel() was called on it
    sent,       \* _startup_sent
    status,     \* what _startup_status says
    started, stopped, trigger     \* the three events

vars == <<state, lock, pc, runner, asked, sent, status, started, stopped, trigger>>
app == <<runner, sent, status, started, stopped>>

TypeOK ==
    /\ state \in {"UNINITIALIZED", "STARTING", "RUNNING", "STOPPING", "STOPPED", "FAILED"}
    /\ lock \in Callers \cup {Nobody}
    /\ pc \in {"idle", "starting", "failing", "stopping", "reaping"}
    /\ runner \in {"none", "running", "done"}
    /\ status \subseteq {"complete", "failed", "unsupported", "exception"}
    /\ asked \in BOOLEAN /\ sent \in BOOLEAN
    /\ started \in BOOLEAN /\ stopped \in BOOLEAN /\ trigger \in BOOLEAN

Init ==
    /\ state = "UNINITIALIZED" /\ lock = Nobody /\ pc = "idle"
    /\ runner = "none" /\ asked = FALSE /\ sent = FALSE /\ status = {}
    /\ started = FALSE /\ stopped = FALSE /\ trigger = FALSE

Wait(c, where) == lock' = c /\ pc' = where
Return == lock' = Nobody /\ pc' = "idle"

-----------------------------------------------------------------------------
(* startup *)

\* Only the first call does anything.
startup(c) ==
    /\ lock = Nobody /\ state = "UNINITIALIZED"
    /\ \/ /\ Mode = "off"
          /\ state' = "RUNNING"
          /\ UNCHANGED <<lock, pc, runner>>
       \/ /\ Mode # "off"
          /\ state' = "STARTING" /\ runner' = "running"
          /\ Wait(c, "starting")
    /\ UNCHANGED <<asked, sent, status, started, stopped, trigger>>

\* wait_for gives up, perhaps at the moment the event is set: the runner is
\* cancelled and waited for.
StartupTimeout ==
    /\ pc = "starting"
    /\ state' = "FAILED"
    /\ IF runner = "done" THEN Return /\ UNCHANGED asked
       ELSE asked' = TRUE /\ pc' = "failing" /\ UNCHANGED lock
    /\ UNCHANGED <<app, trigger>>

\* Mutant of Verdict: a startup that failed is not looked at.
VerdictHasty ==
    CASE "unsupported" \in status -> IF Mode = "on" THEN "FAILED" ELSE "RUNNING"
      [] OTHER -> "RUNNING"

\* What startup() makes of the application's answer.
Verdict ==
    CASE "unsupported" \in status -> IF Mode = "on" THEN "FAILED" ELSE "RUNNING"
      [] "unsupported" \notin status /\ "failed" \in status -> "FAILED"
      [] status \cap {"unsupported", "failed"} = {} /\ "exception" \in status ->
           IF Mode = "on" \/ sent THEN "FAILED" ELSE "RUNNING"
      [] status \cap {"unsupported", "failed", "exception"} = {} -> "RUNNING"

\* The application answered.  A runner that raised is over, so there is
\* nothing to reap.
StartupReturn ==
    /\ pc = "starting" /\ started
    /\ state' = Verdict
    /\ Return
    /\ UNCHANGED <<app, asked, trigger>>

-----------------------------------------------------------------------------
(* shutdown *)

shutdown(c) ==
    /\ lock = Nobody /\ state = "RUNNING"
    /\ \/ /\ Mode = "off" \/ runner = "none"
          /\ state' = "STOPPED"
          /\ UNCHANGED <<lock, pc, trigger>>
       \/ /\ Mode # "off" /\ runner # "none"
          /\ state' = "STOPPING" /\ trigger' = TRUE
          /\ Wait(c, "stopping")
    /\ UNCHANGED <<app, asked>>

\* Mutant of ShutdownGoesOn: the runner is waited for without being cancelled.
ShutdownWaits ==
    /\ pc = "stopping"
    /\ \/ /\ runner = "done"
          /\ state' = "STOPPED" /\ Return
       \/ /\ runner # "done"
          /\ pc' = "reaping"
          /\ UNCHANGED <<state, lock>>
    /\ UNCHANGED <<app, asked, trigger>>

\* The application answered, or the time is up: a runner that is still there
\* is cancelled and waited for.
ShutdownGoesOn ==
    /\ pc = "stopping"
    /\ \/ /\ runner = "done"
          /\ state' = "STOPPED" /\ Return
          /\ UNCHANGED asked
       \/ /\ runner # "done"
          /\ asked' = TRUE /\ pc' = "reaping"
          /\ UNCHANGED <<state, lock>>
    /\ UNCHANGED <<app, trigger>>

\* await self._lifespan_task returns: the runner is over.
Reaped ==
    /\ pc \in {"failing", "reaping"} /\ runner = "done"
    /\ state' = IF pc = "reaping" THEN "STOPPED" ELSE state
    /\ Return
    /\ UNCHANGED <<app, asked, trigger>>

\* The caller is cancelled.  Waiting for the application it leaves at once;
\* waiting for the runner it cancels the runner again, and goes on waiting.
CancelCaller ==
    /\ pc # "idle"
    /\ IF pc \in {"starting", "stopping"}
       THEN Return /\ UNCHANGED asked
       ELSE asked' = TRUE /\ UNCHANGED <<lock, pc>>
    /\ UNCHANGED <<state, app, trigger>>

-----------------------------------------------------------------------------
(* The application in its runner *)

\* receive(): first the startup message, then nothing until the trigger.
Receive ==
    /\ runner = "running" /\ ~sent
    /\ sent' = TRUE
    /\ UNCHANGED <<state, lock, pc, runner, asked, status, started, stopped, trigger>>

\* send(), in any order an application may choose.
Send ==
    /\ runner = "running"
    /\ \/ /\ \E m \in {"complete", "failed"} : status' = status \cup {m}
          /\ started' = TRUE
          /\ UNCHANGED stopped
       \/ stopped' = TRUE /\ UNCHANGED <<status, started>>
    /\ UNCHANGED <<state, lock, pc, runner, asked, sent, trigger>>

\* The application returns, raises, or gives in to its cancellation; whoever
\* waits for an answer that did not come gets this one.
RunnerEnds ==
    /\ runner = "running" /\ runner' = "done"
    /\ \E answer \in {"unsupported", "exception", "failed"} :
         status' = IF started THEN status ELSE status \cup {answer}
    /\ started' = TRUE /\ stopped' = TRUE
    /\ UNCHANGED <<state, lock, pc, asked, sent, trigger>>

Next ==
    \/ \E c \in Callers : startup(c) \/ shutdown(c)
    \/ StartupTimeout \/ StartupReturn \/ ShutdownGoesOn \/ Reaped \/ CancelCaller
    \/ Receive \/ Send \/ RunnerEnds

Spec == Init /\ [][Next]_vars

-----------------------------------------------------------------------------
(* Properties *)

\* The manager runs only with an application that completed its startup, or,
\* in "auto", with one that ended without taking part in the protocol.
StartupHonest ==
    state \in {"RUNNING", "STOPPING", "STOPPED"} /\ Mode # "off" =>
        \/ "complete" \in status
        \/ Mode = "auto" /\ runner = "done"

\* A manager that has stopped has left no runner behind, and one that failed has
\* left one only if the application had reported startup.failed, the path that
\* raises without cancelling the runner.
NoOrphan ==
    /\ state = "STOPPED" => runner # "running"
    /\ state = "FAILED" /\ lock = Nobody /\ "failed" \notin status => runner # "running"

\* Every call returns.
CallsReturn == pc # "idle" ~> pc = "idle"

\* No runner is left without a manager that will stop it.  Fails, see the
\* README: a cancelled startup(), and one that failed, leave it running.
RunnerManaged == runner = "running" /\ lock = Nobody => state = "RUNNING"
=============================================================================
