----------------------------- MODULE Supervisor -----------------------------
(***************************************************************************)
(* The reloading supervisor of cli.py: _run_supervisor starts a watcher    *)
(* thread and a child process, waits for a modification, a crash or a      *)
(* signal, and replaces or ends the child, by SIGINT and after five        *)
(* seconds by SIGKILL.  The sources are a version number; a scan and an    *)
(* import see one version.                                                 *)
(***************************************************************************)
EXTENDS Naturals

CONSTANTS
    MaxEdits,    \* bound: modifications of the sources
    MaxCrashes,  \* bound: children that end on their own
    ScanFirst    \* the watcher's first scan is over before the child imports

SupervisorParams == MaxEdits \in Nat /\ MaxCrashes \in Nat /\ ScanFirst \in BOOLEAN

VARIABLES
    code,            \* the version of the sources
    child, loaded,   \* "none", "starting", "running" or "dead"; what it imported
    crashes,
    watcher,         \* "none", "scan" (for the first time), "poll", "debounce", "over"
    seen,            \* the mtimes it compares with
    reload, stop,    \* reload_event, stop_supervisor
    sup              \* "top" of the loop, "spawn", "wait", "crashed", "decide",
                     \* "replacing" or "ending" the child, "over"

vars == <<code, child, loaded, crashes, watcher, seen, reload, stop, sup>>
childvars == <<child, loaded, crashes>>
watchvars == <<watcher, seen, reload>>

Versions == 0..MaxEdits

TypeOK ==
    /\ {code, loaded, seen} \subseteq Versions /\ crashes \in 0..MaxCrashes
    /\ child \in {"none", "starting", "running", "dead"}
    /\ watcher \in {"none", "scan", "poll", "debounce", "over"}
    /\ sup \in {"top", "spawn", "wait", "crashed", "decide", "replacing", "ending", "over"}

Init ==
    /\ code = 0 /\ child = "none" /\ loaded = 0 /\ crashes = 0
    /\ watcher = "none" /\ seen = 0 /\ reload = FALSE /\ stop = FALSE /\ sup = "top"

Alive == child \in {"starting", "running"}

Edit ==
    /\ code < MaxEdits /\ code' = code + 1
    /\ UNCHANGED <<childvars, watchvars, stop, sup>>

\* _handle_signal
Signal == ~stop /\ stop' = TRUE /\ UNCHANGED <<code, childvars, watchvars, sup>>

-----------------------------------------------------------------------------
(* _watch_files_thread; the events of an earlier round are out of its reach *)

FirstScan ==
    /\ watcher = "scan"
    /\ watcher' = "poll" /\ seen' = code
    /\ UNCHANGED <<code, childvars, reload, stop, sup>>

Poll ==
    /\ watcher = "poll" /\ seen # code
    /\ watcher' = "debounce" /\ seen' = code
    /\ UNCHANGED <<code, childvars, reload, stop, sup>>

\* Mutant of Debounce: it goes back to polling without a reload.
DebounceForgets ==
    /\ watcher = "debounce"
    /\ IF seen = code THEN watcher' = "poll" /\ UNCHANGED <<seen, reload>>
       ELSE seen' = code /\ UNCHANGED <<watcher, reload>>
    /\ UNCHANGED <<code, childvars, stop, sup>>

\* A quiet period ends the wait for further modifications.
Debounce ==
    /\ watcher = "debounce"
    /\ IF seen = code THEN watcher' = "over" /\ reload' = TRUE /\ UNCHANGED seen
       ELSE seen' = code /\ UNCHANGED <<watcher, reload>>
    /\ UNCHANGED <<code, childvars, stop, sup>>

-----------------------------------------------------------------------------
(* The child process *)

Imports ==
    /\ child = "starting" /\ (ScanFirst => watcher # "scan")
    /\ child' = "running" /\ loaded' = code
    /\ UNCHANGED <<code, crashes, watchvars, stop, sup>>

\* It ends on its own, by a faulty version or otherwise.
Crashes ==
    /\ Alive /\ crashes < MaxCrashes /\ (ScanFirst => watcher # "scan")
    /\ child' = "dead" /\ crashes' = crashes + 1 /\ loaded' = code
    /\ UNCHANGED <<code, watchvars, stop, sup>>

-----------------------------------------------------------------------------
(* _run_supervisor *)

Goto(where) == sup' = where /\ UNCHANGED <<code, stop>>

Top ==
    /\ sup = "top"
    /\ \/ stop /\ Goto("over") /\ UNCHANGED watchvars
       \/ ~stop /\ Goto("spawn") /\ watcher' = "scan" /\ reload' = FALSE /\ UNCHANGED seen
    /\ UNCHANGED childvars

Spawn ==
    /\ sup = "spawn" /\ Goto("wait")
    /\ child' = "starting" /\ UNCHANGED <<loaded, crashes, watchvars>>

\* child_proc.wait() with a time-out, again and again.
Wait ==
    /\ sup = "wait"
    /\ \/ (stop \/ reload) /\ Goto("decide")
       \/ child = "dead" /\ ~stop /\ Goto("crashed")
       \/ child = "dead" /\ stop /\ Goto("decide")
    /\ UNCHANGED <<childvars, watchvars>>

Crashed ==
    /\ sup = "crashed" /\ (stop \/ reload) /\ Goto("decide")
    /\ UNCHANGED <<childvars, watchvars>>

\* Mutant of Decide: after a signal the child is left alone.
DecideCarelessly ==
    /\ sup = "decide" /\ watcher' = "over"
    /\ IF ~stop /\ Alive THEN Goto("replacing") ELSE IF stop THEN Goto("over") ELSE Goto("top")
    /\ UNCHANGED <<childvars, seen, reload>>

\* The watcher is stopped; a living child gets SIGINT.
Decide ==
    /\ sup = "decide" /\ watcher' = "over"
    /\ \/ reload /\ ~stop /\ Goto(IF Alive THEN "replacing" ELSE "top")
       \/ stop /\ Goto(IF Alive THEN "ending" ELSE "over")
    /\ UNCHANGED <<childvars, seen, reload>>

\* The child ends in time, or is killed, and is waited for.
Reap ==
    /\ sup \in {"replacing", "ending"}
    /\ Goto(IF sup = "replacing" THEN "top" ELSE "over")
    /\ child' = "dead" /\ UNCHANGED <<loaded, crashes, watchvars>>

Supervises == Top \/ Spawn \/ Wait \/ Crashed \/ Decide \/ Reap
Watches == FirstScan \/ Poll \/ Debounce

Next == Edit \/ Signal \/ Watches \/ Imports \/ Crashes \/ Supervises

Spec == Init /\ [][Next]_vars

-----------------------------------------------------------------------------
(* Properties *)

\* A child is started only when the last one is dead, the supervisor returns only
\* after a signal and without leaving one behind, and a child that ended on its
\* own is not started again without a modification.
ChildOwned ==
    /\ sup \in {"top", "spawn", "over"} => ~Alive
    /\ sup = "over" => stop
    /\ sup = "crashed" => child = "dead"

\* A modification, whenever it comes, reaches a child that is running or has
\* failed with it, or the supervisor ends.
Reloads == []<>(sup = "over" \/ (loaded = code /\ child \in {"running", "dead"}))

\* After a signal the supervisor ends.
Stops == stop ~> sup = "over"
=============================================================================
