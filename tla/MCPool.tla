------------------------------- MODULE MCPool -------------------------------
(***************************************************************************)
(* A pool of two workers in three scenes, each of which submits some of    *)
(* the jobs and shuts the pool down in some of the ways: one job pinned    *)
(* and one on the shared queue ("main"), two jobs on the shared queue      *)
(* ("batch"), and two jobs pinned to one worker, the first of which blocks *)
(* its thread ("stuck").                                                   *)
(***************************************************************************)
EXTENDS Pool

CONSTANTS w1, w2, p1, b1, g1, g2,
          Scenes,   \* the scenes a behaviour may show
          Cast,     \* the jobs each submits
          Calls     \* the shutdowns each may see, a subset of Modes

TwoWorkers == {w1, w2}
AllJobs == {p1, b1, g1, g2}
ToFirst == [j \in AllJobs |-> IF j \in {p1, b1} THEN w1 ELSE NoWorker]
Blocker == {b1}
None == {}
AllModes == {"close", "abort", "again"}
EveryScene == {"main", "batch", "stuck"}
MainScene == {"main"}
SceneJobs ==
    [s \in EveryScene |-> CASE s = "main" -> {p1, g1} [] s = "batch" -> {g1, g2}
                            [] s = "stuck" -> {b1, p1}]
SceneCalls ==
    [s \in EveryScene |-> CASE s = "main" -> {"close", "abort"} [] s = "batch" -> {"close"}
                            [] s = "stuck" -> {"close", "again"}]
AbortOnly == [s \in EveryScene |-> {"abort"}]

VARIABLE scene
mvars == <<vars, scene>>

\* The step submits a job of the cast, or none, and shuts down as the scene does.
Directed ==
    /\ \A j \in Jobs \ Cast[scene] : spc'[j] = "new"
    /\ mode' \in {"none"} \cup Calls[scene]
    /\ closedEvent' => closedEvent \/ cpc' = "done" \/ "again" \in Calls[scene]

MInit == scene \in Scenes /\ Init
MNext == Next /\ Directed /\ UNCHANGED scene

MSpec == MInit /\ [][MNext]_mvars

-----------------------------------------------------------------------------

\* The state is well formed, and a job is queued in at most one place, and in
\* none once a worker has taken it, through batches and overflows.
PoolSound == TypeOK /\ NoDuplicateWork

\* A future tells what happened to its job: one that failed with
\* ThreadPoolClosedError never ran and never will (unless on a thread that a job
\* blocks for longer than close() waits), and when close() found the pool
\* drained, every accepted job has its own result.
OutcomesHonest == ClosedMeansNeverRan /\ GracefulDrain

\* A worker that sleeps beside a job pinned to it has been notified.
PinnedWakeKept == NoLostWakeup

\* When close() returns, every future that submit() gave out is completed, for
\* racing submissions and for threads that could not be joined as well.
CloseResolves == CloseResolvesAll
=============================================================================
