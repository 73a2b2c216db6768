----------------------------- MODULE MCServices -----------------------------
(***************************************************************************)
(* Three parts that share no rows, checked side by side: a course and its  *)
(* learner (Learn), benchmarks and their worker (Benchmarks), and the      *)
(* start of the API (Startup).  Each behaviour follows one of them, and    *)
(* the others keep their initial state.                                    *)
(***************************************************************************)
EXTENDS Learn

CONSTANTS
    task, model, Tasks, Models, Collections, MaxVersions, Configurations, MaxRuns, RunsPerUser,
    Columns, MaxCrashes

VARIABLES
    focus,
    visibility, collection, runs, saving, starting, consumer,
    backend, legacy, pc, db, removed, crashes

benchmark == <<visibility, collection, runs, saving, starting, consumer>>
api == <<backend, legacy, pc, db, removed, crashes>>

\* A collection is empty, or evaluates the model on a version of the task.
MCConfigurations == {{}} \cup {{<<task, n>>, <<model, 1>>} : n \in 1 .. MaxVersions}

B == INSTANCE Benchmarks WITH worker <- consumer
S == INSTANCE Startup

ASSUME ServicesAssumption == B!BenchmarksAssumption /\ S!StartupAssumption

MCInit ==
    /\ focus \in {"learn", "benchmarks", "startup"} /\ Init /\ B!Init /\ S!Init
    /\ focus # "startup" => legacy /\ backend = "sqlite"

MCNext ==
    \/ focus = "learn" /\ Next /\ UNCHANGED <<focus, benchmark, api>>
    \/ focus = "benchmarks" /\ B!Next /\ UNCHANGED <<focus, vars, api>>
    \/ focus = "startup" /\ S!Next /\ UNCHANGED <<focus, vars, benchmark>>

\* The fairness of the three specifications, where each is followed
Fairness ==
    /\ WF_vars(focus = "learn" /\ VisitRead)
    /\ WF_vars(focus = "learn" /\ VisitCommit)
    /\ SF_benchmark(focus = "benchmarks" /\ B!Claim)
    /\ WF_benchmark(focus = "benchmarks" /\ (B!Finish("succeeded") \/ B!Finish("failed")))
    /\ WF_benchmark(focus = "benchmarks" /\ B!Restart)
    /\ WF_api(focus = "startup" /\ S!StartStep)

MCSpec == MCInit /\ [][MCNext]_<<focus, vars, benchmark, api>> /\ Fairness

-----------------------------------------------------------------------------
\* A board of public work shows no task and no model that is private (benchmarks.py).
BoardHidesPrivate == B!BoardHidesPrivate

\* Benchmark runs are started within the limit, and end, also when the worker dies with
\* one and starts again (benchmark_worker.py).
RunsServed == B!RunsServed

\* Everything of an earlier release, and what a start makes, is there once (migrations.py,
\* seed.py, learn_content.py, practice_competitions.py).
MadeOnce == S!MadeOnce

\* A start that was interrupted is completed by a later one, unless it is stuck.
StartsEnd == focus = "startup" => S!StartsEnd
=============================================================================
