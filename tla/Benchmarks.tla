----------------------------- MODULE Benchmarks -----------------------------
(***************************************************************************)
(* Benchmarks of one owner: tasks and models with versions, collections    *)
(* that pin versions, runs and the leaderboard (benchmarks.py), and the    *)
(* serial consumer of the runs (benchmark_worker.py).  The cells of a      *)
(* matrix are left out: a run that succeeded has them all.                 *)
(***************************************************************************)
EXTENDS Naturals, Sequences, FiniteSets, FiniteSetsExt

CONSTANTS
    Tasks, Models,    \* assets
    Collections,
    MaxVersions,      \* versions of an asset; which of them came first does not matter
    Configurations,   \* the sets of versions that collections are saved with
    MaxRuns,          \* bound on benchmark_runs
    RunsPerUser,      \* 3 in the code
    None

BenchmarksAssumption ==
    /\ Tasks \cap Models = {}
    /\ Configurations \subseteq SUBSET ((Tasks \cup Models) \X (1 .. MaxVersions))
    /\ {MaxVersions, MaxRuns, RunsPerUser} \subseteq Nat
    /\ None \notin Nat
    /\ None \notin [visibility : {"private", "public"},
                     config : SUBSET ((Tasks \cup Models) \X (1 .. MaxVersions))]

VARIABLES
    visibility,   \* benchmark_assets: "none", "private" or "public"
    collection,   \* benchmark_collections, or None
    runs,         \* benchmark_runs, oldest first
    saving,       \* a request of save_asset() that has read the asset
    starting,     \* requests of start_run() that have made their checks
    worker        \* the run of the worker, 0 if idle, or None if down

vars == <<visibility, collection, runs, saving, starting, worker>>

Assets == Tasks \cup Models

Versions == {v \in Assets \X (1 .. MaxVersions) : visibility[v[1]] # "none"}

AssetOf(v) == v[1]

Pinned(c) == collection[c].config

ActiveRuns == {k \in DOMAIN runs : runs[k].status \in {"queued", "running"}}

Run == [collection : Collections, config : SUBSET (Assets \X (1 .. MaxVersions)),
        status : {"queued", "running", "succeeded", "failed", "cancelled", "removed"}]

TypeOK ==
    /\ visibility \in [Assets -> {"none", "private", "public"}]
    /\ \A c \in Collections : collection[c] # None =>
           collection[c] \in [visibility : {"private", "public"}, config : SUBSET Versions]
    /\ Len(runs) <= MaxRuns /\ \A k \in DOMAIN runs : runs[k] \in Run
    /\ saving = None \/ saving \in [asset : Assets, seen : {"private", "public"},
                                  wanted : {"private", "public"}]
    /\ starting \subseteq Collections
    /\ worker = None \/ worker \in 0 .. MaxRuns

Init ==
    /\ visibility = [a \in Assets |-> "none"]
    /\ collection = [c \in Collections |-> None]
    /\ runs = <<>>
    /\ saving = None
    /\ starting = {}
    /\ worker = 0

-----------------------------------------------------------------------------
(* Tasks, models and collections.                                          *)

\* save_asset() of create_asset()
CreateAsset(a, wanted) ==
    /\ visibility[a] = "none"
    /\ visibility' = [visibility EXCEPT ![a] = wanted]
    /\ UNCHANGED <<collection, runs, saving, starting, worker>>

\* save_asset() of update_asset() reads the row without a lock: what is public stays public.
SaveAsset(a, wanted) ==
    /\ saving = None
    /\ visibility[a] # "none"
    /\ visibility[a] = "public" => wanted = "public"
    /\ saving' = [asset |-> a, seen |-> visibility[a], wanted |-> wanted]
    /\ UNCHANGED <<visibility, collection, runs, starting, worker>>

\* Another request of save_asset(), which publishes the asset.
PublishAsset(a) ==
    /\ visibility[a] = "private"
    /\ visibility' = [visibility EXCEPT ![a] = "public"]
    /\ UNCHANGED <<collection, runs, saving, starting, worker>>

\* Mutant: every column is written, as it was asked for.
StoreAssetWhole ==
    /\ saving # None
    /\ visibility' = [visibility EXCEPT ![saving.asset] = saving.wanted]
    /\ saving' = None
    /\ UNCHANGED <<collection, runs, starting, worker>>

\* The flush writes the columns that differ from what was read.
StoreAsset ==
    /\ saving # None
    /\ visibility' = [visibility EXCEPT ![saving.asset] =
           IF saving.wanted = saving.seen THEN @ ELSE saving.wanted]
    /\ saving' = None
    /\ UNCHANGED <<collection, runs, starting, worker>>

\* validate_versions(): one version of each asset, and public ones in public benchmarks.
Valid(config, public) ==
    /\ \A v, w \in config : AssetOf(v) = AssetOf(w) => v = w
    /\ public => \A v \in config : visibility[AssetOf(v)] = "public"

\* save_collection(); update_collection() locks the row.
SaveCollection(c, config, wanted) ==
    /\ c \notin starting
    /\ config \subseteq Versions
    /\ Valid(config, wanted = "public")
    /\ collection' = [collection EXCEPT ![c] = [visibility |-> wanted, config |-> config]]
    /\ UNCHANGED <<visibility, runs, saving, starting, worker>>

\* remove_work() of a benchmark collection
DeleteCollection(c) ==
    /\ collection[c] # None
    /\ c \notin starting
    /\ \A k \in ActiveRuns : runs[k].collection # c
    /\ collection' = [collection EXCEPT ![c] = None]
    /\ runs' = [k \in DOMAIN runs |->
           IF runs[k].collection = c THEN [runs[k] EXCEPT !.status = "removed"] ELSE runs[k]]
    /\ UNCHANGED <<visibility, saving, starting, worker>>

-----------------------------------------------------------------------------
(* Runs.                                                                   *)

Startable(c) ==
    /\ collection[c] # None
    /\ \A k \in ActiveRuns : runs[k].collection # c
    /\ \A kind \in {Tasks, Models} : \E v \in Pinned(c) : AssetOf(v) \in kind
    /\ Cardinality(ActiveRuns) < RunsPerUser
    /\ Len(runs) + Cardinality(starting) < MaxRuns

\* start_run() locks the collection, then the user, and keeps both until it commits.
StartCheck(c) ==
    /\ starting = {}
    /\ Startable(c)
    /\ starting' = starting \cup {c}
    /\ UNCHANGED <<visibility, collection, runs, saving, worker>>

StartCommit(c) ==
    /\ c \in starting
    /\ runs' = Append(runs, [collection |-> c, config |-> Pinned(c), status |-> "queued"])
    /\ starting' = starting \ {c}
    /\ UNCHANGED <<visibility, collection, saving, worker>>

CancelRun(k) ==
    /\ k \in ActiveRuns
    /\ runs' = [runs EXCEPT ![k].status = "cancelled"]
    /\ UNCHANGED <<visibility, collection, saving, starting, worker>>

-----------------------------------------------------------------------------
(* The worker.                                                             *)

Claim ==
    \E k \in DOMAIN runs :
        /\ worker = 0
        /\ runs[k].status = "queued"
        /\ \A j \in 1 .. k - 1 : runs[j].status # "queued"
        /\ runs' = [runs EXCEPT ![k].status = "running"]
        /\ worker' = k
        /\ UNCHANGED <<visibility, collection, saving, starting>>

Working == worker \notin {0, None}

\* finish(), or the handler of an error, a timeout or a cancelled Job: each leaves a row
\* that is no longer running as it is.
Finish(status) ==
    /\ Working
    /\ runs' = [runs EXCEPT ![worker].status = IF @ = "running" THEN status ELSE @]
    /\ worker' = 0
    /\ UNCHANGED <<visibility, collection, saving, starting>>

Crash ==
    /\ worker # None
    /\ worker' = None
    /\ UNCHANGED <<visibility, collection, runs, saving, starting>>

\* Mutant: the worker starts without recover().
RestartUnrecovered ==
    /\ worker = None
    /\ worker' = 0
    /\ UNCHANGED <<visibility, collection, runs, saving, starting>>

\* recover()
Restart ==
    /\ worker = None
    /\ runs' = [k \in DOMAIN runs |->
           IF runs[k].status = "running" THEN [runs[k] EXCEPT !.status = "failed"] ELSE runs[k]]
    /\ worker' = 0
    /\ UNCHANGED <<visibility, collection, saving, starting>>

-----------------------------------------------------------------------------
Editing ==
    \/ \E a \in Assets, wanted \in {"private", "public"} :
           CreateAsset(a, wanted) \/ SaveAsset(a, wanted)
    \/ \E a \in Assets : PublishAsset(a)
    \/ StoreAsset
    \/ \E c \in Collections, config \in Configurations, wanted \in {"private", "public"} :
           SaveCollection(c, config, wanted)
    \/ \E c \in Collections : DeleteCollection(c)

Next ==
    \/ Editing
    \/ \E c \in Collections : StartCheck(c) \/ StartCommit(c)
    \/ \E k \in DOMAIN runs : CancelRun(k)
    \/ Claim \/ Finish("succeeded") \/ Finish("failed") \/ Crash \/ Restart

\* A claimed run ends or dies with the worker (300 seconds), which is started again; it
\* does not die for ever before its next claim.
Fairness ==
    /\ SF_vars(Claim)
    /\ WF_vars(Finish("succeeded") \/ Finish("failed"))
    /\ WF_vars(Restart)

Spec == Init /\ [][Next]_vars

FairSpec == Spec /\ Fairness

-----------------------------------------------------------------------------
(* What readers see.                                                       *)

\* leaderboard() and collections(): runs of the fingerprint the collection has now.
Evaluated(c) ==
    {k \in DOMAIN runs : /\ runs[k].collection = c
                         /\ runs[k].status = "succeeded"
                         /\ runs[k].config = Pinned(c)}

\* rank_run() of the latest one
Board(c) == IF Evaluated(c) = {} THEN {} ELSE runs[Max(Evaluated(c))].config

-----------------------------------------------------------------------------
(* Properties                                                              *)

\* Publishing a collection, whatever it pinned when it was evaluated before, never shows
\* a task or a model that is private: a board of public work has public rows only,
\* though the board itself is not checked when it is read.
BoardHidesPrivate ==
    \A c \in Collections :
        collection[c] # None /\ collection[c].visibility = "public" =>
            \A v \in Board(c) : visibility[AssetOf(v)] = "public"

\* However requests overlap, a user has at most three active runs, and a collection one;
\* an active run still has its collection.
ActiveLimit ==
    /\ Cardinality(ActiveRuns) <= RunsPerUser
    /\ \A j, k \in ActiveRuns : runs[j].collection = runs[k].collection => j = k
    /\ \A k \in ActiveRuns : collection[runs[k].collection] # None

\* Every queued run ends, also when the worker dies with it and starts again.
RunsEnd == \A k \in 1 .. MaxRuns : [](k \in ActiveRuns => <>(k \notin ActiveRuns))

\* Runs are started within the limit, and end.
RunsServed == [](TypeOK /\ ActiveLimit) /\ RunsEnd
=============================================================================
