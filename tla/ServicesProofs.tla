------------------------------ MODULE ServicesProofs -------------------------
(***************************************************************************)
(* Theorems of Benchmarks, Learn, Startup. A board of public work shows    *)
(* nothing private: what a public collection pins is public, and what is   *)
(* being saved into one still is when it is stored.  Nobody starts more    *)
(* runs than the limit.  And attempts, progress rows and the certificate   *)
(* of a learner agree: the counter of an exercise is the number of the     *)
(* attempts that were counted.  A start makes nothing again that one which *)
(* was interrupted has made.                                               *)
(***************************************************************************)
EXTENDS MCServices, FiniteSetTheorems, WellFoundedInduction, TLAPS

(***************************************************************************)
(* Numbers.                                                                *)
(***************************************************************************)
\* A set of numbers up to m that is not empty has a greatest element.
LEMMA Bounded ==
  ASSUME NEW m \in Nat, NEW T, T \subseteq 1 .. m, T # {}
  PROVE  \E x \in T : \A y \in T : x >= y
<1> DEFINE U == {m - x : x \in T}
<1>1. U \subseteq Nat /\ U # {}
  <2>1. \A x \in T : x \in Int /\ m - x \in Nat
    OBVIOUS
  <2>2. PICK x \in T : TRUE
    OBVIOUS
  <2> QED
    BY <2>1, <2>2
<1>2. IsWellFoundedOn(OpToRel(<,Nat), Nat)
  BY NatLessThanWellFounded, Zenon
<1>3. \E u \in U : \A y \in U : ~ (<<y, u>> \in OpToRel(<,Nat))
  BY <1>1, <1>2, WFMin, Zenon
<1>4. \A x, y \in Nat : y < x => <<y, x>> \in OpToRel(<,Nat)
  BY DEF OpToRel
<1>5. PICK u \in U : \A y \in U : ~ (y < u)
  BY <1>1, <1>3, <1>4, Zenon
<1>6. PICK x \in T : u = m - x
  OBVIOUS
<1>7. \A y \in T : x >= y
  <2> HIDE <1>2, <1>3, <1>4
  <2> QED
    BY <1>5, <1>6
<1> QED
  BY <1>7

\* The instance counts as this module does.
LEMMA SameCardinality ==
  ASSUME NEW T
  PROVE  B!Cardinality(T) = Cardinality(T)
BY DEF B!Cardinality, Cardinality, IsFiniteSet, B!IsFiniteSet

(***************************************************************************)
(* Benchmarks: what is pinned, saved, started and evaluated.               *)
(***************************************************************************)
\* The types that B!TypeOK leaves open.
RunTypes ==
    /\ visibility \in [B!Assets -> {"none", "private", "public"}]
    /\ collection = [c \in Collections |-> collection[c]]
    /\ \A c \in Collections : collection[c] # None =>
           collection[c] \in [visibility : {"private", "public"}, config : SUBSET B!Versions]
    /\ runs \in Seq(B!Run) /\ Len(runs) <= MaxRuns
    /\ saving = None \/ saving \in [asset : B!Assets, seen : {"private", "public"},
                                    wanted : {"private", "public"}]
    /\ starting \subseteq Collections
    /\ consumer = None \/ consumer \in 0 .. MaxRuns

\* A request that saves an asset does not take back what it has read to be public.
SavesKeepPublic ==
    saving # None =>
        /\ saving.seen = "public" => saving.wanted = "public"
        /\ visibility[saving.asset] # "none"
        /\ saving.seen = "public" => visibility[saving.asset] = "public"

\* What a public collection pins is public.
PublicPins ==
    \A c \in Collections : collection[c] # None /\ collection[c].visibility = "public" =>
        \A v \in collection[c].config : visibility[v[1]] = "public"

\* A request that starts a run holds its collection and the user, and has found room.
StartsFit ==
    /\ \A c, d \in starting : c = d
    /\ \A c \in starting :
          /\ collection[c] # None /\ Len(runs) < MaxRuns
          /\ Cardinality(B!ActiveRuns) < RunsPerUser
          /\ \A k \in B!ActiveRuns : runs[k].collection # c

BenchmarksInv == RunTypes /\ SavesKeepPublic /\ PublicPins /\ StartsFit /\ B!ActiveLimit

\* Numbers, and a value that is none.
LEMMA BenchmarkNumbers == MaxVersions \in Nat /\ MaxRuns \in Nat /\ RunsPerUser \in Nat /\ None \notin Nat
BY ServicesAssumption DEF B!BenchmarksAssumption

\* A row is not none.
LEMMA RowIsThere ==
  ASSUME NEW r, r \in [visibility : {"private", "public"}, config : SUBSET B!Versions]
  PROVE  r # None
<1>1. B!Versions \subseteq (Tasks \cup Models) \X (1 .. MaxVersions)
  BY DEF B!Versions, B!Assets
<1>2. r \in [visibility : {"private", "public"},
              config : SUBSET ((Tasks \cup Models) \X (1 .. MaxVersions))]
  BY <1>1
<1> QED
  BY <1>2, ServicesAssumption DEF B!BenchmarksAssumption

\* Active runs are counted.
LEMMA RunsCounted ==
  ASSUME runs \in Seq(B!Run)
  PROVE  /\ B!ActiveRuns \subseteq 1 .. Len(runs) /\ IsFiniteSet(B!ActiveRuns)
         /\ Cardinality(B!ActiveRuns) \in Nat
<1>1. B!ActiveRuns \subseteq 1 .. Len(runs) /\ Len(runs) \in Nat
  BY DEF B!ActiveRuns
<1>2. IsFiniteSet(1 .. Len(runs))
  BY <1>1, FS_Interval
<1> QED
  BY <1>1, <1>2, FS_Subset, FS_CardinalityType

\* An active run is a run of a collection.
LEMMA ActiveRows ==
  ASSUME runs \in Seq(B!Run)
  PROVE  /\ \A k \in DOMAIN runs : runs[k] \in B!Run /\ runs[k].collection \in Collections
         /\ B!ActiveRuns \subseteq DOMAIN runs
<1>1. \A k \in DOMAIN runs : runs[k] \in B!Run
  OBVIOUS
<1> QED
  BY <1>1 DEF B!ActiveRuns, B!Run

\* A run that ends makes room.
LEMMA RunsEndWithin ==
  ASSUME runs \in Seq(B!Run), runs' \in Seq(B!Run), B!ActiveRuns' \subseteq B!ActiveRuns
  PROVE  /\ Cardinality(B!ActiveRuns') \in Nat
         /\ Cardinality(B!ActiveRuns') <= Cardinality(B!ActiveRuns)
<1>1. IsFiniteSet(B!ActiveRuns) /\ Cardinality(B!ActiveRuns) \in Nat
  BY RunsCounted
<1> QED
  BY <1>1, FS_Subset, FS_CardinalityType

\* Saving assets: what is public stays public, and there are no fewer versions.
LEMMA AssetSteps ==
  ASSUME BenchmarksInv, UNCHANGED <<collection, runs, starting, consumer>>,
         visibility' \in [B!Assets -> {"none", "private", "public"}],
         saving' = None \/ saving' \in [asset : B!Assets, seen : {"private", "public"},
                                       wanted : {"private", "public"}],
         \A a \in B!Assets : visibility[a] = "public" => visibility'[a] = "public",
         \A a \in B!Assets : visibility[a] # "none" => visibility'[a] # "none",
         SavesKeepPublic'
  PROVE  BenchmarksInv'
<1>1. RunTypes /\ SavesKeepPublic /\ PublicPins /\ StartsFit /\ B!ActiveLimit
  BY DEF BenchmarksInv
<1>2. B!Versions \subseteq B!Versions'
  BY DEF B!Versions, B!Assets
<1>3. B!ActiveRuns' = B!ActiveRuns
  BY DEF B!ActiveRuns
<1>4. RunTypes'
  BY <1>1, <1>2 DEF RunTypes
<1>5. PublicPins'
  <2>1. \A c \in Collections : collection[c] # None => collection[c].config \subseteq B!Versions
    BY <1>1 DEF RunTypes
  <2>2. \A v \in B!Versions : v[1] \in B!Assets
    BY DEF B!Versions
  <2> QED
    BY <1>1, <2>1, <2>2 DEF PublicPins
<1>6. StartsFit'
  BY <1>1, <1>3 DEF StartsFit
<1>7. B!ActiveLimit'
  BY <1>1, <1>3 DEF B!ActiveLimit
<1> QED
  BY <1>4, <1>5, <1>6, <1>7 DEF BenchmarksInv

LEMMA AssetsKept ==
  ASSUME BenchmarksInv,
         \/ \E a \in B!Assets, wanted \in {"private", "public"} :
               B!CreateAsset(a, wanted) \/ B!SaveAsset(a, wanted)
         \/ \E a \in B!Assets : B!PublishAsset(a)
         \/ B!StoreAsset
  PROVE  BenchmarksInv'
<1>1. RunTypes /\ SavesKeepPublic
  BY DEF BenchmarksInv
<1>2. ASSUME NEW a \in B!Assets, NEW wanted \in {"private", "public"}, B!CreateAsset(a, wanted)
      PROVE  BenchmarksInv'
  <2>1. /\ visibility[a] = "none" /\ visibility' = [visibility EXCEPT ![a] = wanted]
        /\ UNCHANGED <<collection, runs, saving, starting, consumer>>
    BY <1>2 DEF B!CreateAsset
  <2>2. SavesKeepPublic'
    BY <1>1, <2>1 DEF RunTypes, SavesKeepPublic
  <2> QED
    BY <1>1, <2>1, <2>2, AssetSteps DEF RunTypes
<1>3. ASSUME NEW a \in B!Assets, NEW wanted \in {"private", "public"}, B!SaveAsset(a, wanted)
      PROVE  BenchmarksInv'
  <2>1. /\ saving = None /\ visibility[a] # "none" /\ visibility' = visibility
        /\ visibility[a] = "public" => wanted = "public"
        /\ saving' = [asset |-> a, seen |-> visibility[a], wanted |-> wanted]
        /\ UNCHANGED <<collection, runs, starting, consumer>>
    BY <1>3 DEF B!SaveAsset
  <2>2. SavesKeepPublic'
    BY <1>1, <2>1 DEF RunTypes, SavesKeepPublic
  <2>3. visibility[a] \in {"private", "public"}
    BY <1>1, <2>1 DEF RunTypes
  <2>4. saving' \in [asset : B!Assets, seen : {"private", "public"}, wanted : {"private", "public"}]
    BY <2>1, <2>3
  <2> QED
    BY <1>1, <2>1, <2>2, <2>4, AssetSteps DEF RunTypes
<1>4. ASSUME NEW a \in B!Assets, B!PublishAsset(a) PROVE BenchmarksInv'
  <2>1. /\ visibility' = [visibility EXCEPT ![a] = "public"]
        /\ UNCHANGED <<collection, runs, saving, starting, consumer>>
    BY <1>4 DEF B!PublishAsset
  <2>2. SavesKeepPublic'
    BY <1>1, <2>1 DEF RunTypes, SavesKeepPublic
  <2> QED
    BY <1>1, <2>1, <2>2, AssetSteps DEF RunTypes
<1>5. ASSUME B!StoreAsset PROVE BenchmarksInv'
  <2>1. /\ saving # None /\ saving' = None /\ UNCHANGED <<collection, runs, starting, consumer>>
        /\ visibility' = [visibility EXCEPT ![saving.asset] =
              IF saving.wanted = saving.seen THEN visibility[saving.asset] ELSE saving.wanted]
    BY <1>5 DEF B!StoreAsset
  <2>2. /\ saving.asset \in B!Assets /\ saving.seen \in {"private", "public"}
        /\ saving.wanted \in {"private", "public"}
    BY <1>1, <2>1 DEF RunTypes
  <2>3. SavesKeepPublic'
    BY <2>1 DEF SavesKeepPublic
  <2>4. /\ saving.wanted = saving.seen => visibility' = visibility
        /\ saving.wanted # saving.seen => saving.wanted = "public"
    BY <1>1, <2>1, <2>2 DEF SavesKeepPublic, RunTypes
  <2> QED
    BY <1>1, <2>1, <2>2, <2>3, <2>4, AssetSteps DEF RunTypes
<1> QED
  BY <1>2, <1>3, <1>4, <1>5

\* Collections: a public one is saved with public versions, and none goes from under a
\* request that starts a run of it.
LEMMA CollectionSaves ==
  ASSUME BenchmarksInv, NEW c \in Collections, NEW config \in Configurations,
         NEW wanted \in {"private", "public"}, B!SaveCollection(c, config, wanted)
  PROVE  BenchmarksInv'
<1>1. RunTypes /\ SavesKeepPublic /\ PublicPins /\ StartsFit /\ B!ActiveLimit
  BY DEF BenchmarksInv
<1>2. /\ c \notin starting /\ config \subseteq B!Versions
      /\ wanted = "public" => \A v \in config : visibility[v[1]] = "public"
      /\ collection' = [collection EXCEPT ![c] = [visibility |-> wanted, config |-> config]]
      /\ UNCHANGED <<visibility, runs, saving, starting, consumer>>
  BY DEF B!SaveCollection, B!Valid, B!AssetOf
<1>3. /\ collection' = [d \in Collections |-> collection'[d]]
      /\ collection'[c] = [visibility |-> wanted, config |-> config]
      /\ \A d \in Collections \ {c} : collection'[d] = collection[d]
  BY <1>1, <1>2 DEF RunTypes
<1>4. B!ActiveRuns' = B!ActiveRuns /\ B!Versions' = B!Versions
  BY <1>2 DEF B!ActiveRuns, B!Versions
<1>5. collection'[c] \in [visibility : {"private", "public"}, config : SUBSET B!Versions]
  BY <1>2, <1>3
<1>6. RunTypes'
  BY <1>1, <1>2, <1>3, <1>4, <1>5 DEF RunTypes
<1>7. PublicPins'
  <2>1. ASSUME NEW d \in Collections, collection'[d] # None, collection'[d].visibility = "public",
               NEW v \in collection'[d].config
        PROVE  visibility'[v[1]] = "public"
    <3>1. CASE d = c
      BY <1>2, <1>3, <2>1, <3>1
    <3>2. CASE d # c
      BY <1>1, <1>2, <1>3, <2>1, <3>2 DEF PublicPins
    <3> QED
      BY <3>1, <3>2
  <2> QED
    BY <2>1 DEF PublicPins
<1>8. StartsFit'
  <2>1. \A d \in starting : collection'[d] = collection[d]
    BY <1>1, <1>2, <1>3 DEF RunTypes
  <2> QED
    BY <1>1, <1>2, <1>4, <2>1 DEF StartsFit
<1>9. B!ActiveLimit'
  <2>1. collection'[c] # None
    BY <1>5, RowIsThere
  <2> QED
    BY <1>1, <1>2, <1>3, <1>4, <2>1, ActiveRows DEF B!ActiveLimit, RunTypes
<1>10. SavesKeepPublic'
  BY <1>1, <1>2 DEF SavesKeepPublic
<1> QED
  BY <1>6, <1>7, <1>8, <1>9, <1>10 DEF BenchmarksInv

LEMMA CollectionGoes ==
  ASSUME BenchmarksInv, NEW c \in Collections, B!DeleteCollection(c)
  PROVE  BenchmarksInv'
<1>1. RunTypes /\ SavesKeepPublic /\ PublicPins /\ StartsFit /\ B!ActiveLimit /\ runs \in Seq(B!Run)
  BY DEF BenchmarksInv, RunTypes
<1>2. /\ c \notin starting /\ \A k \in B!ActiveRuns : runs[k].collection # c
      /\ collection' = [collection EXCEPT ![c] = None]
      /\ runs' = [k \in DOMAIN runs |->
             IF runs[k].collection = c THEN [runs[k] EXCEPT !.status = "removed"] ELSE runs[k]]
      /\ UNCHANGED <<visibility, saving, starting, consumer>>
  BY DEF B!DeleteCollection
<1>3. \A k \in DOMAIN runs :
         /\ runs'[k] \in B!Run /\ runs'[k].collection = runs[k].collection
         /\ runs[k].collection # c => runs'[k] = runs[k]
         /\ runs[k].collection = c => runs'[k].status = "removed"
  BY <1>1, <1>2, ActiveRows DEF B!Run
<1>4. DOMAIN runs' = DOMAIN runs /\ runs' \in Seq(B!Run) /\ Len(runs') = Len(runs)
  BY <1>1, <1>2, <1>3
<1>5. B!ActiveRuns' = B!ActiveRuns /\ B!Versions' = B!Versions
  BY <1>2, <1>3, <1>4 DEF B!ActiveRuns, B!Versions
<1>6. /\ collection' = [d \in Collections |-> collection'[d]]
      /\ collection'[c] = None
      /\ \A d \in Collections \ {c} : collection'[d] = collection[d]
  BY <1>1, <1>2 DEF RunTypes
<1>7. RunTypes'
  BY <1>1, <1>2, <1>4, <1>5, <1>6 DEF RunTypes
<1>8. PublicPins'
  BY <1>1, <1>2, <1>6 DEF PublicPins
<1>9. \A k \in B!ActiveRuns : runs'[k] = runs[k]
  BY <1>1, <1>2, <1>3, ActiveRows
<1>10. StartsFit'
  <2>1. \A d \in starting : collection'[d] = collection[d]
    BY <1>1, <1>2, <1>6 DEF RunTypes
  <2> QED
    BY <1>1, <1>2, <1>4, <1>5, <1>9, <2>1 DEF StartsFit
<1>11. B!ActiveLimit'
  BY <1>1, <1>2, <1>5, <1>6, <1>9, ActiveRows DEF B!ActiveLimit
<1>12. SavesKeepPublic'
  BY <1>1, <1>2 DEF SavesKeepPublic
<1> QED
  BY <1>7, <1>8, <1>10, <1>11, <1>12 DEF BenchmarksInv

(***************************************************************************)
(* Benchmarks: runs.                                                       *)
(***************************************************************************)
\* The status of a run is one of its fields.
LEMMA StatusWritten ==
  ASSUME NEW r \in B!Run,
         NEW t \in {"queued", "running", "succeeded", "failed", "cancelled", "removed"}
  PROVE  /\ [r EXCEPT !.status = t] \in B!Run
         /\ [r EXCEPT !.status = t].collection = r.collection
         /\ [r EXCEPT !.status = t].status = t
BY DEF B!Run

\* The status of runs changes; those that are not active stay so.
LEMMA RunsMove ==
  ASSUME BenchmarksInv, UNCHANGED <<visibility, collection, saving, starting>>,
         consumer' = None \/ consumer' \in 0 .. MaxRuns,
         runs' = [k \in DOMAIN runs |-> runs'[k]],
         \A k \in DOMAIN runs :
            \E t \in {"queued", "running", "succeeded", "failed", "cancelled", "removed"} :
               /\ runs'[k] = [runs[k] EXCEPT !.status = t]
               /\ t \in {"queued", "running"} => runs[k].status \in {"queued", "running"}
  PROVE  BenchmarksInv'
<1>1. RunTypes /\ SavesKeepPublic /\ PublicPins /\ StartsFit /\ B!ActiveLimit /\ runs \in Seq(B!Run)
  BY DEF BenchmarksInv, RunTypes
<1>2. \A k \in DOMAIN runs :
         /\ runs'[k] \in B!Run /\ runs'[k].collection = runs[k].collection
         /\ runs'[k].status \in {"queued", "running"} => runs[k].status \in {"queued", "running"}
  <2> SUFFICES ASSUME NEW k \in DOMAIN runs
               PROVE  /\ runs'[k] \in B!Run /\ runs'[k].collection = runs[k].collection
                      /\ runs'[k].status \in {"queued", "running"}
                            => runs[k].status \in {"queued", "running"}
    OBVIOUS
  <2>1. runs[k] \in B!Run
    BY <1>1, ActiveRows
  <2>2. PICK t \in {"queued", "running", "succeeded", "failed", "cancelled", "removed"} :
           /\ runs'[k] = [runs[k] EXCEPT !.status = t]
           /\ t \in {"queued", "running"} => runs[k].status \in {"queued", "running"}
    OBVIOUS
  <2>3. /\ [runs[k] EXCEPT !.status = t] \in B!Run
        /\ [runs[k] EXCEPT !.status = t].collection = runs[k].collection
        /\ [runs[k] EXCEPT !.status = t].status = t
    BY <2>1, StatusWritten
  <2> QED
    BY <2>2, <2>3, Zenon
<1>3. DOMAIN runs' = DOMAIN runs /\ runs' \in Seq(B!Run) /\ Len(runs') = Len(runs)
  BY <1>1, <1>2
<1>4. B!ActiveRuns' \subseteq B!ActiveRuns /\ B!Versions' = B!Versions
  BY <1>2, <1>3 DEF B!ActiveRuns, B!Versions
<1>5. \A k \in B!ActiveRuns' : k \in B!ActiveRuns /\ runs'[k].collection = runs[k].collection
  BY <1>1, <1>2, <1>4, ActiveRows
<1>6. /\ Cardinality(B!ActiveRuns') \in Nat
      /\ Cardinality(B!ActiveRuns') <= Cardinality(B!ActiveRuns)
      /\ Cardinality(B!ActiveRuns) \in Nat
  BY <1>1, <1>3, <1>4, RunsEndWithin, RunsCounted
<1>7. RunTypes'
  BY <1>1, <1>3, <1>4 DEF RunTypes
<1>8. StartsFit'
  <2>1. \A c \in starting : /\ collection[c] # None /\ Len(runs') < MaxRuns
                            /\ \A k \in B!ActiveRuns' : runs'[k].collection # c
    BY <1>1, <1>3, <1>5 DEF StartsFit
  <2>2. \A c \in starting : Cardinality(B!ActiveRuns') < RunsPerUser
    BY <1>1, <1>6, BenchmarkNumbers DEF StartsFit
  <2> QED
    BY <1>1, <2>1, <2>2 DEF StartsFit
<1>9. B!ActiveLimit'
  <2>1. Cardinality(B!ActiveRuns') <= RunsPerUser
    BY <1>1, <1>6, BenchmarkNumbers, SameCardinality DEF B!ActiveLimit
  <2> QED
    BY <1>1, <1>5, <2>1, SameCardinality DEF B!ActiveLimit
<1>10. SavesKeepPublic' /\ PublicPins'
  BY <1>1 DEF SavesKeepPublic, PublicPins
<1> QED
  BY <1>7, <1>8, <1>9, <1>10 DEF BenchmarksInv

\* A run of which only the status is written.
LEMMA OneRunMoves ==
  ASSUME BenchmarksInv, NEW i \in DOMAIN runs,
         NEW t \in {"queued", "running", "succeeded", "failed", "cancelled", "removed"},
         runs' = [runs EXCEPT ![i].status = t],
         t \in {"queued", "running"} => runs[i].status \in {"queued", "running"},
         UNCHANGED <<visibility, collection, saving, starting>>,
         consumer' = None \/ consumer' \in 0 .. MaxRuns
  PROVE  BenchmarksInv'
<1>1. runs \in Seq(B!Run) /\ \A k \in DOMAIN runs : runs[k] \in B!Run
  BY ActiveRows DEF BenchmarksInv, RunTypes
<1>2. runs' = [k \in DOMAIN runs |-> runs'[k]]
  BY <1>1
<1>3. runs'[i] = [runs[i] EXCEPT !.status = t]
  BY <1>1
<1>4. \A k \in DOMAIN runs \ {i} : runs'[k] = runs[k]
  BY <1>1
<1>5. \A k \in DOMAIN runs : runs[k] = [runs[k] EXCEPT !.status = runs[k].status]
  BY <1>1 DEF B!Run
<1>6. \A k \in DOMAIN runs :
         runs[k].status \in {"queued", "running", "succeeded", "failed", "cancelled", "removed"}
  BY <1>1 DEF B!Run
<1>7. ASSUME NEW k \in DOMAIN runs
      PROVE  \E u \in {"queued", "running", "succeeded", "failed", "cancelled", "removed"} :
               /\ runs'[k] = [runs[k] EXCEPT !.status = u]
               /\ u \in {"queued", "running"} => runs[k].status \in {"queued", "running"}
  <2>1. CASE k = i
    BY <1>3, <2>1
  <2>2. CASE k # i
    BY <1>4, <1>5, <1>6, <2>2
  <2> QED
    BY <2>1, <2>2
<1> QED
  BY <1>2, <1>7, RunsMove

\* All runs stay as they are.
LEMMA NoRunMoves ==
  ASSUME BenchmarksInv, UNCHANGED <<visibility, collection, runs, saving, starting>>,
         consumer' = None \/ consumer' \in 0 .. MaxRuns
  PROVE  BenchmarksInv'
<1>1. runs \in Seq(B!Run) /\ \A k \in DOMAIN runs : runs[k] \in B!Run
  BY ActiveRows DEF BenchmarksInv, RunTypes
<1>2. runs = [k \in DOMAIN runs |-> runs[k]]
  BY <1>1
<1>3. \A k \in DOMAIN runs : runs[k] = [runs[k] EXCEPT !.status = runs[k].status]
  BY <1>1 DEF B!Run
<1>4. \A k \in DOMAIN runs :
         runs[k].status \in {"queued", "running", "succeeded", "failed", "cancelled", "removed"}
  BY <1>1 DEF B!Run
<1> QED
  BY <1>2, <1>3, <1>4, RunsMove

\* A run is started: there is room, and its collection waits for it.
LEMMA RunStarts ==
  ASSUME BenchmarksInv, NEW c \in Collections, B!StartCommit(c)
  PROVE  BenchmarksInv'
<1> DEFINE r == [collection |-> c, config |-> collection[c].config, status |-> "queued"]
<1>1. RunTypes /\ SavesKeepPublic /\ PublicPins /\ StartsFit /\ B!ActiveLimit /\ runs \in Seq(B!Run)
  BY DEF BenchmarksInv, RunTypes
<1>2. /\ c \in starting /\ runs' = Append(runs, r) /\ starting' = starting \ {c}
      /\ UNCHANGED <<visibility, collection, saving, consumer>>
  BY DEF B!StartCommit, B!Pinned
<1>3. /\ collection[c] # None /\ Len(runs) < MaxRuns
      /\ Cardinality(B!ActiveRuns) < RunsPerUser
      /\ \A k \in B!ActiveRuns : runs[k].collection # c
      /\ starting' = {}
  BY <1>1, <1>2 DEF StartsFit
<1>4. r \in B!Run
  <2>1. collection[c].config \subseteq B!Assets \X (1 .. MaxVersions)
    BY <1>1, <1>3 DEF RunTypes, B!Versions
  <2> QED
    BY <2>1 DEF B!Run
<1>5. r.collection = c /\ r.status = "queued"
  OBVIOUS
<1> HIDE DEF r
<1>6. /\ DOMAIN runs' = DOMAIN runs \cup {Len(runs) + 1} /\ Len(runs) + 1 \notin DOMAIN runs
      /\ \A k \in DOMAIN runs : runs'[k] = runs[k]
      /\ runs'[Len(runs) + 1] = r
      /\ runs' \in Seq(B!Run) /\ Len(runs') = Len(runs) + 1 /\ Len(runs) \in Nat
  BY <1>1, <1>2, <1>4
<1>7. /\ B!ActiveRuns' = B!ActiveRuns \cup {Len(runs) + 1} /\ B!Versions' = B!Versions
      /\ Len(runs) + 1 \notin B!ActiveRuns
  BY <1>2, <1>5, <1>6 DEF B!ActiveRuns, B!Versions
<1>8. Cardinality(B!ActiveRuns') = Cardinality(B!ActiveRuns) + 1
      /\ Cardinality(B!ActiveRuns) \in Nat
  <2>1. IsFiniteSet(B!ActiveRuns) /\ Cardinality(B!ActiveRuns) \in Nat
    BY <1>1, RunsCounted
  <2> QED
    BY <1>7, <2>1, FS_AddElement
<1>9. RunTypes'
  BY <1>1, <1>2, <1>3, <1>6, <1>7, BenchmarkNumbers DEF RunTypes
<1>10. StartsFit'
  BY <1>3 DEF StartsFit
<1>11. B!ActiveLimit'
  <2>1. Cardinality(B!ActiveRuns') <= RunsPerUser
    BY <1>3, <1>8, BenchmarkNumbers
  <2>2. \A k \in B!ActiveRuns' :
           \/ k = Len(runs) + 1 /\ runs'[k].collection = c
           \/ k \in B!ActiveRuns /\ runs'[k].collection = runs[k].collection
              /\ runs[k].collection # c
    BY <1>1, <1>3, <1>5, <1>6, <1>7, ActiveRows
  <2>3. \A j, k \in B!ActiveRuns' : runs'[j].collection = runs'[k].collection => j = k
    BY <1>1, <2>2 DEF B!ActiveLimit
  <2>4. \A k \in B!ActiveRuns' : collection'[runs'[k].collection] # None
    BY <1>1, <1>2, <1>3, <2>2 DEF B!ActiveLimit
  <2> QED
    BY <2>1, <2>3, <2>4, SameCardinality DEF B!ActiveLimit
<1>12. SavesKeepPublic' /\ PublicPins'
  BY <1>1, <1>2 DEF SavesKeepPublic, PublicPins
<1> QED
  BY <1>9, <1>10, <1>11, <1>12 DEF BenchmarksInv

\* A request that starts a run has found that it may.
LEMMA RunIsChecked ==
  ASSUME BenchmarksInv, NEW c \in Collections, B!StartCheck(c)
  PROVE  BenchmarksInv'
<1>1. RunTypes /\ SavesKeepPublic /\ PublicPins /\ StartsFit /\ B!ActiveLimit /\ runs \in Seq(B!Run)
  BY DEF BenchmarksInv, RunTypes
<1>2. /\ starting = {} /\ starting' = {c}
      /\ collection[c] # None /\ \A k \in B!ActiveRuns : runs[k].collection # c
      /\ Cardinality(B!ActiveRuns) < RunsPerUser /\ Len(runs) + Cardinality(starting) < MaxRuns
      /\ UNCHANGED <<visibility, collection, runs, saving, consumer>>
  BY SameCardinality DEF B!StartCheck, B!Startable
<1>3. Len(runs) < MaxRuns
  BY <1>1, <1>2, FS_EmptySet
<1>4. B!ActiveRuns' = B!ActiveRuns /\ B!Versions' = B!Versions
  BY <1>2 DEF B!ActiveRuns, B!Versions
<1>5. RunTypes'
  BY <1>1, <1>2, <1>4 DEF RunTypes
<1>6. StartsFit'
  BY <1>2, <1>3, <1>4 DEF StartsFit
<1>7. B!ActiveLimit'
  BY <1>1, <1>2, <1>4 DEF B!ActiveLimit
<1>8. SavesKeepPublic' /\ PublicPins'
  BY <1>1, <1>2 DEF SavesKeepPublic, PublicPins
<1> QED
  BY <1>5, <1>6, <1>7, <1>8 DEF BenchmarksInv

\* The worker, its end and its start, and members who cancel.
LEMMA WorkerKeepsRuns ==
  ASSUME BenchmarksInv,
         \/ \E k \in DOMAIN runs : B!CancelRun(k)
         \/ B!Claim \/ B!Finish("succeeded") \/ B!Finish("failed") \/ B!Crash \/ B!Restart
  PROVE  BenchmarksInv'
<1>1. /\ runs \in Seq(B!Run) /\ Len(runs) <= MaxRuns
      /\ consumer = None \/ consumer \in 0 .. MaxRuns
      /\ \A k \in DOMAIN runs : runs[k] \in B!Run
      /\ DOMAIN runs \subseteq 0 .. MaxRuns
  BY ActiveRows, BenchmarkNumbers DEF BenchmarksInv, RunTypes
<1>2. 0 \in 0 .. MaxRuns
  BY BenchmarkNumbers
<1>3. ASSUME NEW k \in DOMAIN runs, B!CancelRun(k) PROVE BenchmarksInv'
  <2>1. /\ runs' = [runs EXCEPT ![k].status = "cancelled"]
        /\ UNCHANGED <<visibility, collection, saving, starting, consumer>>
    BY <1>3 DEF B!CancelRun
  <2> QED
    BY <1>1, <2>1, OneRunMoves
<1>4. ASSUME B!Claim PROVE BenchmarksInv'
  <2>1. PICK k \in DOMAIN runs :
           /\ runs[k].status = "queued" /\ runs' = [runs EXCEPT ![k].status = "running"]
           /\ consumer' = k /\ UNCHANGED <<visibility, collection, saving, starting>>
    BY <1>4 DEF B!Claim
  <2> QED
    BY <1>1, <2>1, OneRunMoves
<1>5. ASSUME NEW status \in {"succeeded", "failed"}, B!Finish(status) PROVE BenchmarksInv'
  <2>1. /\ runs' = [runs EXCEPT ![consumer].status =
                       IF runs[consumer].status = "running" THEN status
                       ELSE runs[consumer].status]
        /\ consumer' = 0 /\ UNCHANGED <<visibility, collection, saving, starting>>
    BY <1>5 DEF B!Finish
  <2>2. CASE consumer \in DOMAIN runs /\ runs[consumer].status = "running"
    BY <1>2, <2>1, <2>2, OneRunMoves
  <2>3. CASE ~(consumer \in DOMAIN runs /\ runs[consumer].status = "running")
    <3>1. runs' = runs
      <4>1. CASE consumer \in DOMAIN runs
        BY <1>1, <2>1, <2>3, <4>1 DEF B!Run
      <4>2. CASE consumer \notin DOMAIN runs
        BY <1>1, <2>1, <4>2
      <4> QED
        BY <4>1, <4>2
    <3> QED
      BY <1>2, <2>1, <3>1, NoRunMoves
  <2> QED
    BY <2>2, <2>3
<1>6. ASSUME B!Crash PROVE BenchmarksInv'
  BY <1>6, NoRunMoves DEF B!Crash
<1>7. ASSUME B!Restart PROVE BenchmarksInv'
  <2>1. /\ runs' = [k \in DOMAIN runs |->
              IF runs[k].status = "running" THEN [runs[k] EXCEPT !.status = "failed"] ELSE runs[k]]
        /\ consumer' = 0 /\ UNCHANGED <<visibility, collection, saving, starting>>
    BY <1>7 DEF B!Restart
  <2>2. \A k \in DOMAIN runs : runs[k] = [runs[k] EXCEPT !.status = runs[k].status]
    BY <1>1 DEF B!Run
  <2>3. \A k \in DOMAIN runs :
           runs[k].status \in {"queued", "running", "succeeded", "failed", "cancelled", "removed"}
    BY <1>1 DEF B!Run
  <2>4. ASSUME NEW k \in DOMAIN runs
        PROVE  \E t \in {"queued", "running", "succeeded", "failed", "cancelled", "removed"} :
                 /\ runs'[k] = [runs[k] EXCEPT !.status = t]
                 /\ t \in {"queued", "running"} => runs[k].status \in {"queued", "running"}
    <3>1. CASE runs[k].status = "running"
      BY <2>1, <3>1
    <3>2. CASE runs[k].status # "running"
      BY <2>1, <2>2, <2>3, <3>2
    <3> QED
      BY <3>1, <3>2
  <2>5. runs' = [k \in DOMAIN runs |-> runs'[k]]
    BY <2>1
  <2> QED
    BY <1>2, <2>1, <2>4, <2>5, RunsMove
<1> QED
  BY <1>3, <1>4, <1>5, <1>6, <1>7

\* The invariant of the benchmarks.
LEMMA BenchmarksInvariant == B!Spec => []BenchmarksInv
<1>1. B!Init => BenchmarksInv
  <2> SUFFICES ASSUME B!Init PROVE BenchmarksInv
    OBVIOUS
  <2>1. RunTypes
    BY BenchmarkNumbers DEF B!Init, RunTypes
  <2>2. SavesKeepPublic /\ PublicPins /\ StartsFit
    BY DEF B!Init, SavesKeepPublic, PublicPins, StartsFit
  <2>3. B!ActiveRuns = {}
    BY DEF B!Init, B!ActiveRuns
  <2>4. B!ActiveLimit
    BY <2>3, FS_EmptySet, BenchmarkNumbers, SameCardinality DEF B!ActiveLimit
  <2> QED
    BY <2>1, <2>2, <2>4 DEF BenchmarksInv
<1>2. BenchmarksInv /\ [B!Next]_B!vars => BenchmarksInv'
  <2> SUFFICES ASSUME BenchmarksInv, [B!Next]_B!vars PROVE BenchmarksInv'
    OBVIOUS
  <2>1. CASE B!Editing
    BY <2>1, AssetsKept, CollectionSaves, CollectionGoes DEF B!Editing
  <2>2. CASE \E c \in Collections : B!StartCheck(c) \/ B!StartCommit(c)
    BY <2>2, RunIsChecked, RunStarts
  <2>3. CASE \/ \E k \in DOMAIN runs : B!CancelRun(k)
             \/ B!Claim \/ B!Finish("succeeded") \/ B!Finish("failed") \/ B!Crash \/ B!Restart
    BY <2>3, WorkerKeepsRuns
  <2>4. CASE UNCHANGED B!vars
    <3>1. UNCHANGED <<visibility, collection, runs, saving, starting, consumer>>
      BY <2>4 DEF B!vars
    <3> QED
      BY <3>1, NoRunMoves DEF BenchmarksInv, RunTypes
  <2> QED
    BY <2>1, <2>2, <2>3, <2>4, Zenon DEF B!Next
<1> QED
  BY <1>1, <1>2, PTL DEF B!Spec

\* The latest of some runs is one of them.
LEMMA LatestRun ==
  ASSUME runs \in Seq(B!Run), NEW T, T \subseteq DOMAIN runs, T # {}
  PROVE  B!Max(T) \in T
<1>1. Len(runs) \in Nat /\ T \subseteq 1 .. Len(runs)
  OBVIOUS
<1>2. IsFiniteSet(T)
  BY <1>1, FS_Interval, FS_Subset
<1>3. \E m \in T : \A k \in T : m >= k
  BY <1>1, Bounded
<1> QED
  BY <1>3 DEF B!Max

\* A board of public work has public rows only, although collections are published, saved
\* and evaluated while their assets are edited (benchmarks.py save_collection, leaderboard).
THEOREM BoardsHidePrivate == B!Spec => []BoardHidesPrivate
<1>1. BenchmarksInv => BoardHidesPrivate
  <2> SUFFICES ASSUME BenchmarksInv, NEW c \in Collections, collection[c] # None,
                      collection[c].visibility = "public", NEW v \in B!Board(c)
               PROVE  visibility[v[1]] = "public"
    BY DEF BoardHidesPrivate, B!BoardHidesPrivate, B!AssetOf
  <2>1. runs \in Seq(B!Run) /\ PublicPins
    BY DEF BenchmarksInv, RunTypes
  <2>2. B!Evaluated(c) # {} /\ v \in runs[B!Max(B!Evaluated(c))].config
    BY DEF B!Board
  <2>3. B!Evaluated(c) \subseteq DOMAIN runs
    BY DEF B!Evaluated
  <2>4. B!Max(B!Evaluated(c)) \in B!Evaluated(c)
    BY <2>1, <2>2, <2>3, LatestRun
  <2>5. v \in collection[c].config
    BY <2>2, <2>4 DEF B!Evaluated, B!Pinned
  <2> QED
    BY <2>1, <2>5 DEF PublicPins
<1> QED
  BY <1>1, BenchmarksInvariant, PTL

\* Whatever requests overlap and whenever the worker dies, a member has at most as many
\* active runs as are allowed, a collection one, and an active run has its collection
\* (benchmarks.py start_run).
THEOREM RunsAreLimited == B!Spec => [](B!TypeOK /\ B!ActiveLimit)
<1>1. BenchmarksInv => B!TypeOK /\ B!ActiveLimit
  BY ActiveRows DEF BenchmarksInv, RunTypes, B!TypeOK
<1> QED
  BY <1>1, BenchmarksInvariant, PTL

(***************************************************************************)
(* Learn: the course, its attempts, their worker and the hint in progress. *)
(***************************************************************************)
ProgressRow == [attempts : 0 .. MaxAttempts, hints : 0 .. MaxHints, passed : BOOLEAN]

\* The types that TypeOK leaves open.
LearnTypes ==
    /\ TypeOK
    /\ attempts \in Seq(Row)

\* Exercises are on lessons, progress is on exercises, and a deleted course has nothing.
CourseHolds ==
    /\ \A e \in LiveExercises : exercises[e] \in LiveLessons
    /\ course = "gone" => LiveLessons = {}
    /\ completed \subseteq LiveLessons
    /\ certificate => course # "gone"
    /\ \A e \in Exercises : progress[e] # None => e \in LiveExercises

\* One attempt is active, on an exercise that is there, and it has not been counted yet.
AttemptsHold ==
    /\ \A j, k \in DOMAIN attempts : Active(j) /\ Active(k) => j = k
    /\ \A k \in DOMAIN attempts :
          /\ exercises[attempts[k].exercise] # "unused"
          /\ Active(k) => ~attempts[k].counted /\ attempts[k].exercise \in LiveExercises

\* The attempt that the worker has locked is running.
WorkerHolds ==
    /\ worker.pc # "idle" => worker.row \in DOMAIN attempts
    /\ worker.pc \in {"read", "commit"} => attempts[worker.row].status = "running"

\* A hint that was found to be left still is.
HintHolds ==
    hint.exercise # None =>
        /\ MaxHints > 0
        /\ ~hint.fresh /\ progress[hint.exercise] # None => progress[hint.exercise].hints < MaxHints

LearnInv ==
    /\ LearnTypes /\ CourseHolds /\ AttemptsHold /\ WorkerHolds /\ HintHolds /\ AttemptsCounted

\* What counts is a finite number of attempts.
CountedOf(e) == {k \in DOMAIN attempts : attempts[k].exercise = e /\ attempts[k].counted}

LEMMA LearnNumbers ==
  /\ MaxAttempts \in Nat /\ MaxHints \in Nat /\ None \notin Lessons \cup Exercises
  /\ "unused" \notin Lessons /\ "gone" \notin Lessons
BY LearnAssumption

LEMMA CountedInAny ==
  ASSUME NEW s \in Seq(Row), Len(s) <= MaxAttempts, NEW e \in Exercises,
         NEW C, C = {k \in DOMAIN s : s[k].exercise = e /\ s[k].counted}
  PROVE  IsFiniteSet(C) /\ Cardinality(C) \in 0 .. MaxAttempts
<1>1. C \subseteq 1 .. Len(s) /\ Len(s) \in Nat
  OBVIOUS
<1>2. IsFiniteSet(1 .. Len(s)) /\ Cardinality(1 .. Len(s)) = Len(s)
  <2> DEFINE n == Len(s)
  <2>1. n \in Nat
    BY <1>1
  <2> HIDE DEF n
  <2>2. IsFiniteSet(1 .. n) /\ Cardinality(1 .. n) = IF 1 > n THEN 0 ELSE n - 1 + 1
    BY <2>1, FS_Interval
  <2>3. Cardinality(1 .. n) = n
    BY <2>1, <2>2
  <2> QED
    BY <2>2, <2>3 DEF n
<1>3. IsFiniteSet(C) /\ Cardinality(C) <= Len(s) /\ Cardinality(C) \in Nat
  BY <1>1, <1>2, FS_Subset, FS_CardinalityType
<1> QED
  BY <1>1, <1>3, LearnNumbers

LEMMA CountedIs ==
  ASSUME attempts \in Seq(Row), Len(attempts) <= MaxAttempts, NEW e \in Exercises
  PROVE  IsFiniteSet(CountedOf(e)) /\ Cardinality(CountedOf(e)) \in 0 .. MaxAttempts
BY CountedInAny DEF CountedOf

\* A row of progress is not none.
LEMMA ProgressIsThere ==
  ASSUME NEW r \in ProgressRow
  PROVE  r # None
<1>1. r \in [attempts : Nat, hints : Nat, passed : BOOLEAN]
  BY LearnNumbers DEF ProgressRow
<1> QED
  BY <1>1, LearnAssumption

\* The parts of the types.
LEMMA LearnPieces ==
  LearnTypes <=>
    /\ course \in {"draft", "published", "gone"}
    /\ lessons \in [Lessons -> {"unused", "live", "gone"}]
    /\ exercises \in [Exercises -> Lessons \cup {"unused", "gone"}]
    /\ completed \subseteq Lessons
    /\ progress \in [Exercises -> ProgressRow \cup {None}]
    /\ attempts \in Seq(Row) /\ Len(attempts) <= MaxAttempts
    /\ certificate \in BOOLEAN
    /\ worker \in [pc : {"idle", "run", "read", "commit"}, row : 0 .. MaxAttempts,
                   verdict : Verdicts, fresh : BOOLEAN, issue : BOOLEAN]
    /\ hint \in [exercise : Exercises \cup {None}, fresh : BOOLEAN]
    /\ visit \in BOOLEAN
BY DEF LearnTypes, TypeOK, ProgressRow

\* An attempt is on an exercise.
LEMMA AttemptRows ==
  ASSUME attempts \in Seq(Row)
  PROVE  \A k \in DOMAIN attempts : attempts[k] \in Row /\ attempts[k].exercise \in Exercises
<1>1. \A k \in DOMAIN attempts : attempts[k] \in Row
  OBVIOUS
<1> QED
  BY <1>1 DEF Row

\* The course changes and no exercise goes: attempts and progress stay as they are.
LEMMA CourseSteps ==
  ASSUME LearnInv, UNCHANGED <<progress, attempts, worker, hint>>,
         LearnTypes', CourseHolds',
         \A e \in Exercises : exercises[e] # "unused" => exercises'[e] = exercises[e]
  PROVE  LearnInv'
<1>1. /\ LearnTypes /\ CourseHolds /\ AttemptsHold /\ WorkerHolds /\ HintHolds /\ AttemptsCounted
      /\ attempts \in Seq(Row) /\ exercises \in [Exercises -> Lessons \cup {"unused", "gone"}]
  BY LearnPieces DEF LearnInv
<1>2. \A k \in DOMAIN attempts :
         exercises'[attempts[k].exercise] = exercises[attempts[k].exercise]
  BY <1>1, AttemptRows DEF AttemptsHold
<1>3. LiveExercises \subseteq LiveExercises'
  BY <1>1, LearnNumbers DEF LiveExercises
<1>4. AttemptsHold'
  BY <1>1, <1>2, <1>3 DEF AttemptsHold, Active
<1>5. WorkerHolds' /\ HintHolds'
  BY <1>1 DEF WorkerHolds, HintHolds
<1>6. AttemptsCounted'
  <2> SUFFICES ASSUME NEW e \in LiveExercises'
               PROVE  Cardinality(CountedOf(e)) =
                        IF progress[e] = None THEN 0 ELSE progress[e].attempts
    BY DEF AttemptsCounted, CountedOf
  <2>1. e \in Exercises
    BY DEF LiveExercises
  <2>2. CASE e \in LiveExercises
    BY <1>1, <2>2 DEF AttemptsCounted, CountedOf
  <2>3. CASE e \notin LiveExercises
    <3>1. exercises[e] = "unused" /\ progress[e] = None
      BY <1>1, <2>1, <2>3, LearnNumbers DEF LiveExercises, CourseHolds
    <3>2. CountedOf(e) = {}
      BY <1>1, <3>1, AttemptRows DEF CountedOf, AttemptsHold
    <3> QED
      BY <3>1, <3>2, FS_EmptySet
  <2> QED
    BY <2>2, <2>3
<1> QED
  BY <1>4, <1>5, <1>6 DEF LearnInv

\* The author adds, publishes and takes back, the learner reads lessons, and visits.
LEMMA CourseMoves ==
  ASSUME LearnInv,
         \/ PublishCourse \/ UnpublishCourse
         \/ \E l \in Lessons : CreateLesson(l) \/ CompleteLesson(l)
         \/ \E e \in Exercises, l \in Lessons : CreateExercise(e, l)
         \/ VisitRead \/ VisitCommit
  PROVE  LearnInv'
<1>1. LearnTypes /\ CourseHolds
  BY DEF LearnInv
<1>2. CASE PublishCourse \/ UnpublishCourse
  <2>1. /\ course' \in {"draft", "published"}
        /\ course # "gone"
        /\ UNCHANGED <<lessons, exercises, completed, progress, attempts, certificate, worker, hint,
                       visit>>
    BY <1>2 DEF PublishCourse, UnpublishCourse
  <2>2. LearnTypes'
    BY <1>1, <2>1, LearnPieces DEF LearnTypes, TypeOK
  <2>3. CourseHolds'
    BY <1>1, <2>1 DEF CourseHolds, LiveExercises, LiveLessons
  <2> QED
    BY <2>1, <2>2, <2>3, CourseSteps
<1>3. ASSUME NEW l \in Lessons, CreateLesson(l) PROVE LearnInv'
  <2>1. /\ course # "gone" /\ lessons[l] = "unused" /\ lessons' = [lessons EXCEPT ![l] = "live"]
        /\ UNCHANGED <<course, exercises, completed, progress, attempts, certificate, worker, hint,
                       visit>>
    BY <1>3 DEF CreateLesson, Open
  <2>2. lessons \in [Lessons -> {"unused", "live", "gone"}]
    BY <1>1, LearnPieces
  <2>3. LearnTypes'
    BY <1>1, <2>1, <2>2 DEF LearnTypes, TypeOK
  <2>4. LiveLessons \subseteq LiveLessons' /\ LiveExercises' = LiveExercises
    BY <2>1, <2>2 DEF LiveLessons, LiveExercises
  <2>5. CourseHolds'
    BY <1>1, <2>1, <2>4 DEF CourseHolds
  <2> QED
    BY <2>1, <2>3, <2>5, CourseSteps
<1>4. ASSUME NEW l \in Lessons, CompleteLesson(l) PROVE LearnInv'
  <2>1. /\ l \in LiveLessons /\ completed' = completed \cup {l}
        /\ UNCHANGED <<course, lessons, exercises, progress, attempts, certificate, worker, hint,
                       visit>>
    BY <1>4 DEF CompleteLesson
  <2>2. LearnTypes'
    BY <1>1, <2>1 DEF LearnTypes, TypeOK
  <2>3. CourseHolds'
    BY <1>1, <2>1 DEF CourseHolds, LiveExercises, LiveLessons
  <2> QED
    BY <2>1, <2>2, <2>3, CourseSteps
<1>5. ASSUME NEW e \in Exercises, NEW l \in Lessons, CreateExercise(e, l) PROVE LearnInv'
  <2>1. /\ l \in LiveLessons /\ exercises[e] = "unused"
        /\ exercises' = [exercises EXCEPT ![e] = l]
        /\ UNCHANGED <<course, lessons, completed, progress, attempts, certificate, worker, hint,
                       visit>>
    BY <1>5 DEF CreateExercise
  <2>2. exercises \in [Exercises -> Lessons \cup {"unused", "gone"}]
    BY <1>1, LearnPieces
  <2>3. LearnTypes'
    BY <1>1, <2>1, <2>2 DEF LearnTypes, TypeOK
  <2>4. LiveLessons' = LiveLessons /\ LiveExercises' = LiveExercises \cup {e}
    BY <2>1, <2>2 DEF LiveLessons, LiveExercises
  <2>5. CourseHolds'
    BY <1>1, <2>1, <2>2, <2>4 DEF CourseHolds, LiveExercises
  <2>6. \A d \in Exercises : exercises[d] # "unused" => exercises'[d] = exercises[d]
    BY <2>1, <2>2
  <2> QED
    BY <2>1, <2>3, <2>5, <2>6, CourseSteps
<1>6. CASE VisitRead \/ VisitCommit
  <2>1. /\ visit' \in BOOLEAN /\ certificate' \in {certificate, certificate \/ course # "gone"}
        /\ UNCHANGED <<course, lessons, exercises, completed, progress, attempts, worker, hint>>
    BY <1>6 DEF VisitRead, VisitCommit
  <2>2. LearnTypes'
    <3>1. certificate' \in BOOLEAN
      BY <1>1, <2>1, LearnPieces
    <3> QED
      BY <1>1, <2>1, <3>1 DEF LearnTypes, TypeOK
  <2>3. CourseHolds'
    BY <1>1, <2>1 DEF CourseHolds, LiveExercises, LiveLessons
  <2> QED
    BY <2>1, <2>2, <2>3, CourseSteps
<1> QED
  BY <1>2, <1>3, <1>4, <1>5, <1>6

\* The status of a row is written, and the rest of it stays.
LEMMA AttemptWritten ==
  ASSUME NEW r \in Row, NEW t \in {"queued", "running", "passed", "failed", "removed"}
  PROVE  /\ [r EXCEPT !.status = t] \in Row /\ [r EXCEPT !.status = t].status = t
         /\ [r EXCEPT !.status = t].exercise = r.exercise
         /\ [r EXCEPT !.status = t].counted = r.counted
BY DEF Row

LEMMA AttemptStatus ==
  ASSUME attempts \in Seq(Row), NEW k \in DOMAIN attempts,
         NEW t \in {"queued", "running", "passed", "failed", "removed"},
         attempts' = [attempts EXCEPT ![k].status = t]
  PROVE  /\ attempts' \in Seq(Row) /\ Len(attempts') = Len(attempts)
         /\ DOMAIN attempts' = DOMAIN attempts
         /\ \A j \in DOMAIN attempts :
               /\ attempts'[j].exercise = attempts[j].exercise
               /\ attempts'[j].counted = attempts[j].counted
               /\ attempts'[j].status = IF j = k THEN t ELSE attempts[j].status
<1> DEFINE r == [attempts[k] EXCEPT !.status = t]
<1>1. attempts[k] \in Row
  OBVIOUS
<1>2. /\ r \in Row /\ r.status = t /\ r.exercise = attempts[k].exercise
      /\ r.counted = attempts[k].counted
  BY <1>1, AttemptWritten
<1>3. attempts' = [attempts EXCEPT ![k] = r]
  OBVIOUS
<1> HIDE DEF r
<1>4. attempts' \in Seq(Row) /\ Len(attempts') = Len(attempts) /\ DOMAIN attempts' = DOMAIN attempts
  BY <1>2, <1>3
<1> QED
  BY <1>2, <1>3, <1>4

\* Attempts end or are worked on, and nothing else changes but the certificate.
LEMMA StatusMoves ==
  ASSUME LearnInv, UNCHANGED <<course, lessons, exercises, completed, progress, certificate, hint,
                               visit>>,
         attempts' \in Seq(Row), Len(attempts') = Len(attempts),
         DOMAIN attempts' = DOMAIN attempts,
         \A k \in DOMAIN attempts :
            /\ attempts'[k].exercise = attempts[k].exercise
            /\ attempts'[k].counted = attempts[k].counted
            /\ attempts'[k].status \in {"queued", "running"} => Active(k),
         worker' \in [pc : {"idle", "run", "read", "commit"}, row : 0 .. MaxAttempts,
                      verdict : Verdicts, fresh : BOOLEAN, issue : BOOLEAN],
         WorkerHolds'
  PROVE  LearnInv'
<1>1. /\ LearnTypes /\ CourseHolds /\ AttemptsHold /\ HintHolds /\ AttemptsCounted
  BY DEF LearnInv
<1>2. LearnTypes'
  <2>1. /\ course' \in {"draft", "published", "gone"}
        /\ lessons' \in [Lessons -> {"unused", "live", "gone"}]
        /\ exercises' \in [Exercises -> Lessons \cup {"unused", "gone"}]
        /\ completed' \subseteq Lessons
        /\ progress' \in [Exercises -> [attempts : 0 .. MaxAttempts, hints : 0 .. MaxHints,
                                        passed : BOOLEAN] \cup {None}]
        /\ Len(attempts') <= MaxAttempts
        /\ certificate' \in BOOLEAN
        /\ hint' \in [exercise : Exercises \cup {None}, fresh : BOOLEAN]
        /\ visit' \in BOOLEAN
    BY <1>1 DEF LearnTypes, TypeOK
  <2>2. \A k \in DOMAIN attempts' : attempts'[k] \in Row
    OBVIOUS
  <2> QED
    BY <2>1, <2>2 DEF LearnTypes, TypeOK, Verdicts
<1>3. CourseHolds' /\ HintHolds' /\ LiveExercises' = LiveExercises
  BY <1>1 DEF CourseHolds, HintHolds, LiveExercises, LiveLessons
<1>4. AttemptsHold'
  BY <1>1, <1>3 DEF AttemptsHold, Active
<1>5. AttemptsCounted'
  <2>1. \A e : CountedOf(e)' = CountedOf(e)
    BY DEF CountedOf
  <2> QED
    BY <1>1, <1>3, <2>1 DEF AttemptsCounted, CountedOf
<1> QED
  BY <1>2, <1>3, <1>4, <1>5 DEF LearnInv

\* The worker claims, reads, flushes, finds the attempt gone, is refused, or starts again.
LEMMA WorkerMoves ==
  ASSUME LearnInv,
         \/ Claim \/ FinishNothing \/ FinishFlush \/ FinishConflict
         \/ \E verdict \in Verdicts : FinishRead(verdict)
         \/ Restart
  PROVE  LearnInv'
<1> DEFINE WorkerType == [pc : {"idle", "run", "read", "commit"}, row : 0 .. MaxAttempts,
                          verdict : Verdicts, fresh : BOOLEAN, issue : BOOLEAN]
<1>1. /\ LearnTypes /\ AttemptsHold /\ WorkerHolds /\ attempts \in Seq(Row) /\ worker \in WorkerType
      /\ DOMAIN attempts = 1 .. Len(attempts) /\ Len(attempts) <= MaxAttempts
      /\ Len(attempts) \in Nat
  BY LearnPieces DEF LearnInv
<1>2. NoWork \in WorkerType /\ NoWork.pc = "idle"
  BY LearnNumbers DEF NoWork, Verdicts
<1>3. CASE Claim
  <2>1. PICK k \in DOMAIN attempts :
           /\ attempts[k].status = "queued" /\ attempts' = [attempts EXCEPT ![k].status = "running"]
           /\ worker' = [NoWork EXCEPT !.pc = "run", !.row = k]
           /\ UNCHANGED <<course, lessons, exercises, completed, progress, certificate, hint, visit>>
    BY <1>3 DEF Claim
  <2>2. /\ attempts' \in Seq(Row) /\ Len(attempts') = Len(attempts)
        /\ DOMAIN attempts' = DOMAIN attempts
        /\ \A j \in DOMAIN attempts :
              /\ attempts'[j].exercise = attempts[j].exercise
              /\ attempts'[j].counted = attempts[j].counted
              /\ attempts'[j].status = IF j = k THEN "running" ELSE attempts[j].status
    BY <1>1, <2>1, AttemptStatus
  <2>3. worker' \in WorkerType /\ worker'.pc = "run" /\ worker'.row = k
    <3>1. k \in 0 .. MaxAttempts
      BY <1>1, LearnNumbers
    <3> QED
      BY <1>2, <2>1, <3>1
  <2>4. WorkerHolds'
    BY <2>2, <2>3 DEF WorkerHolds
  <2>5. \A j \in DOMAIN attempts :
           attempts'[j].status \in {"queued", "running"} => Active(j)
    BY <2>1, <2>2 DEF Active
  <2> QED
    BY <2>1, <2>2, <2>3, <2>4, <2>5, StatusMoves
<1>4. CASE FinishNothing
  <2>1. worker' = NoWork /\ UNCHANGED <<course, lessons, exercises, completed, progress, attempts,
                                        certificate, hint, visit>>
    BY <1>4 DEF FinishNothing
  <2>2. WorkerHolds'
    BY <1>2, <2>1 DEF WorkerHolds
  <2> QED
    BY <1>1, <1>2, <2>1, <2>2, StatusMoves DEF Active
<1>5. CASE FinishFlush
  <2>1. PICK issue \in BOOLEAN :
           /\ worker.pc = "read" /\ worker' = [worker EXCEPT !.pc = "commit", !.issue = issue]
           /\ UNCHANGED <<course, lessons, exercises, completed, progress, attempts, certificate,
                          hint, visit>>
    BY <1>5 DEF FinishFlush, Due
  <2>2. worker' \in WorkerType /\ worker'.pc = "commit" /\ worker'.row = worker.row
    BY <1>1, <2>1
  <2>3. WorkerHolds'
    BY <1>1, <2>1, <2>2 DEF WorkerHolds
  <2> QED
    BY <1>1, <2>1, <2>2, <2>3, StatusMoves DEF Active
<1>6. CASE FinishConflict
  <2>1. /\ worker.pc \in {"read", "commit"} /\ worker' = NoWork
        /\ attempts' = IF worker.verdict = "timeout" THEN attempts
                       ELSE [attempts EXCEPT ![worker.row].status = "failed"]
        /\ UNCHANGED <<course, lessons, exercises, completed, progress, certificate, hint, visit>>
    BY <1>6 DEF FinishConflict
  <2>2. WorkerHolds'
    BY <1>2, <2>1 DEF WorkerHolds
  <2>3. CASE worker.verdict = "timeout"
    <3>1. attempts' = attempts
      BY <2>1, <2>3
    <3> QED
      BY <1>1, <1>2, <2>1, <2>2, <3>1, StatusMoves DEF Active
  <2>4. CASE worker.verdict # "timeout"
    <3>1. worker.row \in DOMAIN attempts
      BY <1>1, <2>1 DEF WorkerHolds
    <3>2. attempts' = [attempts EXCEPT ![worker.row].status = "failed"]
      BY <2>1, <2>4
    <3>3. /\ attempts' \in Seq(Row) /\ Len(attempts') = Len(attempts)
          /\ DOMAIN attempts' = DOMAIN attempts
          /\ \A j \in DOMAIN attempts :
                /\ attempts'[j].exercise = attempts[j].exercise
                /\ attempts'[j].counted = attempts[j].counted
                /\ attempts'[j].status = IF j = worker.row THEN "failed" ELSE attempts[j].status
      BY <1>1, <3>1, <3>2, AttemptStatus
    <3>4. \A j \in DOMAIN attempts :
             attempts'[j].status \in {"queued", "running"} => Active(j)
      BY <3>3 DEF Active
    <3> QED
      BY <1>1, <1>2, <2>1, <2>2, <3>3, <3>4, StatusMoves
  <2> QED
    BY <2>3, <2>4
<1>7. ASSUME NEW verdict \in Verdicts, FinishRead(verdict) PROVE LearnInv'
  <2>1. PICK fresh \in BOOLEAN :
           /\ worker.pc = "run" /\ attempts[worker.row].status = "running"
           /\ worker' = [worker EXCEPT !.pc = "read", !.verdict = verdict, !.fresh = fresh]
           /\ UNCHANGED <<course, lessons, exercises, completed, progress, attempts, certificate,
                          hint, visit>>
    BY <1>7 DEF FinishRead
  <2>2. worker' \in WorkerType /\ worker'.pc = "read" /\ worker'.row = worker.row
    BY <1>1, <2>1
  <2>3. WorkerHolds'
    BY <1>1, <2>1, <2>2 DEF WorkerHolds
  <2> QED
    BY <1>1, <2>1, <2>2, <2>3, StatusMoves DEF Active
<1>8. CASE Restart
  <2>1. /\ attempts' = [k \in DOMAIN attempts |->
              IF attempts[k].status = "running" THEN [attempts[k] EXCEPT !.status = "failed"]
              ELSE attempts[k]]
        /\ worker' = NoWork
        /\ UNCHANGED <<course, lessons, exercises, completed, progress, certificate, hint, visit>>
    BY <1>8 DEF Restart
  <2>2. \A k \in DOMAIN attempts :
           /\ attempts'[k] \in Row
           /\ attempts'[k].exercise = attempts[k].exercise
           /\ attempts'[k].counted = attempts[k].counted
           /\ attempts'[k].status \in {"queued", "running"} => attempts'[k] = attempts[k]
    <3> SUFFICES ASSUME NEW k \in DOMAIN attempts
                 PROVE  /\ attempts'[k] \in Row
                        /\ attempts'[k].exercise = attempts[k].exercise
                        /\ attempts'[k].counted = attempts[k].counted
                        /\ attempts'[k].status \in {"queued", "running"} =>
                              attempts'[k] = attempts[k]
      OBVIOUS
    <3>1. attempts[k] \in Row
      BY <1>1
    <3>2. CASE attempts[k].status = "running"
      <4>1. attempts'[k] = [attempts[k] EXCEPT !.status = "failed"]
        BY <2>1, <3>2
      <4>2. /\ [attempts[k] EXCEPT !.status = "failed"] \in Row
            /\ [attempts[k] EXCEPT !.status = "failed"].status = "failed"
            /\ [attempts[k] EXCEPT !.status = "failed"].exercise = attempts[k].exercise
            /\ [attempts[k] EXCEPT !.status = "failed"].counted = attempts[k].counted
        BY <3>1, AttemptWritten
      <4> QED
        BY <4>1, <4>2
    <3>3. CASE attempts[k].status # "running"
      BY <2>1, <3>1, <3>3
    <3> QED
      BY <3>2, <3>3
  <2>3. DOMAIN attempts' = DOMAIN attempts
    BY <2>1
  <2>4. attempts' \in [1 .. Len(attempts) -> Row]
    BY <1>1, <2>1, <2>2
  <2>5. attempts' \in Seq(Row) /\ Len(attempts') = Len(attempts)
    BY <1>1, <2>4
  <2>6. WorkerHolds'
    BY <1>2, <2>1 DEF WorkerHolds
  <2>7. \A k \in DOMAIN attempts : attempts'[k].status \in {"queued", "running"} => Active(k)
    BY <2>2 DEF Active
  <2> QED
    BY <1>2, <2>1, <2>2, <2>3, <2>5, <2>6, <2>7, StatusMoves
<1> QED
  BY <1>3, <1>4, <1>5, <1>6, <1>7, <1>8

\* Exercises go, with their progress and their attempts: the worker is at none of them.
LEMMA Removals ==
  ASSUME LearnInv, NEW G, G \subseteq LiveExercises, RemoveExercises(G),
         UNCHANGED <<certificate, worker, hint, visit>>,
         course' \in {"draft", "published", "gone"},
         lessons' \in [Lessons -> {"unused", "live", "gone"}], completed' \subseteq LiveLessons',
         \A e \in LiveExercises \ G : exercises[e] \in LiveLessons',
         course' = "gone" => LiveLessons' = {} /\ ~certificate
  PROVE  LearnInv'
<1>1. /\ LearnTypes /\ CourseHolds /\ AttemptsHold /\ WorkerHolds /\ HintHolds /\ AttemptsCounted
      /\ attempts \in Seq(Row) /\ Len(attempts) <= MaxAttempts
      /\ DOMAIN attempts = 1 .. Len(attempts) /\ Len(attempts) \in Nat
      /\ exercises \in [Exercises -> Lessons \cup {"unused", "gone"}]
      /\ progress \in [Exercises -> ProgressRow \cup {None}]
  BY LearnPieces DEF LearnInv
<1>2. /\ G \cap WorkedOn = {}
      /\ exercises' = [e \in Exercises |-> IF e \in G THEN "gone" ELSE exercises[e]]
      /\ progress' = [e \in Exercises |-> IF e \in G THEN None ELSE progress[e]]
      /\ attempts' = [k \in DOMAIN attempts |->
             IF attempts[k].exercise \in G THEN [attempts[k] EXCEPT !.status = "removed"]
             ELSE attempts[k]]
  BY DEF RemoveExercises
<1>3. \A k \in DOMAIN attempts :
         /\ attempts'[k] \in Row
         /\ attempts'[k].exercise = attempts[k].exercise
         /\ attempts'[k].counted = attempts[k].counted
         /\ attempts[k].exercise \notin G => attempts'[k] = attempts[k]
         /\ attempts[k].exercise \in G => attempts'[k].status = "removed"
  <2> SUFFICES ASSUME NEW k \in DOMAIN attempts
               PROVE  /\ attempts'[k] \in Row
                      /\ attempts'[k].exercise = attempts[k].exercise
                      /\ attempts'[k].counted = attempts[k].counted
                      /\ attempts[k].exercise \notin G => attempts'[k] = attempts[k]
                      /\ attempts[k].exercise \in G => attempts'[k].status = "removed"
    OBVIOUS
  <2>1. attempts[k] \in Row
    BY <1>1
  <2>2. CASE attempts[k].exercise \in G
    <3>1. attempts'[k] = [attempts[k] EXCEPT !.status = "removed"]
      BY <1>2, <2>2
    <3>2. /\ [attempts[k] EXCEPT !.status = "removed"] \in Row
          /\ [attempts[k] EXCEPT !.status = "removed"].status = "removed"
          /\ [attempts[k] EXCEPT !.status = "removed"].exercise = attempts[k].exercise
          /\ [attempts[k] EXCEPT !.status = "removed"].counted = attempts[k].counted
      BY <2>1, AttemptWritten
    <3> QED
      BY <2>2, <3>1, <3>2
  <2>3. CASE attempts[k].exercise \notin G
    BY <1>2, <2>1, <2>3
  <2> QED
    BY <2>2, <2>3
<1>4. DOMAIN attempts' = DOMAIN attempts
  BY <1>2
<1>5. attempts' \in Seq(Row) /\ Len(attempts') = Len(attempts)
  <2>1. attempts' \in [1 .. Len(attempts) -> Row]
    BY <1>1, <1>2, <1>3
  <2> QED
    BY <1>1, <2>1
<1>6. exercises' \in [Exercises -> Lessons \cup {"unused", "gone"}]
  BY <1>1, <1>2
<1>7. progress' \in [Exercises -> ProgressRow \cup {None}]
  BY <1>1, <1>2
<1>8. LearnTypes'
  <2>1. /\ certificate' \in BOOLEAN /\ visit' \in BOOLEAN
        /\ worker' \in [pc : {"idle", "run", "read", "commit"}, row : 0 .. MaxAttempts,
                        verdict : Verdicts, fresh : BOOLEAN, issue : BOOLEAN]
        /\ hint' \in [exercise : Exercises \cup {None}, fresh : BOOLEAN]
        /\ completed' \subseteq Lessons
    BY <1>1 DEF LearnTypes, TypeOK, LiveLessons
  <2>2. Len(attempts') <= MaxAttempts /\ \A k \in DOMAIN attempts' : attempts'[k] \in Row
    BY <1>1, <1>5
  <2> QED
    BY <1>5, <1>6, <1>7, <2>1, <2>2 DEF LearnTypes, TypeOK, ProgressRow, Verdicts
<1>9. LiveExercises' = LiveExercises \ G
  BY <1>1, <1>2, LearnNumbers DEF LiveExercises
<1>10. \A e \in Exercises \ G : exercises'[e] = exercises[e] /\ progress'[e] = progress[e]
  BY <1>2
<1>11. \A e \in G \cap Exercises : exercises'[e] = "gone" /\ progress'[e] = None
  BY <1>2
<1>12. CourseHolds'
  <2>1. \A e \in LiveExercises' : exercises'[e] \in LiveLessons'
    BY <1>9, <1>10 DEF LiveExercises
  <2>2. \A e \in Exercises : progress'[e] # None => e \in LiveExercises'
    BY <1>1, <1>9, <1>10, <1>11 DEF CourseHolds
  <2>3. certificate' => course' # "gone"
    OBVIOUS
  <2> QED
    BY <2>1, <2>2, <2>3 DEF CourseHolds
<1>13. AttemptsHold'
  <2>1. \A k \in DOMAIN attempts : Active(k)' => Active(k) /\ attempts[k].exercise \notin G
    BY <1>3 DEF Active
  <2>2. \A k \in DOMAIN attempts : exercises'[attempts[k].exercise] # "unused"
    BY <1>1, <1>10, <1>11, AttemptRows DEF AttemptsHold
  <2>3. \A j, k \in DOMAIN attempts' : Active(j)' /\ Active(k)' => j = k
    BY <1>1, <1>4, <2>1 DEF AttemptsHold
  <2>4. \A k \in DOMAIN attempts' :
           /\ exercises'[attempts'[k].exercise] # "unused"
           /\ Active(k)' => ~attempts'[k].counted /\ attempts'[k].exercise \in LiveExercises'
    BY <1>1, <1>3, <1>4, <1>9, <2>1, <2>2 DEF AttemptsHold
  <2> QED
    BY <2>3, <2>4 DEF AttemptsHold
<1>14. WorkerHolds'
  BY <1>1, <1>2, <1>3, <1>4 DEF WorkerHolds, WorkedOn
<1>15. HintHolds'
  <2>1. hint.exercise \in Exercises \cup {None}
    BY <1>1 DEF LearnTypes, TypeOK
  <2> QED
    BY <1>1, <1>10, <1>11, <2>1 DEF HintHolds
<1>16. AttemptsCounted'
  <2>1. \A e : CountedOf(e)' = CountedOf(e)
    BY <1>3, <1>4 DEF CountedOf
  <2>2. \A e \in LiveExercises' : e \in LiveExercises /\ progress'[e] = progress[e]
    BY <1>9, <1>10 DEF LiveExercises
  <2> QED
    BY <1>1, <2>1, <2>2 DEF AttemptsCounted, CountedOf
<1> QED
  BY <1>8, <1>12, <1>13, <1>14, <1>15, <1>16 DEF LearnInv

\* The author deletes an exercise, a lesson or the course.
LEMMA DeletionMoves ==
  ASSUME LearnInv,
         \/ DeleteCourse
         \/ \E l \in Lessons : DeleteLesson(l)
         \/ \E e \in Exercises : DeleteExercise(e)
  PROVE  LearnInv'
<1>1. /\ CourseHolds /\ course \in {"draft", "published", "gone"} /\ certificate \in BOOLEAN
      /\ lessons \in [Lessons -> {"unused", "live", "gone"}] /\ completed \subseteq LiveLessons
  BY LearnPieces DEF LearnInv, CourseHolds
<1>2. ASSUME NEW L, L \subseteq LiveLessons, RemoveLessons(L)
      PROVE  /\ {e \in LiveExercises : exercises[e] \in L} \subseteq LiveExercises
             /\ RemoveExercises({e \in LiveExercises : exercises[e] \in L})
             /\ LiveLessons' = LiveLessons \ L
             /\ lessons' \in [Lessons -> {"unused", "live", "gone"}]
             /\ completed' \subseteq LiveLessons'
             /\ \A e \in LiveExercises \ {d \in LiveExercises : exercises[d] \in L} :
                   exercises[e] \in LiveLessons'
  <2>1. /\ completed' = completed \ L
        /\ lessons' = [l \in Lessons |-> IF l \in L THEN "gone" ELSE lessons[l]]
        /\ RemoveExercises({e \in LiveExercises : exercises[e] \in L})
    BY <1>2 DEF RemoveLessons
  <2>2. LiveLessons' = LiveLessons \ L
    BY <1>1, <2>1 DEF LiveLessons
  <2>3. lessons' \in [Lessons -> {"unused", "live", "gone"}]
    BY <1>1, <2>1
  <2>4. \A e \in LiveExercises : exercises[e] \in LiveLessons
    BY <1>1 DEF CourseHolds
  <2> QED
    BY <1>1, <2>1, <2>2, <2>3, <2>4
<1>3. CASE DeleteCourse
  <2>1. /\ RemoveLessons(LiveLessons) /\ course' = "gone" /\ ~certificate
        /\ UNCHANGED <<certificate, worker, hint, visit>>
    BY <1>3 DEF DeleteCourse
  <2> DEFINE G == {e \in LiveExercises : exercises[e] \in LiveLessons}
  <2>2. /\ G \subseteq LiveExercises /\ RemoveExercises(G)
        /\ LiveLessons' = LiveLessons \ LiveLessons
        /\ lessons' \in [Lessons -> {"unused", "live", "gone"}]
        /\ completed' \subseteq LiveLessons'
        /\ \A e \in LiveExercises \ G : exercises[e] \in LiveLessons'
    BY <1>2, <2>1
  <2>3. LiveLessons' = {} /\ course' \in {"draft", "published", "gone"}
    BY <2>1, <2>2
  <2> HIDE DEF G
  <2> QED
    BY <2>1, <2>2, <2>3, Removals
<1>4. ASSUME NEW l \in Lessons, DeleteLesson(l) PROVE LearnInv'
  <2>1. /\ l \in LiveLessons /\ RemoveLessons({l})
        /\ UNCHANGED <<course, certificate, worker, hint, visit>>
    BY <1>4 DEF DeleteLesson
  <2>2. course # "gone"
    BY <1>1, <2>1 DEF CourseHolds
  <2>3. {l} \subseteq LiveLessons
    BY <2>1
  <2> QED
    BY <1>1, <1>2, <2>1, <2>2, <2>3, Removals
<1>5. ASSUME NEW e \in Exercises, DeleteExercise(e) PROVE LearnInv'
  <2>1. /\ e \in LiveExercises /\ RemoveExercises({e})
        /\ UNCHANGED <<course, lessons, completed, certificate, worker, hint, visit>>
    BY <1>5 DEF DeleteExercise
  <2>2. /\ {e} \subseteq LiveExercises /\ LiveLessons' = LiveLessons
        /\ \A d \in LiveExercises : exercises[d] \in LiveLessons
        /\ course = "gone" => LiveLessons = {} /\ ~certificate
    BY <1>1, <2>1 DEF CourseHolds, LiveLessons
  <2> QED
    BY <1>1, <2>1, <2>2, Removals
<1> QED
  BY <1>3, <1>4, <1>5

\* The learner submits an attempt.
LEMMA AttemptMoves ==
  ASSUME LearnInv, NEW e \in Exercises, CreateAttempt(e)
  PROVE  LearnInv'
<1> DEFINE r == [exercise |-> e, status |-> "queued", counted |-> FALSE]
           n == Len(attempts) + 1
<1>1. /\ LearnTypes /\ CourseHolds /\ AttemptsHold /\ WorkerHolds /\ HintHolds /\ AttemptsCounted
      /\ attempts \in Seq(Row) /\ Len(attempts) \in Nat /\ DOMAIN attempts = 1 .. Len(attempts)
  BY LearnPieces DEF LearnInv
<1>2. /\ e \in LiveExercises /\ Len(attempts) < MaxAttempts
      /\ \A k \in DOMAIN attempts : ~Active(k)
      /\ attempts' = Append(attempts, r)
      /\ UNCHANGED <<course, lessons, exercises, completed, progress, certificate, worker, hint,
                     visit>>
  BY DEF CreateAttempt
<1>3. r \in Row /\ r.exercise = e /\ r.status = "queued" /\ r.counted = FALSE
  BY DEF Row
<1> HIDE DEF r
<1>4. /\ attempts' \in Seq(Row) /\ Len(attempts') = n /\ DOMAIN attempts' = 1 .. n
      /\ attempts'[n] = r /\ \A k \in DOMAIN attempts : attempts'[k] = attempts[k]
  BY <1>1, <1>2, <1>3
<1>5. DOMAIN attempts' = DOMAIN attempts \cup {n} /\ n \notin DOMAIN attempts /\ n <= MaxAttempts
  BY <1>1, <1>2, <1>4, LearnNumbers
<1> HIDE DEF n
<1>6. LearnTypes'
  <2>1. Len(attempts') <= MaxAttempts /\ \A k \in DOMAIN attempts' : attempts'[k] \in Row
    BY <1>4, <1>5
  <2> QED
    BY <1>1, <1>2, <1>4, <2>1 DEF LearnTypes, TypeOK, Verdicts
<1>7. CourseHolds' /\ HintHolds' /\ LiveExercises' = LiveExercises
  BY <1>1, <1>2 DEF CourseHolds, HintHolds, LiveExercises, LiveLessons
<1>8. AttemptsHold'
  <2>1. \A k \in DOMAIN attempts' : Active(k)' => k = n
    BY <1>2, <1>4, <1>5 DEF Active
  <2>2. exercises[e] # "unused"
    BY <1>2, LearnNumbers DEF LiveExercises
  <2>3. \A k \in DOMAIN attempts' : exercises'[attempts'[k].exercise] # "unused"
    BY <1>1, <1>2, <1>3, <1>4, <1>5, <2>2 DEF AttemptsHold
  <2> QED
    BY <1>2, <1>3, <1>4, <1>7, <2>1, <2>3 DEF AttemptsHold
<1>9. WorkerHolds'
  BY <1>1, <1>2, <1>4, <1>5 DEF WorkerHolds
<1>10. AttemptsCounted'
  <2>1. \A d : CountedOf(d)' = CountedOf(d)
    BY <1>3, <1>4, <1>5 DEF CountedOf
  <2> QED
    BY <1>1, <1>2, <1>7, <2>1 DEF AttemptsCounted, CountedOf
<1> QED
  BY <1>6, <1>7, <1>8, <1>9, <1>10 DEF LearnInv

\* The columns of a row of progress.
LEMMA ProgressWritten ==
  ASSUME NEW r \in ProgressRow
  PROVE  /\ r.attempts \in 0 .. MaxAttempts /\ r.hints \in 0 .. MaxHints /\ r.passed \in BOOLEAN
         /\ r.hints + 1 <= MaxHints =>
               /\ [r EXCEPT !.hints = r.hints + 1] \in ProgressRow
               /\ [r EXCEPT !.hints = r.hints + 1].attempts = r.attempts
         /\ \A b \in BOOLEAN :
               r.attempts + 1 <= MaxAttempts =>
                  LET w == [r EXCEPT !.attempts = r.attempts + 1, !.passed = b] IN
                  w \in ProgressRow /\ w.attempts = r.attempts + 1 /\ w.hints = r.hints
<1>1. r.attempts \in 0 .. MaxAttempts /\ r.hints \in 0 .. MaxHints /\ r.passed \in BOOLEAN
  BY DEF ProgressRow
<1>2. ASSUME r.hints + 1 <= MaxHints
      PROVE  /\ [r EXCEPT !.hints = r.hints + 1] \in ProgressRow
             /\ [r EXCEPT !.hints = r.hints + 1].attempts = r.attempts
  <2>1. r.hints + 1 \in 0 .. MaxHints
    BY <1>1, <1>2, LearnNumbers
  <2> QED
    BY <2>1 DEF ProgressRow
<1>3. ASSUME NEW b \in BOOLEAN, r.attempts + 1 <= MaxAttempts,
             NEW w, w = [r EXCEPT !.attempts = r.attempts + 1, !.passed = b]
      PROVE  w \in ProgressRow /\ w.attempts = r.attempts + 1 /\ w.hints = r.hints
  <2>1. r.attempts + 1 \in 0 .. MaxAttempts
    BY <1>1, <1>3, LearnNumbers
  <2>2. w = [[r EXCEPT !.attempts = r.attempts + 1] EXCEPT !.passed = b]
    BY <1>3 DEF ProgressRow
  <2> QED
    BY <1>3, <2>1, <2>2 DEF ProgressRow
<1> QED
  BY <1>1, <1>2, <1>3

\* The learner asks for a hint.
LEMMA HintMoves ==
  ASSUME LearnInv, HintCommit \/ \E e \in Exercises : HintRead(e)
  PROVE  LearnInv'
<1>1. /\ LearnTypes /\ CourseHolds /\ AttemptsHold /\ WorkerHolds /\ HintHolds /\ AttemptsCounted
      /\ attempts \in Seq(Row) /\ progress \in [Exercises -> ProgressRow \cup {None}]
      /\ hint \in [exercise : Exercises \cup {None}, fresh : BOOLEAN]
  BY LearnPieces DEF LearnInv
<1>2. NoHint \in [exercise : Exercises \cup {None}, fresh : BOOLEAN] /\ NoHint.exercise = None
  BY DEF NoHint
<1>3. ASSUME NEW e \in Exercises, HintRead(e) PROVE LearnInv'
  <2>1. /\ e \in LiveExercises
        /\ IF progress[e] = None THEN MaxHints > 0 ELSE progress[e].hints < MaxHints
        /\ hint' = [exercise |-> e, fresh |-> progress[e] = None]
        /\ UNCHANGED <<course, lessons, exercises, completed, progress, attempts, certificate,
                       worker, visit>>
    BY <1>3 DEF HintRead
  <2>2. MaxHints > 0
    <3>1. CASE progress[e] # None
      <4>1. progress[e] \in ProgressRow
        BY <1>1, <3>1
      <4>2. progress[e].hints \in 0 .. MaxHints
        BY <4>1, ProgressWritten
      <4> QED
        BY <2>1, <3>1, <4>2, LearnNumbers
    <3> QED
      BY <2>1, <3>1
  <2>3. HintHolds'
    BY <2>1, <2>2 DEF HintHolds
  <2>4. LearnTypes'
    BY <1>1, <2>1 DEF LearnTypes, TypeOK, Verdicts
  <2>5. CourseHolds' /\ AttemptsHold' /\ WorkerHolds' /\ AttemptsCounted'
    BY <1>1, <2>1 DEF CourseHolds, AttemptsHold, WorkerHolds, AttemptsCounted, LiveExercises,
                      LiveLessons, Active
  <2> QED
    BY <2>3, <2>4, <2>5 DEF LearnInv
<1>4. CASE HintCommit
  <2> DEFINE e == hint.exercise
             first == [attempts |-> 0, hints |-> 1, passed |-> FALSE]
  <2>1. /\ e # None /\ hint' = NoHint
        /\ UNCHANGED <<course, lessons, exercises, completed, attempts, certificate, worker, visit>>
    BY <1>4 DEF HintCommit
  <2>2. e \in Exercises /\ e # None
    BY <1>1, <2>1
  <2>3. /\ progress' \in [Exercises -> {progress'[d] : d \in Exercises}]
        /\ \A d \in Exercises \ {e} : progress'[d] = progress[d]
        /\ progress'[e] = IF e \notin LiveExercises THEN progress[e]
                          ELSE IF progress[e] = None THEN first
                          ELSE IF hint.fresh THEN progress[e]
                          ELSE [progress[e] EXCEPT !.hints = progress[e].hints + 1]
    BY <1>1, <1>4, <2>2 DEF HintCommit
  <2>4. /\ MaxHints > 0
        /\ ~hint.fresh /\ progress[e] # None => progress[e].hints < MaxHints
    BY <1>1, <2>2 DEF HintHolds
  <2>5. first \in ProgressRow /\ first.attempts = 0 /\ first # None
    <3>1. first \in ProgressRow
      BY <2>4, LearnNumbers DEF ProgressRow
    <3> QED
      BY <3>1, ProgressIsThere
  <2> HIDE DEF first, e
  <2>6. /\ progress'[e] \in ProgressRow \cup {None}
        /\ progress[e] # None =>
              progress'[e] # None /\ progress'[e].attempts = progress[e].attempts
        /\ progress[e] = None => progress'[e] = None \/ progress'[e].attempts = 0
        /\ progress'[e] # None => e \in LiveExercises
    <3>1. CASE e \notin LiveExercises
      BY <1>1, <2>2, <2>3, <3>1 DEF CourseHolds
    <3>2. CASE e \in LiveExercises /\ progress[e] = None
      BY <1>1, <2>2, <2>3, <2>5, <3>2
    <3>3. CASE e \in LiveExercises /\ progress[e] # None /\ hint.fresh
      BY <1>1, <2>2, <2>3, <3>3
    <3>4. CASE e \in LiveExercises /\ progress[e] # None /\ ~hint.fresh
      <4> DEFINE w == [progress[e] EXCEPT !.hints = progress[e].hints + 1]
      <4>1. progress[e] \in ProgressRow /\ progress[e].hints < MaxHints
        BY <1>1, <2>2, <2>4, <3>4
      <4>2. progress[e].hints + 1 <= MaxHints
        <5>1. progress[e].hints \in 0 .. MaxHints
          BY <4>1, ProgressWritten
        <5> QED
          BY <4>1, <5>1, LearnNumbers
      <4>3. w \in ProgressRow /\ w.attempts = progress[e].attempts
        BY <4>1, <4>2, ProgressWritten
      <4>4. progress'[e] = w
        BY <1>1, <2>2, <2>3, <3>4
      <4> HIDE DEF w
      <4>5. w # None
        BY <4>3, ProgressIsThere
      <4> QED
        BY <3>4, <4>3, <4>4, <4>5
    <3> QED
      BY <3>1, <3>2, <3>3, <3>4
  <2>7. progress' \in [Exercises -> ProgressRow \cup {None}]
        /\ \A d \in Exercises \ {e} : progress'[d] = progress[d]
    BY <1>1, <2>2, <2>3, <2>6
  <2>8. LearnTypes'
    <3>1. hint' \in [exercise : Exercises \cup {None}, fresh : BOOLEAN]
      BY <1>2, <2>1
    <3> QED
      BY <1>1, <2>1, <2>7, <3>1 DEF LearnTypes, TypeOK, Verdicts, ProgressRow
  <2>9. LiveExercises' = LiveExercises /\ LiveLessons' = LiveLessons
    BY <2>1 DEF LiveExercises, LiveLessons
  <2>10. CourseHolds'
    <3>1. \A d \in Exercises : progress'[d] # None => d \in LiveExercises
      BY <1>1, <2>2, <2>6, <2>7 DEF CourseHolds
    <3> QED
      BY <1>1, <2>1, <2>9, <3>1 DEF CourseHolds
  <2>11. AttemptsHold' /\ WorkerHolds' /\ HintHolds'
    BY <1>1, <1>2, <2>1, <2>9 DEF AttemptsHold, WorkerHolds, HintHolds, Active
  <2>12. AttemptsCounted'
    <3> SUFFICES ASSUME NEW d \in LiveExercises
                 PROVE  Cardinality(CountedOf(d)) =
                          IF progress'[d] = None THEN 0 ELSE progress'[d].attempts
      BY <2>1, <2>9 DEF AttemptsCounted, CountedOf
    <3>1. d \in Exercises
      BY DEF LiveExercises
    <3>2. Cardinality(CountedOf(d)) = IF progress[d] = None THEN 0 ELSE progress[d].attempts
      BY <1>1 DEF AttemptsCounted, CountedOf
    <3> QED
      BY <2>6, <2>7, <3>1, <3>2
  <2> QED
    BY <2>8, <2>10, <2>11, <2>12 DEF LearnInv
<1> QED
  BY <1>3, <1>4

\* The worker commits a verdict, with the row of progress that counts it.
LEMMA CommitMoves ==
  ASSUME LearnInv, FinishCommit
  PROVE  LearnInv'
<1>0. PICK k, e, t, b :
         /\ k = worker.row /\ e = attempts[worker.row].exercise
         /\ t = IF worker.verdict = "passed" THEN "passed" ELSE "failed"
         /\ b = (worker.verdict # "infrastructure")
  OBVIOUS
<1> DEFINE w == [attempts[k] EXCEPT !.status = t, !.counted = b]
<1>1. /\ LearnTypes /\ CourseHolds /\ AttemptsHold /\ WorkerHolds /\ HintHolds /\ AttemptsCounted
      /\ attempts \in Seq(Row) /\ Len(attempts) <= MaxAttempts
      /\ progress \in [Exercises -> ProgressRow \cup {None}]
  BY LearnPieces DEF LearnInv
<1>2. /\ worker.pc = "commit"
      /\ progress' = IF b THEN [progress EXCEPT ![e] = Counted] ELSE progress
      /\ certificate' = (certificate \/ worker.issue)
      /\ ~(worker.issue /\ certificate)
      /\ worker' = NoWork
      /\ UNCHANGED <<course, lessons, exercises, completed, hint, visit>>
  BY <1>0 DEF FinishCommit
<1>3. k \in DOMAIN attempts /\ attempts[k] \in Row /\ attempts[k].status = "running"
  BY <1>0, <1>1, <1>2 DEF WorkerHolds
<1>4. /\ e \in Exercises /\ e \in LiveExercises /\ attempts[k].counted = FALSE
      /\ t \in {"passed", "failed"} /\ b \in BOOLEAN
  BY <1>0, <1>1, <1>3, AttemptRows DEF AttemptsHold, Active
<1>5. attempts' = [attempts EXCEPT ![k] = w]
  <2>1. attempts' = [attempts EXCEPT ![k].status = t, ![k].counted = b]
    BY <1>0 DEF FinishCommit
  <2> QED
    BY <1>1, <1>3, <2>1
<1>6. w \in Row /\ w.status = t /\ w.counted = b /\ w.exercise = e
  <2>1. e = attempts[k].exercise
    BY <1>0
  <2>2. w.exercise = attempts[k].exercise /\ w \in Row /\ w.status = t /\ w.counted = b
    <3>1. PICK r : r = attempts[k]
      OBVIOUS
    <3>2. r \in Row /\ w = [r EXCEPT !.status = t, !.counted = b]
      BY <1>3, <3>1
    <3> HIDE DEF w
    <3>3. r \in Row /\ w = [[r EXCEPT !.status = t] EXCEPT !.counted = b]
      BY <3>2 DEF Row
    <3>4. t \in {"passed", "failed"} /\ b \in BOOLEAN
      BY <1>4
    <3>5. w \in Row /\ w.status = t /\ w.counted = b /\ w.exercise = r.exercise
      BY <3>3, <3>4 DEF Row
    <3> QED
      BY <3>1, <3>5
  <2> QED
    BY <2>1, <2>2
<1> HIDE DEF w
<1>7. /\ attempts' \in Seq(Row) /\ Len(attempts') = Len(attempts)
      /\ DOMAIN attempts' = DOMAIN attempts /\ attempts'[k] = w
      /\ \A j \in DOMAIN attempts \ {k} : attempts'[j] = attempts[j]
  BY <1>1, <1>3, <1>5, <1>6
<1>8. \A j \in DOMAIN attempts : ~Active(j)'
  BY <1>1, <1>3, <1>4, <1>6, <1>7 DEF AttemptsHold, Active
<1>9. \A j \in DOMAIN attempts : attempts'[j].exercise = attempts[j].exercise
  BY <1>0, <1>6, <1>7
<1>10. \A d \in Exercises : CountedOf(d)' = IF d = e /\ b THEN CountedOf(d) \cup {k} ELSE CountedOf(d)
  BY <1>0, <1>3, <1>4, <1>6, <1>7 DEF CountedOf
<1>11. k \notin CountedOf(e)
  BY <1>4 DEF CountedOf
<1>12. LiveExercises' = LiveExercises /\ LiveLessons' = LiveLessons
  BY <1>2 DEF LiveExercises, LiveLessons
\* What counts, in numbers: one more, where it counts.
<1>13. \A d \in LiveExercises :
          Cardinality(CountedOf(d)') =
             (IF progress[d] = None THEN 0 ELSE progress[d].attempts) + IF d = e /\ b THEN 1 ELSE 0
  <2> SUFFICES ASSUME NEW d \in LiveExercises
               PROVE  Cardinality(CountedOf(d)') =
                         (IF progress[d] = None THEN 0 ELSE progress[d].attempts)
                            + IF d = e /\ b THEN 1 ELSE 0
    OBVIOUS
  <2>1. d \in Exercises
    BY DEF LiveExercises
  <2>2. IsFiniteSet(CountedOf(d)) /\ Cardinality(CountedOf(d)) \in 0 .. MaxAttempts
    BY <1>1, <2>1, CountedIs
  <2>3. Cardinality(CountedOf(d)) = IF progress[d] = None THEN 0 ELSE progress[d].attempts
    BY <1>1 DEF AttemptsCounted, CountedOf
  <2>4. CASE d = e /\ b
    <3>1. CountedOf(d)' = CountedOf(d) \cup {k} /\ k \notin CountedOf(d)
      BY <1>10, <1>11, <2>1, <2>4
    <3>2. Cardinality(CountedOf(d) \cup {k}) = Cardinality(CountedOf(d)) + 1
      BY <2>2, <3>1, FS_AddElement
    <3> QED
      BY <2>3, <2>4, <3>1, <3>2
  <2>5. CASE ~(d = e /\ b)
    <3>1. CountedOf(d)' = CountedOf(d)
      BY <1>10, <2>1, <2>5
    <3> QED
      BY <2>2, <2>3, <2>5, <3>1, LearnNumbers
  <2> QED
    BY <2>4, <2>5
<1>14. Cardinality(CountedOf(e)') \in 0 .. MaxAttempts
  <2>1. attempts' \in Seq(Row) /\ Len(attempts') <= MaxAttempts
    BY <1>1, <1>7
  <2>2. \A d \in Exercises : Cardinality(CountedOf(d)') \in 0 .. MaxAttempts
    <3>1. ASSUME NEW s, s \in Seq(Row), Len(s) <= MaxAttempts, NEW d \in Exercises
          PROVE  Cardinality({j \in DOMAIN s : s[j].exercise = d /\ s[j].counted}) \in 0 .. MaxAttempts
      BY <3>1, CountedInAny
    <3> QED
      BY <2>1, <3>1 DEF CountedOf
  <2> QED
    BY <1>4, <2>2
<1>15. b => Counted \in ProgressRow /\ Counted # None /\ Counted.attempts = Cardinality(CountedOf(e)')
  <2> SUFFICES ASSUME b
               PROVE  /\ Counted \in ProgressRow /\ Counted # None
                      /\ Counted.attempts = Cardinality(CountedOf(e)')
    OBVIOUS
  <2> DEFINE p == progress[e]
  <2>1. Counted = [attempts |-> IF p = None THEN 1 ELSE p.attempts + 1,
                   hints |-> IF p = None THEN 0 ELSE p.hints,
                   passed |-> worker.verdict = "passed" \/ (p # None /\ p.passed)]
    BY <1>0 DEF Counted
  <2>2. p \in ProgressRow \cup {None}
    BY <1>1, <1>4
  <2>3. Cardinality(CountedOf(e)') = (IF p = None THEN 0 ELSE p.attempts) + 1
    BY <1>4, <1>13
  <2> HIDE DEF p
  <2>4. CASE p = None
    <3>1. /\ Counted = [attempts |-> 1, hints |-> 0, passed |-> worker.verdict = "passed"]
          /\ Cardinality(CountedOf(e)') = 1
      BY <2>1, <2>3, <2>4
    <3>2. Counted \in ProgressRow /\ Counted.attempts = 1
      BY <1>14, <3>1, LearnNumbers DEF ProgressRow
    <3> QED
      BY <3>1, <3>2, ProgressIsThere
  <2>5. CASE p # None
    <3>1. p \in ProgressRow
      BY <2>2, <2>5
    <3>2. p.attempts \in 0 .. MaxAttempts /\ p.hints \in 0 .. MaxHints /\ p.passed \in BOOLEAN
      BY <3>1 DEF ProgressRow
    <3>3. Counted = [attempts |-> p.attempts + 1, hints |-> p.hints,
                     passed |-> worker.verdict = "passed" \/ p.passed]
      BY <2>1, <2>5
    <3>4. Cardinality(CountedOf(e)') = p.attempts + 1
      BY <2>3, <2>5
    <3>5. p.attempts + 1 \in 0 .. MaxAttempts
      BY <1>14, <3>4
    <3>6. Counted \in ProgressRow /\ Counted.attempts = p.attempts + 1
      BY <3>2, <3>3, <3>5 DEF ProgressRow
    <3> QED
      BY <3>4, <3>6, ProgressIsThere
  <2> QED
    BY <2>4, <2>5
<1>16. /\ progress' \in [Exercises -> ProgressRow \cup {None}]
       /\ \A d \in Exercises \ {e} : progress'[d] = progress[d]
       /\ progress'[e] = IF b THEN Counted ELSE progress[e]
  BY <1>1, <1>2, <1>4, <1>15
<1>17. LearnTypes'
  <2>1. certificate \in BOOLEAN /\ worker.issue \in BOOLEAN /\ NoWork \in
           [pc : {"idle", "run", "read", "commit"}, row : 0 .. MaxAttempts, verdict : Verdicts,
            fresh : BOOLEAN, issue : BOOLEAN]
    BY <1>1, LearnNumbers DEF LearnTypes, TypeOK, NoWork, Verdicts
  <2>2. Len(attempts') <= MaxAttempts /\ \A j \in DOMAIN attempts' : attempts'[j] \in Row
    BY <1>1, <1>7
  <2> QED
    BY <1>1, <1>2, <1>7, <1>16, <2>1, <2>2 DEF LearnTypes, TypeOK, Verdicts, ProgressRow
<1>18. CourseHolds'
  <2>1. course # "gone"
    BY <1>1, <1>4 DEF CourseHolds
  <2>2. \A d \in Exercises : progress'[d] # None => d \in LiveExercises
    BY <1>1, <1>4, <1>16 DEF CourseHolds
  <2> QED
    BY <1>1, <1>2, <1>12, <2>1, <2>2 DEF CourseHolds
<1>19. AttemptsHold'
  BY <1>1, <1>2, <1>7, <1>8, <1>9 DEF AttemptsHold
<1>20. WorkerHolds'
  BY <1>2 DEF WorkerHolds, NoWork
<1>21. HintHolds'
  <2>1. hint.exercise \in Exercises \cup {None}
    BY <1>1 DEF LearnTypes, TypeOK
  <2>2. b /\ progress[e] # None => Counted.hints = progress[e].hints
    BY <1>0 DEF Counted
  <2>3. b /\ progress[e] = None => Counted.hints = 0
    BY <1>0 DEF Counted
  <2> QED
    BY <1>1, <1>2, <1>16, <2>1, <2>2, <2>3, LearnNumbers DEF HintHolds
<1>22. AttemptsCounted'
  <2> SUFFICES ASSUME NEW d \in LiveExercises
               PROVE  Cardinality(CountedOf(d)') =
                         IF progress'[d] = None THEN 0 ELSE progress'[d].attempts
    BY <1>12 DEF AttemptsCounted, CountedOf
  <2>1. d \in Exercises
    BY DEF LiveExercises
  <2>2. CASE d = e /\ b
    BY <1>15, <1>16, <2>2
  <2>3. CASE ~(d = e /\ b)
    <3>1. progress'[d] = progress[d]
      BY <1>16, <2>1, <2>3
    <3>2. CountedOf(d)' = CountedOf(d)
      BY <1>10, <2>1, <2>3
    <3> QED
      BY <1>1, <3>1, <3>2 DEF AttemptsCounted, CountedOf
  <2> QED
    BY <2>2, <2>3
<1> QED
  BY <1>17, <1>18, <1>19, <1>20, <1>21, <1>22 DEF LearnInv

LEMMA LearnInit == Init => LearnInv
<1> SUFFICES ASSUME Init
             PROVE  LearnInv
  OBVIOUS
<1> USE DEF Init
<1>1. LiveLessons = {} /\ LiveExercises = {}
  BY LearnNumbers DEF LiveLessons, LiveExercises
<1>2. LearnTypes
  <2>1. /\ worker \in [pc : {"idle", "run", "read", "commit"}, row : 0 .. MaxAttempts,
                       verdict : Verdicts, fresh : BOOLEAN, issue : BOOLEAN]
        /\ hint \in [exercise : Exercises \cup {None}, fresh : BOOLEAN]
    BY LearnNumbers DEF NoWork, NoHint, Verdicts
  <2>2. attempts \in Seq(Row) /\ Len(attempts) <= MaxAttempts
    BY LearnNumbers
  <2>3. progress \in [Exercises -> ProgressRow \cup {None}]
    OBVIOUS
  <2> QED
    BY <2>1, <2>2, <2>3, LearnPieces
<1>3. CourseHolds
  BY <1>1 DEF CourseHolds
<1>4. AttemptsHold /\ WorkerHolds /\ HintHolds
  BY DEF AttemptsHold, WorkerHolds, HintHolds, NoWork, NoHint
<1>5. AttemptsCounted
  BY <1>1 DEF AttemptsCounted
<1> QED
  BY <1>2, <1>3, <1>4, <1>5 DEF LearnInv

LEMMA LearnStep == LearnInv /\ [Next]_vars => LearnInv'
<1> SUFFICES ASSUME LearnInv, [Next]_vars
             PROVE  LearnInv'
  OBVIOUS
<1>1. CASE Next
  <2>1. CASE \/ PublishCourse \/ UnpublishCourse
             \/ \E l \in Lessons : CreateLesson(l) \/ CompleteLesson(l)
             \/ \E e \in Exercises, l \in Lessons : CreateExercise(e, l)
             \/ VisitRead \/ VisitCommit
    BY <2>1, CourseMoves
  <2>2. CASE \/ DeleteCourse
             \/ \E l \in Lessons : DeleteLesson(l)
             \/ \E e \in Exercises : DeleteExercise(e)
    BY <2>2, DeletionMoves
  <2>3. CASE \E e \in Exercises : CreateAttempt(e)
    BY <2>3, AttemptMoves
  <2>4. CASE HintCommit \/ \E e \in Exercises : HintRead(e)
    BY <2>4, HintMoves
  <2>5. CASE \/ Claim \/ FinishNothing \/ FinishFlush \/ FinishConflict
             \/ \E verdict \in Verdicts : FinishRead(verdict)
             \/ Restart
    BY <2>5, WorkerMoves
  <2>6. CASE FinishCommit
    BY <2>6, CommitMoves
  <2> QED
    BY <1>1, <2>1, <2>2, <2>3, <2>4, <2>5, <2>6 DEF Next, Authoring
<1>2. CASE UNCHANGED vars
  BY <1>2 DEF vars, LearnInv, LearnTypes, TypeOK, CourseHolds, AttemptsHold, WorkerHolds, HintHolds,
              AttemptsCounted, LiveExercises, LiveLessons, Active
<1> QED
  BY <1>1, <1>2

\* What the invariant is for.
LEMMA LearnKeeps == LearnInv => ProgressKept
<1> SUFFICES ASSUME LearnInv
             PROVE  ProgressKept
  OBVIOUS
<1>1. LearnTypes /\ CourseHolds /\ AttemptsHold /\ AttemptsCounted
  BY DEF LearnInv
<1>2. Cardinality({k \in DOMAIN attempts : Active(k)}) <= 1
  <2> DEFINE A == {k \in DOMAIN attempts : Active(k)}
  <2>1. \A j, k \in A : j = k
    BY <1>1 DEF AttemptsHold
  <2> HIDE DEF A
  <2>2. A = {} \/ \E k \in A : A = {k}
    BY <2>1
  <2>3. Cardinality(A) = 0 \/ Cardinality(A) = 1
    BY <2>2, FS_EmptySet, FS_Singleton
  <2>4. Cardinality(A) <= 1
    BY <2>3
  <2> QED
    BY <2>4 DEF A
<1>3. NoOrphans
  BY <1>1, <1>2 DEF NoOrphans, CourseHolds, AttemptsHold
<1> QED
  BY <1>1, <1>3 DEF ProgressKept, LearnTypes

\* Whatever the author, the learner, the worker and its restarts do, and in whatever order:
\* one attempt is open, nothing points at what was deleted, and the counter that unlocks
\* the solution is the number of verdicts (learn.py, finish_attempt(), remove_exercises()).
THEOREM ProgressIsKept == Spec => []ProgressKept
<1>1. Spec => []LearnInv
  BY LearnInit, LearnStep, PTL DEF Spec
<1> QED
  BY <1>1, LearnKeeps, PTL

-----------------------------------------------------------------------------
(***************************************************************************)
(* Startup: what is recorded about the things that a start makes.          *)
(***************************************************************************)
MigrationNames == {"columns", "community_columns", "discussions", "community", "versions"}

Databases ==
    [applied : SUBSET MigrationNames, columns : SUBSET Columns, nullable : BOOLEAN,
     rebuild : BOOLEAN, arena : BOOLEAN, mapped : BOOLEAN,
     receipts : SUBSET S!Receipts, copies : [S!Things -> {0, 1}]]

\* The thing is there, or a user has removed it.
There(d, gone, t) == t \in gone \/ d.copies[t] = 1

\* Nothing was removed before the first start ended, and what was removed is not there.
RemovedHolds(d, gone) ==
    /\ gone \subseteq S!Things
    /\ gone # {} => MigrationNames \subseteq d.applied /\ {"lessons", "exercises"} \subseteq d.receipts
    /\ "pack" \in gone => "pack" \in d.receipts
    /\ \A t \in gone \ {"variation"} : d.copies[t] = 0

\* What a migration copies is there when the migration is recorded, and was not before.
CopiesHold(d, gone, old) ==
    /\ old /\ "discussions" \in d.applied => d.mapped
    /\ IF d.mapped THEN There(d, gone, "topic") ELSE d.copies["topic"] = 0
    /\ old /\ "community" \in d.applied => There(d, gone, "vote") /\ There(d, gone, "watch")
    /\ "community" \notin d.applied => d.copies["vote"] = 0 /\ d.copies["watch"] = 0
    /\ old /\ "versions" \in d.applied => There(d, gone, "variation")

\* So it is with what a receipt is written for.
ReceiptsHold(d, gone) ==
    /\ "lessons" \in d.receipts <=> "exercises" \in d.receipts
    /\ \A t \in S!Receipts :
          IF t \in d.receipts THEN There(d, gone, t) ELSE d.copies[t] = 0

DatabaseHolds(d, gone, old) ==
    /\ d \in Databases
    /\ RemovedHolds(d, gone) /\ CopiesHold(d, gone, old) /\ ReceiptsHold(d, gone)

StartupInv ==
    /\ backend \in {"sqlite", "postgresql"} /\ legacy \in BOOLEAN
    /\ pc \in {"down", "migrate", "rebuild", "seed", "learn", "versions", "practice", "up"}
    /\ crashes \in 0 .. MaxCrashes
    /\ DatabaseHolds(db, removed, legacy)
    /\ pc \in {"seed", "learn", "versions", "practice", "up"} => MigrationNames \subseteq db.applied
    /\ pc \in {"versions", "practice", "up"} => {"lessons", "exercises"} \subseteq db.receipts

-----------------------------------------------------------------------------
LEMMA StartupBounds == MaxCrashes \in Nat
BY ServicesAssumption DEF S!StartupAssumption

LEMMA Names == S!Range(S!Migrations) = MigrationNames
<1>1. DOMAIN S!Migrations = 1 .. 5
  BY DEF S!Migrations
<1>2. /\ S!Migrations[1] = "columns" /\ S!Migrations[2] = "community_columns"
      /\ S!Migrations[3] = "discussions" /\ S!Migrations[4] = "community" /\ S!Migrations[5] = "versions"
  BY DEF S!Migrations
<1> QED
  BY <1>1, <1>2 DEF S!Range, MigrationNames

\* The likes are copied after the discussions.
LEMMA InOrder == S!Migrating("community") => "discussions" \in db.applied
<1>1. DOMAIN S!Migrations = 1 .. 5
  BY DEF S!Migrations
<1>2. /\ S!Migrations[1] = "columns" /\ S!Migrations[2] = "community_columns"
      /\ S!Migrations[3] = "discussions" /\ S!Migrations[4] = "community" /\ S!Migrations[5] = "versions"
  BY DEF S!Migrations
<1> QED
  BY <1>1, <1>2 DEF S!Migrating

\* What is copied was not there, and then it is.
LEMMA CopiesAdd ==
  ASSUME NEW d \in Databases, NEW things \in SUBSET S!Things, \A t \in things : d.copies[t] = 0,
         NEW e, e = S!Copied(d, things)
  PROVE  /\ e \in Databases
         /\ e.applied = d.applied /\ e.mapped = d.mapped /\ e.receipts = d.receipts
         /\ \A t \in S!Things : e.copies[t] = IF t \in things THEN 1 ELSE d.copies[t]
<1>1. \A t \in S!Things : d.copies[t] + (IF t \in things THEN 1 ELSE 0)
                          = IF t \in things THEN 1 ELSE d.copies[t]
  BY DEF Databases
<1>2. PICK copies : copies = [t \in S!Things |-> IF t \in things THEN 1 ELSE d.copies[t]]
  OBVIOUS
<1>3. copies = [t \in S!Things |-> d.copies[t] + (IF t \in things THEN 1 ELSE 0)]
  BY <1>1, <1>2
<1>4. e = [d EXCEPT !.copies = copies]
  BY <1>3 DEF S!Copied, Databases
<1>5. copies \in [S!Things -> {0, 1}]
  BY <1>2 DEF Databases
<1> QED
  BY <1>2, <1>4, <1>5 DEF Databases

\* A database in which only schema, seed and the migrations of the schema differ.
LEMMA SchemaOnly ==
  ASSUME NEW d, NEW gone, DatabaseHolds(d, gone, legacy), legacy \in BOOLEAN,
         NEW e \in Databases, e.copies = d.copies, e.mapped = d.mapped, e.receipts = d.receipts,
         d.applied \subseteq e.applied,
         e.applied \subseteq d.applied \cup {"columns", "community_columns"}
  PROVE  DatabaseHolds(e, gone, legacy)
BY DEF DatabaseHolds, RemovedHolds, CopiesHold, ReceiptsHold, There

\* Before the migrations are complete nobody has removed anything.
LEMMA NothingGone ==
  ASSUME NEW d, NEW gone, NEW old, DatabaseHolds(d, gone, old),
         NEW m \in MigrationNames, m \notin d.applied
  PROVE  gone = {}
BY DEF DatabaseHolds, RemovedHolds

LEMMA DiscussionsMove ==
  ASSUME NEW d, DatabaseHolds(d, {}, legacy), legacy \in BOOLEAN,
         NEW e, e = [S!CopyDiscussions(d) EXCEPT !.applied = @ \cup {"discussions"}]
  PROVE  DatabaseHolds(e, {}, legacy)
<1>0. d \in Databases
  BY DEF DatabaseHolds
<1>1. CASE legacy /\ ~d.mapped
  <2>1. PICK f : f = [d EXCEPT !.mapped = TRUE]
    OBVIOUS
  <2>2. /\ f \in Databases /\ f.applied = d.applied /\ f.mapped = TRUE /\ f.receipts = d.receipts
        /\ f.copies = d.copies
    BY <1>0, <2>1 DEF Databases
  <2>3. PICK g : g = S!Copied(f, {"topic"})
    OBVIOUS
  <2>4. d.copies["topic"] = 0
    BY <1>1 DEF DatabaseHolds, CopiesHold
  <2>5. /\ g \in Databases /\ g.applied = f.applied /\ g.mapped = f.mapped
        /\ g.receipts = f.receipts
        /\ \A t \in S!Things : g.copies[t] = IF t \in {"topic"} THEN 1 ELSE f.copies[t]
    <3>1. {"topic"} \in SUBSET S!Things /\ \A t \in {"topic"} : f.copies[t] = 0
      BY <2>2, <2>4 DEF S!Things
    <3>2. f \in Databases
      BY <2>2
    <3> QED
      BY <2>3, <3>1, <3>2, CopiesAdd
  <2>6. e = [g EXCEPT !.applied = @ \cup {"discussions"}]
    BY <1>1, <2>1, <2>3 DEF S!CopyDiscussions
  <2>6a. /\ e \in Databases /\ e.applied = g.applied \cup {"discussions"}
         /\ e.mapped = g.mapped /\ e.receipts = g.receipts /\ e.copies = g.copies
    BY <2>5, <2>6 DEF Databases, MigrationNames
  <2>7. /\ e \in Databases /\ e.applied = d.applied \cup {"discussions"} /\ e.mapped = TRUE
        /\ e.receipts = d.receipts
        /\ e.copies["topic"] = 1
        /\ \A t \in S!Things \ {"topic"} : e.copies[t] = d.copies[t]
    BY <2>2, <2>5, <2>6a DEF S!Things
  <2> QED
    BY <1>1, <2>7 DEF DatabaseHolds, RemovedHolds, CopiesHold, ReceiptsHold, There, S!Things,
                      S!Receipts, MigrationNames
<1>2. CASE ~(legacy /\ ~d.mapped)
  <2>1. e = [d EXCEPT !.applied = @ \cup {"discussions"}]
    BY <1>2 DEF S!CopyDiscussions
  <2>2. /\ e \in Databases /\ e.applied = d.applied \cup {"discussions"} /\ e.mapped = d.mapped
        /\ e.receipts = d.receipts /\ e.copies = d.copies
    BY <1>0, <2>1 DEF Databases, MigrationNames
  <2> QED
    BY <1>2, <2>2 DEF DatabaseHolds, RemovedHolds, CopiesHold, ReceiptsHold, There
<1> QED
  BY <1>1, <1>2

LEMMA LikesMove ==
  ASSUME NEW d, DatabaseHolds(d, {}, legacy), legacy \in BOOLEAN,
         "discussions" \in d.applied, "community" \notin d.applied,
         NEW e, e = [S!CopyLikes(d) EXCEPT !.applied = @ \cup {"community"}]
  PROVE  DatabaseHolds(e, {}, legacy)
<1>0. d \in Databases
  BY DEF DatabaseHolds
<1>1. CASE d.copies["topic"] > 0
  <2>1. PICK g : g = S!Copied(d, {"vote", "watch"})
    OBVIOUS
  <2>2. /\ g \in Databases /\ g.applied = d.applied /\ g.mapped = d.mapped
        /\ g.receipts = d.receipts
        /\ \A t \in S!Things : g.copies[t] = IF t \in {"vote", "watch"} THEN 1 ELSE d.copies[t]
    <3>1. {"vote", "watch"} \in SUBSET S!Things /\ \A t \in {"vote", "watch"} : d.copies[t] = 0
      BY DEF DatabaseHolds, CopiesHold, S!Things
    <3> QED
      BY <1>0, <2>1, <3>1, CopiesAdd
  <2>3. e = [g EXCEPT !.applied = @ \cup {"community"}]
    BY <1>1, <2>1 DEF S!CopyLikes
  <2>4. /\ e \in Databases /\ e.applied = d.applied \cup {"community"} /\ e.mapped = d.mapped
        /\ e.receipts = d.receipts
        /\ e.copies["vote"] = 1 /\ e.copies["watch"] = 1
        /\ \A t \in S!Things \ {"vote", "watch"} : e.copies[t] = d.copies[t]
    BY <2>2, <2>3 DEF Databases, MigrationNames, S!Things
  <2> QED
    BY <2>4 DEF DatabaseHolds, RemovedHolds, CopiesHold, ReceiptsHold, There, S!Things,
                S!Receipts, MigrationNames
<1>2. CASE ~(d.copies["topic"] > 0)
  <2>1. e = [d EXCEPT !.applied = @ \cup {"community"}]
    BY <1>2 DEF S!CopyLikes
  <2>2. /\ e \in Databases /\ e.applied = d.applied \cup {"community"} /\ e.mapped = d.mapped
        /\ e.receipts = d.receipts /\ e.copies = d.copies
    BY <1>0, <2>1 DEF Databases, MigrationNames
  <2>3. ~legacy
    BY <1>2 DEF DatabaseHolds, CopiesHold, There
  <2> QED
    BY <2>2, <2>3 DEF DatabaseHolds, RemovedHolds, CopiesHold, ReceiptsHold, There
<1> QED
  BY <1>1, <1>2

\* A variation is made where there is none, and in every database of an earlier release.
LEMMA BackfillMakes ==
  ASSUME NEW d, NEW gone, DatabaseHolds(d, gone, legacy), legacy \in BOOLEAN,
         NEW e, e = S!Backfill(d)
  PROVE  /\ e \in Databases
         /\ e.applied = d.applied /\ e.mapped = d.mapped /\ e.receipts = d.receipts
         /\ legacy => e.copies["variation"] = 1
         /\ d.copies["variation"] = 1 => e.copies["variation"] = 1
         /\ \A t \in S!Things \ {"variation"} : e.copies[t] = d.copies[t]
<1>0. d \in Databases
  BY DEF DatabaseHolds
<1>1. CASE (legacy \/ d.arena) /\ d.copies["variation"] = 0
  <2>1. {"variation"} \in SUBSET S!Things /\ \A t \in {"variation"} : d.copies[t] = 0
    BY <1>1 DEF S!Things
  <2>2. e = S!Copied(d, {"variation"})
    BY <1>1 DEF S!Backfill
  <2>3. /\ e \in Databases /\ e.applied = d.applied /\ e.mapped = d.mapped
        /\ e.receipts = d.receipts
        /\ \A t \in S!Things : e.copies[t] = IF t \in {"variation"} THEN 1 ELSE d.copies[t]
    BY <1>0, <2>1, <2>2, CopiesAdd
  <2> QED
    BY <1>1, <2>3 DEF S!Things
<1>2. CASE ~((legacy \/ d.arena) /\ d.copies["variation"] = 0)
  <2>1. e = d
    BY <1>2 DEF S!Backfill
  <2>2. d.copies["variation"] \in {0, 1}
    BY <1>0 DEF Databases, S!Things
  <2> QED
    BY <1>0, <1>2, <2>1, <2>2
<1> QED
  BY <1>1, <1>2

\* With a migration or without, what else was there stays.
LEMMA BackfillMoves ==
  ASSUME NEW d, NEW gone, DatabaseHolds(d, gone, legacy), legacy \in BOOLEAN,
         NEW f, f = S!Backfill(d),
         NEW e \in Databases, e.copies = f.copies, e.mapped = f.mapped, e.receipts = f.receipts,
         f.applied \subseteq e.applied, e.applied \subseteq f.applied \cup {"versions"}
  PROVE  DatabaseHolds(e, gone, legacy)
<1>1. /\ f.applied = d.applied /\ f.mapped = d.mapped /\ f.receipts = d.receipts
      /\ legacy => f.copies["variation"] = 1
      /\ \A t \in S!Things \ {"variation"} : f.copies[t] = d.copies[t]
  BY BackfillMakes
<1>2. \A t \in S!Things \ {"variation"} : e.copies[t] = d.copies[t]
  BY <1>1
<1>3. RemovedHolds(e, gone)
  BY <1>1, <1>2 DEF DatabaseHolds, RemovedHolds
<1>4. CopiesHold(e, gone, legacy)
  BY <1>1, <1>2 DEF DatabaseHolds, CopiesHold, There, S!Things
<1>5. ReceiptsHold(e, gone)
  BY <1>1, <1>2 DEF DatabaseHolds, ReceiptsHold, There, S!Things, S!Receipts
<1> QED
  BY <1>3, <1>4, <1>5 DEF DatabaseHolds

LEMMA MigrationsMove ==
  ASSUME NEW d, NEW gone, DatabaseHolds(d, gone, legacy), legacy \in BOOLEAN,
         NEW m \in MigrationNames, m \notin d.applied,
         m = "community" => "discussions" \in d.applied,
         NEW e, e = [S!Migrated(m, d) EXCEPT !.applied = @ \cup {m}]
  PROVE  DatabaseHolds(e, gone, legacy)
<1>0. d \in Databases /\ gone = {}
  BY NothingGone DEF DatabaseHolds
<1>1. CASE m = "columns"
  <2>1. PICK f : f = [d EXCEPT !.columns = Columns]
    OBVIOUS
  <2>2. e = [f EXCEPT !.applied = @ \cup {m}]
    BY <1>1, <2>1 DEF S!Migrated
  <2>3. /\ f \in Databases /\ f.copies = d.copies /\ f.mapped = d.mapped
        /\ f.receipts = d.receipts /\ f.applied = d.applied
    BY <1>0, <2>1 DEF Databases
  <2>4. /\ e \in Databases /\ e.copies = f.copies /\ e.mapped = f.mapped
        /\ e.receipts = f.receipts /\ e.applied = f.applied \cup {m}
    <3>1. f.applied \cup {m} \in SUBSET MigrationNames
      BY <2>3 DEF Databases
    <3> QED
      BY <2>2, <2>3, <3>1 DEF Databases
  <2>5. /\ e.copies = d.copies /\ e.mapped = d.mapped /\ e.receipts = d.receipts
        /\ d.applied \subseteq e.applied
        /\ e.applied \subseteq d.applied \cup {"columns", "community_columns"}
    BY <1>1, <2>3, <2>4
  <2> QED
    BY <2>4, <2>5, SchemaOnly
<1>2. CASE m = "community_columns"
  <2>1. PICK f : f = [d EXCEPT !.nullable = TRUE, !.rebuild = FALSE]
    OBVIOUS
  <2>2. e = [f EXCEPT !.applied = @ \cup {m}]
    BY <1>2, <2>1 DEF S!Migrated
  <2>3. /\ f \in Databases /\ f.copies = d.copies /\ f.mapped = d.mapped
        /\ f.receipts = d.receipts /\ f.applied = d.applied
    BY <1>0, <2>1 DEF Databases
  <2>4. /\ e \in Databases /\ e.copies = f.copies /\ e.mapped = f.mapped
        /\ e.receipts = f.receipts /\ e.applied = f.applied \cup {m}
    <3>1. f.applied \cup {m} \in SUBSET MigrationNames
      BY <2>3 DEF Databases
    <3> QED
      BY <2>2, <2>3, <3>1 DEF Databases
  <2>5. /\ e.copies = d.copies /\ e.mapped = d.mapped /\ e.receipts = d.receipts
        /\ d.applied \subseteq e.applied
        /\ e.applied \subseteq d.applied \cup {"columns", "community_columns"}
    BY <1>2, <2>3, <2>4
  <2> QED
    BY <2>4, <2>5, SchemaOnly
<1>3. CASE m = "discussions"
  BY <1>0, <1>3, DiscussionsMove DEF S!Migrated
<1>4. CASE m = "community"
  BY <1>0, <1>4, LikesMove DEF S!Migrated
<1>5. CASE m = "versions"
  <2>1. PICK f : f = S!Backfill(d)
    OBVIOUS
  <2>2. f \in Databases
    BY <2>1, BackfillMakes
  <2>3. e = [f EXCEPT !.applied = @ \cup {m}]
    BY <1>5, <2>1 DEF S!Migrated
  <2>4. /\ e \in Databases /\ e.copies = f.copies /\ e.mapped = f.mapped
        /\ e.receipts = f.receipts /\ e.applied = f.applied \cup {"versions"}
    BY <1>5, <2>2, <2>3 DEF Databases, MigrationNames
  <2> QED
    BY <2>1, <2>4, BackfillMoves
<1> QED
  BY <1>1, <1>2, <1>3, <1>4, <1>5 DEF MigrationNames

\* What was recorded stays recorded.
Follows(d, e) == e.applied = d.applied /\ d.receipts \subseteq e.receipts

\* The conversions of the course have both receipts or none.
LEMMA LearnMoves ==
  ASSUME NEW d, NEW gone, DatabaseHolds(d, gone, legacy), legacy \in BOOLEAN,
         NEW f, f = S!Converted(d),
         NEW g, g = IF S!ExercisesDue(f) THEN S!Copied(f, {"exercises"}) ELSE f,
         NEW e, e = [g EXCEPT !.receipts = g.receipts \cup {"lessons", "exercises"}]
  PROVE  /\ DatabaseHolds(e, gone, legacy) /\ Follows(d, e)
         /\ {"lessons", "exercises"} \subseteq e.receipts
<1>0. d \in Databases /\ ReceiptsHold(d, gone)
  BY DEF DatabaseHolds
<1>1. CASE "lessons" \in d.receipts
  <2>1. "exercises" \in d.receipts
    BY <1>0, <1>1 DEF ReceiptsHold
  <2>2. f = d /\ g = d
    BY <1>1, <2>1 DEF S!Converted, S!LessonsDue, S!ExercisesDue
  <2>3. d.receipts \cup {"lessons", "exercises"} = d.receipts
    BY <1>1, <2>1
  <2>4. e = d
    BY <1>0, <2>2, <2>3 DEF Databases
  <2> QED
    BY <1>1, <2>1, <2>4 DEF Follows
<1>2. CASE "lessons" \notin d.receipts
  <2>1. "exercises" \notin d.receipts
    BY <1>0, <1>2 DEF ReceiptsHold
  <2>2. /\ d.copies["lessons"] = 0 /\ d.copies["exercises"] = 0
        /\ gone = {}
    BY <1>0, <1>2, <2>1 DEF ReceiptsHold, S!Receipts, DatabaseHolds, RemovedHolds
  <2>3. f = S!Copied(d, {"lessons"})
    BY <1>2, <2>2 DEF S!Converted, S!LessonsDue
  <2>4. /\ f \in Databases /\ f.applied = d.applied /\ f.mapped = d.mapped
        /\ f.receipts = d.receipts
        /\ \A t \in S!Things : f.copies[t] = IF t \in {"lessons"} THEN 1 ELSE d.copies[t]
    <3>1. {"lessons"} \in SUBSET S!Things /\ \A t \in {"lessons"} : d.copies[t] = 0
      BY <2>2 DEF S!Things
    <3> QED
      BY <1>0, <2>3, <3>1, CopiesAdd
  <2>5. f.copies["lessons"] = 1 /\ f.copies["exercises"] = 0
    BY <2>2, <2>4 DEF S!Things
  <2>6. g = S!Copied(f, {"exercises"})
    BY <2>1, <2>4, <2>5 DEF S!ExercisesDue
  <2>7. /\ g \in Databases /\ g.applied = f.applied /\ g.mapped = f.mapped
        /\ g.receipts = f.receipts
        /\ \A t \in S!Things : g.copies[t] = IF t \in {"exercises"} THEN 1 ELSE f.copies[t]
    <3>1. {"exercises"} \in SUBSET S!Things /\ \A t \in {"exercises"} : f.copies[t] = 0
      BY <2>5 DEF S!Things
    <3>2. f \in Databases
      BY <2>4
    <3> QED
      BY <2>6, <3>1, <3>2, CopiesAdd
  <2>8. /\ e \in Databases /\ e.applied = g.applied /\ e.mapped = g.mapped
        /\ e.receipts = g.receipts \cup {"lessons", "exercises"} /\ e.copies = g.copies
    BY <2>7 DEF Databases, S!Receipts
  <2>9. /\ e.applied = d.applied /\ e.mapped = d.mapped
        /\ e.receipts = d.receipts \cup {"lessons", "exercises"}
        /\ e.copies["lessons"] = 1 /\ e.copies["exercises"] = 1
        /\ \A t \in S!Things \ {"lessons", "exercises"} : e.copies[t] = d.copies[t]
    BY <2>4, <2>7, <2>8 DEF S!Things
  <2> QED
    BY <2>2, <2>8, <2>9 DEF DatabaseHolds, RemovedHolds, CopiesHold, ReceiptsHold, There, S!Things,
                            S!Receipts, Follows
<1> QED
  BY <1>1, <1>2

\* A pack is imported with its receipt.
LEMMA ImportMoves ==
  ASSUME NEW d, NEW gone, DatabaseHolds(d, gone, legacy), legacy \in BOOLEAN,
         "pack" \notin d.receipts,
         NEW f, f = S!Copied(d, {"pack"}),
         NEW e, e = [f EXCEPT !.receipts = f.receipts \cup {"pack"}]
  PROVE  DatabaseHolds(e, gone, legacy) /\ Follows(d, e)
<1>2. /\ f \in Databases /\ f.applied = d.applied /\ f.mapped = d.mapped
      /\ f.receipts = d.receipts
      /\ \A t \in S!Things : f.copies[t] = IF t \in {"pack"} THEN 1 ELSE d.copies[t]
  <2>1. {"pack"} \in SUBSET S!Things /\ \A t \in {"pack"} : d.copies[t] = 0
    BY DEF S!Things, DatabaseHolds, ReceiptsHold, S!Receipts
  <2>2. d \in Databases
    BY DEF DatabaseHolds
  <2> QED
    BY <2>1, <2>2, CopiesAdd
<1>3. /\ e \in Databases /\ e.applied = f.applied /\ e.mapped = f.mapped
      /\ e.receipts = f.receipts \cup {"pack"} /\ e.copies = f.copies
  BY <1>2 DEF Databases, S!Receipts
<1>4. /\ e.applied = d.applied /\ e.mapped = d.mapped /\ e.receipts = d.receipts \cup {"pack"}
      /\ e.copies["pack"] = 1
      /\ \A t \in S!Things \ {"pack"} : e.copies[t] = d.copies[t]
  BY <1>2, <1>3 DEF S!Things
<1> QED
  BY <1>3, <1>4 DEF DatabaseHolds, RemovedHolds, CopiesHold, ReceiptsHold, There, S!Things, S!Receipts,
                      Follows

\* Whatever users remove, its migration and its receipt stay.
LEMMA RemovalsMove ==
  ASSUME NEW d, NEW gone, DatabaseHolds(d, gone, legacy), legacy \in BOOLEAN,
         MigrationNames \subseteq d.applied, {"lessons", "exercises"} \subseteq d.receipts,
         NEW t \in S!Things, d.copies[t] > 0,
         NEW e, e = [d EXCEPT !.copies = [u \in S!Things |-> IF u \in S!With(t) THEN 0 ELSE @[u]]]
  PROVE  DatabaseHolds(e, gone \cup S!With(t), legacy) /\ e.applied = d.applied
         /\ e.receipts = d.receipts
<1>0. d \in Databases
  BY DEF DatabaseHolds
<1>1. S!With(t) \subseteq S!Things /\ ("pack" \in S!With(t) => t = "pack")
  BY DEF S!With, S!Things
<1>2. PICK copies : copies = [u \in S!Things |-> IF u \in S!With(t) THEN 0 ELSE d.copies[u]]
  OBVIOUS
<1>3. e = [d EXCEPT !.copies = copies]
  BY <1>2
<1>4. copies \in [S!Things -> {0, 1}]
  BY <1>0, <1>2 DEF Databases
<1>5. /\ e \in Databases /\ e.applied = d.applied /\ e.mapped = d.mapped
      /\ e.receipts = d.receipts /\ e.copies = copies
  BY <1>0, <1>3, <1>4 DEF Databases
<1>6. \A u \in S!Things : e.copies[u] = IF u \in S!With(t) THEN 0 ELSE d.copies[u]
  BY <1>2, <1>5
<1>7. t = "pack" => "pack" \in d.receipts
  BY DEF DatabaseHolds, ReceiptsHold, S!Receipts
<1>8. RemovedHolds(e, gone \cup S!With(t))
  BY <1>1, <1>5, <1>6, <1>7 DEF DatabaseHolds, RemovedHolds
<1>9. CopiesHold(e, gone \cup S!With(t), legacy)
  BY <1>5, <1>6 DEF DatabaseHolds, CopiesHold, There, S!Things, MigrationNames
<1>10. ReceiptsHold(e, gone \cup S!With(t))
  BY <1>5, <1>6 DEF DatabaseHolds, ReceiptsHold, There, S!Things, S!Receipts
<1> QED
  BY <1>5, <1>8, <1>9, <1>10 DEF DatabaseHolds

-----------------------------------------------------------------------------
\* A step that commits nothing, and does not get further than migrations and receipts allow.
LEMMA QuietStarts ==
  ASSUME StartupInv, UNCHANGED <<backend, legacy, db, removed>>,
         pc' \in {"down", "migrate"} \/ pc' = pc, crashes' \in 0 .. MaxCrashes
  PROVE  StartupInv'
BY DEF StartupInv

\* A step that commits a database
LEMMA Committed ==
  ASSUME StartupInv, UNCHANGED <<backend, legacy, crashes>>,
         NEW e, db' = e, NEW gone, removed' = gone, DatabaseHolds(e, gone, legacy),
         NEW at, pc' = at,
         at \in {"down", "migrate", "rebuild", "seed", "learn", "versions", "practice", "up"},
         at \in {"seed", "learn", "versions", "practice", "up"} => MigrationNames \subseteq e.applied,
         at \in {"versions", "practice", "up"} => {"lessons", "exercises"} \subseteq e.receipts
  PROVE  StartupInv'
BY DEF StartupInv

LEMMA MigrateMoves == ASSUME StartupInv, NEW m \in S!Range(S!Migrations), S!Migrate(m) PROVE StartupInv'
<1>1. /\ S!Migrating(m) /\ m \in MigrationNames /\ m \notin db.applied
      /\ DatabaseHolds(db, removed, legacy) /\ legacy \in BOOLEAN
  BY Names DEF StartupInv, S!Migrate, S!Migrating
<1>2. PICK d, gone, e : d = db /\ gone = removed /\ e = [S!Migrated(m, d) EXCEPT !.applied = @ \cup {m}]
  OBVIOUS
<1>3. m = "community" => "discussions" \in d.applied
  BY <1>1, <1>2, InOrder
<1>4. DatabaseHolds(e, gone, legacy)
  BY <1>1, <1>2, <1>3, MigrationsMove
<1>5. UNCHANGED <<backend, legacy, crashes>> /\ db' = e /\ removed' = gone /\ pc' = "migrate"
  BY <1>2 DEF S!Migrate
<1> QED
  BY <1>4, <1>5, Committed

LEMMA SchemaMoves ==
  ASSUME StartupInv, (\E c \in Columns : S!AddColumn(c)) \/ S!CreateRebuild \/ S!Seed
  PROVE  StartupInv'
<1>0. /\ DatabaseHolds(db, removed, legacy) /\ legacy \in BOOLEAN /\ db \in Databases
      /\ pc \in {"seed", "learn", "versions", "practice", "up"} => MigrationNames \subseteq db.applied
  BY DEF StartupInv, DatabaseHolds
<1>1. PICK d, gone : d = db /\ gone = removed
  OBVIOUS
<1>2. /\ db' \in Databases /\ db'.copies = d.copies /\ db'.mapped = d.mapped
      /\ db'.receipts = d.receipts /\ db'.applied = d.applied
  <2>1. CASE \E c \in Columns : S!AddColumn(c)
    BY <1>0, <1>1, <2>1 DEF S!AddColumn, Databases
  <2>2. CASE S!CreateRebuild
    BY <1>0, <1>1, <2>2 DEF S!CreateRebuild, Databases
  <2>3. CASE S!Seed
    BY <1>0, <1>1, <2>3 DEF S!Seed, S!Then, Databases
  <2> QED
    BY <2>1, <2>2, <2>3
<1>2a. PICK e : e = db'
  OBVIOUS
<1>3. DatabaseHolds(e, gone, legacy)
  BY <1>0, <1>1, <1>2, <1>2a, SchemaOnly
<1>4. UNCHANGED <<backend, legacy, crashes>> /\ removed' = gone
  BY <1>1 DEF S!AddColumn, S!CreateRebuild, S!Seed, S!Then
<1>5. /\ pc' \in {"migrate", "rebuild", "learn"}
      /\ pc' = "learn" => MigrationNames \subseteq e.applied
  BY <1>0, <1>1, <1>2, <1>2a DEF S!AddColumn, S!CreateRebuild, S!Seed, S!Then, S!Migrating
<1>6. PICK at : at = pc'
  OBVIOUS
<1> QED
  BY <1>2a, <1>3, <1>4, <1>5, <1>6, Committed

LEMMA ContentMoves == ASSUME StartupInv, S!Learn \/ S!Versions \/ S!Import \/ S!ImportFails PROVE StartupInv'
<1>0. /\ DatabaseHolds(db, removed, legacy) /\ legacy \in BOOLEAN /\ db \in Databases
      /\ pc \in {"seed", "learn", "versions", "practice", "up"} => MigrationNames \subseteq db.applied
      /\ pc \in {"versions", "practice", "up"} => {"lessons", "exercises"} \subseteq db.receipts
  BY DEF StartupInv, DatabaseHolds
<1>1. PICK d, gone : d = db /\ gone = removed
  OBVIOUS
<1>1a. DatabaseHolds(d, gone, legacy)
  BY <1>0, <1>1
<1>2. CASE S!Learn
  <2>1. PICK f : f = S!Converted(d)
    OBVIOUS
  <2>2. PICK g : g = IF S!ExercisesDue(f) THEN S!Copied(f, {"exercises"}) ELSE f
    OBVIOUS
  <2>3. PICK e : e = [g EXCEPT !.receipts = g.receipts \cup {"lessons", "exercises"}]
    OBVIOUS
  <2>4. /\ pc = "learn" /\ db' = e /\ pc' = "versions" /\ removed' = gone
        /\ UNCHANGED <<backend, legacy, crashes>>
    BY <1>1, <1>2, <2>1, <2>2, <2>3 DEF S!Learn, S!Then
  <2>5. /\ DatabaseHolds(e, gone, legacy)
        /\ e.applied = d.applied /\ {"lessons", "exercises"} \subseteq e.receipts
    <3>1. DatabaseHolds(e, gone, legacy)
      BY <1>0, <1>1a, <2>1, <2>2, <2>3, LearnMoves
    <3>2. Follows(d, e)
      BY <1>0, <1>1a, <2>1, <2>2, <2>3, LearnMoves
    <3>3. {"lessons", "exercises"} \subseteq e.receipts
      BY <1>0, <1>1a, <2>1, <2>2, <2>3, LearnMoves
    <3> QED
      BY <3>1, <3>2, <3>3 DEF Follows
  <2> QED
    BY <1>0, <1>1, <2>4, <2>5, Committed
<1>3. CASE S!Versions
  <2>1. PICK e : e = S!Backfill(d)
    OBVIOUS
  <2>2. /\ pc = "versions" /\ db' = e /\ pc' = "practice" /\ removed' = gone
        /\ UNCHANGED <<backend, legacy, crashes>>
    BY <1>1, <1>3, <2>1 DEF S!Versions, S!Then
  <2>3. e \in Databases /\ e.applied = d.applied /\ e.receipts = d.receipts
    BY <1>0, <1>1, <2>1, BackfillMakes
  <2>4. DatabaseHolds(e, gone, legacy)
    BY <1>0, <1>1, <2>1, <2>3, BackfillMoves
  <2> QED
    BY <1>0, <1>1, <2>2, <2>3, <2>4, Committed
<1>4. CASE S!Import
  <2>1. PICK e : e = db'
    OBVIOUS
  <2>2. /\ pc = "practice" /\ pc' = "up" /\ removed' = gone
        /\ UNCHANGED <<backend, legacy, crashes>>
    BY <1>1, <1>4 DEF S!Import, S!Then
  <2>3. /\ DatabaseHolds(e, gone, legacy)
        /\ e.applied = d.applied /\ d.receipts \subseteq e.receipts
    <3>1. CASE "pack" \in d.receipts
      BY <1>0, <1>1, <1>4, <2>1, <3>1 DEF S!Import, S!Then
    <3>2. CASE "pack" \notin d.receipts
      <4>1. PICK f : f = S!Copied(d, {"pack"})
        OBVIOUS
      <4>2. e = [f EXCEPT !.receipts = f.receipts \cup {"pack"}]
        BY <1>1, <1>4, <2>1, <3>2, <4>1 DEF S!Import, S!Then
      <4>3. DatabaseHolds(e, gone, legacy)
        BY <1>0, <1>1a, <3>2, <4>1, <4>2, ImportMoves
      <4>4. Follows(d, e)
        BY <1>0, <1>1a, <3>2, <4>1, <4>2, ImportMoves
      <4> QED
        BY <4>3, <4>4 DEF Follows
    <3> QED
      BY <3>1, <3>2
  <2> QED
    BY <1>0, <1>1, <2>1, <2>2, <2>3, Committed
<1>5. CASE S!ImportFails
  BY <1>5 DEF S!ImportFails, S!Then, StartupInv
<1> QED
  BY <1>2, <1>3, <1>4, <1>5

LEMMA UsersRemove == ASSUME StartupInv, NEW t \in S!Things, S!Remove(t) PROVE StartupInv'
<1>0. /\ DatabaseHolds(db, removed, legacy) /\ legacy \in BOOLEAN
      /\ pc = "up" /\ MigrationNames \subseteq db.applied
      /\ {"lessons", "exercises"} \subseteq db.receipts
  BY DEF StartupInv, S!Remove
<1>1. PICK d, gone : d = db /\ gone = removed
  OBVIOUS
<1>2. PICK e : e = [d EXCEPT !.copies = [u \in S!Things |-> IF u \in S!With(t) THEN 0 ELSE @[u]]]
  OBVIOUS
<1>3. PICK new : new = gone \cup S!With(t)
  OBVIOUS
<1>4. db' = e /\ removed' = new /\ pc' = "up" /\ UNCHANGED <<backend, legacy, crashes>>
  BY <1>0, <1>1, <1>2, <1>3 DEF S!Remove
<1>5. d.copies[t] > 0
  BY <1>1 DEF S!Remove
<1>6. DatabaseHolds(e, new, legacy) /\ e.applied = d.applied /\ e.receipts = d.receipts
  BY <1>0, <1>1, <1>2, <1>3, <1>5, RemovalsMove
<1> QED
  BY <1>0, <1>1, <1>4, <1>6, Committed

LEMMA StartupInit == S!Init => StartupInv
<1> SUFFICES ASSUME S!Init PROVE StartupInv
  OBVIOUS
<1>1. PICK d : d = db
  OBVIOUS
<1>2. /\ d \in Databases /\ d.applied = {} /\ d.mapped = FALSE /\ d.receipts = {}
      /\ \A t \in S!Things : d.copies[t] = 0
  BY <1>1 DEF S!Init, Databases
<1>3. RemovedHolds(d, {}) /\ CopiesHold(d, {}, legacy) /\ ReceiptsHold(d, {})
  BY <1>2 DEF RemovedHolds, CopiesHold, ReceiptsHold, S!Things, S!Receipts
<1> QED
  BY <1>1, <1>2, <1>3, StartupBounds DEF S!Init, StartupInv, DatabaseHolds

LEMMA StartupStep == StartupInv /\ [S!Next]_S!vars => StartupInv'
<1> SUFFICES ASSUME StartupInv, [S!Next]_S!vars PROVE StartupInv'
  OBVIOUS
<1>1. CASE S!Start
  BY <1>1, QuietStarts DEF S!Start, S!Then, StartupInv
<1>2. CASE S!MigrationFails
  BY <1>2, QuietStarts DEF S!MigrationFails, StartupInv
<1>3. CASE S!MigrationsDone
  BY <1>3, Names DEF S!MigrationsDone, StartupInv
<1>4. CASE S!Crash
  <2>1. crashes' \in 0 .. MaxCrashes
    BY <1>4, StartupBounds DEF S!Crash, StartupInv
  <2> QED
    BY <1>4, <2>1, QuietStarts DEF S!Crash
<1>5. CASE S!Stop
  BY <1>5, QuietStarts DEF S!Stop, StartupInv
<1>6. CASE UNCHANGED S!vars
  BY <1>6, QuietStarts DEF S!vars, StartupInv
<1>7. CASE \E m \in S!Range(S!Migrations) : S!Migrate(m)
  BY <1>7, MigrateMoves
<1>8. CASE (\E c \in Columns : S!AddColumn(c)) \/ S!CreateRebuild \/ S!Seed
  BY <1>8, SchemaMoves
<1>9. CASE S!Learn \/ S!Versions \/ S!Import \/ S!ImportFails
  BY <1>9, ContentMoves
<1>10. CASE \E t \in S!Things : S!Remove(t)
  BY <1>10, UsersRemove
<1> QED
  BY <1>1, <1>2, <1>3, <1>4, <1>5, <1>6, <1>7, <1>8, <1>9, <1>10 DEF S!Next, S!StartStep

\* However often a start is interrupted, what an earlier release left and what the program
\* makes for its users is there once, and what they removed stays away (migrations.py,
\* learn_content.py, practice_competitions.py).
THEOREM StartsMakeOnce == S!Spec => []MadeOnce
<1>1. StartupInv => S!TypeOK
  BY Names DEF StartupInv, DatabaseHolds, Databases, RemovedHolds, S!TypeOK
<1>2. StartupInv => S!UpgradeKeeps
  <2> SUFFICES ASSUME StartupInv, pc = "up", legacy, NEW t \in S!Legacy \ removed
               PROVE  db.copies[t] = 1
    BY DEF S!UpgradeKeeps
  <2>1. /\ CopiesHold(db, removed, legacy) /\ ReceiptsHold(db, removed)
        /\ MigrationNames \subseteq db.applied /\ {"lessons", "exercises"} \subseteq db.receipts
    BY DEF StartupInv, DatabaseHolds
  <2>2. db.mapped
    BY <2>1 DEF CopiesHold, MigrationNames
  <2> QED
    BY <2>1, <2>2 DEF CopiesHold, ReceiptsHold, There, MigrationNames, S!Receipts, S!Legacy
<1>3. StartupInv => S!NothingReturns
  BY DEF StartupInv, DatabaseHolds, Databases, RemovedHolds, S!NothingReturns
<1>4. StartupInv => MadeOnce
  BY <1>1, <1>2, <1>3 DEF MadeOnce, S!MadeOnce
<1> QED
  BY <1>4, StartupInit, StartupStep, PTL DEF S!Spec
=============================================================================
