--------------------------- MODULE StorageProofs ---------------------------
(***************************************************************************)
(* Proofs about the files of one dataset, for every number of upload       *)
(* sessions, assembling threads, paths, keys and versions, every quota and *)
(* every number of restarts.  StorageInv is the inductive invariant; its   *)
(* parts are kept step by step, in the order in which they are defined.    *)
(***************************************************************************)
EXTENDS Storage, FiniteSetTheorems, WellFoundedInduction, TLAPS

(***************************************************************************)
(* Sessions, threads, requests and the sweep.                              *)
(***************************************************************************)
\* A thread that has built a file, until its rows are committed or it is unlinked.
Holds(a) == assembly[a].pc \in {"built", "attaching", "charged"}

\* What is in progress works on a session that there is or was, and on a file.
Working ==
    /\ \A s \in Sessions : session[s].status # "none" =>
          session[s].version \in Versions /\ session[s].path \in Paths
    /\ \A a \in Assemblers : assembly[a].pc # "idle" =>
          assembly[a].session \in Sessions /\ session[assembly[a].session].status # "none"
    /\ \A a \in Assemblers : Holds(a) => assembly[a].file \in Files
    /\ chunk.pc # "idle" =>
          chunk.session \in Sessions /\ session[chunk.session].status # "none"
    /\ sweep # NoSweep => /\ sweep.to # "none" /\ sweep.session \in Sessions
                          /\ session[sweep.session].status # "none"

\* What a request relies on until it commits: it holds the dataset row.
Requested ==
    /\ request.op # "idle" => dataset.exists
    /\ request.op \in {"remove_draft_file", "upload", "create_session"} => request.path \in Paths
    /\ request.op \in {"remove_draft_file", "upload"} => request.file \in Files
    /\ request.op \in {"create_session", "discard"} => Draft # NoVersion
    /\ request.op = "create_session" =>
          request.session \in Sessions /\ session[request.session].status = "none"
    /\ request.op \in {"discard", "remove"} =>
          \A s \in Sessions :
             /\ session[s].status \notin {"none", "removed"}
             /\ request.op = "discard" => session[s].version = Draft
             => s \in request.seen
    /\ request.op \in {"discard", "remove"} =>
          \A s \in request.seen : s \in Sessions /\ session[s].status # "none"

\* The rows that an assembly has locked: its session waits for it, and its draft stays.
AttachLocks ==
    /\ \A a \in Assemblers : Attaching(a) =>
          /\ session[assembly[a].session].status = "assembling"
          /\ version[session[assembly[a].session].version].status = "draft"
    /\ \A a, b \in Assemblers : Attaching(a) /\ Attaching(b) => a = b

\* A session that the sweep gives back, and that nobody works on, stays as it was found.
SweepHolds ==
    sweep.to = "uploading" /\ sweep.session \notin doubted =>
        ~Running(sweep.session) /\ session[sweep.session].status \in {"assembling", "removed"}

(***************************************************************************)
(* Files.                                                                  *)
(***************************************************************************)
\* A file that is on its way into a version is nobody else's.
FilesApart ==
    /\ stored \cup doomed \cup blobs \subseteq keys
    /\ \A a \in Assemblers : Holds(a) =>
          assembly[a].file \in blobs /\ assembly[a].file \notin stored \cup doomed
    /\ \A a, b \in Assemblers :
          Holds(a) /\ Holds(b) /\ assembly[a].file = assembly[b].file => a = b
    /\ request.op = "upload" =>
          /\ request.file \in blobs /\ request.file \notin stored \cup doomed
          /\ \A a \in Assemblers : Holds(a) => assembly[a].file # request.file

\* What an assembly has found that it may release stays unused elsewhere.
ReleaseHolds ==
    \A a \in Assemblers : assembly[a].pc = "charged" /\ assembly[a].release =>
        /\ assembly[a].old \in stored /\ assembly[a].old # dataset.key
        /\ \A v \in Versions, p \in Paths : version[v].files[p] = assembly[a].old =>
              v = session[assembly[a].session].version /\ p = session[assembly[a].session].path

\* Every blob has a row or someone who works on it.
BlobsKnown ==
    crashes = 0 => \A f \in blobs :
        \/ f \in stored \cup doomed
        \/ request.op = "upload" /\ f = request.file
        \/ \E a \in Assemblers : Holds(a) /\ f = assembly[a].file

(***************************************************************************)
(* Versions.                                                               *)
(***************************************************************************)
OneDraft ==
    \A v, w \in Versions : version[v].status = "draft" /\ version[w].status = "draft" => v = w

\* Numbers 1, 2, ... have been given out, each to one version that was published.
NumberedInOrder ==
    /\ \A v, w \in Versions : version[v].number = version[w].number /\ version[v].number > 0 => v = w
    /\ \E n \in 0 .. MaxVersions :
          /\ \A v \in Versions : version[v].number <= n
          /\ \A m \in 1 .. n : \E v \in Versions : version[v].number = m

\* Only published and deleted versions have a number, and only drafts and published ones files.
StatusHolds ==
    \A v \in Versions :
        /\ version[v].status \in {"none", "draft"} => version[v].number = 0
        /\ version[v].status = "published" => version[v].number > 0 /\ version[v].files # NoFiles
        /\ version[v].status = "deleted" => version[v].number > 0
        /\ version[v].status \in {"none", "deleted", "gone"} => version[v].files = NoFiles
        /\ version[v].status = "gone" /\ dataset.exists => version[v].number = 0
        /\ ~dataset.exists => version[v].status \in {"none", "gone"}

VersionsInv == OneDraft /\ NumberedInOrder /\ StatusHolds

(***************************************************************************)
(* The quota.                                                              *)
(***************************************************************************)
Charging == request.op \in {"create_session", "upload"} \/ other.charged
ChargedBy(a) == assembly[a].pc = "charged"

\* The owner's row is locked by one at a time, who has found room.
OwnerLocks ==
    /\ ~(request.op \in {"create_session", "upload"} /\ other.charged)
    /\ \A a \in Assemblers : ~(ChargedBy(a) /\ Charging)
    /\ Charging \/ (\E a \in Assemblers : ChargedBy(a)) => Kept + 1 <= quota
    /\ Charging /\ doubted = {} => Reserved + 1 <= quota

SessionsInv == Working /\ Requested /\ AttachLocks /\ SweepHolds /\ ActiveIntoDraft
FilesInv == FilesApart /\ ReleaseHolds /\ FilesReadable

StorageInv ==
    /\ TypeOK /\ SessionsInv /\ FilesInv /\ VersionsInv /\ BlobsKnown
    /\ PrimaryCurrent /\ OwnerLocks

(***************************************************************************)
(* The pieces of the type invariant.                                       *)
(***************************************************************************)
VersionRow == [status : VersionStatus, number : 0 .. MaxVersions, files : FileSets]
SessionRow == [status : SessionStatus, version : Versions \cup {NoVersion},
               path : Paths \cup {None}, received : BOOLEAN]

VersionTypes == version \in [Versions -> VersionRow]
StoreTypes == stored \subseteq Files /\ doomed \subseteq Files /\ blobs \subseteq Files /\ keys \subseteq Files
DatasetTypes == dataset \in [exists : BOOLEAN, path : Paths \cup {None}, key : Files \cup {NoFile}]
OwnerTypes == quota \in Quotas /\ other \in [charged : BOOLEAN, files : 0 .. MaxOther]
SessionTypes == session \in [Sessions -> SessionRow]
PartTypes == parts \subseteq Sessions
ChunkTypes == chunk \in [pc : {"idle", "streaming", "written"}, session : Sessions \cup {None}]
AssemblyTypes == assembly \in [Assemblers -> Assembly]
RequestTypes == request \in Request
SweepTypes == sweep \in [to : {"none", "uploading", "removed"}, session : Sessions \cup {None}]
HistoryTypes == crashes \in 0 .. MaxCrashes /\ doubted \subseteq Sessions

\* The type invariant is the conjunction of its pieces ...
LEMMA Pieces ==
  TypeOK <=> /\ VersionTypes /\ StoreTypes /\ DatasetTypes /\ OwnerTypes /\ SessionTypes
             /\ PartTypes /\ ChunkTypes /\ AssemblyTypes /\ RequestTypes /\ SweepTypes
             /\ HistoryTypes
BY DEF TypeOK, VersionTypes, VersionRow, StoreTypes, DatasetTypes, OwnerTypes, SessionTypes,
       SessionRow, PartTypes, ChunkTypes, AssemblyTypes, RequestTypes, SweepTypes, HistoryTypes

\* ... also in the next state.
LEMMA Assemble ==
  ASSUME VersionTypes', StoreTypes', DatasetTypes', OwnerTypes', SessionTypes', PartTypes',
         ChunkTypes', AssemblyTypes', RequestTypes', SweepTypes', HistoryTypes'
  PROVE  TypeOK'
BY DEF TypeOK, VersionTypes, VersionRow, StoreTypes, DatasetTypes, OwnerTypes, SessionTypes,
       SessionRow, PartTypes, ChunkTypes, AssemblyTypes, RequestTypes, SweepTypes, HistoryTypes

(***************************************************************************)
(* Versions.                                                               *)
(***************************************************************************)
\* A set of natural numbers that is not empty has a smallest element.
LEMMA Smallest ==
  ASSUME NEW T, T \subseteq Nat, T # {}
  PROVE  \E x \in T : \A y \in T : x <= y
<1>1. IsWellFoundedOn(OpToRel(<,Nat), Nat)
  BY NatLessThanWellFounded, Zenon
<1>2. \E x \in T : \A y \in T : ~ (<<y, x>> \in OpToRel(<,Nat))
  BY <1>1, WFMin, Zenon
<1>3. \A x, y \in Nat : y < x => <<y, x>> \in OpToRel(<,Nat)
  BY DEF OpToRel
<1>4. PICK x \in T : \A y \in T : ~ (y < x)
  BY <1>2, <1>3, Zenon
<1>5. x \in Nat /\ \A y \in T : y \in Nat /\ x <= y
  <2> HIDE <1>1, <1>2, <1>3
  <2> QED
    BY <1>4
<1> QED
  BY <1>5, Zenon

\* A set of natural numbers that is bounded has a greatest one.
LEMMA Greatest ==
  ASSUME NEW m \in Nat, NEW T, T \subseteq 0 .. m, T # {}
  PROVE  \E x \in T : \A y \in T : y <= x
<1> DEFINE U == {m - x : x \in T}
<1>1. U \subseteq Nat /\ U # {}
  <2>1. \A x \in T : x \in Int /\ m - x \in Nat
    OBVIOUS
  <2>2. PICK x \in T : TRUE
    OBVIOUS
  <2> QED
    BY <2>1, <2>2
<1>2. PICK u \in U : \A y \in U : u <= y
  BY <1>1, Smallest
<1>3. PICK x \in T : u = m - x
  OBVIOUS
<1> QED
  BY <1>2, <1>3

\* A table of versions whose numbers are small, and not given out twice.
Numbering(table) ==
    /\ \A v \in Versions : table[v].number \in 0 .. MaxVersions
    /\ \A v, w \in PublishedIn(table) : table[v].number = table[w].number => v = w

\* The latest version is the published one with the highest number.
LEMMA LatestIs ==
  ASSUME NEW table, Numbering(table), PublishedIn(table) # {}
  PROVE  /\ Latest(table) \in PublishedIn(table)
         /\ \A w \in PublishedIn(table) : table[w].number <= table[Latest(table)].number
<1> DEFINE N == {table[v].number : v \in PublishedIn(table)}
<1>1. N \subseteq 0 .. MaxVersions /\ N # {} /\ MaxVersions \in Nat
  BY StorageAssumption DEF Numbering, PublishedIn
<1>2. PICK n \in N : \A m \in N : m <= n
  BY <1>1, Greatest
<1>3. PICK v \in PublishedIn(table) : \A w \in PublishedIn(table) : table[w].number <= table[v].number
  BY <1>2
<1> QED
  BY <1>3 DEF Latest

\* It does not depend on what is not published.
LEMMA SameLatest ==
  ASSUME NEW table, NEW other_, Numbering(table), Numbering(other_),
         PublishedIn(other_) = PublishedIn(table),
         \A v \in PublishedIn(table) : other_[v] = table[v]
  PROVE  Latest(other_) = Latest(table)
<1>1. CASE PublishedIn(table) = {}
  BY <1>1 DEF Latest
<1>2. CASE PublishedIn(table) # {}
  <2> DEFINE v == Latest(table)
             w == Latest(other_)
  <2>1. v \in PublishedIn(table) /\ w \in PublishedIn(table)
    BY <1>2, LatestIs
  <2>2. table[w].number <= table[v].number
    BY <1>2, <2>1, LatestIs
  <2>3. other_[v].number <= other_[w].number
    BY <1>2, <2>1, LatestIs
  <2>4. table[v].number = table[w].number
    <3>1. table[v].number \in Int /\ table[w].number \in Int
      BY <2>1 DEF Numbering, PublishedIn
    <3> QED
      BY <2>1, <2>2, <2>3, <3>1
  <2> QED
    BY <2>1, <2>4 DEF Numbering
<1> QED
  BY <1>1, <1>2

\* So it is with the versions of the dataset.
LEMMA VersionsNumbered ==
  ASSUME VersionTypes, VersionsInv
  PROVE  Numbering(version)
BY DEF VersionTypes, VersionRow, VersionsInv, NumberedInOrder, StatusHolds, Numbering, PublishedIn

\* What a step leaves alone keeps its type, ...
LEMMA SameTypes ==
  ASSUME TypeOK
  PROVE  /\ version' = version => VersionTypes'
         /\ stored' = stored /\ doomed' = doomed /\ blobs' = blobs /\ keys' = keys => StoreTypes'
         /\ dataset' = dataset => DatasetTypes'
         /\ quota' = quota /\ other' = other => OwnerTypes'
         /\ session' = session => SessionTypes'
         /\ parts' = parts => PartTypes'
         /\ chunk' = chunk => ChunkTypes'
         /\ assembly' = assembly => AssemblyTypes'
         /\ request' = request => RequestTypes'
         /\ sweep' = sweep => SweepTypes'
         /\ crashes' = crashes /\ doubted' = doubted => HistoryTypes'
BY Pieces DEF VersionTypes, StoreTypes, DatasetTypes, OwnerTypes, SessionTypes,
       PartTypes, ChunkTypes, AssemblyTypes, RequestTypes, SweepTypes, HistoryTypes

\* ... and so do the parts of the invariant: those of the sessions,
LEMMA SameSessions ==
  ASSUME StorageInv
  PROVE  /\ session' = session /\ assembly' = assembly /\ chunk' = chunk /\ sweep' = sweep
              => Working'
         /\ request' = request /\ dataset' = dataset /\ version' = version /\ session' = session
              => Requested'
         /\ assembly' = assembly /\ session' = session /\ version' = version => AttachLocks'
         /\ sweep' = sweep /\ doubted' = doubted /\ assembly' = assembly /\ session' = session
              => SweepHolds'
         /\ session' = session /\ doubted' = doubted /\ version' = version => ActiveIntoDraft'
<1>1. Working /\ Requested /\ AttachLocks /\ SweepHolds /\ ActiveIntoDraft
  BY DEF StorageInv, SessionsInv
<1>2. session' = session /\ assembly' = assembly /\ chunk' = chunk /\ sweep' = sweep => Working'
  BY <1>1 DEF Working, Holds
<1>3. request' = request /\ dataset' = dataset /\ version' = version /\ session' = session
        => Requested'
  BY <1>1 DEF Requested, Draft
<1>4. assembly' = assembly /\ session' = session /\ version' = version => AttachLocks'
  BY <1>1 DEF AttachLocks, Attaching
<1>5. sweep' = sweep /\ doubted' = doubted /\ assembly' = assembly /\ session' = session
        => SweepHolds'
  BY <1>1 DEF SweepHolds, Running
<1>6. session' = session /\ doubted' = doubted /\ version' = version => ActiveIntoDraft'
  BY <1>1 DEF ActiveIntoDraft, Active
<1> QED
  BY <1>2, <1>3, <1>4, <1>5, <1>6

\* those of the files,
LEMMA SameApart ==
  ASSUME StorageInv, stored' = stored, doomed' = doomed, blobs' = blobs, keys' = keys,
         assembly' = assembly, request' = request
  PROVE  FilesApart'
<1>1. FilesApart
  BY DEF StorageInv, FilesInv
<1> QED
  BY <1>1 DEF FilesApart, Holds

\* and those of the versions.
LEMMA SameRelease ==
  ASSUME StorageInv, assembly' = assembly, stored' = stored, dataset' = dataset,
         version' = version, session' = session
  PROVE  ReleaseHolds'
<1>1. ReleaseHolds
  BY DEF StorageInv, FilesInv
<1> QED
  BY <1>1 DEF ReleaseHolds

\* A file that is not unlinked can be read as before.
LEMMA SameReadable ==
  ASSUME StorageInv, version' = version, stored' = stored, doomed' = doomed, blobs \subseteq blobs'
  PROVE  FilesReadable'
<1>1. FilesReadable
  BY DEF StorageInv, FilesInv
<1> QED
  BY <1>1 DEF FilesReadable

\* Neither the numbers nor the legacy fields change by themselves.
LEMMA SameVersions ==
  ASSUME StorageInv, version' = version, dataset' = dataset
  PROVE  VersionsInv' /\ PrimaryCurrent'
<1>1. VersionsInv /\ PrimaryCurrent /\ VersionTypes
  BY Pieces DEF StorageInv
<1>2. VersionsInv'
  BY <1>1 DEF VersionsInv, OneDraft, NumberedInOrder, StatusHolds
<1>3. Latest(version') = Latest(version)
  BY <1>1, VersionsNumbered, SameLatest
<1>4. PrimaryCurrent'
  BY <1>1, <1>3 DEF PrimaryCurrent, FilesOf
<1> QED
  BY <1>2, <1>4

\* Nor is a blob forgotten.
LEMMA SameKnown ==
  ASSUME StorageInv, crashes' = crashes, blobs' = blobs, stored' = stored, doomed' = doomed,
         request' = request, assembly' = assembly
  PROVE  BlobsKnown'
<1>1. BlobsKnown
  BY DEF StorageInv
<1> QED
  BY <1>1 DEF BlobsKnown, Holds

(***************************************************************************)
(* The quota.                                                              *)
(***************************************************************************)
\* What is counted is finite.
LEMMA Counted ==
  ASSUME TypeOK
  PROVE  /\ IsFiniteSet(stored) /\ IsFiniteSet(Active)
         /\ Cardinality(stored) \in Nat /\ Cardinality(Active) \in Nat
         /\ other.files \in Nat /\ quota \in Nat /\ Kept \in Nat /\ Reserved \in Nat
<1>1. IsFiniteSet(Files) /\ IsFiniteSet(Sessions)
  BY FS_Interval, StorageAssumption DEF Files
<1>2. stored \in SUBSET Files /\ Active \in SUBSET Sessions
  BY DEF TypeOK, Active
<1>3. IsFiniteSet(stored) /\ IsFiniteSet(Active)
  BY <1>1, <1>2, FS_Subset
<1>4. Cardinality(stored) \in Nat /\ Cardinality(Active) \in Nat
  BY <1>3, FS_CardinalityType
<1>5. other.files \in Nat /\ quota \in Nat
  BY StorageAssumption DEF TypeOK
<1> QED
  BY <1>3, <1>4, <1>5 DEF Kept, Reserved

\* The next state is finite too.
LEMMA CountedNext ==
  ASSUME TypeOK'
  PROVE  /\ IsFiniteSet(stored') /\ IsFiniteSet(Active')
         /\ Cardinality(stored') \in Nat /\ Cardinality(Active') \in Nat
         /\ other'.files \in Nat /\ quota' \in Nat /\ Kept' \in Nat /\ Reserved' \in Nat
<1>1. IsFiniteSet(Files) /\ IsFiniteSet(Sessions)
  BY FS_Interval, StorageAssumption DEF Files
<1>2. stored' \in SUBSET Files /\ Active' \in SUBSET Sessions
  BY DEF TypeOK, Active
<1>3. IsFiniteSet(stored') /\ IsFiniteSet(Active')
  BY <1>1, <1>2, FS_Subset
<1>4. Cardinality(stored') \in Nat /\ Cardinality(Active') \in Nat
  BY <1>3, FS_CardinalityType
<1>5. other'.files \in Nat /\ quota' \in Nat
  BY StorageAssumption DEF TypeOK
<1> QED
  BY <1>3, <1>4, <1>5 DEF Kept, Reserved

\* Nothing is added to what counts.  (The sweep may give back a session that it took for
\* interrupted.)
Shrinks ==
    /\ stored' \subseteq stored /\ other'.files <= other.files
    /\ doubted = {} => Active' \subseteq Active
    /\ doubted \subseteq doubted'

\* Then no more is kept or reserved than before.
LEMMA Smaller ==
  ASSUME TypeOK, TypeOK', Shrinks
  PROVE  Kept' <= Kept /\ (doubted = {} => Reserved' <= Reserved)
<1>1. Cardinality(stored') <= Cardinality(stored)
  BY Counted, FS_Subset DEF Shrinks
<1>2. doubted = {} => Cardinality(Active') <= Cardinality(Active)
  BY Counted, FS_Subset DEF Shrinks
<1> QED
  BY <1>1, <1>2, Counted, CountedNext DEF Shrinks, Kept, Reserved

\* What a step adds is within the quota.
Within ==
    /\ Kept' > Kept => Kept' <= quota
    /\ doubted = {} /\ Reserved' > Reserved => Reserved' <= quota

LEMMA ShrinksWithin ==
  ASSUME TypeOK, TypeOK', Shrinks
  PROVE  Within
<1>1. Kept' <= Kept /\ (doubted = {} => Reserved' <= Reserved)
  BY Smaller
<1>2. Kept \in Nat /\ Kept' \in Nat /\ Reserved \in Nat /\ Reserved' \in Nat
  BY Counted, CountedNext
<1>3. \A a, b \in Nat : b <= a => ~(b > a)
  OBVIOUS
<1> QED
  BY <1>1, <1>2, <1>3, Zenon DEF Within

\* Whoever takes less has room too.
LEMMA LessFits ==
  \A a, b, c \in Nat : b <= a /\ a + 1 <= c => b + 1 <= c
OBVIOUS

\* Who holds the owner's row still has the room that was found.
LEMMA OwnerKept ==
  ASSUME StorageInv, TypeOK', Shrinks, quota' = quota, Charging' => Charging,
         request'.op \in {"create_session", "upload"} => request.op \in {"create_session", "upload"},
         other'.charged => other.charged,
         \A a \in Assemblers : ChargedBy(a)' => ChargedBy(a)
  PROVE  OwnerLocks'
<1>1. TypeOK /\ OwnerLocks
  BY DEF StorageInv
<1>2. Kept' <= Kept /\ (doubted = {} => Reserved' <= Reserved)
  BY <1>1, Smaller
<1>3. /\ Kept \in Nat /\ Reserved \in Nat /\ quota \in Nat
      /\ Kept' \in Nat /\ Reserved' \in Nat /\ quota' = quota
  BY <1>1, Counted, CountedNext
<1>4. doubted' = {} => doubted = {}
  BY DEF Shrinks
<1>5. /\ ~(request'.op \in {"create_session", "upload"} /\ other'.charged)
      /\ \A a \in Assemblers : ~(ChargedBy(a)' /\ Charging')
  BY <1>1 DEF OwnerLocks
<1>6. Charging' \/ (\E a \in Assemblers : ChargedBy(a)') => Kept' + 1 <= quota'
  <2>1. Charging' \/ (\E a \in Assemblers : ChargedBy(a)') => Kept + 1 <= quota
    BY <1>1 DEF OwnerLocks
  <2>2. Kept + 1 <= quota => Kept' + 1 <= quota'
    BY <1>2, <1>3, LessFits, Zenon
  <2> QED
    BY <2>1, <2>2
<1>7. Charging' /\ doubted' = {} => Reserved' + 1 <= quota'
  <2>1. Charging' /\ doubted' = {} => doubted = {} /\ Reserved + 1 <= quota
    BY <1>1, <1>4 DEF OwnerLocks
  <2>2. doubted = {} /\ Reserved + 1 <= quota => Reserved' + 1 <= quota'
    BY <1>2, <1>3, LessFits, Zenon
  <2> QED
    BY <2>1, <2>2
<1> QED
  BY <1>5, <1>6, <1>7 DEF OwnerLocks

\* A step that leaves what counts as it is adds nothing.
LEMMA NothingAdded ==
  ASSUME TypeOK, stored' = stored, other' = other, session' = session, doubted \subseteq doubted'
  PROVE  Shrinks
<1>1. other.files \in Nat
  BY Counted
<1> QED
  BY <1>1 DEF Shrinks, Active

\* The invariant is put together again.
LEMMA Together ==
  ASSUME TypeOK', Working', Requested', AttachLocks', SweepHolds', ActiveIntoDraft',
         FilesApart', ReleaseHolds', FilesReadable', VersionsInv', BlobsKnown',
         PrimaryCurrent', OwnerLocks'
  PROVE  StorageInv'
BY DEF StorageInv, SessionsInv, FilesInv

-----------------------------------------------------------------------------
\* Chunks are written, and part folders removed, next to everything else.
LEMMA ChunkSteps ==
  ASSUME StorageInv,
         \/ ChunkRefused \/ WritePart
         \/ \E s \in Sessions : ChunkBegin(s) \/ SweepOrphan(s)
  PROVE  StorageInv'
<1>0. TypeOK /\ Working
  BY DEF StorageInv, SessionsInv
<1>1. /\ version' = version /\ stored' = stored /\ doomed' = doomed /\ dataset' = dataset
      /\ quota' = quota /\ other' = other /\ session' = session /\ blobs' = blobs /\ keys' = keys
      /\ assembly' = assembly /\ request' = request /\ sweep' = sweep
      /\ crashes' = crashes /\ doubted' = doubted
  BY DEF ChunkRefused, WritePart, ChunkBegin, SweepOrphan, rows, disk, process
<1>2. /\ chunk' \in [pc : {"idle", "streaming", "written"}, session : Sessions \cup {None}]
      /\ chunk'.pc # "idle" => chunk'.session \in Sessions /\ session[chunk'.session].status # "none"
      /\ parts' \subseteq Sessions
  <2>1. CASE ChunkRefused
    BY <1>0, <2>1 DEF ChunkRefused, NoChunk, disk, TypeOK
  <2>2. CASE WritePart
    <3>1. /\ chunk.session \in Sessions /\ session[chunk.session].status # "none"
          /\ chunk' = [pc |-> "written", session |-> chunk.session]
      BY <1>0, <2>2 DEF WritePart, Working, TypeOK
    <3> QED
      BY <1>0, <2>2, <3>1 DEF WritePart, TypeOK
  <2>3. CASE \E s \in Sessions : ChunkBegin(s)
    BY <1>0, <2>3 DEF ChunkBegin, disk, TypeOK
  <2>4. CASE \E s \in Sessions : SweepOrphan(s)
    BY <1>0, <1>1, <2>4 DEF SweepOrphan, process, TypeOK, Working
  <2> QED
    BY <2>1, <2>2, <2>3, <2>4
<1>3. TypeOK'
  <2>1. ChunkTypes' /\ PartTypes'
    BY <1>2 DEF ChunkTypes, PartTypes
  <2> QED
    BY <1>0, <1>1, <2>1, SameTypes, Assemble
<1>4. Working'
  BY <1>0, <1>1, <1>2 DEF Working, Holds
<1>5. Requested' /\ AttachLocks' /\ SweepHolds' /\ ActiveIntoDraft'
  BY <1>1, SameSessions
<1>6. FilesApart' /\ ReleaseHolds' /\ FilesReadable' /\ VersionsInv' /\ BlobsKnown' /\ PrimaryCurrent'
  BY <1>1, SameApart, SameRelease, SameReadable, SameVersions, SameKnown
<1>7. OwnerLocks'
  <2>1. Shrinks
    BY <1>0, <1>1, NothingAdded
  <2> QED
    BY <1>1, <1>3, <2>1, OwnerKept DEF Charging, ChargedBy
<1> QED
  BY <1>3, <1>4, <1>5, <1>6, <1>7, Together

\* The sweep takes a session: one that nobody works on stays as it is.
LEMMA SweepSelects ==
  ASSUME StorageInv, NEW s \in Sessions, NEW to \in {"uploading", "removed"}, SweepSelect(s, to)
  PROVE  StorageInv'
<1>0. TypeOK /\ SessionsInv
  BY DEF StorageInv
<1>1. /\ version' = version /\ stored' = stored /\ doomed' = doomed /\ dataset' = dataset
      /\ quota' = quota /\ other' = other /\ session' = session /\ blobs' = blobs /\ keys' = keys
      /\ parts' = parts /\ chunk' = chunk /\ assembly' = assembly /\ request' = request
      /\ crashes' = crashes /\ sweep' = [to |-> to, session |-> s]
      /\ doubted' = IF to = "uploading" /\ Running(s) THEN doubted \cup {s} ELSE doubted
      /\ session[s].status # "none" /\ (to = "uploading" => session[s].status = "assembling")
  BY DEF SweepSelect, rows, disk
<1>2. TypeOK'
  <2>1. SweepTypes' /\ HistoryTypes'
    BY <1>0, <1>1 DEF SweepTypes, HistoryTypes, TypeOK
  <2> QED
    BY <1>0, <1>1, <2>1, SameTypes, Assemble
<1>3. Working'
  BY <1>0, <1>1 DEF SessionsInv, Working, Holds
<1>4. Requested' /\ AttachLocks'
  BY <1>1, SameSessions
<1>5. SweepHolds'
  BY <1>1 DEF SweepHolds, Running
<1>6. ActiveIntoDraft'
  BY <1>0, <1>1 DEF SessionsInv, ActiveIntoDraft, Active
<1>7. FilesApart' /\ ReleaseHolds' /\ FilesReadable' /\ VersionsInv' /\ BlobsKnown' /\ PrimaryCurrent'
  BY <1>1, SameApart, SameRelease, SameReadable, SameVersions, SameKnown
<1>8. OwnerLocks'
  <2>1. Shrinks
    BY <1>0, <1>1, NothingAdded
  <2> QED
    BY <1>1, <1>2, <2>1, OwnerKept DEF Charging, ChargedBy
<1> QED
  BY <1>2, <1>3, <1>4, <1>5, <1>6, <1>7, <1>8, Together

\* The quota, and what else the owner stores.
LEMMA OwnerSteps ==
  ASSUME StorageInv,
         \/ \E q \in Quotas : SetQuota(q)
         \/ OtherCharge
         \/ \E n \in 0 .. MaxOther : OtherEnds(n)
  PROVE  StorageInv'
<1>0. TypeOK /\ OwnerLocks
  BY DEF StorageInv
<1>1. /\ version' = version /\ stored' = stored /\ doomed' = doomed /\ dataset' = dataset
      /\ session' = session /\ blobs' = blobs /\ keys' = keys /\ parts' = parts /\ chunk' = chunk
      /\ assembly' = assembly /\ request' = request /\ sweep' = sweep
      /\ crashes' = crashes /\ doubted' = doubted
  BY DEF SetQuota, OtherCharge, OtherEnds, disk, process
<1>2. TypeOK'
  <2>1. OwnerTypes'
    <3>1. CASE \E q \in Quotas : SetQuota(q)
      BY <1>0, <3>1 DEF SetQuota, OwnerTypes, TypeOK
    <3>2. CASE OtherCharge
      BY <1>0, <3>2 DEF OtherCharge, OwnerTypes, TypeOK
    <3>3. CASE \E n \in 0 .. MaxOther : OtherEnds(n)
      BY <1>0, <3>3 DEF OtherEnds, OwnerTypes, TypeOK
    <3> QED
      BY <3>1, <3>2, <3>3
  <2> QED
    BY <1>0, <1>1, <2>1, SameTypes, Assemble
<1>3. Working' /\ Requested' /\ AttachLocks' /\ SweepHolds' /\ ActiveIntoDraft'
  BY <1>1, SameSessions
<1>4. FilesApart' /\ ReleaseHolds' /\ FilesReadable' /\ VersionsInv' /\ BlobsKnown' /\ PrimaryCurrent'
  BY <1>1, SameApart, SameRelease, SameReadable, SameVersions, SameKnown
<1>5. OwnerLocks'
  <2>0. /\ Cardinality(stored) \in Nat /\ Cardinality(Active) \in Nat /\ other.files \in Nat
        /\ quota \in Nat /\ Active' = Active
    BY <1>0, <1>1, Counted DEF Active
  <2>1. CASE \E q \in Quotas : SetQuota(q)
    <3>1. OwnerFree /\ other' = other
      BY <2>1 DEF SetQuota
    <3> QED
      BY <1>1, <3>1 DEF OwnerLocks, OwnerFree, Charging, ChargedBy
  <2>2. CASE OtherCharge
    <3>1. OwnerFree /\ Fits(Active) /\ other' = [other EXCEPT !.charged = TRUE] /\ quota' = quota
      BY <2>2 DEF OtherCharge
    <3>2. other'.files = other.files /\ other'.charged
      BY <1>0, <3>1 DEF TypeOK
    <3>3. Kept' + 1 <= quota' /\ Reserved' + 1 <= quota'
      BY <1>1, <2>0, <3>1, <3>2 DEF Fits, Kept, Reserved
    <3> QED
      BY <1>1, <3>1, <3>3 DEF OwnerLocks, OwnerFree, Charging, ChargedBy
  <2>3. CASE \E n \in 0 .. MaxOther : OtherEnds(n)
    <3>1. PICK n \in 0 .. MaxOther : OtherEnds(n)
      BY <2>3
    <3>2. other' = [charged |-> FALSE, files |-> n] /\ quota' = quota
      BY <3>1 DEF OtherEnds
    <3>3. CASE other.charged
      BY <1>0, <1>1, <3>2, <3>3 DEF OwnerLocks, Charging, ChargedBy
    <3>4. CASE ~other.charged
      <4>1. n = other.files - 1
        BY <3>1, <3>4 DEF OtherEnds
      <4>2. Shrinks
        BY <1>1, <2>0, <3>2, <4>1 DEF Shrinks
      <4> QED
        BY <1>1, <1>2, <3>2, <4>2, OwnerKept DEF Charging, ChargedBy
    <3> QED
      BY <3>3, <3>4
  <2> QED
    BY <2>1, <2>2, <2>3
<1> QED
  BY <1>2, <1>3, <1>4, <1>5, Together

-----------------------------------------------------------------------------
\* Parts that are removed are fewer.
LEMMA FewerParts ==
  ASSUME NEW ss, RemoveParts(ss), PartTypes
  PROVE  PartTypes'
BY DEF RemoveParts, PartTypes

\* A session that nobody has locked changes its state: whatever is locked stays, and no
\* session that was given up or had ended is taken up again.
LEMMA SessionMoves ==
  ASSUME StorageInv, NEW s \in Sessions, NEW x \in SessionRow, SessionFree(s),
         session' = [session EXCEPT ![s] = x],
         session[s].status # "none", x.status # "none",
         x.version = session[s].version, x.path = session[s].path,
         session[s].status = "removed" => x.status = "removed",
         s \notin doubted /\ x.status \in {"uploading", "assembling"} =>
             session[s].status \in {"uploading", "assembling"},
         version' = version, dataset' = dataset, doubted' = doubted, request' = request,
         stored' = stored, other' = other,
         \A a \in Assemblers : Attaching(a)' => Attaching(a) /\ assembly'[a] = assembly[a]
  PROVE  /\ SessionTypes' /\ Requested' /\ AttachLocks' /\ ActiveIntoDraft' /\ ReleaseHolds'
         /\ Shrinks
         /\ \A t \in Sessions :
               /\ session'[t].status = "none" <=> session[t].status = "none"
               /\ session'[t].version = session[t].version /\ session'[t].path = session[t].path
               /\ t # s => session'[t] = session[t]
         /\ session'[s] = x
<1>0. /\ TypeOK /\ session \in [Sessions -> SessionRow]
      /\ Requested /\ AttachLocks /\ ActiveIntoDraft /\ ReleaseHolds /\ other.files \in Nat
  BY Pieces, Counted DEF StorageInv, SessionsInv, FilesInv, SessionTypes
<1>1. /\ session'[s] = x /\ session' \in [Sessions -> SessionRow]
      /\ \A t \in Sessions : t # s => session'[t] = session[t]
  BY <1>0
<1>2. \A t \in Sessions :
        /\ session'[t].status = "none" <=> session[t].status = "none"
        /\ session'[t].version = session[t].version /\ session'[t].path = session[t].path
        /\ session[t].status = "removed" => session'[t].status = "removed"
  BY <1>1
<1>3. Draft' = Draft
  BY DEF Draft
<1>4. Requested'
  BY <1>0, <1>2, <1>3 DEF Requested
<1>5. \A a \in Assemblers : Attaching(a)' => assembly'[a] = assembly[a] /\ Attaching(a)
                                            /\ assembly[a].session # s
  BY DEF SessionFree
<1>6. AttachLocks'
  <2>1. \A a \in Assemblers : Attaching(a) => assembly[a].session \in Sessions
    BY DEF StorageInv, SessionsInv, Working, Attaching
  <2> QED
    BY <1>0, <1>1, <1>5, <2>1 DEF AttachLocks
<1>7. ActiveIntoDraft' /\ Shrinks
  <2>1. Active' \ doubted \subseteq Active
    BY <1>1 DEF Active
  <2> QED
    BY <1>0, <1>2, <2>1 DEF ActiveIntoDraft, Active, Shrinks
<1>8. ReleaseHolds'
  <2>1. \A a \in Assemblers : assembly'[a].pc = "charged" =>
            assembly'[a] = assembly[a] /\ assembly[a].session \in Sessions
    BY <1>5 DEF Attaching, StorageInv, SessionsInv, Working
  <2> QED
    BY <1>0, <1>2, <2>1 DEF ReleaseHolds
<1> QED
  BY <1>1, <1>2, <1>4, <1>6, <1>7, <1>8 DEF SessionTypes

\* The chunk is acknowledged, or the session has been given up meanwhile.
LEMMA ChunkCommits ==
  ASSUME StorageInv, ChunkCommit
  PROVE  StorageInv' /\ Shrinks
<1> DEFINE s == chunk.session
           x == IF session[s].status = "uploading" THEN [session[s] EXCEPT !.received = TRUE]
                ELSE session[s]
<1>0. /\ TypeOK /\ SessionsInv /\ session \in [Sessions -> SessionRow]
      /\ s \in Sessions /\ session[s].status # "none"
  BY Pieces DEF StorageInv, SessionsInv, Working, ChunkCommit, SessionTypes
<1>1. /\ version' = version /\ stored' = stored /\ doomed' = doomed /\ dataset' = dataset
      /\ quota' = quota /\ other' = other /\ blobs' = blobs /\ keys' = keys /\ parts' = parts
      /\ chunk' = NoChunk /\ assembly' = assembly /\ request' = request /\ sweep' = sweep
      /\ crashes' = crashes /\ doubted' = doubted /\ SessionFree(s)
      /\ session' = IF session[s].status = "uploading"
                    THEN [session EXCEPT ![s].received = TRUE] ELSE session
  BY DEF ChunkCommit, disk
<1>2. x \in SessionRow /\ x.status = session[s].status /\ x.version = session[s].version
      /\ x.path = session[s].path
  BY <1>0 DEF SessionRow
<1>3. session' = [session EXCEPT ![s] = x]
  BY <1>0, <1>1
<1> HIDE DEF x
<1>4. /\ SessionTypes' /\ Requested' /\ AttachLocks' /\ ActiveIntoDraft' /\ ReleaseHolds'
      /\ Shrinks
      /\ \A t \in Sessions :
            /\ session'[t].status = session[t].status
            /\ session'[t].version = session[t].version /\ session'[t].path = session[t].path
  BY <1>0, <1>1, <1>2, <1>3, SessionMoves DEF Attaching
<1>5. TypeOK'
  <2>1. ChunkTypes'
    BY <1>1 DEF ChunkTypes, NoChunk
  <2> QED
    BY <1>0, <1>1, <1>4, <2>1, SameTypes, Assemble
<1>6. Working' /\ SweepHolds'
  BY <1>0, <1>1, <1>4 DEF SessionsInv, Working, Holds, NoChunk, SweepHolds, Running
<1>7. FilesApart' /\ FilesReadable' /\ VersionsInv' /\ BlobsKnown' /\ PrimaryCurrent'
  BY <1>1, SameApart, SameReadable, SameVersions, SameKnown
<1>8. OwnerLocks'
  BY <1>1, <1>4, <1>5, OwnerKept DEF Charging, ChargedBy
<1> QED
  BY <1>4, <1>5, <1>6, <1>7, <1>8, Together

\* A session changes its state by one step of the API.
StatusOf(s, status) == [session[s] EXCEPT !.status = status]

\* complete()
LEMMA Completes ==
  ASSUME StorageInv, NEW s \in Sessions, NEW a \in Assemblers, Complete(s, a)
  PROVE  StorageInv' /\ Shrinks
<1> DEFINE x == StatusOf(s, "assembling")
<1>0. TypeOK /\ SessionsInv /\ FilesInv /\ BlobsKnown /\ session \in [Sessions -> SessionRow]
  BY Pieces DEF StorageInv, SessionTypes
<1>1. /\ version' = version /\ stored' = stored /\ doomed' = doomed /\ dataset' = dataset
      /\ quota' = quota /\ other' = other /\ blobs' = blobs /\ keys' = keys /\ parts' = parts
      /\ chunk' = chunk /\ request' = request /\ sweep' = sweep
      /\ crashes' = crashes /\ doubted' = doubted /\ SessionFree(s)
      /\ session[s].status = "uploading" /\ assembly[a].pc = "idle"
      /\ session' = [session EXCEPT ![s].status = "assembling"]
      /\ assembly' = [assembly EXCEPT ![a] = [NoAssembly EXCEPT !.pc = "queued", !.session = s]]
  BY DEF Complete, disk
<1>2. x \in SessionRow /\ x.status = "assembling" /\ x.version = session[s].version
      /\ x.path = session[s].path
  BY <1>0 DEF SessionRow, SessionStatus, StatusOf
<1>3. session' = [session EXCEPT ![s] = x]
  BY <1>0, <1>1 DEF StatusOf
<1> HIDE DEF x
<1>4. /\ assembly'[a] = [pc |-> "queued", session |-> s, file |-> NoFile, old |-> NoFile,
                         release |-> FALSE]
      /\ \A b \in Assemblers : b # a => assembly'[b] = assembly[b]
      /\ assembly' \in [Assemblers -> Assembly]
  BY <1>0, <1>1 DEF NoAssembly, Assembly, TypeOK
<1>5. /\ SessionTypes' /\ Requested' /\ AttachLocks' /\ ActiveIntoDraft' /\ ReleaseHolds'
      /\ Shrinks
      /\ \A t \in Sessions :
            /\ session'[t].status = "none" <=> session[t].status = "none"
            /\ session'[t].version = session[t].version /\ session'[t].path = session[t].path
            /\ t # s => session'[t] = session[t]
      /\ session'[s] = x
  <2>1. \A b \in Assemblers : Attaching(b)' => Attaching(b) /\ assembly'[b] = assembly[b]
    BY <1>4 DEF Attaching
  <2> QED
    BY <1>0, <1>1, <1>2, <1>3, <2>1, SessionMoves
<1>6. TypeOK'
  <2>1. AssemblyTypes'
    BY <1>4 DEF AssemblyTypes
  <2> QED
    BY <1>0, <1>1, <1>5, <2>1, SameTypes, Assemble
<1>a. \A b \in Assemblers : (Holds(b)' => Holds(b) /\ b # a) /\ (Holds(b) => Holds(b)' /\ b # a)
  BY <1>1, <1>4 DEF Holds
<1>7. Working'
  BY <1>0, <1>1, <1>4, <1>5, <1>a DEF SessionsInv, Working
<1>8. SweepHolds'
  BY <1>0, <1>1, <1>4, <1>5 DEF SessionsInv, SweepHolds, Running
<1>9. FilesApart' /\ BlobsKnown'
  BY <1>0, <1>1, <1>4, <1>a DEF FilesInv, FilesApart, BlobsKnown
<1>10. FilesReadable' /\ VersionsInv' /\ PrimaryCurrent'
  BY <1>1, SameReadable, SameVersions
<1>11. OwnerLocks'
  <2>1. \A b \in Assemblers : ChargedBy(b)' => ChargedBy(b)
    BY <1>4 DEF ChargedBy
  <2> QED
    BY <1>1, <1>5, <1>6, <2>1, OwnerKept DEF Charging
<1> QED
  BY <1>5, <1>6, <1>7, <1>8, <1>9, <1>10, <1>11, Together

\* abort()
LEMMA Aborts ==
  ASSUME StorageInv, NEW s \in Sessions, Abort(s)
  PROVE  StorageInv' /\ Shrinks
<1> DEFINE x == StatusOf(s, "removed")
<1>0. TypeOK /\ SessionsInv /\ session \in [Sessions -> SessionRow]
  BY Pieces DEF StorageInv, SessionTypes
<1>1. /\ version' = version /\ stored' = stored /\ doomed' = doomed /\ dataset' = dataset
      /\ quota' = quota /\ other' = other /\ blobs' = blobs /\ keys' = keys
      /\ chunk' = chunk /\ assembly' = assembly /\ request' = request /\ sweep' = sweep
      /\ crashes' = crashes /\ doubted' = doubted /\ SessionFree(s)
      /\ session[s].status \in {"uploading", "completed", "failed"} /\ RemoveParts({s})
      /\ session' = [session EXCEPT ![s].status = "removed"]
  BY DEF Abort
<1>2. x \in SessionRow /\ x.status = "removed" /\ x.version = session[s].version
      /\ x.path = session[s].path
  BY <1>0 DEF SessionRow, SessionStatus, StatusOf
<1>3. session' = [session EXCEPT ![s] = x]
  BY <1>0, <1>1 DEF StatusOf
<1> HIDE DEF x
<1>4. /\ SessionTypes' /\ Requested' /\ AttachLocks' /\ ActiveIntoDraft' /\ ReleaseHolds'
      /\ Shrinks
      /\ \A t \in Sessions :
            /\ session'[t].status = "none" <=> session[t].status = "none"
            /\ session'[t].version = session[t].version /\ session'[t].path = session[t].path
            /\ t # s => session'[t] = session[t]
      /\ session'[s] = x
  BY <1>0, <1>1, <1>2, <1>3, SessionMoves DEF Attaching
<1>5. TypeOK'
  <2>1. PartTypes'
    BY <1>0, <1>1, FewerParts, Pieces
  <2> QED
    BY <1>0, <1>1, <1>4, <2>1, SameTypes, Assemble
<1>6. Working'
  BY <1>0, <1>1, <1>4 DEF SessionsInv, Working, Holds
<1>7. SweepHolds'
  BY <1>0, <1>1, <1>2, <1>4 DEF SessionsInv, Working, SweepHolds, Running, NoSweep
<1>8. FilesApart' /\ FilesReadable' /\ VersionsInv' /\ BlobsKnown' /\ PrimaryCurrent'
  BY <1>1, SameApart, SameReadable, SameVersions, SameKnown
<1>9. OwnerLocks'
  BY <1>1, <1>4, <1>5, OwnerKept DEF Charging, ChargedBy
<1> QED
  BY <1>4, <1>5, <1>6, <1>7, <1>8, <1>9, Together

\* expire_uploads() writes what it has decided.
LEMMA SweepCommits ==
  ASSUME StorageInv, SweepCommit
  PROVE  StorageInv' /\ Shrinks
<1> DEFINE s == sweep.session
           x == IF session[s].status = "removed" THEN session[s] ELSE StatusOf(s, sweep.to)
<1>0. /\ TypeOK /\ SessionsInv /\ session \in [Sessions -> SessionRow]
      /\ s \in Sessions /\ session[s].status # "none" /\ sweep.to \in {"uploading", "removed"}
  BY Pieces DEF StorageInv, SessionTypes, SessionsInv, Working, SweepCommit, TypeOK
<1>1. /\ version' = version /\ stored' = stored /\ doomed' = doomed /\ dataset' = dataset
      /\ quota' = quota /\ other' = other /\ blobs' = blobs /\ keys' = keys
      /\ chunk' = chunk /\ assembly' = assembly /\ request' = request /\ sweep' = NoSweep
      /\ crashes' = crashes /\ doubted' = doubted /\ SessionFree(s)
      /\ RemoveParts({s}) \/ parts' = parts
      /\ session' = IF session[s].status = "removed" THEN session
                    ELSE [session EXCEPT ![s].status = sweep.to]
  BY DEF SweepCommit
<1>2. /\ x \in SessionRow /\ x.version = session[s].version /\ x.path = session[s].path
      /\ x.status = IF session[s].status = "removed" THEN "removed" ELSE sweep.to
  BY <1>0 DEF SessionRow, SessionStatus, StatusOf
<1>3. session' = [session EXCEPT ![s] = x]
  BY <1>0, <1>1 DEF StatusOf
<1>a. s \notin doubted /\ x.status \in {"uploading", "assembling"} =>
          session[s].status \in {"uploading", "assembling"}
  BY <1>0, <1>2 DEF SessionsInv, SweepHolds
<1> HIDE DEF x
<1>4. /\ SessionTypes' /\ Requested' /\ AttachLocks' /\ ActiveIntoDraft' /\ ReleaseHolds'
      /\ Shrinks
      /\ \A t \in Sessions :
            /\ session'[t].status = "none" <=> session[t].status = "none"
            /\ session'[t].version = session[t].version /\ session'[t].path = session[t].path
  <2>1. x.status # "none" /\ (session[s].status = "removed" => x.status = "removed")
    BY <1>0, <1>2
  <2> QED
    BY <1>0, <1>1, <1>2, <1>3, <1>a, <2>1, SessionMoves DEF Attaching
<1>5. TypeOK'
  <2>1. PartTypes'
    BY <1>0, <1>1, FewerParts, SameTypes, Pieces
  <2>2. SweepTypes'
    BY <1>1 DEF SweepTypes, NoSweep
  <2> QED
    BY <1>0, <1>1, <1>4, <2>1, <2>2, SameTypes, Assemble
<1>6. Working' /\ SweepHolds'
  BY <1>0, <1>1, <1>4 DEF SessionsInv, Working, Holds, SweepHolds, NoSweep
<1>8. FilesApart' /\ FilesReadable' /\ VersionsInv' /\ BlobsKnown' /\ PrimaryCurrent'
  BY <1>1, SameApart, SameReadable, SameVersions, SameKnown
<1>9. OwnerLocks'
  BY <1>1, <1>4, <1>5, OwnerKept DEF Charging, ChargedBy
<1> QED
  BY <1>4, <1>5, <1>6, <1>8, <1>9, Together

\* A thread becomes idle without having a file.
LEMMA ThreadIdles ==
  ASSUME StorageInv, NEW a \in Assemblers, ~Holds(a), assembly' = [assembly EXCEPT ![a] = NoAssembly],
         blobs' = blobs, keys' = keys, stored' = stored, doomed' = doomed, request' = request,
         crashes' = crashes
  PROVE  /\ AssemblyTypes' /\ FilesApart' /\ BlobsKnown'
         /\ assembly'[a] = NoAssembly /\ \A b \in Assemblers : b # a => assembly'[b] = assembly[b]
         /\ \A b \in Assemblers : /\ Holds(b)' <=> Holds(b)
                                  /\ Attaching(b)' => Attaching(b) /\ assembly'[b] = assembly[b]
                                  /\ ChargedBy(b)' => ChargedBy(b)
         /\ \A s \in Sessions : Running(s)' => Running(s)
<1>0. TypeOK /\ FilesInv /\ BlobsKnown
  BY DEF StorageInv
<1>1. /\ assembly' \in [Assemblers -> Assembly] /\ assembly'[a] = NoAssembly
      /\ \A b \in Assemblers : b # a => assembly'[b] = assembly[b]
  BY <1>0 DEF NoAssembly, Assembly, TypeOK
<1>2. \A b \in Assemblers : /\ Holds(b)' <=> Holds(b)
                            /\ Attaching(b)' => Attaching(b) /\ assembly'[b] = assembly[b]
                            /\ ChargedBy(b)' => ChargedBy(b)
  BY <1>1 DEF Holds, Attaching, ChargedBy, NoAssembly
<1>3. \A s \in Sessions : Running(s)' => Running(s)
  BY <1>1, StorageAssumption DEF Running, NoAssembly
<1>4. \A b \in Assemblers : Holds(b)' => Holds(b) /\ assembly'[b] = assembly[b]
  BY <1>1, <1>2
<1>5. FilesApart'
  BY <1>0, <1>4 DEF FilesInv, FilesApart
<1>6. BlobsKnown'
  <2>1. \A b \in Assemblers : Holds(b) => Holds(b)' /\ assembly'[b] = assembly[b]
    BY <1>1, <1>2
  <2> QED
    BY <1>0, <2>1 DEF BlobsKnown
<1> QED
  BY <1>1, <1>2, <1>3, <1>5, <1>6 DEF AssemblyTypes

\* What fail() makes of a session.
FailedOf(y) == [y EXCEPT !.status = "failed", !.received = FALSE]

LEMMA FailedRow ==
  ASSUME NEW y \in SessionRow
  PROVE  /\ FailedOf(y) \in SessionRow /\ FailedOf(y).status = "failed"
         /\ FailedOf(y).version = y.version /\ FailedOf(y).path = y.path
<1> DEFINE z == [y EXCEPT !.status = "failed"]
<1>1. z \in SessionRow /\ z.status = "failed" /\ z.version = y.version /\ z.path = y.path
  BY DEF SessionRow, SessionStatus
<1>2. FailedOf(y) = [z EXCEPT !.received = FALSE]
  BY DEF FailedOf
<1> HIDE DEF z
<1>3. LET w == [z EXCEPT !.received = FALSE]
      IN w \in SessionRow /\ w.status = "failed" /\ w.version = y.version /\ w.path = y.path
  BY <1>1 DEF SessionRow
<1> QED
  BY <1>2, <1>3, Zenon

\* fail()
LEMMA Fails ==
  ASSUME StorageInv, NEW a \in Assemblers, Fail(a)
  PROVE  StorageInv' /\ Shrinks
<1> DEFINE s == assembly[a].session
           x == IF session[s].status = "removed" THEN session[s]
                ELSE FailedOf(session[s])
<1>0. /\ TypeOK /\ SessionsInv /\ session \in [Sessions -> SessionRow]
      /\ s \in Sessions /\ session[s].status # "none"
  BY Pieces DEF StorageInv, SessionTypes, SessionsInv, Working, Fail
<1>1. /\ version' = version /\ stored' = stored /\ doomed' = doomed /\ dataset' = dataset
      /\ quota' = quota /\ other' = other /\ blobs' = blobs /\ keys' = keys
      /\ chunk' = chunk /\ request' = request /\ sweep' = sweep
      /\ crashes' = crashes /\ doubted' = doubted /\ SessionFree(s) /\ RemoveParts({s})
      /\ assembly[a].pc = "failing" /\ assembly' = [assembly EXCEPT ![a] = NoAssembly]
      /\ session' = IF session[s].status = "removed" THEN session
                    ELSE [session EXCEPT ![s].status = "failed", ![s].received = FALSE]
  BY DEF Fail
<1>2. /\ x \in SessionRow /\ x.version = session[s].version /\ x.path = session[s].path
      /\ x.status \in {"removed", "failed"} /\ (session[s].status = "removed" => x.status = "removed")
  BY <1>0, FailedRow
<1>3. session' = [session EXCEPT ![s] = x]
  BY <1>0, <1>1 DEF FailedOf
<1> HIDE DEF x
<1>4. /\ AssemblyTypes' /\ FilesApart' /\ BlobsKnown'
      /\ assembly'[a] = NoAssembly /\ \A b \in Assemblers : b # a => assembly'[b] = assembly[b]
      /\ \A b \in Assemblers : /\ Holds(b)' <=> Holds(b)
                               /\ Attaching(b)' => Attaching(b) /\ assembly'[b] = assembly[b]
                               /\ ChargedBy(b)' => ChargedBy(b)
      /\ \A t \in Sessions : Running(t)' => Running(t)
  BY <1>1, ThreadIdles DEF Holds
<1>5. /\ SessionTypes' /\ Requested' /\ AttachLocks' /\ ActiveIntoDraft' /\ ReleaseHolds'
      /\ Shrinks
      /\ \A t \in Sessions :
            /\ session'[t].status = "none" <=> session[t].status = "none"
            /\ session'[t].version = session[t].version /\ session'[t].path = session[t].path
            /\ t # s => session'[t] = session[t]
      /\ session'[s] = x
  BY <1>0, <1>1, <1>2, <1>3, <1>4, SessionMoves
<1>6. TypeOK'
  <2>1. PartTypes'
    BY <1>0, <1>1, FewerParts, Pieces
  <2> QED
    BY <1>0, <1>1, <1>4, <1>5, <2>1, SameTypes, Assemble
<1>7. Working'
  <2>1. \A b \in Assemblers : assembly'[b].pc # "idle" => assembly'[b] = assembly[b]
    BY <1>4 DEF NoAssembly
  <2>2. \A b \in Assemblers : Holds(b)' => Holds(b) /\ assembly'[b] = assembly[b]
    BY <1>4 DEF NoAssembly, Holds
  <2>3. Working
    BY <1>0 DEF SessionsInv
  <2>4. \A t \in Sessions : session'[t].status # "none" =>
          session'[t].version \in Versions /\ session'[t].path \in Paths
    BY <1>5, <2>3 DEF Working
  <2>5. \A b \in Assemblers : assembly'[b].pc # "idle" =>
          assembly'[b].session \in Sessions /\ session'[assembly'[b].session].status # "none"
    BY <1>5, <2>1, <2>3 DEF Working
  <2>6. \A b \in Assemblers : Holds(b)' => assembly'[b].file \in Files
    BY <2>2, <2>3 DEF Working
  <2>7. chunk'.pc # "idle" =>
          chunk'.session \in Sessions /\ session'[chunk'.session].status # "none"
    BY <1>1, <1>5, <2>3 DEF Working
  <2>8. sweep' # NoSweep => /\ sweep'.to # "none" /\ sweep'.session \in Sessions
                            /\ session'[sweep'.session].status # "none"
    BY <1>1, <1>5, <2>3 DEF Working
  <2> QED
    BY <2>4, <2>5, <2>6, <2>7, <2>8, Zenon DEF Working
<1>8. SweepHolds'
  <2>1. Running(s)
    BY DEF Running
  <2>2. sweep.to = "uploading" => sweep.session \in Sessions
    BY <1>0 DEF SessionsInv, Working, NoSweep
  <2> QED
    BY <1>0, <1>1, <1>4, <1>5, <2>1, <2>2 DEF SessionsInv, SweepHolds
<1>9. FilesReadable' /\ VersionsInv' /\ PrimaryCurrent'
  BY <1>1, SameReadable, SameVersions
<1>10. OwnerLocks'
  BY <1>1, <1>4, <1>5, <1>6, OwnerKept DEF Charging
<1> QED
  BY <1>4, <1>5, <1>6, <1>7, <1>8, <1>9, <1>10, Together

-----------------------------------------------------------------------------
\* A request comes or goes, and does not bring a file.
LEMMA RequestMoves ==
  ASSUME StorageInv, UNCHANGED <<rows, blobs, keys, chunk, assembly, sweep, crashes, doubted>>,
         request' \in Request, request.op # "upload", request'.op # "upload",
         Requested', PartTypes', TypeOK' => OwnerLocks'
  PROVE  StorageInv'
<1>1. /\ version' = version /\ stored' = stored /\ doomed' = doomed /\ dataset' = dataset
      /\ quota' = quota /\ other' = other /\ session' = session /\ blobs' = blobs /\ keys' = keys
      /\ chunk' = chunk /\ assembly' = assembly /\ sweep' = sweep
      /\ crashes' = crashes /\ doubted' = doubted
  BY DEF rows
<1>2. TypeOK /\ FilesInv /\ BlobsKnown
  BY DEF StorageInv
<1>3. TypeOK'
  <2>1. RequestTypes'
    BY DEF RequestTypes
  <2> QED
    BY <1>1, <1>2, <2>1, SameTypes, Assemble
<1>4. Working' /\ AttachLocks' /\ SweepHolds' /\ ActiveIntoDraft'
  BY <1>1, SameSessions
<1>5. ReleaseHolds' /\ FilesReadable' /\ VersionsInv' /\ PrimaryCurrent'
  BY <1>1, SameRelease, SameReadable, SameVersions
<1>6. FilesApart' /\ BlobsKnown'
  BY <1>1, <1>2 DEF FilesInv, FilesApart, BlobsKnown, Holds
<1> QED
  BY <1>3, <1>4, <1>5, <1>6, Together

\* It leaves the owner's row alone, or gives it back.
LEMMA RequestLeavesOwner ==
  ASSUME StorageInv, TypeOK', UNCHANGED <<rows, assembly, doubted>>,
         request'.op \notin {"create_session", "upload"}
  PROVE  OwnerLocks'
<1>1. TypeOK /\ stored' = stored /\ other' = other /\ session' = session /\ quota' = quota
  BY DEF StorageInv, rows
<1>2. Shrinks
  BY <1>1, NothingAdded
<1> QED
  BY <1>1, <1>2, OwnerKept DEF Charging, ChargedBy

\* The draft is a version.
LEMMA DraftIs ==
  /\ Draft # NoVersion => Draft \in Versions /\ version[Draft].status = "draft"
  /\ \A v \in Versions : version[v].status = "draft" => Draft # NoVersion
<1>1. CASE \E v \in Versions : version[v].status = "draft"
  <2>1. Draft \in Versions /\ version[Draft].status = "draft"
    BY <1>1 DEF Draft
  <2> QED
    BY <2>1, StorageAssumption DEF Versions, NoVersion
<1>2. CASE ~ \E v \in Versions : version[v].status = "draft"
  BY <1>2 DEF Draft
<1> QED
  BY <1>1, <1>2

\* remove_draft_file() reads.
LEMMA RemovesFile ==
  ASSUME StorageInv, NEW p \in Paths, RemoveFileRead(p)
  PROVE  StorageInv'
<1> DEFINE f == version[Draft].files[p]
<1>0. TypeOK /\ VersionTypes
  BY Pieces DEF StorageInv
<1>1. f \in Files
  <2>1. f # NoFile /\ Draft # NoVersion
    BY DEF RemoveFileRead
  <2>2. Draft \in Versions
    BY <2>1, DraftIs
  <2> QED
    BY <1>0, <2>1, <2>2 DEF VersionTypes, VersionRow, FileSets
<1> HIDE DEF f
<1>2. /\ request' = [op |-> "remove_draft_file", session |-> None, path |-> p, file |-> f, seen |-> {}]
      /\ request.op = "idle" /\ dataset.exists /\ parts' = parts
      /\ UNCHANGED <<rows, blobs, keys, chunk, assembly, sweep, crashes, doubted>>
  BY DEF RemoveFileRead, NoRequest, DatasetFree, disk, f
<1>3. request' \in Request
  BY <1>1, <1>2 DEF Request
<1>4. Requested'
  BY <1>1, <1>2 DEF Requested, rows
<1>5. PartTypes'
  BY <1>0, <1>2, SameTypes
<1>6. TypeOK' => OwnerLocks'
  BY <1>2, RequestLeavesOwner
<1> QED
  BY <1>2, <1>3, <1>4, <1>5, <1>6, RequestMoves

\* drop_sessions(): the sessions that are to go have been seen.
LEMMA DropsSessions ==
  ASSUME StorageInv, DiscardRead \/ RemoveRead
  PROVE  StorageInv'
<1>0. TypeOK /\ SessionTypes /\ Working
  BY Pieces DEF StorageInv, SessionsInv
<1>1. PICK op \in {"discard", "remove"}, vs \in SUBSET Versions :
          DropSessions(op, vs) /\ (op = "discard" => Draft # NoVersion /\ vs = {Draft})
                               /\ (op = "remove" => vs = Versions)
  <2>1. Draft # NoVersion => {Draft} \in SUBSET Versions
    BY DraftIs
  <2> QED
    BY <2>1 DEF DiscardRead, RemoveRead
<1> DEFINE seen == {s \in Sessions : session[s].version \in vs
                                     /\ session[s].status \notin {"none", "removed"}}
<1>2. /\ request' = [op |-> op, session |-> None, path |-> None, file |-> NoFile, seen |-> seen]
      /\ request.op = "idle" /\ dataset.exists /\ RemoveParts(seen)
      /\ UNCHANGED <<rows, blobs, keys, chunk, assembly, sweep, crashes, doubted>>
  BY <1>1 DEF DropSessions, NoRequest, DatasetFree
<1>3. request' \in Request
  BY <1>2 DEF Request
<1>4. Requested'
  <2>1. Draft' = Draft /\ session' = session /\ dataset' = dataset
    BY <1>2 DEF rows, Draft
  <2>2. \A s \in Sessions : session[s].status # "none" => session[s].version \in Versions
    BY <1>0 DEF Working
  <2> QED
    BY <1>1, <1>2, <2>1, <2>2 DEF Requested
<1>5. PartTypes'
  BY <1>0, <1>2, FewerParts, Pieces
<1>6. TypeOK' => OwnerLocks'
  BY <1>2, RequestLeavesOwner
<1> QED
  BY <1>2, <1>3, <1>4, <1>5, <1>6, RequestMoves

\* PostgreSQL ends the request.
LEMMA RequestEnds ==
  ASSUME StorageInv, NEW a \in Assemblers, DeadlockFailsRequest(a)
  PROVE  StorageInv'
<1>0. TypeOK
  BY DEF StorageInv
<1>1. /\ request' = NoRequest /\ request.op # "upload" /\ parts' = parts
      /\ UNCHANGED <<rows, blobs, keys, chunk, assembly, sweep, crashes, doubted>>
  BY DEF DeadlockFailsRequest, Deadlocked, disk
<1>2. request' \in Request /\ Requested' /\ request'.op = "idle"
  BY <1>1 DEF Request, NoRequest, Requested
<1>3. PartTypes'
  BY <1>0, <1>1, SameTypes
<1>4. TypeOK' => OwnerLocks'
  BY <1>1, <1>2, RequestLeavesOwner
<1> QED
  BY <1>1, <1>2, <1>3, <1>4, RequestMoves

\* create_session() charges the owner for what is still to come.
LEMMA SessionCharges ==
  ASSUME StorageInv, NEW s \in Sessions, NEW p \in Paths, CreateSessionCharge(s, p)
  PROVE  StorageInv'
<1>0. TypeOK
  BY DEF StorageInv
<1>1. /\ request' = [op |-> "create_session", session |-> s, path |-> p, file |-> NoFile, seen |-> {}]
      /\ request.op = "idle" /\ dataset.exists /\ parts' = parts
      /\ Draft # NoVersion /\ session[s].status = "none" /\ OwnerFree /\ Fits(Active)
      /\ UNCHANGED <<rows, blobs, keys, chunk, assembly, sweep, crashes, doubted>>
  BY DEF CreateSessionCharge, NoRequest, DatasetFree, disk
<1>2. request' \in Request
  BY <1>1 DEF Request
<1>3. Requested'
  BY <1>1 DEF Requested, rows, Draft
<1>4. PartTypes'
  BY <1>0, <1>1, SameTypes
<1>5. OwnerLocks'
  <2>1. /\ Cardinality(stored) \in Nat /\ Cardinality(Active) \in Nat /\ other.files \in Nat
        /\ quota \in Nat /\ Active' = Active /\ stored' = stored /\ other' = other /\ quota' = quota
    BY <1>0, <1>1, Counted DEF Active, rows
  <2>2. Kept' + 1 <= quota' /\ Reserved' + 1 <= quota'
    BY <1>1, <2>1 DEF Fits, Kept, Reserved
  <2> QED
    BY <1>1, <2>1, <2>2 DEF OwnerLocks, OwnerFree, Charging, ChargedBy
<1> QED
  BY <1>1, <1>2, <1>3, <1>4, <1>5, RequestMoves

-----------------------------------------------------------------------------
\* A thread goes on with its session, or ends; the rows stay.
LEMMA ThreadMoves ==
  ASSUME StorageInv, NEW a \in Assemblers, NEW x \in Assembly,
         assembly' = [assembly EXCEPT ![a] = x], UNCHANGED <<rows, parts, chunk, request, sweep>>,
         UNCHANGED <<crashes, doubted>>,
         blobs' \subseteq Files, keys' \subseteq Files,
         \/ x = NoAssembly
         \/ x.session = assembly[a].session /\ assembly[a].pc # "idle",
         x.pc \in {"built", "attaching", "charged"} => x.file \in Files
  PROVE  /\ TypeOK' /\ Working' /\ Requested' /\ SweepHolds' /\ ActiveIntoDraft'
         /\ VersionsInv' /\ PrimaryCurrent' /\ Shrinks
         /\ assembly'[a] = x /\ \A b \in Assemblers : b # a => assembly'[b] = assembly[b]
<1>1. /\ version' = version /\ stored' = stored /\ doomed' = doomed /\ dataset' = dataset
      /\ quota' = quota /\ other' = other /\ session' = session
      /\ parts' = parts /\ chunk' = chunk /\ request' = request /\ sweep' = sweep
      /\ crashes' = crashes /\ doubted' = doubted
  BY DEF rows
<1>2. TypeOK /\ Working /\ SweepHolds
  BY DEF StorageInv, SessionsInv
<1>3. /\ assembly'[a] = x /\ \A b \in Assemblers : b # a => assembly'[b] = assembly[b]
      /\ assembly' \in [Assemblers -> Assembly]
  BY <1>2 DEF TypeOK
<1>4. TypeOK'
  <2>1. AssemblyTypes' /\ StoreTypes'
    BY <1>1, <1>2, <1>3 DEF AssemblyTypes, StoreTypes, TypeOK
  <2> QED
    BY <1>1, <1>2, <2>1, SameTypes, Assemble
<1>5. Working'
  <2>1. \A b \in Assemblers : assembly'[b].pc # "idle" =>
          assembly'[b].session \in Sessions /\ session[assembly'[b].session].status # "none"
    BY <1>2, <1>3 DEF Working, NoAssembly
  <2>2. \A b \in Assemblers : Holds(b)' => assembly'[b].file \in Files
    BY <1>2, <1>3 DEF Working, Holds
  <2> QED
    BY <1>1, <1>2, <2>1, <2>2 DEF Working
<1>6. Requested' /\ ActiveIntoDraft'
  BY <1>1, SameSessions
<1>7. SweepHolds'
  <2>1. sweep.to = "uploading" => sweep.session \in Sessions
    BY <1>2 DEF Working, NoSweep
  <2>2. \A s \in Sessions : Running(s)' => Running(s)
    BY <1>3, StorageAssumption DEF Running, NoAssembly
  <2> QED
    BY <1>1, <1>2, <2>1, <2>2 DEF SweepHolds
<1>8. VersionsInv' /\ PrimaryCurrent' /\ Shrinks
  BY <1>1, <1>2, SameVersions, NothingAdded
<1> QED
  BY <1>3, <1>4, <1>5, <1>6, <1>7, <1>8

\* It neither takes nor gives a file or a lock.
LEMMA ThreadWaits ==
  ASSUME StorageInv, NEW a \in Assemblers, NEW x \in Assembly, ~Holds(a),
         x.pc \notin {"built", "attaching", "charged"},
         assembly' = [assembly EXCEPT ![a] = x],
         UNCHANGED <<rows, disk, chunk, request, sweep, crashes, doubted>>,
         \/ x = NoAssembly
         \/ x.session = assembly[a].session /\ assembly[a].pc # "idle"
  PROVE  StorageInv'
<1>1. /\ stored' = stored /\ doomed' = doomed /\ blobs' = blobs /\ keys' = keys /\ quota' = quota
      /\ version' = version /\ session' = session /\ dataset' = dataset /\ other' = other
      /\ request' = request /\ crashes' = crashes /\ doubted' = doubted
  BY DEF rows, disk
<1>2. TypeOK /\ FilesInv /\ BlobsKnown /\ AttachLocks
  BY DEF StorageInv, SessionsInv
<1>3. /\ TypeOK' /\ Working' /\ Requested' /\ SweepHolds' /\ ActiveIntoDraft'
      /\ VersionsInv' /\ PrimaryCurrent' /\ Shrinks
      /\ assembly'[a] = x /\ \A b \in Assemblers : b # a => assembly'[b] = assembly[b]
  <2>1. blobs' \subseteq Files /\ keys' \subseteq Files /\ UNCHANGED <<rows, parts, chunk, request, sweep>>
    BY <1>1, <1>2 DEF TypeOK, disk
  <2> QED
    BY <2>1, ThreadMoves
<1>4. \A b \in Assemblers : (Holds(b)' <=> Holds(b)) /\ (Holds(b) => assembly'[b] = assembly[b])
  BY <1>3 DEF Holds
<1>5. \A b \in Assemblers : /\ Attaching(b)' => Attaching(b) /\ assembly'[b] = assembly[b]
                            /\ ChargedBy(b)' => ChargedBy(b) /\ assembly'[b] = assembly[b]
  BY <1>3, <1>4 DEF Holds, Attaching, ChargedBy
<1>6. FilesApart' /\ BlobsKnown'
  BY <1>1, <1>2, <1>4 DEF FilesInv, FilesApart, BlobsKnown
<1>7. AttachLocks'
  BY <1>1, <1>2, <1>5 DEF AttachLocks
<1>8. ReleaseHolds'
  BY <1>1, <1>2, <1>5 DEF FilesInv, ReleaseHolds, ChargedBy
<1>9. FilesReadable'
  BY <1>1, SameReadable
<1>10. OwnerLocks'
  BY <1>1, <1>3, <1>5, OwnerKept DEF Charging
<1> QED
  BY <1>3, <1>6, <1>7, <1>8, <1>9, <1>10, Together

\* Before it has a file.
LEMMA ThreadStarts ==
  ASSUME StorageInv, NEW a \in Assemblers, AssembleBegin(a) \/ BuildFails(a)
  PROVE  StorageInv'
<1>1. assembly \in [Assemblers -> Assembly]
  BY DEF StorageInv, TypeOK
<1> DEFINE begun == [assembly[a] EXCEPT !.pc = "reading"]
           failing == [assembly[a] EXCEPT !.pc = "failing"]
           x == IF assembly[a].pc = "reading" THEN failing
                ELSE IF session[assembly[a].session].status = "assembling" THEN begun ELSE NoAssembly
<1>2. /\ NoAssembly \in Assembly /\ NoAssembly.pc = "idle"
      /\ begun \in Assembly /\ begun.session = assembly[a].session /\ begun.pc = "reading"
      /\ failing \in Assembly /\ failing.session = assembly[a].session /\ failing.pc = "failing"
  BY <1>1 DEF Assembly, NoAssembly
<1>3. assembly' = [assembly EXCEPT ![a] = x]
  BY <1>1 DEF AssembleBegin, BuildFails, Goto
<1>4. /\ UNCHANGED <<rows, disk, chunk, request, sweep, crashes, doubted>>
      /\ assembly[a].pc # "idle" /\ ~Holds(a)
  BY DEF AssembleBegin, BuildFails, Holds
<1> QED
  BY <1>2, <1>3, <1>4, ThreadWaits

\* A thread that has built a file.
LEMMA BuiltRow ==
  ASSUME NEW r \in Assembly, NEW f \in Files
  PROVE  [r EXCEPT !.pc = "built", !.file = f]
           = [pc |-> "built", session |-> r.session, file |-> f, old |-> r.old, release |-> r.release]
<1> DEFINE z == [r EXCEPT !.pc = "built"]
<1>1. z \in Assembly /\ z.pc = "built" /\ z.session = r.session /\ z.old = r.old
      /\ z.release = r.release
  BY DEF Assembly
<1>2. [r EXCEPT !.pc = "built", !.file = f] = [z EXCEPT !.file = f]
  BY DEF Assembly
<1> HIDE DEF z
<1>3. [z EXCEPT !.file = f]
        = [pc |-> "built", session |-> z.session, file |-> f, old |-> z.old, release |-> z.release]
  BY <1>1 DEF Assembly
<1> QED
  BY <1>1, <1>2, <1>3

\* The file is renamed into place under a fresh key.
LEMMA Builds ==
  ASSUME StorageInv, NEW a \in Assemblers, NEW f \in Files, Build(a, f)
  PROVE  StorageInv'
<1> DEFINE x == [pc |-> "built", session |-> assembly[a].session, file |-> f,
                 old |-> assembly[a].old, release |-> assembly[a].release]
<1>0. TypeOK /\ FilesInv /\ BlobsKnown /\ AttachLocks /\ assembly \in [Assemblers -> Assembly]
  BY DEF StorageInv, SessionsInv, TypeOK
<1>1. /\ stored' = stored /\ doomed' = doomed /\ quota' = quota
      /\ version' = version /\ session' = session /\ dataset' = dataset /\ other' = other
      /\ request' = request /\ crashes' = crashes /\ doubted' = doubted
      /\ blobs' = blobs \cup {f} /\ keys' = keys \cup {f} /\ f \notin keys
      /\ assembly[a].pc = "reading"
      /\ UNCHANGED <<rows, parts, chunk, request, sweep>> /\ UNCHANGED <<crashes, doubted>>
  BY DEF Build, rows, FreshKey
<1>2. x \in Assembly /\ x.pc = "built" /\ x.session = assembly[a].session /\ x.file = f
  BY <1>0 DEF Assembly
<1>3. assembly' = [assembly EXCEPT ![a] = x]
  <2> DEFINE y == [assembly[a] EXCEPT !.pc = "built", !.file = f]
  <2>1. assembly' = [assembly EXCEPT ![a] = y]
    BY <1>0 DEF Build
  <2>3. y = x
    BY <1>0, BuiltRow
  <2> QED
    BY <2>1, <2>3, Zenon
<1> HIDE DEF x
<1>4. /\ TypeOK' /\ Working' /\ Requested' /\ SweepHolds' /\ ActiveIntoDraft'
      /\ VersionsInv' /\ PrimaryCurrent' /\ Shrinks
      /\ assembly'[a] = x /\ \A b \in Assemblers : b # a => assembly'[b] = assembly[b]
  <2>1. blobs' \subseteq Files /\ keys' \subseteq Files
    BY <1>0, <1>1 DEF TypeOK
  <2> QED
    BY <1>1, <1>2, <1>3, <2>1, ThreadMoves
<1>5. ~Holds(a) /\ Holds(a)' /\ assembly'[a].file = f
  BY <1>1, <1>2, <1>4 DEF Holds
<1>6. \A b \in Assemblers : b # a =>
          (Holds(b)' <=> Holds(b)) /\ assembly'[b] = assembly[b]
  BY <1>4 DEF Holds
<1>7. FilesApart'
  <2>1. \A b \in Assemblers : Holds(b) => assembly[b].file \in keys
    BY <1>0 DEF FilesInv, FilesApart
  <2>2. request.op = "upload" => request.file \in keys
    BY <1>0 DEF FilesInv, FilesApart
  <2> QED
    BY <1>0, <1>1, <1>5, <1>6, <2>1, <2>2 DEF FilesInv, FilesApart
<1>8. BlobsKnown'
  <2>1. \A b \in Assemblers : Holds(b) => Holds(b)' /\ assembly'[b].file = assembly[b].file
    BY <1>5, <1>6
  <2> QED
    BY <1>0, <1>1, <1>5, <2>1 DEF BlobsKnown
<1>9. \A b \in Assemblers : /\ Attaching(b)' => Attaching(b) /\ assembly'[b] = assembly[b]
                            /\ ChargedBy(b)' => ChargedBy(b) /\ assembly'[b] = assembly[b]
  BY <1>2, <1>4 DEF Attaching, ChargedBy
<1>10. AttachLocks' /\ ReleaseHolds'
  BY <1>0, <1>1, <1>9 DEF AttachLocks, FilesInv, ReleaseHolds, ChargedBy
<1>11. FilesReadable'
  BY <1>1, SameReadable
<1>12. OwnerLocks'
  BY <1>1, <1>4, <1>9, OwnerKept DEF Charging
<1> QED
  BY <1>4, <1>7, <1>8, <1>10, <1>11, <1>12, Together

\* The file that was built is unlinked again.
LEMMA Unlinks ==
  ASSUME StorageInv, NEW a \in Assemblers, Holds(a), Unlink(a),
         UNCHANGED <<rows, keys, parts, chunk, request, sweep, crashes, doubted>>
  PROVE  StorageInv'
<1> DEFINE x == [assembly[a] EXCEPT !.pc = "failing"]
           f == assembly[a].file
<1>0. TypeOK /\ FilesInv /\ BlobsKnown /\ AttachLocks /\ assembly \in [Assemblers -> Assembly]
  BY DEF StorageInv, SessionsInv, TypeOK
<1>1. /\ stored' = stored /\ doomed' = doomed /\ quota' = quota
      /\ version' = version /\ session' = session /\ dataset' = dataset /\ other' = other
      /\ request' = request /\ crashes' = crashes /\ doubted' = doubted
      /\ blobs' = blobs \ {f} /\ keys' = keys
      /\ UNCHANGED <<rows, parts, chunk, request, sweep>> /\ UNCHANGED <<crashes, doubted>>
  BY DEF Unlink, rows
<1>2. x \in Assembly /\ x.pc = "failing" /\ x.session = assembly[a].session
  BY <1>0 DEF Assembly
<1>3. assembly' = [assembly EXCEPT ![a] = x]
  BY <1>0 DEF Unlink, Goto
<1> HIDE DEF x
<1>4. /\ TypeOK' /\ Working' /\ Requested' /\ SweepHolds' /\ ActiveIntoDraft'
      /\ VersionsInv' /\ PrimaryCurrent' /\ Shrinks
      /\ assembly'[a] = x /\ \A b \in Assemblers : b # a => assembly'[b] = assembly[b]
  <2>1. blobs' \subseteq Files /\ keys' \subseteq Files /\ assembly[a].pc # "idle"
    BY <1>0, <1>1 DEF TypeOK, Holds
  <2> QED
    BY <1>1, <1>2, <1>3, <2>1, ThreadMoves
<1>5. \A b \in Assemblers : /\ Holds(b)' => Holds(b) /\ b # a /\ assembly'[b] = assembly[b]
                            /\ Holds(b) /\ b # a => Holds(b)' /\ assembly'[b] = assembly[b]
  BY <1>2, <1>4 DEF Holds
<1>6. FilesApart'
  BY <1>0, <1>1, <1>5 DEF FilesInv, FilesApart
<1>7. BlobsKnown'
  BY <1>0, <1>1, <1>5 DEF BlobsKnown
<1>8. FilesReadable'
  <2>1. f \notin stored
    BY <1>0 DEF FilesInv, FilesApart
  <2> QED
    BY <1>0, <1>1, <2>1 DEF FilesInv, FilesReadable
<1>9. \A b \in Assemblers : /\ Attaching(b)' => Attaching(b) /\ assembly'[b] = assembly[b]
                            /\ ChargedBy(b)' => ChargedBy(b) /\ assembly'[b] = assembly[b]
  BY <1>2, <1>4 DEF Attaching, ChargedBy
<1>10. AttachLocks' /\ ReleaseHolds'
  BY <1>0, <1>1, <1>9 DEF AttachLocks, FilesInv, ReleaseHolds, ChargedBy
<1>11. OwnerLocks'
  BY <1>1, <1>4, <1>9, OwnerKept DEF Charging
<1> QED
  BY <1>4, <1>6, <1>7, <1>8, <1>10, <1>11, Together

\* A thread goes on with the file that it has.
LEMMA ThreadKeepsFile ==
  ASSUME StorageInv, NEW a \in Assemblers, NEW x \in Assembly, Holds(a),
         x.pc \in {"attaching", "charged"}, x.file = assembly[a].file,
         x.session = assembly[a].session,
         assembly' = [assembly EXCEPT ![a] = x],
         UNCHANGED <<rows, disk, chunk, request, sweep, crashes, doubted>>
  PROVE  /\ TypeOK' /\ Working' /\ Requested' /\ SweepHolds' /\ ActiveIntoDraft'
         /\ FilesApart' /\ FilesReadable' /\ BlobsKnown' /\ VersionsInv' /\ PrimaryCurrent' /\ Shrinks
         /\ assembly'[a] = x /\ \A b \in Assemblers : b # a => assembly'[b] = assembly[b]
<1>1. /\ stored' = stored /\ doomed' = doomed /\ blobs' = blobs /\ keys' = keys /\ quota' = quota
      /\ version' = version /\ session' = session /\ dataset' = dataset /\ other' = other
      /\ request' = request /\ crashes' = crashes /\ doubted' = doubted
  BY DEF rows, disk
<1>2. TypeOK /\ FilesInv /\ BlobsKnown
  BY DEF StorageInv
<1>3. /\ TypeOK' /\ Working' /\ Requested' /\ SweepHolds' /\ ActiveIntoDraft'
      /\ VersionsInv' /\ PrimaryCurrent' /\ Shrinks
      /\ assembly'[a] = x /\ \A b \in Assemblers : b # a => assembly'[b] = assembly[b]
  <2>1. blobs' \subseteq Files /\ keys' \subseteq Files /\ UNCHANGED <<rows, parts, chunk, request, sweep>>
    BY <1>1, <1>2 DEF TypeOK, disk
  <2>2. x.file \in Files
    BY DEF StorageInv, SessionsInv, Working
  <2>3. assembly[a].pc # "idle"
    BY DEF Holds
  <2> QED
    BY <2>1, <2>2, <2>3, ThreadMoves
<1>4. \A b \in Assemblers : (Holds(b)' <=> Holds(b)) /\ assembly'[b].file = assembly[b].file
  BY <1>3 DEF Holds
<1>5. FilesApart' /\ BlobsKnown'
  BY <1>1, <1>2, <1>4 DEF FilesInv, FilesApart, BlobsKnown
<1>6. FilesReadable'
  BY <1>1, SameReadable
<1> QED
  BY <1>3, <1>5, <1>6

\* The rows of the session and of the draft.
LEMMA LocksRows ==
  ASSUME StorageInv, NEW a \in Assemblers, LockRows(a)
  PROVE  StorageInv'
<1> DEFINE s == assembly[a].session
           x == [assembly[a] EXCEPT !.pc = "attaching"]
<1>1. Holds(a) /\ assembly[a].pc = "built"
  BY DEF LockRows, Holds
<1>2. CASE ~(session[s].status = "assembling" /\ version[session[s].version].status = "draft")
  <2>1. Unlink(a) /\ UNCHANGED <<rows, keys, parts, chunk, request, sweep, crashes, doubted>>
    BY <1>2 DEF LockRows
  <2> QED
    BY <1>1, <2>1, Unlinks
<1>3. CASE session[s].status = "assembling" /\ version[session[s].version].status = "draft"
  <2>0. TypeOK /\ SessionsInv /\ FilesInv /\ assembly \in [Assemblers -> Assembly]
    BY DEF StorageInv, TypeOK
  <2>1. /\ Goto(a, "attaching") /\ VersionFree(session[s].version)
        /\ UNCHANGED <<rows, disk, chunk, request, sweep, crashes, doubted>>
    BY <1>3 DEF LockRows, disk
  <2>2. x \in Assembly /\ x.pc = "attaching" /\ x.session = s /\ x.file = assembly[a].file
    BY <2>0 DEF Assembly
  <2>3. assembly' = [assembly EXCEPT ![a] = x]
    BY <2>0, <2>1 DEF Goto
  <2> HIDE DEF x
  <2>4. /\ TypeOK' /\ Working' /\ Requested' /\ SweepHolds' /\ ActiveIntoDraft'
        /\ FilesApart' /\ FilesReadable' /\ BlobsKnown' /\ VersionsInv' /\ PrimaryCurrent' /\ Shrinks
        /\ assembly'[a] = x /\ \A b \in Assemblers : b # a => assembly'[b] = assembly[b]
    BY <1>1, <2>1, <2>2, <2>3, ThreadKeepsFile
  <2>5. /\ version' = version /\ session' = session /\ stored' = stored /\ dataset' = dataset
        /\ quota' = quota /\ other' = other /\ request' = request
    BY <2>1 DEF rows
  <2>6. \A b \in Assemblers : /\ ChargedBy(b)' => ChargedBy(b) /\ assembly'[b] = assembly[b]
                              /\ b # a => (Attaching(b)' <=> Attaching(b))
    BY <2>2, <2>4 DEF ChargedBy, Attaching
  <2>7. AttachLocks'
    <3>1. \A b \in Assemblers : ~Attaching(b)
      <4>1. \A b \in Assemblers : Attaching(b) =>
                /\ session[assembly[b].session].version \in Versions
                /\ version[session[assembly[b].session].version].status = "draft"
        BY <2>0 DEF SessionsInv, AttachLocks, Working, Attaching
      <4>2. session[s].version \in Versions
        BY <1>3, <2>0, <1>1 DEF SessionsInv, Working
      <4> QED
        BY <1>3, <2>1, <4>1, <4>2 DEF VersionFree, StorageInv, VersionsInv, OneDraft
    <3>2. \A b \in Assemblers : Attaching(b)' => b = a
      BY <2>6, <3>1
    <3> QED
      BY <1>3, <2>2, <2>4, <2>5, <3>2 DEF AttachLocks
  <2>8. ReleaseHolds'
    BY <2>0, <2>5, <2>6 DEF FilesInv, ReleaseHolds, ChargedBy
  <2>9. OwnerLocks'
    BY <2>4, <2>5, <2>6, OwnerKept DEF Charging
  <2> QED
    BY <2>4, <2>7, <2>8, <2>9, Together
<1> QED
  BY <1>2, <1>3

\* Another file at one path of a version.
FiledAt(v, p, f) == [version EXCEPT ![v].files[p] = f]

LEMMA FileAt ==
  ASSUME VersionTypes, NEW v \in Versions, NEW p \in Paths, NEW f \in Files \cup {NoFile}
  PROVE  /\ FiledAt(v, p, f) \in [Versions -> VersionRow]
         /\ \A w \in Versions :
               /\ FiledAt(v, p, f)[w].status = version[w].status
               /\ FiledAt(v, p, f)[w].number = version[w].number
               /\ w # v => FiledAt(v, p, f)[w] = version[w]
               /\ \A q \in Paths : FiledAt(v, p, f)[w].files[q]
                     = IF w = v /\ q = p THEN f ELSE version[w].files[q]
<1> DEFINE table == FiledAt(v, p, f)
           fs == [version[v].files EXCEPT ![p] = f]
           x == [version[v] EXCEPT !.files = fs]
<1>1. version[v] \in VersionRow /\ version[v].files \in FileSets
  BY DEF VersionTypes, VersionRow
<1>2. fs \in FileSets /\ \A q \in Paths : fs[q] = IF q = p THEN f ELSE version[v].files[q]
  BY <1>1 DEF FileSets
<1>3. table = [version EXCEPT ![v] = x]
  BY <1>1 DEF FiledAt, VersionTypes, VersionRow
<1> HIDE DEF fs, table
<1>4. /\ x \in VersionRow /\ x.files = fs /\ x.status = version[v].status
      /\ x.number = version[v].number
  BY <1>1, <1>2 DEF VersionRow
<1> HIDE DEF x
<1>5. /\ table \in [Versions -> VersionRow] /\ table[v] = x
      /\ \A w \in Versions : w # v => table[w] = version[w]
  BY <1>3, <1>4 DEF VersionTypes
<1>6. \A w \in Versions :
        /\ table[w].status = version[w].status /\ table[w].number = version[w].number
        /\ w # v => table[w] = version[w]
        /\ \A q \in Paths : table[w].files[q] = IF w = v /\ q = p THEN f ELSE version[w].files[q]
  BY <1>2, <1>4, <1>5
<1> QED
  BY <1>5, <1>6 DEF table

\* A thread that has charged the owner.
LEMMA ChargedRow ==
  ASSUME NEW r \in Assembly, NEW old \in Files \cup {NoFile}, NEW release \in BOOLEAN
  PROVE  [r EXCEPT !.pc = "charged", !.old = old, !.release = release]
           = [pc |-> "charged", session |-> r.session, file |-> r.file, old |-> old,
              release |-> release]
<1> DEFINE y == [r EXCEPT !.pc = "charged"]
           z == [y EXCEPT !.old = old]
<1>1. y \in Assembly /\ y.pc = "charged" /\ y.session = r.session /\ y.file = r.file
  BY DEF Assembly
<1>2. [r EXCEPT !.pc = "charged", !.old = old, !.release = release] = [z EXCEPT !.release = release]
  BY DEF Assembly
<1> HIDE DEF y
<1>3. z \in Assembly /\ z.pc = "charged" /\ z.session = r.session /\ z.file = r.file /\ z.old = old
  BY <1>1 DEF Assembly
<1> HIDE DEF z
<1>4. [z EXCEPT !.release = release]
        = [pc |-> "charged", session |-> z.session, file |-> z.file, old |-> z.old,
           release |-> release]
  BY <1>3 DEF Assembly
<1> QED
  BY <1>2, <1>3, <1>4

\* The owner's row and the quota.
LEMMA Charges ==
  ASSUME StorageInv, NEW a \in Assemblers, Charge(a)
  PROVE  StorageInv'
<1> DEFINE s == assembly[a].session
           v == session[s].version
           p == session[s].path
           f == assembly[a].file
           old == version[v].files[p]
           table == FiledAt(v, p, f)
           release == old \in Releasable({old}, table, dataset.key)
           x == [pc |-> "charged", session |-> s, file |-> f, old |-> old, release |-> release]
<1>1. Holds(a) /\ assembly[a].pc = "attaching" /\ OwnerFree
  BY DEF Charge, Holds
<1>2. CASE ~Fits({})
  <2>1. Unlink(a) /\ UNCHANGED <<rows, keys, parts, chunk, request, sweep, crashes, doubted>>
    BY <1>2 DEF Charge
  <2> QED
    BY <1>1, <2>1, Unlinks
<1>3. CASE Fits({})
  <2>0. /\ TypeOK /\ SessionsInv /\ FilesInv /\ assembly \in [Assemblers -> Assembly] /\ VersionTypes
        /\ OwnerLocks
    BY Pieces DEF StorageInv, TypeOK
  <2>1. /\ assembly' = [assembly EXCEPT ![a].pc = "charged", ![a].old = old, ![a].release = release]
        /\ UNCHANGED <<rows, disk, chunk, request, sweep, crashes, doubted>>
    BY <1>3 DEF Charge, FiledAt, disk
  <2>2. s \in Sessions /\ v \in Versions /\ p \in Paths /\ f \in Files
    BY <1>1, <2>0 DEF SessionsInv, Working
  <2>3. old \in Files \cup {NoFile} /\ release \in BOOLEAN
    BY <2>0, <2>2 DEF VersionTypes, VersionRow, FileSets
  <2>r. release => /\ old \in stored /\ old # dataset.key
                   /\ \A w \in Versions, q \in Paths : version[w].files[q] = old => w = v /\ q = p
    <3>1. \A w \in Versions, q \in Paths :
              table[w].files[q] = IF w = v /\ q = p THEN f ELSE version[w].files[q]
      BY <2>0, <2>2, FileAt
    <3> HIDE DEF table, old
    <3>2. release => /\ old \in stored /\ old # dataset.key
                     /\ \A w \in Versions, q \in Paths : table[w].files[q] # old
      BY DEF Releasable, Referenced
    <3> QED
      BY <3>1, <3>2
  <2> HIDE DEF table, old, release
  <2>4. x \in Assembly /\ x.pc = "charged" /\ x.session = s /\ x.file = f /\ x.old = old
        /\ x.release = release
    BY <2>0, <2>3 DEF Assembly
  <2>5. assembly' = [assembly EXCEPT ![a] = x]
    <3>1. [assembly[a] EXCEPT !.pc = "charged", !.old = old, !.release = release] = x
      BY <2>0, <2>3, ChargedRow
    <3>2. assembly' = [assembly EXCEPT ![a] = [assembly[a] EXCEPT !.pc = "charged", !.old = old,
                                                                  !.release = release]]
      BY <2>0, <2>1
    <3> QED
      BY <3>1, <3>2, Zenon
  <2> HIDE DEF x
  <2>6. /\ TypeOK' /\ Working' /\ Requested' /\ SweepHolds' /\ ActiveIntoDraft'
        /\ FilesApart' /\ FilesReadable' /\ BlobsKnown' /\ VersionsInv' /\ PrimaryCurrent' /\ Shrinks
        /\ assembly'[a] = x /\ \A b \in Assemblers : b # a => assembly'[b] = assembly[b]
    BY <1>1, <2>1, <2>4, <2>5, ThreadKeepsFile
  <2>7. /\ version' = version /\ session' = session /\ stored' = stored /\ dataset' = dataset
        /\ quota' = quota /\ other' = other /\ request' = request
    BY <2>1 DEF rows
  <2>8. AttachLocks'
    <3>1. \A b \in Assemblers : /\ Attaching(b)' <=> Attaching(b)
                                /\ assembly'[b].session = assembly[b].session
      BY <1>1, <2>4, <2>6 DEF Attaching
    <3> QED
      BY <2>0, <2>7, <3>1 DEF SessionsInv, AttachLocks
  <2>9. ReleaseHolds'
    <3>1. \A b \in Assemblers : ChargedBy(b) => b = a
      BY <1>1 DEF OwnerFree, ChargedBy
    <3>2. \A b \in Assemblers : assembly'[b].pc = "charged" => b = a
      BY <2>6, <3>1 DEF ChargedBy
    <3>3. assembly'[a].release = release /\ assembly'[a].old = old /\ assembly'[a].session = s
      BY <2>4, <2>6
    <3> QED
      BY <2>r, <2>7, <3>2, <3>3 DEF ReleaseHolds
  <2>10. OwnerLocks'
    <3>1. ~Charging'
      BY <1>1, <2>7 DEF Charging, OwnerFree
    <3>2. Kept + 1 <= quota /\ Kept' = Kept
      <4>1. Cardinality({}) = 0
        BY FS_EmptySet
      <4>2. Cardinality(stored) \in Nat /\ other.files \in Nat /\ quota \in Nat
        BY <2>0, Counted
      <4> QED
        BY <1>3, <2>7, <4>1, <4>2 DEF Fits, Kept
    <3> QED
      BY <2>7, <3>1, <3>2 DEF OwnerLocks, Charging
  <2> QED
    BY <2>6, <2>8, <2>9, <2>10, Together
<1> QED
  BY <1>2, <1>3

\* PostgreSQL ends the assembly.
LEMMA AssemblyFails ==
  ASSUME StorageInv, NEW a \in Assemblers, DeadlockFailsAssembly(a)
  PROVE  StorageInv'
<1>1. /\ Holds(a) /\ Unlink(a)
      /\ UNCHANGED <<rows, keys, parts, chunk, request, sweep, crashes, doubted>>
  BY DEF DeadlockFailsAssembly, Deadlocked, Holds
<1> QED
  BY <1>1, Unlinks

-----------------------------------------------------------------------------
\* remove_work_file(): a file whose deletion was recorded is nobody's.
LEMMA Cleans ==
  ASSUME StorageInv, NEW f \in Files, CleanupUnlink(f) \/ CleanupCommit(f)
  PROVE  StorageInv'
<1>0. TypeOK /\ FilesInv /\ BlobsKnown
  BY DEF StorageInv
<1>1. /\ version' = version /\ stored' = stored /\ dataset' = dataset
      /\ quota' = quota /\ other' = other /\ session' = session /\ keys' = keys /\ parts' = parts
      /\ chunk' = chunk /\ assembly' = assembly /\ request' = request /\ sweep' = sweep
      /\ crashes' = crashes /\ doubted' = doubted
      /\ \/ f \in doomed /\ blobs' = blobs \ {f} /\ doomed' = doomed
         \/ f \notin blobs /\ blobs' = blobs /\ doomed' = doomed \ {f}
  BY DEF CleanupUnlink, CleanupCommit, rows, disk, process
<1>2. TypeOK'
  <2>1. StoreTypes'
    BY <1>0, <1>1 DEF StoreTypes, TypeOK
  <2> QED
    BY <1>0, <1>1, <2>1, SameTypes, Assemble
<1>3. Working' /\ Requested' /\ AttachLocks' /\ SweepHolds' /\ ActiveIntoDraft'
  BY <1>1, SameSessions
<1>4. ReleaseHolds' /\ VersionsInv' /\ PrimaryCurrent'
  BY <1>1, SameRelease, SameVersions
<1>5. FilesApart'
  BY <1>0, <1>1 DEF FilesInv, FilesApart, Holds
<1>6. FilesReadable'
  BY <1>0, <1>1 DEF FilesInv, FilesReadable
<1>7. BlobsKnown'
  BY <1>0, <1>1 DEF BlobsKnown, Holds
<1>8. OwnerLocks'
  <2>1. Shrinks
    BY <1>0, <1>1, NothingAdded
  <2> QED
    BY <1>1, <1>2, <2>1, OwnerKept DEF Charging, ChargedBy
<1> QED
  BY <1>2, <1>3, <1>4, <1>5, <1>6, <1>7, <1>8, Together

\* upload() puts the blob in place, under a fresh key, when there is room.
LEMMA UploadCharges ==
  ASSUME StorageInv, NEW p \in Paths, NEW f \in Files, UploadCharge(p, f)
  PROVE  StorageInv'
<1>0. TypeOK /\ FilesInv /\ BlobsKnown
  BY DEF StorageInv
<1>1. /\ version' = version /\ stored' = stored /\ doomed' = doomed /\ dataset' = dataset
      /\ quota' = quota /\ other' = other /\ session' = session /\ parts' = parts
      /\ chunk' = chunk /\ assembly' = assembly /\ sweep' = sweep
      /\ crashes' = crashes /\ doubted' = doubted
      /\ request' = [op |-> "upload", session |-> None, path |-> p, file |-> f, seen |-> {}]
      /\ keys' = keys \cup {f} /\ blobs' = blobs \cup {f} /\ f \notin keys
      /\ request.op = "idle" /\ dataset.exists /\ OwnerFree /\ Fits(Active)
  BY DEF UploadCharge, DatasetFree, FreshKey, NoRequest, rows
<1>2. TypeOK'
  <2>1. StoreTypes' /\ RequestTypes'
    BY <1>0, <1>1 DEF StoreTypes, RequestTypes, Request, TypeOK
  <2> QED
    BY <1>0, <1>1, <2>1, SameTypes, Assemble
<1>3. Working' /\ AttachLocks' /\ SweepHolds' /\ ActiveIntoDraft'
  BY <1>1, SameSessions
<1>4. Requested'
  BY <1>1 DEF Requested
<1>5. ReleaseHolds' /\ FilesReadable' /\ VersionsInv' /\ PrimaryCurrent'
  BY <1>1, SameRelease, SameReadable, SameVersions
<1>6. FilesApart'
  <2>1. \A b \in Assemblers : Holds(b) => assembly[b].file # f
    BY <1>0, <1>1 DEF FilesInv, FilesApart
  <2> QED
    BY <1>0, <1>1, <2>1 DEF FilesInv, FilesApart, Holds
<1>7. BlobsKnown'
  BY <1>0, <1>1 DEF BlobsKnown, Holds
<1>8. OwnerLocks'
  <2>1. /\ Cardinality(stored) \in Nat /\ Cardinality(Active) \in Nat /\ other.files \in Nat
        /\ quota \in Nat /\ Active' = Active
    BY <1>0, <1>1, Counted DEF Active
  <2>2. Kept' + 1 <= quota' /\ Reserved' + 1 <= quota'
    BY <1>1, <2>1 DEF Fits, Kept, Reserved
  <2> QED
    BY <1>1, <2>1, <2>2 DEF OwnerLocks, OwnerFree, Charging, ChargedBy
<1> QED
  BY <1>2, <1>3, <1>4, <1>5, <1>6, <1>7, <1>8, Together

\* The upload fails, and takes its blob away.
LEMMA UploadIsLost ==
  ASSUME StorageInv, UploadFails
  PROVE  StorageInv'
<1> DEFINE f == request.file
<1>0. TypeOK /\ FilesInv /\ BlobsKnown
  BY DEF StorageInv
<1>1. /\ version' = version /\ stored' = stored /\ doomed' = doomed /\ dataset' = dataset
      /\ quota' = quota /\ other' = other /\ session' = session /\ parts' = parts /\ keys' = keys
      /\ chunk' = chunk /\ assembly' = assembly /\ sweep' = sweep
      /\ crashes' = crashes /\ doubted' = doubted
      /\ request' = NoRequest /\ blobs' = blobs \ {f} /\ request.op = "upload"
      /\ UNCHANGED <<rows, assembly, doubted>>
  BY DEF UploadFails, rows
<1>2. TypeOK' /\ request'.op = "idle"
  <2>1. StoreTypes' /\ RequestTypes'
    BY <1>0, <1>1 DEF StoreTypes, RequestTypes, Request, NoRequest, TypeOK
  <2>2. request'.op = "idle"
    BY <1>1 DEF NoRequest
  <2> QED
    BY <1>0, <1>1, <2>1, <2>2, SameTypes, Assemble
<1>3. Working' /\ AttachLocks' /\ SweepHolds' /\ ActiveIntoDraft'
  BY <1>1, SameSessions
<1>4. Requested'
  BY <1>2 DEF Requested
<1>5. ReleaseHolds' /\ VersionsInv' /\ PrimaryCurrent'
  BY <1>1, SameRelease, SameVersions
<1>6. FilesApart'
  BY <1>0, <1>1, <1>2 DEF FilesInv, FilesApart, Holds
<1>7. BlobsKnown'
  BY <1>0, <1>1, <1>2 DEF BlobsKnown, Holds
<1>8. FilesReadable'
  BY <1>0, <1>1 DEF FilesInv, FilesApart, FilesReadable
<1>9. OwnerLocks'
  BY <1>1, <1>2, RequestLeavesOwner
<1> QED
  BY <1>2, <1>3, <1>4, <1>5, <1>6, <1>7, <1>8, <1>9, Together

\* create_session() inserts its session, for the draft that is there.
LEMMA SessionStarts ==
  ASSUME StorageInv, CreateSessionCommit
  PROVE  /\ StorageInv' /\ Kept' = Kept
         /\ doubted = {} => Reserved' <= quota'
<1> DEFINE s == request.session
           x == [status |-> "uploading", version |-> Draft, path |-> request.path, received |-> FALSE]
<1>0. /\ TypeOK /\ SessionsInv /\ FilesInv /\ BlobsKnown /\ OwnerLocks
      /\ session \in [Sessions -> SessionRow]
  BY Pieces DEF StorageInv, SessionTypes
<1>1. /\ version' = version /\ stored' = stored /\ doomed' = doomed /\ dataset' = dataset
      /\ quota' = quota /\ other' = other /\ blobs' = blobs /\ parts' = parts /\ keys' = keys
      /\ chunk' = chunk /\ assembly' = assembly /\ sweep' = sweep
      /\ crashes' = crashes /\ doubted' = doubted
      /\ request' = NoRequest /\ request.op = "create_session" /\ VersionFree(Draft)
      /\ session' = [session EXCEPT ![s] = x]
  BY DEF CreateSessionCommit, disk
<1>2. /\ s \in Sessions /\ session[s].status = "none" /\ request.path \in Paths
      /\ Draft \in Versions /\ version[Draft].status = "draft"
  BY <1>0, <1>1, DraftIs DEF SessionsInv, Requested
<1>3. x \in SessionRow /\ x.status = "uploading" /\ x.version = Draft /\ x.path = request.path
  BY <1>2 DEF SessionRow, SessionStatus
<1> HIDE DEF x
<1>4. /\ session' \in [Sessions -> SessionRow] /\ session'[s] = x
      /\ \A t \in Sessions : t # s => session'[t] = session[t]
  BY <1>0, <1>1, <1>2, <1>3
<1>5. TypeOK' /\ request'.op = "idle"
  <2>1. SessionTypes' /\ RequestTypes'
    BY <1>1, <1>4 DEF SessionTypes, RequestTypes, Request, NoRequest
  <2>2. request'.op = "idle"
    BY <1>1 DEF NoRequest
  <2> QED
    BY <1>0, <1>1, <2>1, <2>2, SameTypes, Assemble
<1>6. \A a \in Assemblers : assembly[a].pc # "idle" => assembly[a].session # s
  BY <1>0, <1>2 DEF SessionsInv, Working
<1>7. Working'
  BY <1>0, <1>1, <1>2, <1>3, <1>4 DEF SessionsInv, Working, Holds
<1>8. Requested'
  BY <1>5 DEF Requested
<1>9. AttachLocks'
  BY <1>0, <1>1, <1>4, <1>6 DEF SessionsInv, Working, AttachLocks, Attaching
<1>10. SweepHolds'
  BY <1>0, <1>1, <1>2, <1>4 DEF SessionsInv, Working, SweepHolds, Running, NoSweep
<1>11. ActiveIntoDraft' /\ Active' = Active \cup {s} /\ s \notin Active
  <2>1. Active' = Active \cup {s} /\ s \notin Active
    BY <1>2, <1>3, <1>4 DEF Active
  <2> QED
    BY <1>0, <1>1, <1>2, <1>3, <1>4, <2>1 DEF SessionsInv, ActiveIntoDraft, Active
<1>12. FilesApart' /\ BlobsKnown'
  BY <1>0, <1>1, <1>5 DEF FilesInv, FilesApart, BlobsKnown, Holds
<1>13. ReleaseHolds'
  BY <1>0, <1>1, <1>4, <1>6 DEF FilesInv, ReleaseHolds, SessionsInv, Working
<1>14. FilesReadable' /\ VersionsInv' /\ PrimaryCurrent'
  BY <1>1, SameReadable, SameVersions
<1>15. Kept' = Kept /\ (doubted = {} => Reserved' <= quota')
  <2>1. Cardinality(Active') = Cardinality(Active) + 1
    BY <1>0, <1>11, Counted, FS_AddElement
  <2>2. doubted = {} => Reserved + 1 <= quota
    BY <1>0, <1>1 DEF OwnerLocks, Charging
  <2>3. Kept' = Kept
    BY <1>1 DEF Kept
  <2>4. Reserved' = Reserved + 1
    BY <1>0, <2>1, <2>3, Counted DEF Reserved
  <2> QED
    BY <1>1, <2>2, <2>3, <2>4, Zenon
<1>16. OwnerLocks'
  <2>1. ~Charging' /\ \A a \in Assemblers : ~ChargedBy(a)'
    BY <1>0, <1>1, <1>5 DEF OwnerLocks, Charging, ChargedBy
  <2> QED
    BY <2>1 DEF OwnerLocks, Charging
<1> QED
  BY <1>5, <1>7, <1>8, <1>9, <1>10, <1>11, <1>12, <1>13, <1>14, <1>15, <1>16, Together

-----------------------------------------------------------------------------
\* The table of versions changes: numbers.
LEMMA NextNumberIs ==
  ASSUME VersionTypes, VersionsInv
  PROVE  /\ NextNumber \in Nat \ {0}
         /\ \A v \in Versions : version[v].number < NextNumber
         /\ \A m \in 1 .. NextNumber - 1 : \E v \in Versions : version[v].number = m
         /\ (\E v \in Versions : version[v].number = 0) => NextNumber \in 1 .. MaxVersions
<1> DEFINE Last(n) == /\ \A v \in Versions : version[v].number <= n
                      /\ n = 0 \/ \E v \in Versions : version[v].number = n
<1>0. /\ \A v \in Versions : version[v].number \in 0 .. MaxVersions
      /\ MaxVersions \in Nat \ {0}
  BY StorageAssumption DEF VersionTypes, VersionRow
<1>1. PICK n \in 0 .. MaxVersions : /\ \A v \in Versions : version[v].number <= n
                                   /\ \A m \in 1 .. n : \E v \in Versions : version[v].number = m
  BY DEF VersionsInv, NumberedInOrder
<1>2. Last(n)
  BY <1>0, <1>1
<1>3. ASSUME NEW k \in 0 .. MaxVersions, Last(k)
      PROVE  k = n
  BY <1>0, <1>1, <1>2, <1>3
<1>4. NextNumber = 1 + n
  <2>1. NextNumber = 1 + CHOOSE k \in 0 .. MaxVersions : Last(k)
    BY DEF NextNumber
  <2> HIDE DEF Last
  <2>2. (CHOOSE k \in 0 .. MaxVersions : Last(k)) = n
    BY <1>2, <1>3
  <2> QED
    BY <2>1, <2>2
<1>5. ASSUME NEW d \in Versions, version[d].number = 0
      PROVE  n + 1 <= MaxVersions
  <2> DEFINE S == Versions \ {d}
             g == [v \in S |-> version[v].number]
             I == {g[v] : v \in S}
  <2>1. IsFiniteSet(Versions) /\ Cardinality(Versions) = MaxVersions
    BY <1>0, FS_Interval DEF Versions
  <2>2. IsFiniteSet(S) /\ Cardinality(S) = MaxVersions - 1
    BY <1>0, <2>1, FS_RemoveElement
  <2>3. IsFiniteSet(I) /\ Cardinality(I) <= Cardinality(S)
    <3>1. g \in Surjection(S, I)
      BY DEF Surjection
    <3> HIDE DEF S, I, g
    <3> QED
      BY <2>2, <3>1, FS_Surjection
  <2>4. 1 .. n \subseteq I
    BY <1>0, <1>1, <1>5
  <2>5. Cardinality(1 .. n) <= Cardinality(I) /\ Cardinality(1 .. n) = n
    <3>1. Cardinality(1 .. n) = n
      BY <1>0, FS_Interval
    <3> HIDE DEF I
    <3> QED
      BY <2>3, <2>4, <3>1, FS_Subset
  <2>6. Cardinality(I) \in Nat
    BY <2>3, FS_CardinalityType
  <2> QED
    BY <1>0, <2>2, <2>3, <2>5, <2>6
<1> QED
  BY <1>0, <1>1, <1>4, <1>5

\* They stay, or one more version gets the next one.
LEMMA SameNumbers ==
  ASSUME VersionsInv, \A v \in Versions : version'[v].number = version[v].number
  PROVE  NumberedInOrder'
BY DEF VersionsInv, NumberedInOrder

LEMMA NewNumber ==
  ASSUME VersionTypes, VersionsInv, NEW d \in Versions, version[d].number = 0,
         version'[d].number = NextNumber,
         \A v \in Versions \ {d} : version'[v].number = version[v].number
  PROVE  NumberedInOrder' /\ NextNumber \in 1 .. MaxVersions
<1>1. /\ NextNumber \in 1 .. MaxVersions
      /\ \A v \in Versions : version[v].number < NextNumber /\ version[v].number \in 0 .. MaxVersions
      /\ \A m \in 1 .. NextNumber - 1 : \E v \in Versions : version[v].number = m
      /\ MaxVersions \in Nat
  BY NextNumberIs, StorageAssumption DEF VersionTypes, VersionRow
<1>2. \A v, w \in Versions : version'[v].number = version'[w].number /\ version'[v].number > 0 => v = w
  BY <1>1 DEF VersionsInv, NumberedInOrder
<1>3. \A v \in Versions : version'[v].number <= NextNumber
  BY <1>1
<1>4. \A m \in 1 .. NextNumber : \E v \in Versions : version'[v].number = m
  <2> TAKE m \in 1 .. NextNumber
  <2>1. CASE m = NextNumber
    BY <2>1
  <2>2. CASE m # NextNumber
    <3>1. m \in 1 .. NextNumber - 1
      BY <1>1, <2>2
    <3>2. PICK v \in Versions : version[v].number = m
      BY <1>1, <3>1
    <3> QED
      BY <3>1, <3>2
  <2> QED
    BY <2>1, <2>2
<1>5. NextNumber \in 0 .. MaxVersions
  BY <1>1
<1> QED
  BY <1>1, <1>2, <1>3, <1>4, <1>5 DEF NumberedInOrder

\* Files of the latest version are those of a published one.
LEMMA LatestFiles ==
  ASSUME NEW table \in [Versions -> VersionRow], Numbering(table)
  PROVE  /\ FilesOf(table, Latest(table)) \in FileSets
         /\ \A p \in Paths : FilesOf(table, Latest(table))[p] # NoFile =>
               /\ Latest(table) \in PublishedIn(table)
               /\ table[Latest(table)].files[p] = FilesOf(table, Latest(table))[p]
<1>1. Latest(table) # NoVersion => Latest(table) \in PublishedIn(table)
  <2>1. CASE PublishedIn(table) = {}
    BY <2>1 DEF Latest
  <2>2. CASE PublishedIn(table) # {}
    BY <2>2, LatestIs
  <2> QED
    BY <2>1, <2>2
<1>2. CASE Latest(table) = NoVersion
  BY <1>2 DEF FilesOf, NoFiles, FileSets
<1>3. CASE Latest(table) # NoVersion
  BY <1>1, <1>3 DEF FilesOf, PublishedIn, VersionRow
<1> QED
  BY <1>2, <1>3

\* sync_primary()
LEMMA PrimaryIs ==
  ASSUME NEW table \in [Versions -> VersionRow], Numbering(table)
  PROVE  LET d == Primary(table)
             fs == FilesOf(table, Latest(table))
         IN /\ d \in [exists : BOOLEAN, path : Paths \cup {None}, key : Files \cup {NoFile}]
            /\ d.exists
            /\ d.key = NoFile => \A p \in CsvPaths : fs[p] = NoFile
            /\ d.key # NoFile => d.path \in CsvPaths /\ fs[d.path] = d.key
            /\ d.key # NoFile => /\ Latest(table) \in PublishedIn(table) /\ d.path \in Paths
                                 /\ table[Latest(table)].files[d.path] = d.key
<1> DEFINE fs == FilesOf(table, Latest(table))
           choices == {p \in CsvPaths : fs[p] # NoFile}
           choice == IF dataset.path \in choices THEN dataset.path ELSE CHOOSE p \in choices : TRUE
<1>1. Primary(table) = IF choices = {} THEN [exists |-> TRUE, path |-> None, key |-> NoFile]
                       ELSE [exists |-> TRUE, path |-> choice, key |-> fs[choice]]
  BY DEF Primary
<1>2. CsvPaths \subseteq Paths
  BY StorageAssumption
<1>3. fs \in FileSets /\ \A p \in Paths : fs[p] # NoFile =>
          Latest(table) \in PublishedIn(table) /\ table[Latest(table)].files[p] = fs[p]
  BY LatestFiles
<1>4. CASE choices = {}
  BY <1>1, <1>4
<1>5. CASE choices # {}
  <2>1. choice \in choices
    BY <1>5
  <2> HIDE DEF choice
  <2>2. choice \in CsvPaths /\ choice \in Paths /\ fs[choice] # NoFile
    BY <1>2, <2>1
  <2> HIDE DEF fs
  <2>3. fs[choice] \in Files
    BY <1>3, <2>2 DEF FileSets
  <2>4. Primary(table) = [exists |-> TRUE, path |-> choice, key |-> fs[choice]]
    BY <1>1, <1>5
  <2>5. Latest(table) \in PublishedIn(table) /\ table[Latest(table)].files[choice] = fs[choice]
    BY <1>3, <2>2
  <2> QED
    BY <2>2, <2>3, <2>4, <2>5 DEF fs
<1> QED
  BY <1>4, <1>5

\* The legacy fields stay true when they and the published versions stay, or are synchronised.
LEMMA SamePublished ==
  ASSUME StorageInv, VersionTypes', VersionsInv', dataset' = dataset,
         PublishedIn(version') = PublishedIn(version),
         \A v \in PublishedIn(version) : version'[v] = version[v]
  PROVE  PrimaryCurrent' /\ Latest(version') = Latest(version)
<1>1. VersionsInv /\ PrimaryCurrent /\ VersionTypes
  BY Pieces DEF StorageInv
<1>2. Numbering(version) /\ Numbering(version')
  BY <1>1 DEF VersionTypes, VersionRow, VersionsInv, NumberedInOrder, StatusHolds, Numbering, PublishedIn
<1>3. Latest(version') = Latest(version)
  BY <1>2, SameLatest
<1>4. FilesOf(version', Latest(version)) = FilesOf(version, Latest(version))
  <2>1. Latest(version) # NoVersion => Latest(version) \in PublishedIn(version)
    BY <1>2, LatestIs DEF Latest
  <2> QED
    BY <2>1 DEF FilesOf
<1> QED
  BY <1>1, <1>3, <1>4 DEF PrimaryCurrent

LEMMA Synchronised ==
  ASSUME VersionTypes', VersionsInv', dataset' = Primary(version')
  PROVE  /\ PrimaryCurrent' /\ DatasetTypes' /\ dataset'.exists
         /\ dataset'.key # NoFile =>
               /\ Latest(version') \in PublishedIn(version') /\ dataset'.path \in Paths
               /\ version'[Latest(version')].files[dataset'.path] = dataset'.key
<1>1. Numbering(version') /\ version' \in [Versions -> VersionRow]
  BY DEF VersionTypes, VersionRow, VersionsInv, NumberedInOrder, StatusHolds, Numbering, PublishedIn
<1> QED
  BY <1>1, PrimaryIs DEF PrimaryCurrent, DatasetTypes

\* Files that no version has any more are released.
LEMMA FilesReleased ==
  ASSUME StorageInv, NEW gone, gone \subseteq stored,
         \A v \in Versions, p \in Paths : version'[v].files[p] \notin gone,
         \A v \in Versions, p \in Paths : version'[v].files[p] # NoFile =>
             \E w \in Versions, q \in Paths : version[w].files[q] = version'[v].files[p],
         stored' = stored \ gone, doomed' = doomed \cup gone, blobs' = blobs, keys' = keys,
         assembly' = assembly, crashes' = crashes, request.op # "upload", request'.op # "upload"
  PROVE  StoreTypes' /\ FilesReadable' /\ FilesApart' /\ BlobsKnown'
<1>1. TypeOK /\ FilesInv /\ BlobsKnown
  BY DEF StorageInv
<1>2. FilesReadable'
  BY <1>1 DEF FilesInv, FilesReadable
<1>3. FilesApart'
  BY <1>1 DEF FilesInv, FilesApart, Holds
<1>4. BlobsKnown'
  BY <1>1 DEF BlobsKnown, Holds
<1>5. StoreTypes'
  BY <1>1 DEF StoreTypes, TypeOK
<1> QED
  BY <1>2, <1>3, <1>4, <1>5

\* A draft that is locked, published or missing has no assembly that holds it.
LEMMA NoneAttaches ==
  ASSUME StorageInv,
         \/ Draft = NoVersion
         \/ VersionFree(Draft)
         \/ \A s \in Active : session[s].version # Draft
         \/ \A v \in Versions : VersionFree(v)
  PROVE  \A a \in Assemblers : ~Attaching(a)
<1>1. AttachLocks /\ Working /\ OneDraft
  BY DEF StorageInv, SessionsInv, VersionsInv
<1>2. SUFFICES ASSUME NEW a \in Assemblers, Attaching(a) PROVE FALSE
  OBVIOUS
<1> DEFINE s == assembly[a].session
<1>3. /\ s \in Sessions /\ session[s].status = "assembling" /\ session[s].version \in Versions
      /\ version[session[s].version].status = "draft"
  BY <1>1, <1>2 DEF AttachLocks, Working, Attaching
<1>4. Draft # NoVersion /\ Draft \in Versions /\ version[Draft].status = "draft"
  BY <1>3, DraftIs
<1>5. session[s].version = Draft
  BY <1>1, <1>3, <1>4 DEF OneDraft
<1>6. s \in Active
  BY <1>3 DEF Active
<1> QED
  BY <1>2, <1>3, <1>4, <1>5, <1>6 DEF VersionFree

\* Then nothing is locked, or about to be released.
LEMMA NothingLocked ==
  ASSUME \A a \in Assemblers : ~Attaching(a), assembly' = assembly
  PROVE  AttachLocks' /\ ReleaseHolds'
BY DEF AttachLocks, ReleaseHolds, Attaching

\* create_draft()
LEMMA DraftsCreate ==
  ASSUME StorageInv, NEW v \in Versions, NEW carryOver \in BOOLEAN, CreateDraft(v, carryOver)
  PROVE  /\ StorageInv' /\ PublishedIn(version') = PublishedIn(version)
         /\ \A w \in Versions : version[w].status \in {"published", "deleted"} =>
                version'[w] = version[w]
         /\ \A w \in Versions : version'[w].number = version[w].number
<1> DEFINE fs == IF carryOver THEN FilesOf(version, Latest(version)) ELSE NoFiles
           x == [status |-> "draft", number |-> 0, files |-> fs]
<1>0. /\ TypeOK /\ SessionsInv /\ FilesInv /\ VersionsInv /\ version \in [Versions -> VersionRow]
      /\ MaxVersions \in Nat
  BY Pieces, StorageAssumption DEF StorageInv, VersionTypes
<1>1. /\ stored' = stored /\ doomed' = doomed /\ dataset' = dataset
      /\ quota' = quota /\ other' = other /\ session' = session /\ blobs' = blobs /\ keys' = keys
      /\ parts' = parts /\ chunk' = chunk /\ assembly' = assembly /\ request' = request
      /\ sweep' = sweep /\ crashes' = crashes /\ doubted' = doubted
      /\ version' = [version EXCEPT ![v] = x] /\ Draft = NoVersion
      /\ request.op = "idle" /\ dataset.exists /\ version[v].status = "none"
  BY DEF CreateDraft, FreshVersion, DatasetFree, disk, process
<1>2. /\ fs \in FileSets
      /\ \A p \in Paths : fs[p] # NoFile => \E w \in Versions : version[w].files[p] = fs[p]
  <2>1. NoFiles \in FileSets /\ \A p \in Paths : NoFiles[p] = NoFile
    BY DEF NoFiles, FileSets
  <2>2. Numbering(version)
    BY <1>0, VersionsNumbered DEF VersionTypes
  <2> QED
    BY <1>0, <2>1, <2>2, LatestFiles DEF PublishedIn
<1> HIDE DEF fs
<1>3. x \in VersionRow
  BY <1>0, <1>2 DEF VersionRow, VersionStatus
<1>4. /\ version' \in [Versions -> VersionRow] /\ version'[v] = x
      /\ \A w \in Versions : w # v => version'[w] = version[w]
  BY <1>0, <1>1, <1>3
<1>5. /\ \A w \in Versions : version'[w].number = version[w].number
      /\ PublishedIn(version') = PublishedIn(version)
      /\ \A w \in Versions : version[w].status \in {"published", "deleted"} => version'[w] = version[w]
  BY <1>0, <1>1, <1>4 DEF VersionsInv, StatusHolds, PublishedIn
<1>6. \A w \in Versions : version[w].status # "draft"
  BY <1>1, DraftIs
<1>7. VersionsInv'
  <2>1. OneDraft'
    BY <1>4, <1>6 DEF OneDraft
  <2>2. NumberedInOrder'
    BY <1>0, <1>5, SameNumbers
  <2>3. StatusHolds'
    BY <1>0, <1>1, <1>4 DEF VersionsInv, StatusHolds
  <2> QED
    BY <2>1, <2>2, <2>3 DEF VersionsInv
<1>8. TypeOK'
  <2>1. VersionTypes'
    BY <1>4 DEF VersionTypes
  <2> QED
    BY <1>0, <1>1, <2>1, SameTypes, Assemble
<1>9. PrimaryCurrent'
  <2>1. VersionTypes' /\ \A w \in PublishedIn(version) : version'[w] = version[w]
    BY <1>4, <1>5 DEF VersionTypes, PublishedIn
  <2> QED
    BY <1>1, <1>5, <1>7, <2>1, SamePublished
<1>10. Working' /\ SweepHolds'
  BY <1>1, SameSessions
<1>11. Requested'
  BY <1>1 DEF Requested
<1>12. AttachLocks' /\ ReleaseHolds'
  BY <1>1, NoneAttaches, NothingLocked
<1>13. ActiveIntoDraft'
  <2>1. \A s \in Active \ doubted : session[s].version \in Versions /\ FALSE
    BY <1>0, <1>6 DEF SessionsInv, Working, ActiveIntoDraft, Active
  <2> QED
    BY <1>1, <2>1 DEF ActiveIntoDraft, Active
<1>14. FilesApart' /\ BlobsKnown'
  BY <1>1, SameApart, SameKnown
<1>15. FilesReadable'
  BY <1>0, <1>1, <1>2, <1>4 DEF FilesInv, FilesReadable
<1>16. OwnerLocks'
  <2>1. Shrinks
    BY <1>0, <1>1, NothingAdded
  <2> QED
    BY <1>1, <1>8, <2>1, OwnerKept DEF Charging, ChargedBy
<1> QED
  BY <1>5, <1>7, <1>8, <1>9, <1>10, <1>11, <1>12, <1>13, <1>14, <1>15, <1>16, Together

\* publish_draft()
LEMMA DraftsPublish ==
  ASSUME StorageInv, PublishDraft
  PROVE  /\ StorageInv' /\ Draft \in Versions /\ version[Draft].status = "draft"
         /\ version[Draft].files # NoFiles /\ dataset'.exists /\ dataset.exists
         /\ version'[Draft].status = "published" /\ version'[Draft].number = NextNumber
         /\ version'[Draft].files = version[Draft].files
         /\ \A w \in Versions \ {Draft} : version'[w] = version[w]
<1> DEFINE d == Draft
           y == [version[d] EXCEPT !.status = "published"]
           x == [y EXCEPT !.number = NextNumber]
<1>0. /\ TypeOK /\ SessionsInv /\ FilesInv /\ VersionsInv /\ version \in [Versions -> VersionRow]
      /\ VersionTypes /\ MaxVersions \in Nat
  BY Pieces, StorageAssumption DEF StorageInv, VersionTypes
<1>1. /\ stored' = stored /\ doomed' = doomed
      /\ quota' = quota /\ other' = other /\ session' = session /\ blobs' = blobs /\ keys' = keys
      /\ parts' = parts /\ chunk' = chunk /\ assembly' = assembly /\ request' = request
      /\ sweep' = sweep /\ crashes' = crashes /\ doubted' = doubted
      /\ version' = [version EXCEPT ![d].status = "published", ![d].number = NextNumber]
      /\ dataset' = Primary(version') /\ Draft # NoVersion
      /\ \A s \in Active : session[s].version # Draft
      /\ version[d].files # NoFiles
      /\ request.op = "idle" /\ dataset.exists
  BY DEF PublishDraft, DatasetFree, disk, process
<1>2. d \in Versions /\ version[d].status = "draft" /\ version[d].number = 0
  BY <1>0, <1>1, DraftIs DEF VersionsInv, StatusHolds
<1>3. NextNumber \in 1 .. MaxVersions
  BY <1>0, <1>2, NextNumberIs
<1>4. version' = [version EXCEPT ![d] = x]
  <2>1. version' = [version EXCEPT ![d] = [version[d] EXCEPT !.status = "published", !.number = NextNumber]]
    BY <1>0, <1>1
  <2> HIDE DEF d
  <2>2. [version[d] EXCEPT !.status = "published", !.number = NextNumber] = x
    BY <1>0, <1>2 DEF VersionRow
  <2> QED
    BY <2>1, <2>2, Zenon
<1> HIDE DEF d
<1>5. y \in VersionRow /\ y.status = "published" /\ y.files = version[d].files
  BY <1>0, <1>2 DEF VersionRow, VersionStatus
<1> HIDE DEF y
<1>6. x \in VersionRow /\ x.status = "published" /\ x.files = version[d].files /\ x.number = NextNumber
  BY <1>3, <1>5 DEF VersionRow
<1> HIDE DEF x
<1>7. /\ version' \in [Versions -> VersionRow] /\ version'[d] = x
      /\ \A w \in Versions : w # d => version'[w] = version[w]
  BY <1>0, <1>2, <1>4, <1>6
<1>8. VersionsInv'
  <2>1. OneDraft'
    BY <1>0, <1>6, <1>7 DEF VersionsInv, OneDraft
  <2>2. NumberedInOrder'
    BY <1>0, <1>2, <1>6, <1>7, NewNumber
  <2>3. dataset'.exists
    <3>1. Primary(version').exists
      BY DEF Primary
    <3> QED
      BY <1>1, <3>1
  <2>4. StatusHolds'
    BY <1>0, <1>1, <1>3, <1>6, <1>7, <2>3 DEF VersionsInv, StatusHolds
  <2> QED
    BY <2>1, <2>2, <2>4 DEF VersionsInv
<1>9. VersionTypes'
  BY <1>7 DEF VersionTypes
<1>10. PrimaryCurrent' /\ DatasetTypes' /\ dataset'.exists
  BY <1>1, <1>8, <1>9, Synchronised
<1>11. TypeOK'
  BY <1>0, <1>1, <1>9, <1>10, SameTypes, Assemble
<1>12. Working' /\ SweepHolds'
  BY <1>1, SameSessions
<1>13. Requested'
  BY <1>1 DEF Requested
<1>14. AttachLocks' /\ ReleaseHolds'
  BY <1>1, NoneAttaches, NothingLocked
<1>15. ActiveIntoDraft'
  <2>1. \A s \in Active : session[s].version \in Versions /\ session[s].version # d
    BY <1>0, <1>1 DEF d, SessionsInv, Working, Active
  <2> QED
    BY <1>0, <1>1, <1>7, <2>1 DEF SessionsInv, ActiveIntoDraft, Active
<1>16. FilesApart' /\ BlobsKnown'
  BY <1>1, SameApart, SameKnown
<1>17. FilesReadable'
  <2>1. \A w \in Versions : version'[w].files = version[w].files
    BY <1>6, <1>7
  <2> QED
    BY <1>0, <1>1, <2>1 DEF FilesInv, FilesReadable
<1>18. OwnerLocks'
  <2>1. Shrinks
    BY <1>0, <1>1, NothingAdded
  <2> QED
    BY <1>1, <1>11, <2>1, OwnerKept DEF Charging, ChargedBy
<1>19. StorageInv'
  BY <1>8, <1>10, <1>11, <1>12, <1>13, <1>14, <1>15, <1>16, <1>17, <1>18, Together
<1> QED
  BY <1>1, <1>2, <1>6, <1>7, <1>10, <1>19 DEF d

\* delete_version()
LEMMA VersionsDelete ==
  ASSUME StorageInv, NEW v \in Versions, DeleteVersion(v)
  PROVE  /\ StorageInv' /\ version[v].status = "published" /\ PublishedIn(version) # {v}
         /\ dataset.exists /\ dataset'.exists /\ Shrinks
         /\ version'[v].status = "deleted" /\ version'[v].number = version[v].number
         /\ version'[v].files = NoFiles
         /\ \A w \in Versions \ {v} : version'[w] = version[w]
<1> DEFINE y == [version[v] EXCEPT !.status = "deleted"]
           x == [y EXCEPT !.files = NoFiles]
           gone == Releasable(MembersOf({v}), version', Primary(version').key)
<1>0. /\ TypeOK /\ SessionsInv /\ FilesInv /\ VersionsInv /\ version \in [Versions -> VersionRow]
      /\ VersionTypes /\ NoFiles \in FileSets
  BY Pieces DEF StorageInv, VersionTypes, NoFiles, FileSets
<1>1. /\ quota' = quota /\ other' = other /\ session' = session /\ blobs' = blobs /\ keys' = keys
      /\ parts' = parts /\ chunk' = chunk /\ assembly' = assembly /\ request' = request
      /\ sweep' = sweep /\ crashes' = crashes /\ doubted' = doubted
      /\ version' = [version EXCEPT ![v].status = "deleted", ![v].files = NoFiles]
      /\ stored' = stored \ gone /\ doomed' = doomed \cup gone
      /\ dataset' = Primary(version') /\ version[v].status = "published"
      /\ PublishedIn(version) # {v} /\ request.op = "idle" /\ dataset.exists
  BY DEF DeleteVersion, DatasetFree, disk, process
<1>2. version' = [version EXCEPT ![v] = x]
  <2>1. version' = [version EXCEPT ![v] = [version[v] EXCEPT !.status = "deleted", !.files = NoFiles]]
    BY <1>0, <1>1
  <2>2. [version[v] EXCEPT !.status = "deleted", !.files = NoFiles] = x
    BY <1>0 DEF VersionRow
  <2> QED
    BY <2>1, <2>2, Zenon
<1>3. y \in VersionRow /\ y.status = "deleted" /\ y.number = version[v].number
  BY <1>0 DEF VersionRow, VersionStatus
<1> HIDE DEF y
<1>4. x \in VersionRow /\ x.status = "deleted" /\ x.number = version[v].number /\ x.files = NoFiles
  BY <1>0, <1>3 DEF VersionRow
<1> HIDE DEF x
<1>5. /\ version' \in [Versions -> VersionRow] /\ version'[v] = x
      /\ \A w \in Versions : w # v => version'[w] = version[w]
      /\ \A p \in Paths : version'[v].files[p] = NoFile
  BY <1>0, <1>2, <1>4 DEF NoFiles
<1>6. VersionsInv'
  <2>1. OneDraft'
    BY <1>0, <1>4, <1>5 DEF VersionsInv, OneDraft
  <2>2. NumberedInOrder'
    BY <1>0, <1>4, <1>5, SameNumbers
  <2>3. dataset'.exists
    <3>1. Primary(version').exists
      BY DEF Primary
    <3> QED
      BY <1>1, <3>1
  <2>4. StatusHolds'
    BY <1>0, <1>1, <1>4, <1>5, <2>3 DEF VersionsInv, StatusHolds
  <2> QED
    BY <2>1, <2>2, <2>4 DEF VersionsInv
<1>7. VersionTypes'
  BY <1>5 DEF VersionTypes
<1>8. /\ PrimaryCurrent' /\ DatasetTypes' /\ dataset'.exists
      /\ dataset'.key # NoFile =>
            /\ Latest(version') \in PublishedIn(version') /\ dataset'.path \in Paths
            /\ version'[Latest(version')].files[dataset'.path] = dataset'.key
  BY <1>1, <1>6, <1>7, Synchronised
<1>9. gone \subseteq stored /\ gone \subseteq MembersOf({v})
      /\ \A w \in Versions, p \in Paths : version'[w].files[p] \notin gone
  BY DEF Releasable, Referenced
<1> HIDE DEF gone
<1>10. StoreTypes' /\ FilesReadable' /\ FilesApart' /\ BlobsKnown'
  <2>1. \A w \in Versions, p \in Paths : version'[w].files[p] # NoFile =>
            version[w].files[p] = version'[w].files[p]
    BY <1>5
  <2> QED
    BY <1>1, <1>9, <2>1, FilesReleased
<1>11. TypeOK'
  BY <1>0, <1>1, <1>7, <1>8, <1>10, SameTypes, Assemble
<1>12. Working' /\ SweepHolds'
  BY <1>1, SameSessions
<1>13. Requested'
  BY <1>1 DEF Requested
<1>14. AttachLocks'
  BY <1>0, <1>1, <1>5 DEF SessionsInv, AttachLocks, Attaching, Working
<1>15. ActiveIntoDraft'
  BY <1>0, <1>1, <1>5 DEF SessionsInv, ActiveIntoDraft, Active, Working
<1>16. ReleaseHolds'
  <2>0. assembly' = assembly /\ session' = session
    BY <1>1
  <2>1. SUFFICES ASSUME NEW a \in Assemblers, assembly[a].pc = "charged", assembly[a].release
                 PROVE  /\ assembly[a].old \in stored' /\ assembly[a].old # dataset'.key
                        /\ \A w \in Versions, p \in Paths : version'[w].files[p] = assembly[a].old =>
                              w = session[assembly[a].session].version
                              /\ p = session[assembly[a].session].path
    BY <2>0, Zenon DEF ReleaseHolds
  <2> DEFINE old == assembly[a].old
             d == session[assembly[a].session].version
  <2>2. /\ old \in stored /\ old \in Files /\ NoFile \notin Files
        /\ \A w \in Versions, p \in Paths : version[w].files[p] = old =>
              w = d /\ p = session[assembly[a].session].path
        /\ d \in Versions /\ version[d].status = "draft"
    <3>1. /\ assembly[a].old \in stored
          /\ \A w \in Versions, p \in Paths : version[w].files[p] = old =>
                w = d /\ p = session[assembly[a].session].path
      BY <1>0, <2>1 DEF FilesInv, ReleaseHolds
    <3>2. d \in Versions /\ version[d].status = "draft"
      BY <1>0, <2>1 DEF SessionsInv, AttachLocks, Working, Attaching
    <3>3. stored \subseteq Files /\ NoFile \notin Files
      BY <1>0 DEF TypeOK, NoFile, Files
    <3> QED
      BY <3>1, <3>2, <3>3
  <2> HIDE DEF old, d
  <2>3. \A w \in Versions, p \in Paths : version[w].status = "published" => version[w].files[p] # old
    BY <2>2
  <2>4. old \notin gone
    BY <1>1, <1>9, <2>3 DEF MembersOf
  <2>5. old # dataset'.key
    <3>1. CASE dataset'.key = NoFile
      BY <2>2, <3>1
    <3>2. CASE dataset'.key # NoFile
      <4>1. /\ Latest(version') \in Versions /\ version'[Latest(version')].status = "published"
            /\ dataset'.path \in Paths
            /\ version'[Latest(version')].files[dataset'.path] = dataset'.key
        BY <1>8, <3>2 DEF PublishedIn
      <4>2. Latest(version') # v
        BY <1>4, <1>5, <4>1
      <4> QED
        BY <1>5, <2>3, <4>1, <4>2
    <3> QED
      BY <3>1, <3>2
  <2>6. \A w \in Versions, p \in Paths : version'[w].files[p] = old =>
            w = d /\ p = session[assembly[a].session].path
    BY <1>5, <2>2
  <2> QED
    BY <1>1, <2>2, <2>4, <2>5, <2>6 DEF old, d
<1>17. OwnerLocks' /\ Shrinks
  <2>1. Shrinks
    BY <1>0, <1>1, Counted DEF Shrinks, Active
  <2> QED
    BY <1>1, <1>11, <2>1, OwnerKept DEF Charging, ChargedBy
<1>18. StorageInv'
  BY <1>6, <1>8, <1>10, <1>11, <1>12, <1>13, <1>14, <1>15, <1>16, <1>17, Together
<1> QED
  BY <1>1, <1>4, <1>5, <1>8, <1>17, <1>18

\* remove_draft_file() writes.
LEMMA FileIsRemoved ==
  ASSUME StorageInv, RemoveFileCommit
  PROVE  /\ StorageInv' /\ Shrinks /\ dataset' = dataset
         /\ \A w \in Versions : version'[w].number = version[w].number
         /\ \A w \in Versions : version[w].status \in {"published", "deleted"} =>
                version'[w] = version[w]
<1> DEFINE d == Draft
           p == request.path
           gone == Releasable({request.file}, version', dataset.key)
<1>0. /\ TypeOK /\ SessionsInv /\ FilesInv /\ VersionsInv /\ version \in [Versions -> VersionRow]
      /\ VersionTypes
  BY Pieces DEF StorageInv, VersionTypes
<1>1. /\ quota' = quota /\ other' = other /\ session' = session /\ blobs' = blobs /\ keys' = keys
      /\ parts' = parts /\ chunk' = chunk /\ assembly' = assembly /\ request' = NoRequest
      /\ sweep' = sweep /\ crashes' = crashes /\ doubted' = doubted /\ dataset' = dataset
      /\ version' = [version EXCEPT ![d].files[p] = NoFile]
      /\ stored' = stored \ gone /\ doomed' = doomed \cup gone
      /\ VersionFree(d) /\ request.op = "remove_draft_file"
  BY DEF RemoveFileCommit, disk
<1>2. p \in Paths /\ dataset.exists
  BY <1>0, <1>1 DEF SessionsInv, Requested
<1>3. gone \subseteq stored /\ \A w \in Versions, q \in Paths : version'[w].files[q] \notin gone
  BY DEF Releasable, Referenced
<1> HIDE DEF gone
<1>4. request'.op = "idle" /\ RequestTypes'
  BY <1>1 DEF NoRequest, RequestTypes, Request
<1>5. /\ version' \in [Versions -> VersionRow]
      /\ \A w \in Versions :
            /\ version'[w].status = version[w].status /\ version'[w].number = version[w].number
            /\ version[w].status # "draft" => version'[w] = version[w]
            /\ \A q \in Paths : version'[w].files[q] \in {version[w].files[q], NoFile}
  <2>1. CASE d = NoVersion
    <3>1. version' = version
      BY <1>0, <1>1, <2>1 DEF NoVersion, Versions
    <3> QED
      BY <1>0, <3>1
  <2>2. CASE d # NoVersion
    <3>1. d \in Versions /\ version[d].status = "draft"
      BY <2>2, DraftIs
    <3>2. version' = FiledAt(d, p, NoFile)
      BY <1>1 DEF FiledAt
    <3> HIDE DEF d
    <3> QED
      BY <1>0, <1>2, <3>1, <3>2, FileAt
  <2> QED
    BY <2>1, <2>2
<1>6. VersionsInv'
  <2>1. OneDraft'
    BY <1>0, <1>5 DEF VersionsInv, OneDraft
  <2>2. NumberedInOrder'
    BY <1>0, <1>5, SameNumbers
  <2>3. StatusHolds'
    <3>1. StatusHolds /\ dataset' = dataset
      BY <1>0, <1>1 DEF VersionsInv
    <3>2. \A w \in Versions : version[w].status = "draft" =>
              version'[w].status = "draft" /\ version'[w].number = 0
      BY <1>5, <3>1 DEF StatusHolds
    <3> QED
      BY <1>2, <1>5, <3>1, <3>2 DEF StatusHolds
  <2> QED
    BY <2>1, <2>2, <2>3 DEF VersionsInv
<1>7. PrimaryCurrent' /\ VersionTypes'
  <2>1. VersionTypes' /\ PublishedIn(version') = PublishedIn(version)
        /\ \A w \in PublishedIn(version) : version'[w] = version[w]
    BY <1>5 DEF VersionTypes, PublishedIn
  <2> QED
    BY <1>1, <1>6, <2>1, SamePublished
<1>8. StoreTypes' /\ FilesReadable' /\ FilesApart' /\ BlobsKnown'
  <2>1. \A w \in Versions, q \in Paths : version'[w].files[q] # NoFile =>
            version[w].files[q] = version'[w].files[q]
    BY <1>5
  <2> QED
    BY <1>1, <1>3, <1>4, <2>1, FilesReleased
<1>9. TypeOK'
  BY <1>0, <1>1, <1>4, <1>7, <1>8, SameTypes, Assemble
<1>10. Working' /\ SweepHolds'
  BY <1>1, SameSessions
<1>11. Requested'
  BY <1>4 DEF Requested
<1>12. AttachLocks' /\ ReleaseHolds'
  BY <1>1, NoneAttaches, NothingLocked
<1>13. ActiveIntoDraft'
  BY <1>0, <1>1, <1>5 DEF SessionsInv, ActiveIntoDraft, Active, Working
<1>14. OwnerLocks' /\ Shrinks
  <2>1. Shrinks
    BY <1>0, <1>1, Counted DEF Shrinks, Active
  <2> QED
    BY <1>1, <1>4, <1>9, <2>1, OwnerKept DEF Charging, ChargedBy
<1>15. StorageInv'
  BY <1>6, <1>7, <1>8, <1>9, <1>10, <1>11, <1>12, <1>13, <1>14, Together
<1> QED
  BY <1>1, <1>5, <1>14, <1>15

\* The sessions that a request drops are removed; none of them is locked.
LEMMA SessionsDropped ==
  ASSUME StorageInv, session' = Dropped, request.op \in {"discard", "remove"}
  PROVE  /\ SessionTypes'
         /\ \A s \in Sessions :
               /\ session'[s].status = "none" <=> session[s].status = "none"
               /\ session'[s].version = session[s].version /\ session'[s].path = session[s].path
               /\ s \in request.seen => session'[s].status = "removed"
               /\ s \notin request.seen => session'[s] = session[s]
         /\ Active' \subseteq Active /\ \A s \in Active' : s \notin request.seen
<1>1. session \in [Sessions -> SessionRow]
  BY Pieces DEF StorageInv, SessionTypes
<1>2. \A s \in Sessions : LET x == StatusOf(s, "removed") IN
          x \in SessionRow /\ x.status = "removed" /\ x.version = session[s].version
          /\ x.path = session[s].path
  BY <1>1 DEF StatusOf, SessionRow, SessionStatus
<1>3. \A s \in Sessions : session'[s] = IF s \in request.seen THEN StatusOf(s, "removed") ELSE session[s]
  BY DEF Dropped, StatusOf
<1>4. session' \in [Sessions -> SessionRow]
  <2>1. session' = [s \in Sessions |-> IF s \in request.seen THEN StatusOf(s, "removed") ELSE session[s]]
    BY DEF Dropped, StatusOf
  <2> QED
    BY <1>1, <1>2, <2>1
<1>5. \A s \in request.seen : s \in Sessions /\ session[s].status # "none"
  BY DEF StorageInv, SessionsInv, Requested
<1> QED
  BY <1>2, <1>3, <1>4, <1>5 DEF SessionTypes, Active

\* What that leaves of the threads, the sweep and the owner's row.
LEMMA DroppedSteps ==
  ASSUME StorageInv, session' = Dropped, request.op \in {"discard", "remove"}, TypeOK',
         request' = NoRequest,
         assembly' = assembly, chunk' = chunk, sweep' = sweep, doubted' = doubted,
         stored' \subseteq stored, other' = other, quota' = quota
  PROVE  /\ Working' /\ Requested' /\ SweepHolds' /\ OwnerLocks' /\ Shrinks
<1>0. TypeOK /\ SessionsInv
  BY DEF StorageInv
<1>1. /\ \A s \in Sessions :
            /\ session'[s].status = "none" <=> session[s].status = "none"
            /\ session'[s].version = session[s].version /\ session'[s].path = session[s].path
            /\ s \in request.seen => session'[s].status = "removed"
            /\ s \notin request.seen => session'[s] = session[s]
      /\ Active' \subseteq Active
  BY SessionsDropped
<1>2. request'.op = "idle"
  BY DEF NoRequest
<1>3. Working'
  <2>0. Working
    BY <1>0 DEF SessionsInv
  <2>1. \A s \in Sessions : session'[s].status # "none" =>
          session'[s].version \in Versions /\ session'[s].path \in Paths
    BY <1>1, <2>0 DEF Working
  <2>2. \A a \in Assemblers : assembly'[a].pc # "idle" =>
          assembly'[a].session \in Sessions /\ session'[assembly'[a].session].status # "none"
    BY <1>1, <2>0 DEF Working
  <2>3. \A a \in Assemblers : Holds(a)' => assembly'[a].file \in Files
    BY <2>0 DEF Working, Holds
  <2>4. chunk'.pc # "idle" =>
          chunk'.session \in Sessions /\ session'[chunk'.session].status # "none"
    BY <1>1, <2>0 DEF Working
  <2>5. sweep' # NoSweep => /\ sweep'.to # "none" /\ sweep'.session \in Sessions
                            /\ session'[sweep'.session].status # "none"
    BY <1>1, <2>0 DEF Working
  <2> QED
    BY <2>1, <2>2, <2>3, <2>4, <2>5, Zenon DEF Working
<1>4. Requested'
  BY <1>2 DEF Requested
<1>5. SweepHolds'
  BY <1>0, <1>1 DEF SessionsInv, Working, SweepHolds, Running, NoSweep
<1>6. Shrinks
  BY <1>0, <1>1, Counted DEF Shrinks
<1> QED
  BY <1>2, <1>3, <1>4, <1>5, <1>6, OwnerKept DEF Charging, ChargedBy

\* discard_draft()
LEMMA DraftIsDiscarded ==
  ASSUME StorageInv, DiscardCommit
  PROVE  /\ StorageInv' /\ Shrinks /\ dataset' = dataset
         /\ \A w \in Versions : version'[w].number = version[w].number
         /\ \A w \in Versions : version[w].status \in {"published", "deleted"} =>
                version'[w] = version[w]
<1> DEFINE d == Draft
           x == [status |-> "gone", number |-> 0, files |-> NoFiles]
           gone == Releasable(MembersOf({d}), version', dataset.key)
<1>0. /\ TypeOK /\ SessionsInv /\ FilesInv /\ VersionsInv /\ version \in [Versions -> VersionRow]
      /\ VersionTypes
  BY Pieces DEF StorageInv, VersionTypes
<1>1. /\ quota' = quota /\ other' = other /\ session' = Dropped /\ blobs' = blobs /\ keys' = keys
      /\ parts' = parts /\ chunk' = chunk /\ assembly' = assembly /\ request' = NoRequest
      /\ sweep' = sweep /\ crashes' = crashes /\ doubted' = doubted /\ dataset' = dataset
      /\ version' = [version EXCEPT ![d] = x]
      /\ stored' = stored \ gone /\ doomed' = doomed \cup gone
      /\ VersionFree(d) /\ request.op = "discard"
  <2>1. [NoRow EXCEPT !.status = "gone"] = x
    BY DEF NoRow
  <2> HIDE DEF x
  <2> QED
    BY <2>1 DEF DiscardCommit, disk
<1>2. /\ d \in Versions /\ version[d].status = "draft" /\ dataset.exists /\ version[d].number = 0
      /\ \A s \in Sessions : session[s].status \notin {"none", "removed"} /\ session[s].version = d
             => s \in request.seen
  BY <1>0, <1>1, DraftIs DEF SessionsInv, Requested, VersionsInv, StatusHolds
<1>3. gone \subseteq stored /\ \A w \in Versions, q \in Paths : version'[w].files[q] \notin gone
  BY DEF Releasable, Referenced
<1> HIDE DEF gone
<1>4. request'.op = "idle" /\ RequestTypes'
  BY <1>1 DEF NoRequest, RequestTypes, Request
<1>5. x \in VersionRow /\ \A q \in Paths : x.files[q] = NoFile
  BY StorageAssumption DEF VersionRow, VersionStatus, NoFiles, FileSets
<1> HIDE DEF d
<1>6. /\ version' \in [Versions -> VersionRow] /\ version'[d] = x
      /\ \A w \in Versions : w # d => version'[w] = version[w]
      /\ \A w \in Versions : version'[w].number = version[w].number
      /\ \A w \in Versions : version[w].status \in {"published", "deleted"} => version'[w] = version[w]
  BY <1>0, <1>1, <1>2, <1>5
<1>7. VersionsInv'
  <2>1. OneDraft'
    BY <1>0, <1>6 DEF VersionsInv, OneDraft
  <2>2. NumberedInOrder'
    BY <1>0, <1>6, SameNumbers
  <2>3. StatusHolds'
    BY <1>0, <1>1, <1>2, <1>6 DEF VersionsInv, StatusHolds
  <2> QED
    BY <2>1, <2>2, <2>3 DEF VersionsInv
<1>8. PrimaryCurrent' /\ VersionTypes'
  <2>1. VersionTypes' /\ PublishedIn(version') = PublishedIn(version)
        /\ \A w \in PublishedIn(version) : version'[w] = version[w]
    BY <1>2, <1>6 DEF VersionTypes, PublishedIn
  <2> QED
    BY <1>1, <1>7, <2>1, SamePublished
<1>9. StoreTypes' /\ FilesReadable' /\ FilesApart' /\ BlobsKnown'
  <2>1. \A w \in Versions, q \in Paths : version'[w].files[q] # NoFile =>
            version[w].files[q] = version'[w].files[q]
    BY <1>5, <1>6
  <2> QED
    BY <1>1, <1>3, <1>4, <2>1, FilesReleased
<1>10. SessionTypes' /\ \A s \in Active' : s \in Active /\ s \notin request.seen /\ session'[s] = session[s]
  BY <1>1, SessionsDropped DEF Active
<1>11. TypeOK'
  BY <1>0, <1>1, <1>4, <1>8, <1>9, <1>10, SameTypes, Assemble
<1>12. Working' /\ Requested' /\ SweepHolds' /\ OwnerLocks' /\ Shrinks
  BY <1>1, <1>11, DroppedSteps
<1>13. AttachLocks' /\ ReleaseHolds'
  BY <1>1, NoneAttaches, NothingLocked DEF d
<1>14. ActiveIntoDraft'
  <2>1. \A s \in Active' : session[s].version \in Versions /\ session[s].version # d
    BY <1>0, <1>2, <1>10 DEF SessionsInv, Working, Active
  <2> QED
    BY <1>0, <1>1, <1>6, <1>10, <2>1 DEF SessionsInv, ActiveIntoDraft
<1>15. StorageInv'
  BY <1>7, <1>8, <1>9, <1>11, <1>12, <1>13, <1>14, Together
<1> QED
  BY <1>1, <1>6, <1>12, <1>15

\* A version of a dataset that is removed.
LEMMA GoneRow ==
  ASSUME NEW r \in VersionRow
  PROVE  [r EXCEPT !.status = "gone", !.files = NoFiles]
           = [status |-> "gone", number |-> r.number, files |-> NoFiles]
<1> DEFINE y == [r EXCEPT !.status = "gone"]
<1>1. y \in VersionRow /\ y.status = "gone" /\ y.number = r.number
  BY DEF VersionRow, VersionStatus
<1>2. [r EXCEPT !.status = "gone", !.files = NoFiles] = [y EXCEPT !.files = NoFiles]
  BY DEF VersionRow
<1> HIDE DEF y
<1>3. [y EXCEPT !.files = NoFiles] = [status |-> "gone", number |-> y.number, files |-> NoFiles]
  BY <1>1 DEF VersionRow
<1> QED
  BY <1>1, <1>2, <1>3

\* remove_work() of the dataset
LEMMA WorkIsRemoved ==
  ASSUME StorageInv, RemoveCommit
  PROVE  StorageInv' /\ Shrinks /\ dataset.exists /\ ~dataset'.exists
<1> DEFINE gone == Releasable(MembersOf(Versions), version', NoFile)
           without(v) == [status |-> "gone", number |-> version[v].number, files |-> NoFiles]
<1>0. /\ TypeOK /\ SessionsInv /\ FilesInv /\ VersionsInv /\ version \in [Versions -> VersionRow]
      /\ VersionTypes /\ PrimaryCurrent /\ NoFiles \in FileSets
      /\ \A q \in Paths : NoFiles[q] = NoFile
  BY Pieces DEF StorageInv, VersionTypes, NoFiles, FileSets
<1>1. /\ quota' = quota /\ other' = other /\ session' = Dropped /\ blobs' = blobs /\ keys' = keys
      /\ parts' = parts /\ chunk' = chunk /\ assembly' = assembly /\ request' = NoRequest
      /\ sweep' = sweep /\ crashes' = crashes /\ doubted' = doubted
      /\ dataset' = [exists |-> FALSE, path |-> None, key |-> NoFile]
      /\ version' = [v \in Versions |-> IF version[v].status = "none" THEN version[v]
                                        ELSE [version[v] EXCEPT !.status = "gone", !.files = NoFiles]]
      /\ stored' = stored \ gone /\ doomed' = doomed \cup gone \cup ({dataset.key} \ {NoFile})
      /\ \A v \in Versions : VersionFree(v)
      /\ request.op = "remove"
  BY DEF RemoveCommit, disk
<1>2. /\ dataset.exists /\ request.op = "remove"
      /\ \A s \in Sessions : session[s].status \notin {"none", "removed"} => s \in request.seen
  BY <1>0, <1>1 DEF SessionsInv, Requested
<1>3. \A v \in Versions : version'[v] = IF version[v].status = "none" THEN version[v] ELSE without(v)
  <2>1. \A v \in Versions : [version[v] EXCEPT !.status = "gone", !.files = NoFiles] = without(v)
    BY <1>0, GoneRow
  <2> QED
    BY <1>1, <2>1
<1>4. /\ version' \in [Versions -> VersionRow]
      /\ \A v \in Versions : /\ version'[v].number = version[v].number
                             /\ version'[v].files = NoFiles
                             /\ version'[v].status = IF version[v].status = "none" THEN "none" ELSE "gone"
  <2>1. \A v \in Versions : without(v) \in VersionRow /\ without(v).status = "gone"
            /\ without(v).number = version[v].number /\ without(v).files = NoFiles
    BY <1>0 DEF VersionRow, VersionStatus
  <2>2. version' = [v \in Versions |-> version'[v]]
    BY <1>1
  <2> HIDE DEF without
  <2>3. \A v \in Versions : version'[v] \in VersionRow
    BY <1>0, <1>3, <2>1
  <2>4. version' \in [Versions -> VersionRow]
    BY <2>2, <2>3
  <2> QED
    BY <1>0, <1>3, <2>1, <2>4 DEF VersionsInv, StatusHolds
<1>5. gone \subseteq stored /\ \A w \in Versions, q \in Paths : version'[w].files[q] \notin gone
  BY DEF Releasable, Referenced
<1>6. doomed' = doomed \cup gone
  <2>1. dataset.key # NoFile => dataset.key \in gone
    <3>1. SUFFICES ASSUME dataset.key # NoFile PROVE dataset.key \in gone
      OBVIOUS
    <3> DEFINE fs == FilesOf(version, Latest(version))
    <3>2. dataset.path \in Paths /\ fs[dataset.path] = dataset.key
      BY <1>0, <1>2, <3>1, StorageAssumption DEF PrimaryCurrent
    <3>3. Numbering(version)
      BY <1>0, VersionsNumbered
    <3>4. Latest(version) \in Versions /\ version[Latest(version)].files[dataset.path] = dataset.key
      BY <1>0, <3>1, <3>2, <3>3, LatestFiles DEF PublishedIn
    <3>5. dataset.key \in MembersOf(Versions) /\ dataset.key \in stored
      BY <1>0, <3>1, <3>2, <3>4 DEF MembersOf, FilesInv, FilesReadable
    <3>6. ~Referenced(dataset.key, version')
      BY <1>0, <1>4, <3>1 DEF Referenced
    <3> QED
      BY <3>1, <3>5, <3>6 DEF Releasable
  <2> QED
    BY <1>1, <2>1
<1> HIDE DEF gone
<1>7. request'.op = "idle" /\ RequestTypes'
  BY <1>1 DEF NoRequest, RequestTypes, Request
<1>8. VersionsInv' /\ VersionTypes'
  <2>1. OneDraft'
    BY <1>4 DEF OneDraft
  <2>2. NumberedInOrder'
    BY <1>0, <1>4, SameNumbers
  <2>3. StatusHolds'
    <3>1. ~dataset'.exists /\ StatusHolds
      BY <1>0, <1>1 DEF VersionsInv
    <3> QED
      BY <1>4, <3>1 DEF StatusHolds
  <2> QED
    BY <1>4, <2>1, <2>2, <2>3 DEF VersionsInv, VersionTypes
<1>9. PrimaryCurrent' /\ DatasetTypes'
  BY <1>1 DEF PrimaryCurrent, DatasetTypes
<1>10. StoreTypes' /\ FilesReadable' /\ FilesApart' /\ BlobsKnown'
  <2>1. \A w \in Versions, q \in Paths : version'[w].files[q] = NoFile
    BY <1>0, <1>4
  <2>2. request.op # "upload" /\ request'.op # "upload"
    BY <1>2, <1>7
  <2>3. stored' = stored \ gone /\ blobs' = blobs /\ keys' = keys /\ assembly' = assembly
        /\ crashes' = crashes
    BY <1>1
  <2> QED
    BY <1>5, <1>6, <2>1, <2>2, <2>3, FilesReleased
<1>11. SessionTypes' /\ Active' = {}
  BY <1>1, <1>2, SessionsDropped DEF Active
<1>12. TypeOK'
  BY <1>0, <1>1, <1>7, <1>8, <1>9, <1>10, <1>11, SameTypes, Assemble
<1>13. Working' /\ Requested' /\ SweepHolds' /\ OwnerLocks' /\ Shrinks
  BY <1>1, <1>2, <1>12, DroppedSteps
<1>14. AttachLocks' /\ ReleaseHolds'
  <2>1. \A v \in Versions : VersionFree(v)
    BY <1>1
  <2> QED
    BY <1>1, <2>1, NoneAttaches, NothingLocked
<1>15. ActiveIntoDraft'
  BY <1>11 DEF ActiveIntoDraft
<1>16. StorageInv'
  BY <1>8, <1>9, <1>10, <1>12, <1>13, <1>14, <1>15, Together
<1> QED
  BY <1>1, <1>2, <1>13, <1>16

\* The single-request upload becomes the next version.
LEMMA UploadIsKept ==
  ASSUME StorageInv, NEW v \in Versions, UploadCommit(v)
  PROVE  /\ StorageInv' /\ Kept' <= quota' /\ (doubted = {} => Reserved' <= quota')
         /\ dataset.exists /\ dataset'.exists
         /\ version[v].number = 0
         /\ version'[v].status = "published" /\ version'[v].number = NextNumber
         /\ version'[v].files # NoFiles /\ version'[v].files \in FileSets
         /\ \A w \in Versions \ {v} : version'[w] = version[w]
<1> DEFINE f == request.file
           p == request.path
           old == FilesOf(version, Latest(version))
           fs == [old EXCEPT ![p] = f]
           x == [status |-> "published", number |-> NextNumber, files |-> fs]
<1>0. /\ TypeOK /\ SessionsInv /\ FilesInv /\ VersionsInv /\ version \in [Versions -> VersionRow]
      /\ VersionTypes /\ BlobsKnown /\ OwnerLocks
  BY Pieces DEF StorageInv, VersionTypes
<1>1. /\ doomed' = doomed
      /\ quota' = quota /\ other' = other /\ session' = session /\ blobs' = blobs /\ keys' = keys
      /\ parts' = parts /\ chunk' = chunk /\ assembly' = assembly /\ request' = NoRequest
      /\ sweep' = sweep /\ crashes' = crashes /\ doubted' = doubted
      /\ version' = [version EXCEPT ![v] = x] /\ stored' = stored \cup {f}
      /\ dataset' = Primary(version') /\ request.op = "upload" /\ version[v].status = "none"
  BY DEF UploadCommit, FreshVersion, disk
<1>2. /\ p \in Paths /\ f \in Files /\ dataset.exists /\ f \in blobs /\ f \notin stored \cup doomed
      /\ \A a \in Assemblers : Holds(a) => assembly[a].file # f
      /\ version[v].number = 0 /\ NoFile \notin Files
  BY <1>0, <1>1 DEF SessionsInv, Requested, FilesInv, FilesApart, VersionsInv, StatusHolds,
       NoFile, Files
<1>3. /\ old \in FileSets
      /\ \A q \in Paths : old[q] # NoFile =>
            \E w \in Versions : version[w].status = "published" /\ version[w].files[q] = old[q]
  BY <1>0, VersionsNumbered, LatestFiles DEF PublishedIn
<1> HIDE DEF old
<1>4. fs \in FileSets /\ \A q \in Paths : fs[q] = IF q = p THEN f ELSE old[q]
  BY <1>2, <1>3 DEF FileSets
<1>5. fs # NoFiles
  BY <1>2, <1>4 DEF NoFiles
<1> HIDE DEF fs
<1>6. NextNumber \in 1 .. MaxVersions
  BY <1>0, <1>2, NextNumberIs
<1>7. x \in VersionRow
  BY <1>4, <1>6, StorageAssumption DEF VersionRow, VersionStatus
<1>8. /\ version' \in [Versions -> VersionRow] /\ version'[v] = x
      /\ \A w \in Versions : w # v => version'[w] = version[w]
  BY <1>0, <1>1, <1>7
<1>9. dataset'.exists
  <2>1. Primary(version').exists
    BY DEF Primary
  <2> QED
    BY <1>1, <2>1
<1>10. VersionsInv' /\ VersionTypes'
  <2>1. OneDraft'
    BY <1>0, <1>8 DEF VersionsInv, OneDraft
  <2>2. NumberedInOrder'
    BY <1>0, <1>2, <1>8, NewNumber
  <2>3. StatusHolds'
    BY <1>0, <1>2, <1>5, <1>6, <1>8, <1>9 DEF VersionsInv, StatusHolds
  <2> QED
    BY <1>8, <2>1, <2>2, <2>3 DEF VersionsInv, VersionTypes
<1>11. /\ PrimaryCurrent' /\ DatasetTypes'
       /\ dataset'.key # NoFile =>
             /\ Latest(version') \in PublishedIn(version') /\ dataset'.path \in Paths
             /\ version'[Latest(version')].files[dataset'.path] = dataset'.key
  BY <1>1, <1>10, Synchronised
<1>12. request'.op = "idle" /\ RequestTypes'
  BY <1>1 DEF NoRequest, RequestTypes, Request
<1>13. TypeOK'
  <2>1. StoreTypes'
    BY <1>0, <1>1, <1>2 DEF TypeOK, StoreTypes
  <2> QED
    BY <1>0, <1>1, <1>10, <1>11, <1>12, <2>1, SameTypes, Assemble
<1>14. Working' /\ SweepHolds'
  BY <1>1, SameSessions
<1>15. Requested'
  BY <1>12 DEF Requested
<1>16. AttachLocks'
  BY <1>0, <1>1, <1>8 DEF SessionsInv, AttachLocks, Attaching, Working
<1>17. ActiveIntoDraft'
  BY <1>0, <1>1, <1>8 DEF SessionsInv, ActiveIntoDraft, Active, Working
<1>18. FilesApart'
  BY <1>0, <1>1, <1>2, <1>12 DEF FilesInv, FilesApart, Holds
<1>19. BlobsKnown'
  BY <1>0, <1>1 DEF BlobsKnown, Holds
<1>20. FilesReadable'
  <2>1. \A q \in Paths : fs[q] # NoFile => fs[q] = f \/ \E w \in Versions : version[w].files[q] = fs[q]
    BY <1>3, <1>4
  <2>2. \A w \in Versions, q \in Paths : version'[w].files[q] # NoFile =>
            version'[w].files[q] = f \/ \E u \in Versions : version[u].files[q] = version'[w].files[q]
    BY <1>8, <2>1
  <2> QED
    BY <1>0, <1>1, <1>2, <2>2 DEF FilesInv, FilesReadable
<1>21. ReleaseHolds'
  <2>0. assembly' = assembly /\ session' = session
    BY <1>1
  <2>1. SUFFICES ASSUME NEW a \in Assemblers, assembly[a].pc = "charged", assembly[a].release
                 PROVE  /\ assembly[a].old \in stored' /\ assembly[a].old # dataset'.key
                        /\ \A w \in Versions, q \in Paths : version'[w].files[q] = assembly[a].old =>
                              w = session[assembly[a].session].version
                              /\ q = session[assembly[a].session].path
    BY <2>0, Zenon DEF ReleaseHolds
  <2>2. Charging /\ ChargedBy(a)
    BY <1>1, <2>1 DEF Charging, ChargedBy
  <2> QED
    BY <1>0, <2>2 DEF OwnerLocks
<1>22. OwnerLocks'
  <2>1. ~Charging' /\ \A a \in Assemblers : ~ChargedBy(a)'
    BY <1>0, <1>1, <1>12 DEF OwnerLocks, Charging, ChargedBy
  <2> QED
    BY <2>1 DEF OwnerLocks, Charging
<1>23. Kept' <= quota' /\ (doubted = {} => Reserved' <= quota')
  <2>1. Cardinality(stored') = Cardinality(stored) + 1
    BY <1>0, <1>1, <1>2, Counted, FS_AddElement
  <2>2. Charging
    BY <1>1 DEF Charging
  <2>3. Kept' = Kept + 1 /\ Reserved' = Reserved + 1
    <3>1. Active' = Active
      BY <1>1 DEF Active
    <3> QED
      BY <1>0, <1>1, <2>1, <3>1, Counted DEF Kept, Reserved
  <2> QED
    BY <1>0, <1>1, <2>2, <2>3, Zenon DEF OwnerLocks
<1>24. StorageInv'
  BY <1>10, <1>11, <1>13, <1>14, <1>15, <1>16, <1>17, <1>18, <1>19, <1>20, <1>21, <1>22, Together
<1> QED
  BY <1>1, <1>2, <1>4, <1>5, <1>8, <1>9, <1>23, <1>24

\* The assembly attaches its file, and what it replaces is released.
LEMMA Attaches ==
  ASSUME StorageInv, NEW a \in Assemblers, AttachCommit(a)
  PROVE  /\ StorageInv' /\ Kept' <= quota' /\ Reserved' <= Reserved
         /\ dataset' = dataset
         /\ \A w \in Versions : version'[w].number = version[w].number
         /\ \A w \in Versions : version[w].status \in {"published", "deleted"} =>
                version'[w] = version[w]
<1> DEFINE s == assembly[a].session
           v == session[s].version
           p == session[s].path
           f == assembly[a].file
           old == assembly[a].old
           gone == IF assembly[a].release THEN {old} ELSE {}
           x == StatusOf(s, "completed")
<1>0. /\ TypeOK /\ SessionsInv /\ FilesInv /\ VersionsInv /\ version \in [Versions -> VersionRow]
      /\ VersionTypes /\ BlobsKnown /\ OwnerLocks /\ session \in [Sessions -> SessionRow]
      /\ assembly \in [Assemblers -> Assembly]
  BY Pieces DEF StorageInv, VersionTypes, SessionTypes, AssemblyTypes
<1>1. /\ dataset' = dataset /\ quota' = quota /\ other' = other /\ blobs' = blobs /\ keys' = keys
      /\ chunk' = chunk /\ request' = request /\ sweep' = sweep /\ crashes' = crashes
      /\ doubted' = doubted /\ version' = FiledAt(v, p, f)
      /\ stored' = (stored \cup {f}) \ gone /\ doomed' = doomed \cup gone
      /\ session' = [session EXCEPT ![s].status = "completed"]
      /\ assembly' = [assembly EXCEPT ![a] = NoAssembly] /\ RemoveParts({s})
      /\ assembly[a].pc = "charged"
  BY DEF AttachCommit, FiledAt
<1>2. /\ s \in Sessions /\ session[s].status = "assembling" /\ v \in Versions /\ p \in Paths
      /\ version[v].status = "draft" /\ f \in Files /\ f \in blobs /\ f \notin stored \cup doomed
      /\ Holds(a) /\ Attaching(a) /\ ChargedBy(a)
  BY <1>0, <1>1 DEF SessionsInv, Working, AttachLocks, FilesInv, FilesApart, Holds, Attaching, ChargedBy
<1>3. /\ gone \subseteq stored /\ f \notin gone /\ NoFile \notin gone /\ dataset.key \notin gone
      /\ \A w \in Versions, q \in Paths : version[w].files[q] \in gone => w = v /\ q = p
  BY <1>0, <1>1, <1>2 DEF FilesInv, ReleaseHolds, TypeOK, Files, NoFile
<1> HIDE DEF gone
<1>4. /\ version' \in [Versions -> VersionRow]
      /\ \A w \in Versions :
            /\ version'[w].status = version[w].status /\ version'[w].number = version[w].number
            /\ w # v => version'[w] = version[w]
            /\ \A q \in Paths : version'[w].files[q] = IF w = v /\ q = p THEN f ELSE version[w].files[q]
  <2>1. VersionTypes /\ v \in Versions /\ p \in Paths /\ f \in Files \cup {NoFile}
    BY <1>0, <1>2
  <2>2. version' = FiledAt(v, p, f)
    BY <1>1
  <2> HIDE DEF v, p, f
  <2> QED
    BY <2>1, <2>2, FileAt
<1>5. x \in SessionRow /\ x.status = "completed" /\ x.version = v /\ x.path = p
  BY <1>0, <1>2 DEF SessionRow, SessionStatus, StatusOf
<1>6. /\ session' = [session EXCEPT ![s] = x]
      /\ session' \in [Sessions -> SessionRow] /\ session'[s] = x
      /\ \A t \in Sessions : t # s => session'[t] = session[t]
  <2>1. session' = [session EXCEPT ![s] = x]
    BY <1>0, <1>1 DEF StatusOf
  <2> HIDE DEF x
  <2> QED
    BY <1>0, <1>2, <1>5, <2>1
<1> HIDE DEF x
<1>7. \A t \in Sessions :
        /\ session'[t].status = "none" <=> session[t].status = "none"
        /\ session'[t].version = session[t].version /\ session'[t].path = session[t].path
        /\ session'[t].status \in {"none", "removed"} <=> session[t].status \in {"none", "removed"}
  BY <1>2, <1>5, <1>6
<1>8. /\ assembly' \in [Assemblers -> Assembly] /\ assembly'[a] = NoAssembly
      /\ \A b \in Assemblers : b # a => assembly'[b] = assembly[b]
  <2>1. NoAssembly \in Assembly
    BY DEF NoAssembly, Assembly
  <2> QED
    BY <1>0, <1>1, <2>1
<1>9. \A b \in Assemblers : /\ Holds(b)' => Holds(b) /\ b # a /\ assembly'[b] = assembly[b]
                            /\ Holds(b) /\ b # a => Holds(b)' /\ assembly'[b] = assembly[b]
                            /\ assembly'[b].pc # "idle" => b # a /\ assembly'[b] = assembly[b]
  BY <1>8 DEF Holds, NoAssembly
<1>10. TypeOK'
  <2>0. VersionTypes' /\ SessionTypes' /\ AssemblyTypes'
    BY <1>4, <1>6, <1>8 DEF VersionTypes, SessionTypes, AssemblyTypes
  <2>1. StoreTypes'
    <3>1. stored \subseteq Files /\ doomed \subseteq Files /\ blobs \subseteq Files /\ keys \subseteq Files
      BY <1>0 DEF TypeOK
    <3> QED
      BY <1>1, <1>2, <1>3, <3>1 DEF StoreTypes
  <2>2. PartTypes'
    BY <1>0, <1>1, FewerParts, Pieces
  <2> QED
    BY <1>0, <1>1, <2>0, <2>1, <2>2, SameTypes, Assemble
<1>11. Working'
  <2>0. Working
    BY <1>0 DEF SessionsInv
  <2>1. \A t \in Sessions : session'[t].status # "none" =>
          session'[t].version \in Versions /\ session'[t].path \in Paths
    BY <1>7, <2>0 DEF Working
  <2>2. \A b \in Assemblers : assembly'[b].pc # "idle" =>
          assembly'[b].session \in Sessions /\ session'[assembly'[b].session].status # "none"
    BY <1>7, <1>9, <2>0 DEF Working
  <2>3. \A b \in Assemblers : Holds(b)' => assembly'[b].file \in Files
    BY <1>9, <2>0 DEF Working
  <2>4. chunk'.pc # "idle" =>
          chunk'.session \in Sessions /\ session'[chunk'.session].status # "none"
    BY <1>1, <1>7, <2>0 DEF Working
  <2>5. sweep' # NoSweep => /\ sweep'.to # "none" /\ sweep'.session \in Sessions
                            /\ session'[sweep'.session].status # "none"
    BY <1>1, <1>7, <2>0 DEF Working
  <2> QED
    BY <2>1, <2>2, <2>3, <2>4, <2>5, Zenon DEF Working
<1>12. Requested'
  <2>1. Draft = v /\ Draft' = v
    <3>1. Draft = v
      BY <1>0, <1>2, DraftIs DEF VersionsInv, OneDraft
    <3>2. \A w \in Versions : version'[w].status = "draft" <=> w = v
      BY <1>0, <1>2, <1>4 DEF VersionsInv, OneDraft
    <3>3. Draft' = v
      BY <1>2, <3>2 DEF Draft
    <3> QED
      BY <3>1, <3>3
  <2>2. Requested /\ request' = request /\ dataset' = dataset
    BY <1>0, <1>1 DEF SessionsInv
  <2> HIDE DEF s, v, p, f
  <2> QED
    BY <1>7, <2>1, <2>2 DEF Requested
<1>13. \A b \in Assemblers : ~Attaching(b)'
  <2>1. \A b \in Assemblers : Attaching(b) => b = a
    BY <1>0, <1>2 DEF SessionsInv, AttachLocks
  <2> QED
    BY <1>8, <2>1 DEF Attaching, NoAssembly
<1>14. AttachLocks' /\ ReleaseHolds'
  BY <1>13 DEF AttachLocks, ReleaseHolds, Attaching
<1>15. SweepHolds'
  <2>1. Running(s)
    BY DEF Running
  <2>2. sweep.to = "uploading" => sweep.session \in Sessions
    BY <1>0 DEF SessionsInv, Working, NoSweep
  <2>3. \A t \in Sessions : Running(t)' => Running(t)
    BY <1>8, StorageAssumption DEF Running, NoAssembly
  <2> QED
    BY <1>0, <1>1, <1>6, <2>1, <2>2, <2>3 DEF SessionsInv, SweepHolds
<1>16. ActiveIntoDraft' /\ Active' = Active \ {s} /\ s \in Active
  <2>1. Active' = Active \ {s} /\ s \in Active
    BY <1>2, <1>5, <1>6 DEF Active
  <2>2. \A t \in Active : t \in Sessions /\ session[t].version \in Versions
    BY <1>0 DEF SessionsInv, Working, Active
  <2>3. ActiveIntoDraft /\ doubted' = doubted
    BY <1>0, <1>1 DEF SessionsInv
  <2>4. \A t \in Active' \ doubted' : version'[session'[t].version].status = "draft"
    BY <1>4, <1>7, <2>1, <2>2, <2>3 DEF ActiveIntoDraft
  <2> QED
    BY <2>1, <2>4 DEF ActiveIntoDraft
<1>17. FilesApart'
  BY <1>0, <1>1, <1>2, <1>3, <1>9 DEF FilesInv, FilesApart
<1>18. BlobsKnown'
  BY <1>0, <1>1, <1>3, <1>9 DEF BlobsKnown
<1>19. FilesReadable'
  <2>1. \A w \in Versions, q \in Paths : version'[w].files[q] \notin gone
    BY <1>3, <1>4
  <2>2. FilesReadable
    BY <1>0 DEF FilesInv
  <2>3. ASSUME NEW w \in Versions, NEW q \in Paths, version'[w].files[q] # NoFile
        PROVE  /\ version'[w].files[q] \in (stored \cup {f}) \cap blobs
               /\ version'[w].files[q] \notin doomed
    BY <1>2, <1>4, <2>2, <2>3 DEF FilesReadable
  <2> QED
    BY <1>1, <2>1, <2>3 DEF FilesReadable
<1>20. VersionsInv'
  <2>1. OneDraft'
    BY <1>0, <1>4 DEF VersionsInv, OneDraft
  <2>2. NumberedInOrder'
    BY <1>0, <1>4, SameNumbers
  <2>3. StatusHolds'
    <3>1. StatusHolds /\ dataset' = dataset
      BY <1>0, <1>1 DEF VersionsInv
    <3>2. version'[v].status = "draft" /\ version'[v].number = 0 /\ dataset.exists
      BY <1>2, <1>4, <3>1 DEF StatusHolds
    <3> QED
      BY <1>4, <3>1, <3>2 DEF StatusHolds
  <2> QED
    BY <2>1, <2>2, <2>3 DEF VersionsInv
<1>21. PrimaryCurrent' /\ \A w \in Versions : version[w].status # "draft" => version'[w] = version[w]
  <2>1. VersionTypes' /\ PublishedIn(version') = PublishedIn(version)
        /\ \A w \in Versions : version[w].status # "draft" => version'[w] = version[w]
    BY <1>2, <1>4 DEF VersionTypes, PublishedIn
  <2> QED
    BY <1>1, <1>20, <2>1, SamePublished DEF PublishedIn
<1>22. OwnerLocks'
  <2>1. \A b \in Assemblers : ~ChargedBy(b)'
    BY <1>13 DEF ChargedBy, Attaching
  <2>2. ~Charging /\ (Charging' <=> Charging)
    BY <1>0, <1>1, <1>2 DEF OwnerLocks, Charging
  <2> QED
    BY <2>1, <2>2 DEF OwnerLocks, Charging
<1>23. Kept' <= quota' /\ Reserved' <= Reserved
  <2>1. Cardinality(stored') <= Cardinality(stored) + 1
    <3>1. IsFiniteSet(stored \cup {f}) /\ Cardinality(stored \cup {f}) = Cardinality(stored) + 1
      BY <1>0, <1>2, Counted, FS_AddElement
    <3>2. stored' \subseteq stored \cup {f}
      BY <1>1
    <3>3. Cardinality(stored') <= Cardinality(stored \cup {f})
      BY <3>1, <3>2, FS_Subset
    <3> QED
      BY <3>1, <3>3
  <2>2. Cardinality(Active') = Cardinality(Active) - 1
    BY <1>0, <1>16, Counted, FS_RemoveElement
  <2>3. Kept + 1 <= quota
    BY <1>0, <1>2 DEF OwnerLocks
  <2>4. /\ Cardinality(stored) \in Nat /\ Cardinality(Active) \in Nat /\ other.files \in Nat
        /\ Cardinality(stored') \in Nat /\ quota \in Nat
    BY <1>0, <1>10, Counted, CountedNext
  <2> QED
    BY <1>1, <2>1, <2>2, <2>3, <2>4 DEF Kept, Reserved
<1>24. StorageInv'
  BY <1>10, <1>11, <1>12, <1>14, <1>15, <1>16, <1>17, <1>18, <1>19, <1>20, <1>21, <1>22, Together
<1> QED
  BY <1>1, <1>4, <1>21, <1>23, <1>24

\* Restarts: transactions roll back, threads are gone.
LEMMA Crashes ==
  ASSUME StorageInv, Crash
  PROVE  StorageInv' /\ Shrinks
<1>0. TypeOK /\ SessionsInv /\ FilesInv /\ MaxCrashes \in Nat
  BY StorageAssumption DEF StorageInv
<1>1. /\ version' = version /\ stored' = stored /\ doomed' = doomed /\ dataset' = dataset
      /\ quota' = quota /\ session' = session /\ blobs' = blobs /\ keys' = keys /\ parts' = parts
      /\ chunk' = NoChunk /\ assembly' = [a \in Assemblers |-> NoAssembly] /\ request' = NoRequest
      /\ sweep' = NoSweep /\ crashes' = crashes + 1 /\ crashes < MaxCrashes /\ doubted' = doubted
      /\ other' = [other EXCEPT !.charged = FALSE]
  BY DEF Crash, disk
<1>2. /\ request'.op = "idle" /\ ~other'.charged /\ other'.files = other.files
      /\ other' \in [charged : BOOLEAN, files : 0 .. MaxOther]
  BY <1>0, <1>1 DEF TypeOK, NoRequest
<1>3. TypeOK'
  <2>1. OwnerTypes' /\ ChunkTypes' /\ RequestTypes' /\ SweepTypes' /\ HistoryTypes'
    BY <1>0, <1>1, <1>2 DEF TypeOK, OwnerTypes, ChunkTypes, RequestTypes, Request, SweepTypes,
         HistoryTypes, NoChunk, NoRequest, NoSweep
  <2>2. AssemblyTypes'
    BY <1>1 DEF AssemblyTypes, NoAssembly, Assembly
  <2> QED
    BY <1>0, <1>1, <2>1, <2>2, SameTypes, Assemble
<1>4. \A a \in Assemblers : assembly'[a].pc = "idle"
  BY <1>1 DEF NoAssembly
<1>5. Working'
  BY <1>0, <1>1, <1>4 DEF SessionsInv, Working, NoChunk, Holds
<1>6. Requested' /\ AttachLocks' /\ SweepHolds' /\ ReleaseHolds'
  BY <1>1, <1>2, <1>4 DEF Requested, AttachLocks, Attaching, SweepHolds, NoSweep, ReleaseHolds
<1>7. ActiveIntoDraft'
  BY <1>1, SameSessions
<1>8. FilesReadable' /\ VersionsInv' /\ PrimaryCurrent'
  BY <1>1, SameReadable, SameVersions
<1>9. FilesApart'
  BY <1>0, <1>1, <1>2, <1>4 DEF FilesInv, FilesApart, Holds
<1>10. BlobsKnown'
  BY <1>0, <1>1 DEF TypeOK, BlobsKnown
<1>11. OwnerLocks'
  BY <1>2, <1>4 DEF OwnerLocks, Charging, ChargedBy
<1>12. Shrinks
  BY <1>0, <1>1, <1>2, Counted DEF Shrinks, Active
<1> QED
  BY <1>3, <1>5, <1>6, <1>7, <1>8, <1>9, <1>10, <1>11, <1>12, Together

-----------------------------------------------------------------------------
\* A request for another dataset takes no more than it was granted.
LEMMA OtherEndsWithin ==
  ASSUME StorageInv, TypeOK', NEW n \in 0 .. MaxOther, OtherEnds(n)
  PROVE  Within
<1>0. TypeOK /\ OwnerLocks
  BY DEF StorageInv
<1>1. /\ stored' = stored /\ session' = session /\ doubted' = doubted
      /\ other' = [charged |-> FALSE, files |-> n]
      /\ \/ other.charged /\ n \in {other.files, other.files + 1}
         \/ ~other.charged /\ n = other.files - 1
  BY DEF OtherEnds
<1>2. /\ Cardinality(stored) \in Nat /\ Cardinality(Active) \in Nat /\ other.files \in Nat
      /\ quota \in Nat /\ Active' = Active /\ other'.files = n
  BY <1>0, <1>1, Counted DEF Active
<1>3. CASE n = other.files + 1
  <2>1. Charging
    BY <1>1, <1>2, <1>3 DEF Charging
  <2>2. Kept' = Kept + 1 /\ Reserved' = Reserved + 1
    BY <1>1, <1>2, <1>3 DEF Kept, Reserved
  <2> QED
    BY <1>0, <2>1, <2>2, Zenon DEF OwnerLocks, Within
<1>4. CASE n # other.files + 1
  <2>1. Shrinks
    BY <1>1, <1>2, <1>4 DEF Shrinks
  <2> QED
    BY <1>0, <2>1, ShrinksWithin
<1> QED
  BY <1>3, <1>4

\* Steps that neither keep nor reserve anything.
LEMMA QuietWithin ==
  ASSUME TypeOK, TypeOK',
         UNCHANGED <<stored, session>>, other'.files = other.files, doubted \subseteq doubted'
  PROVE  Within
<1>1. Shrinks
  BY Counted DEF Shrinks, Active
<1> QED
  BY <1>1, ShrinksWithin

\* What is granted to an assembly, an upload and a new session is kept within the quota.
LEMMA GrantsWithin ==
  ASSUME StorageInv,
         \/ \E v \in Versions : UploadCommit(v)
         \/ \E a \in Assemblers : AttachCommit(a)
         \/ CreateSessionCommit
  PROVE  StorageInv' /\ Within
<1>0. TypeOK
  BY DEF StorageInv
<1>1. CASE \E v \in Versions : UploadCommit(v)
  <2>1. StorageInv' /\ Kept' <= quota' /\ (doubted = {} => Reserved' <= quota') /\ quota' = quota
    BY <1>1, UploadIsKept DEF UploadCommit
  <2> QED
    BY <2>1, Zenon DEF Within
<1>2. CASE \E a \in Assemblers : AttachCommit(a)
  <2>1. StorageInv' /\ Kept' <= quota' /\ Reserved' <= Reserved /\ quota' = quota
    BY <1>2, Attaches DEF AttachCommit
  <2>2. Reserved \in Nat /\ Reserved' \in Nat
    BY <1>0, <2>1, Counted, CountedNext DEF StorageInv
  <2>3. \A a, b \in Nat : b <= a => ~(b > a)
    OBVIOUS
  <2> QED
    BY <2>1, <2>2, <2>3, Zenon DEF Within
<1>3. CASE CreateSessionCommit
  <2>1. StorageInv' /\ Kept' = Kept /\ (doubted = {} => Reserved' <= quota') /\ quota' = quota
    BY <1>3, SessionStarts DEF CreateSessionCommit
  <2>2. Kept \in Nat
    BY <1>0, Counted
  <2>3. \A a \in Nat : ~(a > a)
    OBVIOUS
  <2> QED
    BY <2>1, <2>2, <2>3, Zenon DEF Within
<1> QED
  BY <1>1, <1>2, <1>3

\* One lemma for each kind of step: requests that come,
LEMMA ReceiveSteps ==
  ASSUME StorageInv, Receive
  PROVE  StorageInv' /\ Within
<1>0. TypeOK
  BY DEF StorageInv
<1>1. CASE \E v \in Versions, carryOver \in BOOLEAN : CreateDraft(v, carryOver)
  <2>1. StorageInv' /\ TypeOK' /\ UNCHANGED <<stored, session, other, doubted>>
    BY <1>1, DraftsCreate DEF CreateDraft, StorageInv
  <2> QED
    BY <1>0, <2>1, QuietWithin
<1>2. CASE PublishDraft
  <2>1. StorageInv' /\ TypeOK' /\ UNCHANGED <<stored, session, other, doubted>>
    BY <1>2, DraftsPublish DEF PublishDraft, StorageInv
  <2> QED
    BY <1>0, <2>1, QuietWithin
<1>3. CASE DiscardRead \/ RemoveRead
  <2>1. StorageInv' /\ TypeOK' /\ UNCHANGED <<stored, session, other, doubted>>
    BY <1>3, DropsSessions DEF DiscardRead, RemoveRead, DropSessions, rows, StorageInv
  <2> QED
    BY <1>0, <2>1, QuietWithin
<1>4. CASE \E v \in Versions : DeleteVersion(v)
  <2>1. StorageInv' /\ TypeOK' /\ Shrinks
    BY <1>4, VersionsDelete DEF StorageInv
  <2> QED
    BY <1>0, <2>1, ShrinksWithin
<1>5. CASE \E p \in Paths : RemoveFileRead(p)
  <2>1. StorageInv' /\ TypeOK' /\ UNCHANGED <<stored, session, other, doubted>>
    BY <1>5, RemovesFile DEF RemoveFileRead, rows, StorageInv
  <2> QED
    BY <1>0, <2>1, QuietWithin
<1>6. CASE \E p \in Paths, f \in Files : UploadCharge(p, f)
  <2>1. StorageInv' /\ TypeOK' /\ UNCHANGED <<stored, session, other, doubted>>
    BY <1>6, UploadCharges DEF UploadCharge, rows, StorageInv
  <2> QED
    BY <1>0, <2>1, QuietWithin
<1>7. CASE OtherCharge
  <2>1. StorageInv' /\ TypeOK'
    BY <1>7, OwnerSteps DEF StorageInv
  <2>2. UNCHANGED <<stored, session, doubted>> /\ other' = [other EXCEPT !.charged = TRUE]
    BY <1>7 DEF OtherCharge
  <2>3. other'.files = other.files
    BY <1>0, <2>2 DEF TypeOK
  <2> QED
    BY <1>0, <2>1, <2>2, <2>3, QuietWithin
<1>8. CASE \E q \in Quotas : SetQuota(q)
  <2>1. StorageInv' /\ TypeOK' /\ UNCHANGED <<stored, session, other, doubted>>
    BY <1>8, OwnerSteps DEF SetQuota, StorageInv
  <2> QED
    BY <1>0, <2>1, QuietWithin
<1>9. CASE \E s \in Sessions, p \in Paths : CreateSessionCharge(s, p)
  <2>1. StorageInv' /\ TypeOK' /\ UNCHANGED <<stored, session, other, doubted>>
    BY <1>9, SessionCharges DEF CreateSessionCharge, rows, StorageInv
  <2> QED
    BY <1>0, <2>1, QuietWithin
<1>10. CASE \E s \in Sessions : ChunkBegin(s)
  <2>1. StorageInv' /\ TypeOK' /\ UNCHANGED <<stored, session, other, doubted>>
    BY <1>10, ChunkSteps DEF ChunkBegin, rows, StorageInv
  <2> QED
    BY <1>0, <2>1, QuietWithin
<1>11. CASE \E s \in Sessions : Abort(s) \/ \E a \in Assemblers : Complete(s, a)
  <2>1. StorageInv' /\ TypeOK' /\ Shrinks
    BY <1>11, Aborts, Completes DEF StorageInv
  <2> QED
    BY <1>0, <2>1, ShrinksWithin
<1> QED
  BY <1>1, <1>2, <1>3, <1>4, <1>5, <1>6, <1>7, <1>8, <1>9, <1>10, <1>11, Zenon DEF Receive

\* those that are being served,
LEMMA RequestSteps ==
  ASSUME StorageInv, RequestStep
  PROVE  StorageInv' /\ Within
<1>0. TypeOK
  BY DEF StorageInv
<1>1. CASE RemoveFileCommit \/ DiscardCommit \/ RemoveCommit
  <2>1. StorageInv' /\ TypeOK' /\ Shrinks
    BY <1>1, FileIsRemoved, DraftIsDiscarded, WorkIsRemoved DEF StorageInv
  <2> QED
    BY <1>0, <2>1, ShrinksWithin
<1>2. CASE UploadFails
  <2>1. StorageInv' /\ TypeOK' /\ UNCHANGED <<stored, session, other, doubted>>
    BY <1>2, UploadIsLost DEF UploadFails, rows, StorageInv
  <2> QED
    BY <1>0, <2>1, QuietWithin
<1>3. CASE CreateSessionCommit \/ \E v \in Versions : UploadCommit(v)
  BY <1>3, GrantsWithin
<1>4. CASE \E a \in Assemblers : DeadlockFailsRequest(a)
  <2>1. StorageInv' /\ TypeOK' /\ UNCHANGED <<stored, session, other, doubted>>
    BY <1>4, RequestEnds DEF DeadlockFailsRequest, rows, StorageInv
  <2> QED
    BY <1>0, <2>1, QuietWithin
<1>5. CASE \E n \in 0 .. MaxOther : OtherEnds(n)
  <2>1. StorageInv' /\ TypeOK'
    BY <1>5, OwnerSteps DEF StorageInv
  <2> QED
    BY <1>5, <2>1, OtherEndsWithin
<1> QED
  BY <1>1, <1>2, <1>3, <1>4, <1>5 DEF RequestStep

\* threads,
LEMMA AssemblerSteps ==
  ASSUME StorageInv, NEW a \in Assemblers, AssemblerStep(a)
  PROVE  StorageInv' /\ Within
<1>0. TypeOK
  BY DEF StorageInv
<1>1. CASE AssembleBegin(a) \/ BuildFails(a)
  <2>1. StorageInv' /\ TypeOK' /\ UNCHANGED <<stored, session, other, doubted>>
    BY <1>1, ThreadStarts DEF AssembleBegin, BuildFails, rows, StorageInv
  <2> QED
    BY <1>0, <2>1, QuietWithin
<1>2. CASE \E f \in Files : Build(a, f)
  <2>1. StorageInv' /\ TypeOK' /\ UNCHANGED <<stored, session, other, doubted>>
    BY <1>2, Builds DEF Build, rows, StorageInv
  <2> QED
    BY <1>0, <2>1, QuietWithin
<1>3. CASE LockRows(a) \/ Charge(a) \/ DeadlockFailsAssembly(a)
  <2>1. StorageInv' /\ TypeOK' /\ UNCHANGED <<stored, session, other, doubted>>
    BY <1>3, LocksRows, Charges, AssemblyFails
       DEF LockRows, Charge, DeadlockFailsAssembly, rows, StorageInv
  <2> QED
    BY <1>0, <2>1, QuietWithin
<1>4. CASE AttachCommit(a)
  BY <1>4, GrantsWithin
<1>5. CASE Fail(a)
  <2>1. StorageInv' /\ TypeOK' /\ Shrinks
    BY <1>5, Fails DEF StorageInv
  <2> QED
    BY <1>0, <2>1, ShrinksWithin
<1> QED
  BY <1>1, <1>2, <1>3, <1>4, <1>5 DEF AssemblerStep

\* chunks, the background loops and restarts.
LEMMA OtherSteps ==
  ASSUME StorageInv,
         \/ ChunkStep \/ SweepStep \/ Crash
         \/ \E s \in Sessions : SweepOrphan(s)
         \/ \E f \in Files : CleanupUnlink(f) \/ CleanupCommit(f)
  PROVE  StorageInv' /\ Within
<1>0. TypeOK
  BY DEF StorageInv
<1>1. CASE ChunkRefused \/ WritePart \/ \E s \in Sessions : SweepOrphan(s)
  <2>1. StorageInv' /\ TypeOK' /\ UNCHANGED <<stored, session, other, doubted>>
    BY <1>1, ChunkSteps DEF ChunkRefused, WritePart, SweepOrphan, rows, StorageInv
  <2> QED
    BY <1>0, <2>1, QuietWithin
<1>2. CASE ChunkCommit \/ SweepCommit \/ Crash
  <2>1. StorageInv' /\ TypeOK' /\ Shrinks
    BY <1>2, ChunkCommits, SweepCommits, Crashes DEF StorageInv
  <2> QED
    BY <1>0, <2>1, ShrinksWithin
<1>3. CASE \E s \in Sessions, to \in {"uploading", "removed"} : SweepSelect(s, to)
  <2>1. StorageInv' /\ TypeOK' /\ UNCHANGED <<stored, session, other>> /\ doubted \subseteq doubted'
    BY <1>3, SweepSelects DEF SweepSelect, rows, StorageInv
  <2> QED
    BY <1>0, <2>1, QuietWithin
<1>4. CASE \E f \in Files : CleanupUnlink(f) \/ CleanupCommit(f)
  <2>1. StorageInv' /\ TypeOK' /\ UNCHANGED <<stored, session, other, doubted>>
    BY <1>4, Cleans DEF CleanupUnlink, CleanupCommit, rows, StorageInv
  <2> QED
    BY <1>0, <2>1, QuietWithin
<1> QED
  BY <1>1, <1>2, <1>3, <1>4 DEF ChunkStep, SweepStep

LEMMA StepHolds ==
  ASSUME StorageInv, [Next]_vars
  PROVE  StorageInv' /\ Within
<1>0. TypeOK
  BY DEF StorageInv
<1>1. CASE Next
  BY <1>1, ReceiveSteps, RequestSteps, AssemblerSteps, OtherSteps, Zenon DEF Next
<1>2. CASE UNCHANGED vars
  <2>1. /\ version' = version /\ stored' = stored /\ doomed' = doomed /\ dataset' = dataset
        /\ quota' = quota /\ other' = other /\ session' = session /\ blobs' = blobs /\ keys' = keys
        /\ parts' = parts /\ chunk' = chunk /\ assembly' = assembly /\ request' = request
        /\ sweep' = sweep /\ crashes' = crashes /\ doubted' = doubted
    BY <1>2 DEF vars, rows, disk, process
  <2>2. TypeOK'
    BY <1>0, <2>1, SameTypes, Assemble
  <2>3. Shrinks
    BY <1>0, <2>1, NothingAdded
  <2>4. OwnerLocks'
    BY <2>1, <2>2, <2>3, OwnerKept DEF Charging, ChargedBy
  <2>5. StorageInv'
    BY <2>1, <2>2, <2>4, SameSessions, SameApart, SameRelease, SameReadable, SameVersions, SameKnown,
       Together
  <2> QED
    BY <1>0, <2>2, <2>3, <2>5, ShrinksWithin
<1> QED
  BY <1>1, <1>2

\* Initially nobody is at work, and there is a draft or one version.
LEMMA InitHolds == Init => StorageInv
<1> SUFFICES ASSUME Init PROVE StorageInv
  OBVIOUS
<1>0. /\ MaxVersions \in Nat \ {0} /\ MaxFiles \in Nat \ {0} /\ 1 \in Versions /\ 1 \in Files
      /\ CsvPaths \subseteq Paths /\ Quotas \subseteq Nat /\ None \notin Sessions
      /\ NoFiles \in FileSets /\ \A q \in Paths : NoFiles[q] = NoFile
      /\ NoFile \notin Files /\ NoVersion \notin Versions
  BY StorageAssumption DEF Versions, Files, NoFiles, FileSets, NoFile, NoVersion
<1>1. /\ blobs = stored /\ keys = stored /\ doomed = {}
      /\ other = [charged |-> FALSE, files |-> 0] /\ quota \in Quotas
      /\ session = [s \in Sessions |-> NoSession] /\ parts = {} /\ chunk = NoChunk
      /\ assembly = [a \in Assemblers |-> NoAssembly] /\ request = NoRequest /\ sweep = NoSweep
      /\ crashes = 0 /\ doubted = {}
  BY DEF Init
<1>2. /\ VersionTypes /\ stored \subseteq Files /\ DatasetTypes /\ dataset.exists
      /\ VersionsInv /\ PrimaryCurrent
      /\ \A v \in Versions, q \in Paths : version[v].files[q] # NoFile => version[v].files[q] \in stored
  <2>1. CASE /\ version = [v \in Versions |-> IF v = 1 THEN [NoRow EXCEPT !.status = "draft"] ELSE NoRow]
             /\ stored = {} /\ dataset = [exists |-> TRUE, path |-> None, key |-> NoFile]
    <3>1. /\ NoRow \in VersionRow /\ NoRow.files = NoFiles /\ NoRow.number = 0 /\ NoRow.status = "none"
      BY <1>0 DEF NoRow, VersionRow, VersionStatus
    <3>2. LET x == [NoRow EXCEPT !.status = "draft"]
          IN x \in VersionRow /\ x.files = NoFiles /\ x.number = 0 /\ x.status = "draft"
      BY <3>1 DEF VersionRow, VersionStatus
    <3>3. /\ version \in [Versions -> VersionRow]
          /\ \A v \in Versions : /\ version[v].number = 0 /\ version[v].files = NoFiles
                                 /\ version[v].status \in {"none", "draft"}
                                 /\ version[v].status = "draft" => v = 1
      <4> DEFINE x == [NoRow EXCEPT !.status = "draft"]
      <4>1. version = [v \in Versions |-> IF v = 1 THEN x ELSE NoRow]
        BY <2>1
      <4> HIDE DEF x
      <4> QED
        BY <3>1, <3>2, <4>1 DEF x
    <3>4. OneDraft /\ NumberedInOrder /\ StatusHolds
      <4>1. OneDraft
        BY <3>3 DEF OneDraft
      <4>2. NumberedInOrder
        BY <1>0, <3>3 DEF NumberedInOrder
      <4>3. StatusHolds
        BY <2>1, <3>3 DEF StatusHolds
      <4> QED
        BY <4>1, <4>2, <4>3
    <3>5. PrimaryCurrent
      <4>1. Latest(version) = NoVersion
        BY <3>3 DEF Latest, PublishedIn
      <4> QED
        BY <1>0, <2>1, <4>1 DEF PrimaryCurrent, FilesOf
    <3> QED
      BY <1>0, <2>1, <3>3, <3>4, <3>5 DEF VersionTypes, DatasetTypes, VersionsInv
  <2>2. CASE \E p \in CsvPaths :
               /\ version = [v \in Versions |->
                                IF v = 1 THEN [status |-> "published", number |-> 1,
                                               files |-> [NoFiles EXCEPT ![p] = 1]]
                                ELSE NoRow]
               /\ stored = {1} /\ dataset = [exists |-> TRUE, path |-> p, key |-> 1]
    <3>1. PICK p \in CsvPaths :
               /\ version = [v \in Versions |->
                                IF v = 1 THEN [status |-> "published", number |-> 1,
                                               files |-> [NoFiles EXCEPT ![p] = 1]]
                                ELSE NoRow]
               /\ stored = {1} /\ dataset = [exists |-> TRUE, path |-> p, key |-> 1]
      BY <2>2
    <3> DEFINE fs == [NoFiles EXCEPT ![p] = 1]
               x == [status |-> "published", number |-> 1, files |-> fs]
    <3>2. /\ p \in Paths /\ fs \in FileSets /\ fs # NoFiles
          /\ \A q \in Paths : fs[q] = IF q = p THEN 1 ELSE NoFile
      <4>1. p \in Paths /\ NoFiles = [q \in Paths |-> NoFile]
        BY <1>0 DEF NoFiles
      <4> QED
        BY <1>0, <4>1 DEF FileSets
    <3> HIDE DEF fs
    <3>3. x \in VersionRow
      BY <1>0, <3>2 DEF VersionRow, VersionStatus
    <3>4. /\ NoRow \in VersionRow /\ NoRow.files = NoFiles /\ NoRow.number = 0 /\ NoRow.status = "none"
      BY <1>0 DEF NoRow, VersionRow, VersionStatus
    <3>5. version \in [Versions -> VersionRow] /\ version[1] = x
          /\ \A v \in Versions \ {1} : version[v] = NoRow
      BY <1>0, <3>1, <3>3, <3>4 DEF fs
    <3>6. OneDraft /\ NumberedInOrder /\ StatusHolds
      <4>1. OneDraft
        BY <3>4, <3>5 DEF OneDraft
      <4>2. \A v \in Versions : version[v].number = IF v = 1 THEN 1 ELSE 0
        BY <3>4, <3>5
      <4>3. NumberedInOrder
        <5>1. 1 \in 0 .. MaxVersions /\ \A m \in 1 .. 1 : version[1].number = m
          BY <1>0, <4>2
        <5> QED
          BY <1>0, <4>2, <5>1 DEF NumberedInOrder
      <4>4. StatusHolds
        BY <3>1, <3>2, <3>4, <3>5 DEF StatusHolds
      <4> QED
        BY <4>1, <4>3, <4>4
    <3>7. PrimaryCurrent
      <4>1. PublishedIn(version) = {1}
        BY <1>0, <3>4, <3>5 DEF PublishedIn
      <4>2. Numbering(version)
        BY <3>5, <3>6, VersionsNumbered DEF VersionTypes, VersionsInv
      <4>3. Latest(version) = 1
        BY <4>1, <4>2, LatestIs
      <4>4. FilesOf(version, Latest(version)) = fs
        BY <1>0, <3>5, <4>3 DEF FilesOf
      <4> QED
        BY <1>0, <3>1, <3>2, <4>4 DEF PrimaryCurrent
    <3>8. \A v \in Versions, q \in Paths : version[v].files[q] # NoFile => version[v].files[q] \in stored
      <4>1. \A v \in Versions, q \in Paths : version[v].files[q] \in {NoFile, 1}
        BY <1>0, <3>2, <3>4, <3>5
      <4> QED
        BY <3>1, <4>1
    <3> QED
      BY <1>0, <3>1, <3>2, <3>5, <3>6, <3>7, <3>8 DEF VersionTypes, DatasetTypes, VersionsInv
  <2> QED
    BY <2>1, <2>2 DEF Init
<1>3. /\ request.op = "idle" /\ chunk.pc = "idle" /\ sweep.to = "none" /\ ~other.charged
      /\ \A a \in Assemblers : assembly[a].pc = "idle"
      /\ \A s \in Sessions : session[s].status = "none"
  BY <1>1 DEF NoRequest, NoChunk, NoSweep, NoAssembly, NoSession
<1>4. TypeOK
  <2>1. StoreTypes /\ OwnerTypes /\ PartTypes /\ HistoryTypes
    BY <1>1, <1>2, StorageAssumption DEF StoreTypes, OwnerTypes, PartTypes, HistoryTypes
  <2>2. SessionTypes
    BY <1>1 DEF SessionTypes, SessionRow, SessionStatus, NoSession
  <2>3. ChunkTypes /\ AssemblyTypes /\ RequestTypes /\ SweepTypes
    BY <1>1 DEF ChunkTypes, NoChunk, AssemblyTypes, Assembly, NoAssembly, RequestTypes, Request,
         NoRequest, SweepTypes, NoSweep
  <2> QED
    BY <1>2, <2>1, <2>2, <2>3, Pieces
<1>5. Working /\ Requested /\ AttachLocks /\ SweepHolds /\ ActiveIntoDraft
  BY <1>1, <1>3 DEF Working, Requested, AttachLocks, Attaching, SweepHolds, ActiveIntoDraft, Active, Holds
<1>6. FilesApart /\ ReleaseHolds /\ FilesReadable /\ BlobsKnown /\ OwnerLocks
  BY <1>1, <1>2, <1>3 DEF FilesApart, Holds, ReleaseHolds, FilesReadable, BlobsKnown, OwnerLocks,
       Charging, ChargedBy
<1> QED
  BY <1>2, <1>4, <1>5, <1>6 DEF StorageInv, SessionsInv, FilesInv

-----------------------------------------------------------------------------
(***************************************************************************)
(* What the numbered versions promise.                                     *)
(***************************************************************************)
Unused == [state |-> "unused", files |-> NoFiles]

\* What the promise says about a number, of a table of versions, ...
EntryOf(table, n) ==
    IF {v \in Versions : table[v].number = n} # {}
    THEN LET v == CHOOSE v \in {v \in Versions : table[v].number = n} : TRUE
         IN [state |-> table[v].status, files |-> table[v].files]
    ELSE Unused

\* ... and of the dataset.
History == [n \in 1 .. MaxVersions |->
               IF dataset.exists /\ Numbered(n) # {}
               THEN Snapshot(CHOOSE v \in Numbered(n) : TRUE)
               ELSE [state |-> "unused", files |-> NoFiles]]

LEMMA HistoryIs ==
  /\ dataset.exists => History = [n \in 1 .. MaxVersions |-> EntryOf(version, n)]
  /\ ~dataset.exists => History = [n \in 1 .. MaxVersions |-> Unused]
BY DEF History, EntryOf, Numbered, Snapshot, Unused

LEMMA HistoryIsNext ==
  /\ dataset'.exists => History' = [n \in 1 .. MaxVersions |-> EntryOf(version', n)]
  /\ ~dataset'.exists => History' = [n \in 1 .. MaxVersions |-> Unused]
BY DEF History, EntryOf, Numbered, Snapshot, Unused

\* The entry of a number is that of the one version which has it.
LEMMA EntryIs ==
  ASSUME NEW table, NEW v \in Versions,
         \A w \in Versions : table[w].number = table[v].number => w = v
  PROVE  EntryOf(table, table[v].number) = [state |-> table[v].status, files |-> table[v].files]
<1>1. {w \in Versions : table[w].number = table[v].number} = {v}
  OBVIOUS
<1> QED
  BY <1>1 DEF EntryOf

LEMMA EntryOfNone ==
  ASSUME NEW table, NEW n, \A w \in Versions : table[w].number # n
  PROVE  EntryOf(table, n) = Unused
BY DEF EntryOf

\* It stays when the number stays where it is and so does the version.
LEMMA SameEntry ==
  ASSUME NEW table, NEW then, NEW n,
         \A w \in Versions : then[w].number = n <=> table[w].number = n,
         \A w \in Versions : table[w].number = n => then[w] = table[w]
  PROVE  EntryOf(then, n) = EntryOf(table, n)
<1>1. {w \in Versions : then[w].number = n} = {w \in Versions : table[w].number = n}
  OBVIOUS
<1> QED
  BY <1>1 DEF EntryOf

\* Versions with a number are published or deleted.
LEMMA NumberedOnes ==
  ASSUME StorageInv, dataset.exists
  PROVE  /\ \A v \in Versions : version[v].number \in 1 .. MaxVersions =>
                version[v].status \in {"published", "deleted"}
         /\ \A v, w \in Versions : version[v].number \in 1 .. MaxVersions
                                   /\ version[w].number = version[v].number => w = v
         /\ \A v \in Versions : version[v].status = "published" =>
                version[v].number \in 1 .. MaxVersions
<1>1. VersionTypes /\ StatusHolds /\ NumberedInOrder /\ MaxVersions \in Nat
  BY Pieces, StorageAssumption DEF StorageInv, VersionsInv
<1>2. \A v \in Versions : version[v].number \in 0 .. MaxVersions /\ version[v].status \in VersionStatus
  BY <1>1 DEF VersionTypes, VersionRow
<1> QED
  BY <1>1, <1>2 DEF StatusHolds, NumberedInOrder, VersionStatus

\* Nothing is said anew while numbered versions stay.
LEMMA HistoryStays ==
  ASSUME StorageInv, dataset' = dataset,
         \A w \in Versions : version'[w].number = version[w].number,
         \A w \in Versions : version[w].status \in {"published", "deleted"} =>
                version'[w] = version[w]
  PROVE  History' = History /\ (~dataset.exists)' = ~dataset.exists
<1>1. CASE ~dataset.exists
  BY <1>1, HistoryIs, HistoryIsNext
<1>2. CASE dataset.exists
  <2>1. ASSUME NEW n \in 1 .. MaxVersions
        PROVE  EntryOf(version', n) = EntryOf(version, n)
    <3>1. \A w \in Versions : version[w].number = n => version'[w] = version[w]
      BY <1>2, NumberedOnes
    <3> QED
      BY <3>1, SameEntry
  <2> QED
    BY <1>2, <2>1, HistoryIs, HistoryIsNext
<1> QED
  BY <1>1, <1>2

\* The next number is given out, for files that were not published before.
LEMMA PublishKept ==
  ASSUME StorageInv, NEW d \in Versions, dataset.exists, dataset'.exists,
         version[d].number = 0,
         version'[d].status = "published", version'[d].number = NextNumber,
         version'[d].files \in FileSets \ {NoFiles},
         \A w \in Versions \ {d} : version'[w] = version[w]
  PROVE  /\ NextNumber \in 1 .. MaxVersions
         /\ \A m \in 1 .. NextNumber - 1 : History[m] # Unused
         /\ History[NextNumber] = Unused
         /\ History' = [History EXCEPT ![NextNumber] =
                           [state |-> "published", files |-> version'[d].files]]
<1> DEFINE n == NextNumber
           fs == version'[d].files
<1>1. /\ n \in 1 .. MaxVersions /\ n \in Nat \ {0} /\ MaxVersions \in Nat
      /\ \A v \in Versions : version[v].number < n /\ version[v].number \in 0 .. MaxVersions
      /\ \A m \in 1 .. n - 1 : \E v \in Versions : version[v].number = m
  BY Pieces, NextNumberIs, StorageAssumption DEF StorageInv, VersionTypes, VersionRow
<1>2. /\ History = [m \in 1 .. MaxVersions |-> EntryOf(version, m)]
      /\ History' = [m \in 1 .. MaxVersions |-> EntryOf(version', m)]
  BY HistoryIs, HistoryIsNext
<1>3. EntryOf(version, n) = Unused
  BY <1>1, EntryOfNone
<1>4. EntryOf(version', n) = [state |-> "published", files |-> fs]
  <2>1. \A w \in Versions : version'[w].number = version'[d].number => w = d
    BY <1>1
  <2> QED
    BY <2>1, EntryIs
<1>5. ASSUME NEW m \in 1 .. MaxVersions, m # n
      PROVE  EntryOf(version', m) = EntryOf(version, m)
  <2>1. \A w \in Versions : version'[w].number = m <=> version[w].number = m
    BY <1>5
  <2>2. \A w \in Versions : version[w].number = m => version'[w] = version[w]
    BY <1>5
  <2> QED
    BY <2>1, <2>2, SameEntry
<1>6. ASSUME NEW m \in 1 .. n - 1
      PROVE  EntryOf(version, m) # Unused
  <2>1. PICK v \in Versions : version[v].number = m
    BY <1>1
  <2>2. m \in 1 .. MaxVersions
    BY <1>1
  <2>3. /\ version[v].status \in {"published", "deleted"}
        /\ \A w \in Versions : version[w].number = version[v].number => w = v
    BY <2>1, <2>2, NumberedOnes
  <2>4. EntryOf(version, m) = [state |-> version[v].status, files |-> version[v].files]
    BY <2>1, <2>3, EntryIs
  <2>5. EntryOf(version, m).state # Unused.state
    BY <2>3, <2>4 DEF Unused
  <2> QED
    BY <2>5
<1> HIDE DEF n
<1>7. History' = [History EXCEPT ![n] = [state |-> "published", files |-> fs]]
  <2> HIDE DEF fs
  <2> QED
    BY <1>1, <1>2, <1>4, <1>5
<1>8. \A m \in 1 .. n - 1 : m \in 1 .. MaxVersions
  BY <1>1
<1> QED
  BY <1>1, <1>2, <1>3, <1>6, <1>7, <1>8 DEF n

\* A version that goes was not the last one.
LEMMA WithdrawKept ==
  ASSUME StorageInv, NEW v \in Versions, DeleteVersion(v)
  PROVE  /\ version[v].number \in 1 .. MaxVersions
         /\ History[version[v].number].state = "published"
         /\ \E m \in 1 .. MaxVersions \ {version[v].number} : History[m].state = "published"
         /\ History' = [History EXCEPT ![version[v].number] = [state |-> "deleted", files |-> NoFiles]]
         /\ dataset'.exists = dataset.exists
<1> DEFINE n == version[v].number
<1>1. /\ version[v].status = "published" /\ PublishedIn(version) # {v}
      /\ dataset.exists /\ dataset'.exists
      /\ version'[v].status = "deleted" /\ version'[v].number = n /\ version'[v].files = NoFiles
      /\ \A w \in Versions \ {v} : version'[w] = version[w]
  BY VersionsDelete
<1>2. /\ n \in 1 .. MaxVersions
      /\ \A w \in Versions : version[w].number = n => w = v
  BY <1>1, NumberedOnes
<1>3. /\ History = [m \in 1 .. MaxVersions |-> EntryOf(version, m)]
      /\ History' = [m \in 1 .. MaxVersions |-> EntryOf(version', m)]
  BY <1>1, HistoryIs, HistoryIsNext
<1>4. EntryOf(version, n) = [state |-> "published", files |-> version[v].files]
  BY <1>1, <1>2, EntryIs
<1>5. EntryOf(version', n) = [state |-> "deleted", files |-> NoFiles]
  <2>1. \A w \in Versions : version'[w].number = version'[v].number => w = v
    BY <1>1, <1>2
  <2>2. EntryOf(version', version'[v].number)
          = [state |-> version'[v].status, files |-> version'[v].files]
    BY <2>1, EntryIs
  <2> QED
    BY <1>1, <2>2
<1>6. ASSUME NEW m \in 1 .. MaxVersions, m # n
      PROVE  EntryOf(version', m) = EntryOf(version, m)
  <2>1. \A w \in Versions : version'[w].number = m <=> version[w].number = m
    BY <1>1, <1>6
  <2>2. \A w \in Versions : version[w].number = m => version'[w] = version[w]
    BY <1>1, <1>6
  <2> QED
    BY <2>1, <2>2, SameEntry
<1>7. \E m \in 1 .. MaxVersions \ {n} : History[m].state = "published"
  <2>1. PICK w \in Versions : version[w].status = "published" /\ w # v
    BY <1>1 DEF PublishedIn
  <2>2. /\ version[w].number \in 1 .. MaxVersions
        /\ \A u \in Versions : version[u].number = version[w].number => u = w
    BY <1>1, <2>1, NumberedOnes
  <2>3. version[w].number # n
    BY <1>2, <2>1
  <2>4. EntryOf(version, version[w].number) = [state |-> "published", files |-> version[w].files]
    BY <2>1, <2>2, EntryIs
  <2>5. History[version[w].number].state = "published"
    BY <1>3, <2>2, <2>4
  <2> QED
    BY <2>2, <2>3, <2>5
<1> HIDE DEF n
<1>8. History' = [History EXCEPT ![n] = [state |-> "deleted", files |-> NoFiles]]
  BY <1>2, <1>3, <1>5, <1>6
<1>9. History[n].state = "published"
  BY <1>2, <1>3, <1>4
<1> QED
  BY <1>1, <1>2, <1>7, <1>8, <1>9 DEF n

\* The steps that touch versions or the dataset.
LEMMA StepKinds ==
  ASSUME [Next]_vars
  PROVE  \/ UNCHANGED <<version, dataset>>
         \/ \E v \in Versions, carryOver \in BOOLEAN : CreateDraft(v, carryOver)
         \/ PublishDraft
         \/ \E v \in Versions : DeleteVersion(v) \/ UploadCommit(v)
         \/ RemoveFileCommit \/ DiscardCommit \/ RemoveCommit
         \/ \E a \in Assemblers : AttachCommit(a)
<1>1. CASE Receive
  BY <1>1 DEF Receive, DiscardRead, RemoveRead, DropSessions, RemoveFileRead, UploadCharge,
       OtherCharge, SetQuota, CreateSessionCharge, ChunkBegin, Abort, Complete, rows
<1>2. CASE RequestStep
  BY <1>2 DEF RequestStep, UploadFails, CreateSessionCommit, DeadlockFailsRequest, OtherEnds, rows
<1>3. CASE \E a \in Assemblers : AssemblerStep(a)
  BY <1>3 DEF AssemblerStep, AssembleBegin, Build, BuildFails, LockRows, Charge, Fail,
       DeadlockFailsAssembly, rows
<1>4. CASE \/ SweepStep \/ Crash \/ ChunkStep \/ \E s \in Sessions : SweepOrphan(s)
           \/ \E f \in Files : CleanupUnlink(f) \/ CleanupCommit(f)
  BY <1>4 DEF SweepStep, SweepSelect, SweepCommit, Crash, ChunkStep, ChunkRefused, WritePart,
       ChunkCommit, SweepOrphan, CleanupUnlink, CleanupCommit, rows
<1>5. CASE UNCHANGED vars
  BY <1>5 DEF vars, rows
<1> QED
  BY <1>1, <1>2, <1>3, <1>4, <1>5 DEF Next

\* Every step publishes the next number, withdraws one, removes all, or says nothing.
LEMMA HistoryStep ==
  ASSUME StorageInv, [Next]_vars
  PROVE  [Promise!Next]_<<History, ~dataset.exists>>
<1>0. /\ Promise!Numbers = 1 .. MaxVersions /\ Promise!Unused = Unused
      /\ \A fs : Promise!Published(fs) = [state |-> "published", files |-> fs]
  BY DEF Promise!Numbers, Promise!Unused, Promise!Published, Unused
<1>1. CASE UNCHANGED <<version, dataset>>
  BY <1>1, HistoryStays
<1>2. CASE \/ \E v \in Versions, carryOver \in BOOLEAN : CreateDraft(v, carryOver)
           \/ RemoveFileCommit \/ DiscardCommit \/ \E a \in Assemblers : AttachCommit(a)
  <2>1. /\ dataset' = dataset
        /\ \A w \in Versions : version'[w].number = version[w].number
        /\ \A w \in Versions : version[w].status \in {"published", "deleted"} =>
                version'[w] = version[w]
    BY <1>2, DraftsCreate, FileIsRemoved, DraftIsDiscarded, Attaches DEF CreateDraft
  <2> QED
    BY <2>1, HistoryStays
<1>3. ASSUME NEW d \in Versions, dataset.exists, dataset'.exists,
             version[d].number = 0,
             version'[d].status = "published", version'[d].number = NextNumber,
             version'[d].files \in FileSets \ {NoFiles},
             \A w \in Versions \ {d} : version'[w] = version[w]
      PROVE  [Promise!Next]_<<History, ~dataset.exists>>
  <2> DEFINE n == NextNumber
             fs == version'[d].files
  <2>1. /\ n \in 1 .. MaxVersions
        /\ \A m \in 1 .. n - 1 : History[m] # Unused
        /\ History[n] = Unused
        /\ History' = [History EXCEPT ![n] = [state |-> "published", files |-> fs]]
    BY <1>3, PublishKept
  <2> HIDE DEF n, fs
  <2>2. History'[n] # Unused
    <3>1. n \in DOMAIN History
      BY <2>1 DEF History
    <3>2. History'[n] = [state |-> "published", files |-> fs]
      BY <2>1, <3>1
    <3>3. History'[n].state # Unused.state
      BY <3>2 DEF Unused
    <3> QED
      BY <3>3
  <2>3. Promise!Publish(n)
    <3>1. fs \in FileSets \ {NoFiles}
      BY <1>3 DEF fs
    <3> QED
      BY <1>0, <1>3, <2>1, <2>2, <3>1 DEF Promise!Publish, History
  <2> QED
    BY <1>0, <2>1, <2>3 DEF Promise!Next
<1>4. CASE PublishDraft
  <2>1. /\ Draft \in Versions /\ dataset.exists /\ dataset'.exists
        /\ version[Draft].number = 0 /\ version[Draft].files \in FileSets \ {NoFiles}
        /\ version'[Draft].files = version[Draft].files
        /\ version'[Draft].status = "published" /\ version'[Draft].number = NextNumber
        /\ \A w \in Versions \ {Draft} : version'[w] = version[w]
    BY <1>4, DraftsPublish, Pieces DEF StorageInv, VersionTypes, VersionRow, VersionsInv, StatusHolds
  <2> QED
    BY <1>3, <2>1
<1>5. CASE \E v \in Versions : UploadCommit(v)
  BY <1>3, <1>5, UploadIsKept
<1>6. CASE \E v \in Versions : DeleteVersion(v)
  <2>1. PICK v \in Versions : DeleteVersion(v)
    BY <1>6
  <2> DEFINE n == version[v].number
  <2>2. /\ n \in 1 .. MaxVersions /\ History[n].state = "published"
        /\ \E m \in 1 .. MaxVersions \ {n} : History[m].state = "published"
        /\ History' = [History EXCEPT ![n] = [state |-> "deleted", files |-> NoFiles]]
        /\ dataset'.exists = dataset.exists
    BY <2>1, WithdrawKept
  <2> HIDE DEF n
  <2>3. Promise!Withdraw(n)
    BY <1>0, <2>2 DEF Promise!Withdraw, History
  <2> QED
    BY <1>0, <2>2, <2>3 DEF Promise!Next
<1>7. CASE RemoveCommit
  <2>1. dataset.exists /\ ~dataset'.exists
    BY <1>7, WorkIsRemoved
  <2>2. History' = [n \in 1 .. MaxVersions |-> Unused]
    BY <2>1, HistoryIsNext
  <2>3. Promise!RemoveAll
    BY <1>0, <2>1, <2>2 DEF Promise!RemoveAll, History
  <2> QED
    BY <2>3 DEF Promise!Next
<1> QED
  BY <1>1, <1>2, <1>4, <1>5, <1>6, <1>7, StepKinds

\* The first state is one in which the promise starts.
LEMMA HistoryInit == Init => Promise!Init
<1> SUFFICES ASSUME Init PROVE Promise!Init
  OBVIOUS
<1>1. dataset.exists /\ History = [n \in 1 .. MaxVersions |-> EntryOf(version, n)]
  BY HistoryIs DEF Init
<1>2. \A m, n \in Nat : m = n \/ m # n
  OBVIOUS
<1>3. CASE version = [v \in Versions |-> IF v = 1 THEN [NoRow EXCEPT !.status = "draft"] ELSE NoRow]
  <2>1. \A v \in Versions : version[v].number = 0
    BY <1>3 DEF NoRow
  <2>2. \A n \in 1 .. MaxVersions : EntryOf(version, n) = Unused
    <3>1. \A n \in 1 .. MaxVersions : n # 0
      OBVIOUS
    <3> QED
      BY <2>1, <3>1, EntryOfNone
  <2>3. History = [n \in 1 .. MaxVersions |-> Unused]
    BY <1>1, <2>2
  <2> QED
    BY <1>1, <2>3 DEF Promise!Init, Promise!Numbers, Promise!Unused, Unused, History
<1>4. CASE \E p \in CsvPaths :
             version = [v \in Versions |->
                              IF v = 1 THEN [status |-> "published", number |-> 1,
                                             files |-> [NoFiles EXCEPT ![p] = 1]]
                              ELSE NoRow]
  <2>1. PICK p \in CsvPaths :
             version = [v \in Versions |->
                              IF v = 1 THEN [status |-> "published", number |-> 1,
                                             files |-> [NoFiles EXCEPT ![p] = 1]]
                              ELSE NoRow]
    BY <1>4
  <2> DEFINE fs == [NoFiles EXCEPT ![p] = 1]
  <2>2. 1 \in Versions /\ MaxVersions \in Nat
    BY StorageAssumption DEF Versions
  <2>3. fs \in FileSets \ {NoFiles}
    <3>1. p \in Paths /\ NoFiles = [q \in Paths |-> NoFile] /\ 1 \in Files /\ NoFile # 1
      BY StorageAssumption DEF NoFiles, Files, NoFile
    <3> QED
      BY <3>1 DEF FileSets
  <2> HIDE DEF fs
  <2>4. /\ version[1].status = "published" /\ version[1].number = 1 /\ version[1].files = fs
        /\ \A v \in Versions \ {1} : version[v].number = 0
    BY <2>1, <2>2 DEF fs, NoRow
  <2>5. EntryOf(version, 1) = [state |-> "published", files |-> fs]
    <3>1. \A w \in Versions : version[w].number = version[1].number => w = 1
      BY <2>4
    <3> QED
      BY <2>2, <2>4, <3>1, EntryIs
  <2>6. ASSUME NEW n \in 1 .. MaxVersions, n # 1
        PROVE  EntryOf(version, n) = Unused
    <3>1. \A w \in Versions : version[w].number # n
      BY <2>4, <2>6
    <3> QED
      BY <3>1, EntryOfNone
  <2>7. History = [n \in 1 .. MaxVersions |->
                      IF n = 1 THEN [state |-> "published", files |-> fs] ELSE Unused]
    BY <1>1, <2>5, <2>6
  <2> QED
    BY <1>1, <2>3, <2>7
       DEF Promise!Init, Promise!Numbers, Promise!Unused, Promise!Published, Unused, History
<1> QED
  BY <1>3, <1>4 DEF Init

-----------------------------------------------------------------------------
\* The invariant holds in every state.
LEMMA StorageInvariant == Spec => []StorageInv
<1>1. StorageInv /\ [Next]_vars => StorageInv'
  BY StepHolds
<1> QED
  BY <1>1, InitHolds, PTL DEF Spec

-----------------------------------------------------------------------------
\* Every file of a draft or a published version can be read, and every unfinished upload
\* has a draft to go into, whatever is published, discarded, replaced, carried over or
\* cleaned up meanwhile (resource_versions.py, uploads.py, work_cleanup.py).
THEOREM VersionsAreWhole == Spec => []VersionsWhole
<1>1. StorageInv => VersionsWhole
  BY DEF StorageInv, SessionsInv, FilesInv, VersionsWhole
<1> QED
  BY <1>1, StorageInvariant, PTL

\* The legacy file of the dataset is a CSV of its latest version, also while versions are
\* published and withdrawn (resource_versions.py sync_primary).
THEOREM PrimaryFollows == Spec => []PrimaryCurrent
<1>1. StorageInv => PrimaryCurrent
  BY DEF StorageInv
<1> QED
  BY <1>1, StorageInvariant, PTL

\* As long as the process lives, whoever builds a blob commits its row or unlinks it, and
\* whoever drops the row leaves it to the cleanup (uploads.py, artifacts.py, work_cleanup.py).
THEOREM BlobsAreKnown == Spec => []BlobsAccounted
<1>1. StorageInv => BlobsAccounted
  BY DEF StorageInv, BlobsKnown, BlobsAccounted
<1> QED
  BY <1>1, StorageInvariant, PTL

\* Requests for this dataset and for others, and threads that assemble, never take the same
\* free space: the owner's row is locked from the check to the commit (storage_quotas.py).
THEOREM QuotaIsKept == Spec => CapacityKept
<1>1. StorageInv /\ [Next]_vars =>
        [/\ Kept' > Kept => Kept' <= quota
         /\ doubted = {} /\ Reserved' > Reserved => Reserved' <= quota]_vars
  BY StepHolds DEF Within
<1> QED
  BY <1>1, StorageInvariant, PTL DEF Spec, CapacityKept

\* The rows of resource_versions, with their drafts, locks and threads, implement the promise
\* of docs/datasets.md: immutable versions, numbered in order, none of them lost or reused.
THEOREM VersionsImplementHistory == Spec => HistorySpec
<1>1. StorageInv /\ [Next]_vars => [Promise!Next]_<<History, ~dataset.exists>>
  BY HistoryStep
<1> QED
  BY <1>1, HistoryInit, StorageInvariant, PTL DEF Spec, HistorySpec, Promise!Spec, History
=============================================================================
