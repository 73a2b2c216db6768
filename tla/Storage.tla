------------------------------ MODULE Storage ------------------------------
(***************************************************************************)
(* The files of one dataset: chunked uploads (uploads.py), draft and       *)
(* numbered versions (resource_versions.py), the single-request upload     *)
(* (artifacts.py), the owner's quota (storage_quotas.py), and the removal  *)
(* of blobs (work_cleanup.py).                                             *)
(*                                                                         *)
(* Two stores must agree: rows in PostgreSQL and blobs and parts on disk.  *)
(* Requests that write the dataset or its versions hold the dataset row;   *)
(* assemblies run in background threads and hold the rows of their upload  *)
(* session, of the draft and, from the quota check on, of the owner.  A    *)
(* transaction is split where others can come between what it reads and    *)
(* its commit.                                                             *)
(*                                                                         *)
(* Every file has size 1 and travels as one chunk.                         *)
(***************************************************************************)
EXTENDS Integers, FiniteSets

CONSTANTS
    Sessions,       \* upload sessions ever created
    Assemblers,     \* background threads that assemble
    Paths,          \* file paths inside a version
    CsvPaths,       \* those that end in .csv
    None,           \* no session, no path
    MaxFiles,       \* bound: storage keys ever drawn
    MaxVersions,    \* bound: rows of resource_versions ever inserted
    Quotas,         \* quotas an administrator may set
    MaxOther,       \* bound: files of the owner's other datasets
    MaxActive,      \* UPLOAD_MAX_ACTIVE_SESSIONS
    MaxCrashes,     \* bound: restarts of the API process
    Budget,         \* bound: keys, versions, sessions and crashes together
    MaxInFlight,    \* bound: transactions and threads in progress at once
    Faults          \* "slow": an assembly may be silent for STALE_ASSEMBLY_SECONDS,
                    \* "digest": a file may fail its check, "rmtree": parts may stay

ASSUME StorageAssumption ==
    /\ IsFiniteSet(Sessions) /\ IsFiniteSet(Paths) /\ CsvPaths \subseteq Paths /\ CsvPaths # {}
    /\ None \notin Sessions \cup Paths
    /\ MaxFiles \in Nat \ {0} /\ MaxVersions \in Nat \ {0}
    /\ Quotas \subseteq Nat /\ Quotas # {}
    /\ MaxOther \in Nat /\ MaxActive \in Nat /\ MaxCrashes \in Nat
    /\ Budget \in Nat /\ MaxInFlight \in Nat
    /\ Faults \subseteq {"slow", "digest", "rmtree"}

Files == 1 .. MaxFiles          \* a stored_files row and the blob of the same key
NoFile == 0
Versions == 1 .. MaxVersions    \* rows, in the order of their ids
NoVersion == 0
FileSets == [Paths -> Files \cup {NoFile}]
NoFiles == [p \in Paths |-> NoFile]

VARIABLES
    version,    \* [Versions -> [status, number, files]]
    stored,     \* stored_files rows
    doomed,     \* work_file_deletions rows
    blobs,      \* files of DATA_DIR/uploads and DATA_DIR/artifacts
    keys,       \* storage keys drawn so far
    dataset,    \* [exists, path, key]: the row with its legacy primary CSV
    quota,      \* quota_bytes() of the owner
    other,      \* [charged, files]: what the owner stores elsewhere, and a request for more
    session,    \* [Sessions -> [status, version, path, received]]
    parts,      \* sessions whose part is on disk
    chunk,      \* [pc, session]: the PUT request of a chunk
    assembly,   \* [Assemblers -> ...]: assemble()
    request,    \* the request that holds the dataset row
    sweep,      \* expire_uploads()
    crashes,
    doubted     \* history: sessions declared interrupted while they were assembled

rows == <<version, stored, doomed, dataset, quota, other, session>>
disk == <<blobs, keys, parts>>
process == <<chunk, assembly, request, sweep>>
vars == <<rows, disk, process, crashes, doubted>>

VersionStatus == {"none", "draft", "published", "deleted", "gone"}
SessionStatus == {"none", "uploading", "assembling", "completed", "failed", "removed"}
Assembly == [pc : {"idle", "queued", "reading", "built", "attaching", "charged", "failing"},
             session : Sessions \cup {None}, file : Files \cup {NoFile},
             old : Files \cup {NoFile}, release : BOOLEAN]
Request == [op : {"idle", "create_session", "upload", "remove_draft_file", "discard", "remove"},
            session : Sessions \cup {None}, path : Paths \cup {None},
            file : Files \cup {NoFile}, seen : SUBSET Sessions]

NoAssembly == [pc |-> "idle", session |-> None, file |-> NoFile, old |-> NoFile, release |-> FALSE]
NoRequest == [op |-> "idle", session |-> None, path |-> None, file |-> NoFile, seen |-> {}]
NoChunk == [pc |-> "idle", session |-> None]
NoSweep == [to |-> "none", session |-> None]
NoSession == [status |-> "none", version |-> NoVersion, path |-> None, received |-> FALSE]
NoRow == [status |-> "none", number |-> 0, files |-> NoFiles]
-----------------------------------------------------------------------------
(* Queries.  Those of versions take the table, so that a transaction can   *)
(* look at what it is about to commit.                                     *)

Referenced(f, table) == \E v \in Versions, p \in Paths : table[v].files[p] = f

Draft == IF \E v \in Versions : version[v].status = "draft"
         THEN CHOOSE v \in Versions : version[v].status = "draft" ELSE NoVersion

PublishedIn(table) == {v \in Versions : table[v].status = "published"}

Latest(table) ==
    IF PublishedIn(table) = {} THEN NoVersion
    ELSE CHOOSE v \in PublishedIn(table) :
             \A w \in PublishedIn(table) : table[w].number <= table[v].number

(* Mutant: the number of a deleted version is free again. *)
NextNumberOfLive == 1 + Cardinality(PublishedIn(version))

(* Deleted versions keep their number, so it is never reused. *)
NextNumber == 1 + CHOOSE n \in 0 .. MaxVersions :
                      /\ \A v \in Versions : version[v].number <= n
                      /\ n = 0 \/ \E v \in Versions : version[v].number = n

FilesOf(table, v) == IF v = NoVersion THEN NoFiles ELSE table[v].files

FreshVersion(v) == version[v].status = "none" /\ \A w \in 1 .. v - 1 : version[w].status # "none"

Active == {s \in Sessions : session[s].status \in {"uploading", "assembling"}}

(* require_capacity(): room for one more file, next to what is reserved. *)
Fits(reserved) == Cardinality(stored) + other.files + Cardinality(reserved) + 1 <= quota

(* sync_primary(): the legacy fields follow a CSV of the latest version. *)
Primary(table) ==
    LET fs == FilesOf(table, Latest(table))
        choices == {p \in CsvPaths : fs[p] # NoFile}
        choice == IF dataset.path \in choices THEN dataset.path
                  ELSE CHOOSE p \in choices : TRUE
    IN IF choices = {} THEN [exists |-> TRUE, path |-> None, key |-> NoFile]
       ELSE [exists |-> TRUE, path |-> choice, key |-> fs[choice]]

(* Mutant: other versions may reference the file too. *)
ReleasableShared(fs, table, primary) == (fs \cap stored) \ {primary}

(* release_files(): those no version references any more.  With the dataset *)
(* its primary CSV is kept too.                                             *)
Releasable(fs, table, primary) ==
    {f \in fs \cap stored : ~Referenced(f, table) /\ f # primary}

MembersOf(vs) == {version[v].files[p] : v \in vs, p \in Paths}

FreshKey(f) == f \notin keys /\ \A g \in 1 .. f - 1 : g \in keys

(* The bounds.  What has been admitted finds a key and a row when it gets   *)
(* there, so no bound stops a thread half way.                              *)
Waiting == {a \in Assemblers : assembly[a].pc \in {"queued", "reading"}}
SpareKey == Cardinality(Waiting) < Cardinality(Files \ keys)
Spent == Cardinality(keys) + Cardinality(Waiting) + crashes
         + Cardinality({v \in Versions : version[v].status # "none"})
         + Cardinality({s \in Sessions : session[s].status # "none"})
         + (IF request.op \in {"create_session", "upload"} THEN 1 ELSE 0)
Room(n) == Spent + n <= Budget
MayStart == MaxInFlight > Cardinality({a \in Assemblers : assembly[a].pc # "idle"})
                          + (IF request = NoRequest THEN 0 ELSE 1)
                          + (IF other.charged THEN 1 ELSE 0)
                          + (IF chunk = NoChunk THEN 0 ELSE 1)
                          + (IF sweep = NoSweep THEN 0 ELSE 1)
-----------------------------------------------------------------------------
(* Row locks. *)

Attaching(a) == assembly[a].pc \in {"attaching", "charged"}

DatasetFree == request.op = "idle" /\ dataset.exists

SessionFree(s) == \A a \in Assemblers : assembly[a].session = s => ~Attaching(a)

VersionFree(v) == \A a \in Assemblers :
                      Attaching(a) => session[assembly[a].session].version # v

(* Mutant: require_capacity() does not lock the owner's row. *)
OwnerUnlocked == TRUE

OwnerFree ==
    /\ request.op \notin {"create_session", "upload"} /\ ~other.charged
    /\ \A a \in Assemblers : assembly[a].pc # "charged"
-----------------------------------------------------------------------------
Init ==
    /\ \/ version = [v \in Versions |-> IF v = 1 THEN [NoRow EXCEPT !.status = "draft"] ELSE NoRow]
          /\ stored = {} /\ dataset = [exists |-> TRUE, path |-> None, key |-> NoFile]
       \/ \E p \in CsvPaths :
             /\ version = [v \in Versions |->
                              IF v = 1 THEN [status |-> "published", number |-> 1,
                                             files |-> [NoFiles EXCEPT ![p] = 1]]
                              ELSE NoRow]
             /\ stored = {1} /\ dataset = [exists |-> TRUE, path |-> p, key |-> 1]
    /\ blobs = stored /\ keys = stored /\ doomed = {}
    /\ other = [charged |-> FALSE, files |-> 0]
    /\ quota \in {q \in Quotas : Cardinality(stored) <= q}
    /\ session = [s \in Sessions |-> NoSession]
    /\ parts = {} /\ chunk = NoChunk
    /\ assembly = [a \in Assemblers |-> NoAssembly]
    /\ request = NoRequest /\ sweep = NoSweep
    /\ crashes = 0 /\ doubted = {}
-----------------------------------------------------------------------------
(* Drafts and versions. *)

(* start_draft(), create_draft() *)
CreateDraft(v, carryOver) ==
    /\ DatasetFree /\ Draft = NoVersion /\ FreshVersion(v) /\ Room(1)
    /\ version' = [version EXCEPT ![v] =
           [status |-> "draft", number |-> 0,
            files |-> IF carryOver THEN FilesOf(version, Latest(version)) ELSE NoFiles]]
    /\ UNCHANGED <<stored, doomed, dataset, quota, other, session, disk, process,
                   crashes, doubted>>

(* publish(), publish_draft() *)
PublishDraft ==
    /\ DatasetFree /\ Draft # NoVersion
    /\ \A s \in Active : session[s].version # Draft
    /\ version[Draft].files # NoFiles
    /\ version' = [version EXCEPT ![Draft].status = "published", ![Draft].number = NextNumber]
    /\ dataset' = Primary(version')
    /\ UNCHANGED <<stored, doomed, quota, other, session, disk, process, crashes, doubted>>

(* Mutant: the legacy fields stay as they are. *)
DeleteVersionUnsynced(v) ==
    LET table == [version EXCEPT ![v].status = "deleted", ![v].files = NoFiles]
        gone == Releasable(MembersOf({v}), table, dataset.key)
    IN /\ DatasetFree /\ version[v].status = "published"
       /\ PublishedIn(version) # {v}
       /\ version' = table
       /\ stored' = stored \ gone /\ doomed' = doomed \cup gone
       /\ UNCHANGED <<dataset, quota, other, session, disk, process, crashes, doubted>>

(* remove_version(), delete_version() *)
DeleteVersion(v) ==
    LET table == [version EXCEPT ![v].status = "deleted", ![v].files = NoFiles]
        gone == Releasable(MembersOf({v}), table, Primary(table).key)
    IN /\ DatasetFree /\ version[v].status = "published"
       /\ PublishedIn(version) # {v}
       /\ version' = table
       /\ dataset' = Primary(table)
       /\ stored' = stored \ gone /\ doomed' = doomed \cup gone
       /\ UNCHANGED <<quota, other, session, disk, process, crashes, doubted>>

(* remove_draft_file(): the member is read, then its row and the draft's are *)
(* written, which waits for an assembly that holds the draft.                *)
RemoveFileRead(p) ==
    /\ DatasetFree /\ Draft # NoVersion /\ MayStart
    /\ version[Draft].files[p] # NoFile
    /\ request' = [NoRequest EXCEPT !.op = "remove_draft_file", !.path = p,
                                    !.file = version[Draft].files[p]]
    /\ UNCHANGED <<rows, disk, chunk, assembly, sweep, crashes, doubted>>

RemoveFileCommit ==
    LET table == [version EXCEPT ![Draft].files[request.path] = NoFile]
        gone == Releasable({request.file}, table, dataset.key)
    IN /\ request.op = "remove_draft_file" /\ VersionFree(Draft)
       /\ version' = table
       /\ stored' = stored \ gone /\ doomed' = doomed \cup gone
       /\ request' = NoRequest
       /\ UNCHANGED <<dataset, quota, other, session, disk, chunk, assembly, sweep,
                      crashes, doubted>>

(* remove_parts(): errors are ignored, and the process may end before it. *)
RemoveParts(ss) ==
    \E left \in SUBSET (ss \cap parts) :
        /\ "rmtree" \in Faults \/ left = {}
        /\ parts' = parts \ (ss \ left)

(* drop_sessions(): refuses while one is assembling; the parts go at once,  *)
(* the rows with the transaction.                                           *)
DropSessions(op, vs) ==
    LET seen == {s \in Sessions : session[s].version \in vs
                                  /\ session[s].status \notin {"none", "removed"}}
    IN /\ DatasetFree /\ MayStart
       /\ \A s \in seen : session[s].status # "assembling"
       /\ RemoveParts(seen)
       /\ request' = [NoRequest EXCEPT !.op = op, !.seen = seen]
       /\ UNCHANGED <<rows, blobs, keys, chunk, assembly, sweep, crashes, doubted>>

Dropped == [s \in Sessions |->
               IF s \in request.seen THEN [session[s] EXCEPT !.status = "removed"]
               ELSE session[s]]

(* discard(), discard_draft() *)
DiscardRead == Draft # NoVersion /\ DropSessions("discard", {Draft})

DiscardCommit ==
    LET table == [version EXCEPT ![Draft] = [NoRow EXCEPT !.status = "gone"]]
        gone == Releasable(MembersOf({Draft}), table, dataset.key)
    IN /\ request.op = "discard"
       /\ VersionFree(Draft) /\ \A s \in request.seen : SessionFree(s)
       /\ version' = table /\ session' = Dropped
       /\ stored' = stored \ gone /\ doomed' = doomed \cup gone
       /\ request' = NoRequest
       /\ UNCHANGED <<dataset, quota, other, disk, chunk, assembly, sweep, crashes,
                      doubted>>

(* remove_work() of a dataset, delete_resource_versions() *)
RemoveRead == DropSessions("remove", Versions)

RemoveCommit ==
    LET table == [v \in Versions |->
                     IF version[v].status = "none" THEN version[v]
                     ELSE [version[v] EXCEPT !.status = "gone", !.files = NoFiles]]
        gone == Releasable(MembersOf(Versions), table, NoFile)
    IN /\ request.op = "remove"
       /\ \A s \in request.seen : SessionFree(s)
       /\ \A v \in Versions : VersionFree(v)
       /\ version' = table /\ session' = Dropped
       /\ stored' = stored \ gone
       /\ doomed' = doomed \cup gone \cup ({dataset.key} \ {NoFile})
       /\ dataset' = [exists |-> FALSE, path |-> None, key |-> NoFile]
       /\ request' = NoRequest
       /\ UNCHANGED <<quota, other, disk, chunk, assembly, sweep, crashes, doubted>>

(* upload() of artifacts.py: the blob is in place before the rows are; the  *)
(* file becomes the next version together with the files of the latest.     *)
UploadCharge(p, f) ==
    /\ DatasetFree /\ OwnerFree /\ Fits(Active) /\ MayStart
    /\ FreshKey(f) /\ SpareKey /\ version[MaxVersions].status = "none" /\ Room(2)
    /\ keys' = keys \cup {f} /\ blobs' = blobs \cup {f}
    /\ request' = [NoRequest EXCEPT !.op = "upload", !.path = p, !.file = f]
    /\ UNCHANGED <<rows, parts, chunk, assembly, sweep, crashes, doubted>>

UploadCommit(v) ==
    /\ request.op = "upload" /\ FreshVersion(v)
    /\ version' = [version EXCEPT ![v] =
           [status |-> "published", number |-> NextNumber,
            files |-> [FilesOf(version, Latest(version)) EXCEPT ![request.path] = request.file]]]
    /\ stored' = stored \cup {request.file}
    /\ dataset' = Primary(version')
    /\ request' = NoRequest
    /\ UNCHANGED <<doomed, quota, other, session, disk, chunk, assembly, sweep,
                   crashes, doubted>>

UploadFails ==
    /\ request.op = "upload"
    /\ blobs' = blobs \ {request.file}
    /\ request' = NoRequest
    /\ UNCHANGED <<rows, keys, parts, chunk, assembly, sweep, crashes, doubted>>

(* set_quota(): under the lock of the owner's row.  The quota here is one   *)
(* that was set for the owner: the default of all others is a site setting, *)
(* which changes without that lock.                                         *)
SetQuota(q) ==
    /\ OwnerFree /\ q # quota
    /\ quota' = q
    /\ UNCHANGED <<version, stored, doomed, dataset, other, session, disk, process,
                   crashes, doubted>>

(* Another dataset of the owner, uploaded in one request (upload_dataset()   *)
(* of main.py) or deleted: what meets this one is the owner's row.          *)
OtherCharge ==
    /\ OwnerFree /\ Fits(Active) /\ other.files < MaxOther /\ MayStart
    /\ other' = [other EXCEPT !.charged = TRUE]
    /\ UNCHANGED <<version, stored, doomed, dataset, quota, session, disk, process,
                   crashes, doubted>>

OtherEnds(files) ==
    /\ \/ other.charged /\ files \in {other.files, other.files + 1}
       \/ ~other.charged /\ files = other.files - 1 /\ files >= 0
    /\ other' = [charged |-> FALSE, files |-> files]
    /\ UNCHANGED <<version, stored, doomed, dataset, quota, session, disk, process,
                   crashes, doubted>>
-----------------------------------------------------------------------------
(* Upload sessions. *)

(* create_session(): dataset row, checks, owner row; then the insert, whose  *)
(* foreign key waits for an assembly that holds the draft.                   *)
CreateSessionCharge(s, p) ==
    /\ DatasetFree /\ Draft # NoVersion
    /\ session[s].status = "none" /\ Room(1)
    /\ Cardinality(Active) < MaxActive
    /\ OwnerFree /\ Fits(Active) /\ MayStart
    /\ request' = [NoRequest EXCEPT !.op = "create_session", !.session = s, !.path = p]
    /\ UNCHANGED <<rows, disk, chunk, assembly, sweep, crashes, doubted>>

CreateSessionCommit ==
    /\ request.op = "create_session" /\ VersionFree(Draft)
    /\ session' = [session EXCEPT ![request.session] =
           [status |-> "uploading", version |-> Draft, path |-> request.path, received |-> FALSE]]
    /\ request' = NoRequest
    /\ UNCHANGED <<version, stored, doomed, dataset, quota, other, disk, chunk,
                   assembly, sweep, crashes, doubted>>

(* upload_chunk(): the status is checked before the body arrives and again, *)
(* under the lock of the session, after the part was written.               *)
ChunkBegin(s) ==
    /\ chunk = NoChunk /\ MayStart /\ session[s].status = "uploading"
    /\ chunk' = [pc |-> "streaming", session |-> s]
    /\ UNCHANGED <<rows, disk, assembly, request, sweep, crashes, doubted>>

ChunkRefused ==
    /\ chunk.pc = "streaming"
    /\ chunk' = NoChunk
    /\ UNCHANGED <<rows, disk, assembly, request, sweep, crashes, doubted>>

WritePart ==
    /\ chunk.pc = "streaming"
    /\ parts' = parts \cup {chunk.session}
    /\ chunk' = [chunk EXCEPT !.pc = "written"]
    /\ UNCHANGED <<rows, blobs, keys, assembly, request, sweep, crashes, doubted>>

ChunkCommit ==
    /\ chunk.pc = "written" /\ SessionFree(chunk.session)
    /\ session' = IF session[chunk.session].status = "uploading"
                  THEN [session EXCEPT ![chunk.session].received = TRUE] ELSE session
    /\ chunk' = NoChunk
    /\ UNCHANGED <<version, stored, doomed, dataset, quota, other, disk, assembly,
                   request, sweep,
                   crashes, doubted>>

(* complete() *)
Complete(s, a) ==
    /\ SessionFree(s) /\ OwnerFree
    /\ session[s].status = "uploading" /\ session[s].received
    /\ version[session[s].version].status = "draft"
    /\ Fits({})
    /\ assembly[a].pc = "idle" /\ SpareKey /\ Room(1) /\ MayStart
    /\ session' = [session EXCEPT ![s].status = "assembling"]
    /\ assembly' = [assembly EXCEPT ![a] = [NoAssembly EXCEPT !.pc = "queued", !.session = s]]
    /\ UNCHANGED <<version, stored, doomed, dataset, quota, other, disk, chunk,
                   request, sweep, crashes, doubted>>

(* abort() *)
Abort(s) ==
    /\ SessionFree(s)
    /\ session[s].status \in {"uploading", "completed", "failed"}
    /\ session' = [session EXCEPT ![s].status = "removed"]
    /\ RemoveParts({s})
    /\ UNCHANGED <<version, stored, doomed, dataset, quota, other, blobs, keys, chunk,
                   assembly, request,
                   sweep, crashes, doubted>>

-----------------------------------------------------------------------------
(* assemble(), in a background thread. *)

Goto(a, pc) == assembly' = [assembly EXCEPT ![a].pc = pc]

AssembleBegin(a) ==
    /\ assembly[a].pc = "queued"
    /\ assembly' = [assembly EXCEPT ![a] =
           IF session[@.session].status = "assembling" THEN [@ EXCEPT !.pc = "reading"]
           ELSE NoAssembly]
    /\ UNCHANGED <<rows, disk, chunk, request, sweep, crashes, doubted>>

(* The parts are read into a hidden file, verified, and renamed into place. *)
Build(a, f) ==
    /\ assembly[a].pc = "reading" /\ assembly[a].session \in parts
    /\ FreshKey(f)
    /\ keys' = keys \cup {f} /\ blobs' = blobs \cup {f}
    /\ assembly' = [assembly EXCEPT ![a].pc = "built", ![a].file = f]
    /\ UNCHANGED <<rows, parts, chunk, request, sweep, crashes, doubted>>

(* A part is missing, the disk is full, or a digest does not match. *)
BuildFails(a) ==
    /\ assembly[a].pc = "reading"
    /\ "digest" \in Faults \/ assembly[a].session \notin parts
    /\ Goto(a, "failing")
    /\ UNCHANGED <<rows, disk, chunk, request, sweep, crashes, doubted>>

Unlink(a) == blobs' = blobs \ {assembly[a].file} /\ Goto(a, "failing")

(* Mutant: the blob stays when the draft has gone. *)
LockRowsLeavesBlob(a) ==
    LET s == assembly[a].session
    IN /\ assembly[a].pc = "built" /\ SessionFree(s)
       /\ session[s].status = "removed" \/ VersionFree(session[s].version)
       /\ Goto(a, IF /\ session[s].status = "assembling"
                     /\ version[session[s].version].status = "draft"
                  THEN "attaching" ELSE "failing")
       /\ UNCHANGED <<rows, disk, chunk, request, sweep, crashes, doubted>>

(* The rows of the session and of the draft, and what became of them. *)
LockRows(a) ==
    LET s == assembly[a].session
    IN /\ assembly[a].pc = "built" /\ SessionFree(s)
       /\ session[s].status = "removed" \/ VersionFree(session[s].version)
       /\ IF /\ session[s].status = "assembling"
             /\ version[session[s].version].status = "draft"
          THEN Goto(a, "attaching") /\ UNCHANGED blobs
          ELSE Unlink(a)
       /\ UNCHANGED <<rows, keys, parts, chunk, request, sweep, crashes, doubted>>

(* The owner's row and the quota; then attach_file() finds what is replaced *)
(* at the path and whether another version still needs it.                  *)
Charge(a) ==
    LET s == assembly[a].session
        v == session[s].version
        old == version[v].files[session[s].path]
        table == [version EXCEPT ![v].files[session[s].path] = assembly[a].file]
    IN /\ assembly[a].pc = "attaching" /\ OwnerFree
       /\ IF Fits({})
          THEN /\ assembly' = [assembly EXCEPT
                      ![a].pc = "charged", ![a].old = old,
                      ![a].release = old \in Releasable({old}, table, dataset.key)]
               /\ UNCHANGED blobs
          ELSE Unlink(a)
       /\ UNCHANGED <<rows, keys, parts, chunk, request, sweep, crashes, doubted>>

AttachCommit(a) ==
    LET s == assembly[a].session
        gone == IF assembly[a].release THEN {assembly[a].old} ELSE {}
    IN /\ assembly[a].pc = "charged"
       /\ version' = [version EXCEPT ![session[s].version].files[session[s].path] =
                         assembly[a].file]
       /\ stored' = (stored \cup {assembly[a].file}) \ gone
       /\ doomed' = doomed \cup gone
       /\ session' = [session EXCEPT ![s].status = "completed"]
       /\ assembly' = [assembly EXCEPT ![a] = NoAssembly]
       /\ RemoveParts({s})
       /\ UNCHANGED <<dataset, quota, other, blobs, keys, chunk, request, sweep,
                      crashes, doubted>>

(* fail() *)
Fail(a) ==
    LET s == assembly[a].session
    IN /\ assembly[a].pc = "failing" /\ SessionFree(s)
       /\ session' = IF session[s].status = "removed" THEN session
                     ELSE [session EXCEPT ![s].status = "failed", ![s].received = FALSE]
       /\ assembly' = [assembly EXCEPT ![a] = NoAssembly]
       /\ RemoveParts({s})
       /\ UNCHANGED <<version, stored, doomed, dataset, quota, other, blobs, keys,
                      chunk, request, sweep,
                      crashes, doubted>>

(* A session insert holds the owner and wants the draft, a removed member   *)
(* is locked and its draft is wanted: the assembly holds the draft and      *)
(* wants what they hold.  PostgreSQL ends either transaction.               *)
Deadlocked(a) ==
    /\ assembly[a].pc = "attaching"
    /\ \/ request.op = "create_session"
       \/ /\ request.op = "remove_draft_file"
          /\ request.path = session[assembly[a].session].path

DeadlockFailsAssembly(a) ==
    /\ Deadlocked(a)
    /\ Unlink(a)
    /\ UNCHANGED <<rows, keys, parts, chunk, request, sweep, crashes, doubted>>

DeadlockFailsRequest(a) ==
    /\ Deadlocked(a)
    /\ request' = NoRequest
    /\ UNCHANGED <<rows, disk, chunk, assembly, sweep, crashes, doubted>>
-----------------------------------------------------------------------------
(* The background loops, and restarts. *)

Running(s) == \E a \in Assemblers : assembly[a].session = s

(* Mutant: interrupted assemblies are not recovered. *)
SweepSelectExpired(s, to) ==
    /\ sweep = NoSweep
    /\ to = "removed" /\ session[s].status \in {"uploading", "completed", "failed"}
    /\ MayStart /\ ~Running(s) /\ chunk.session # s
    /\ sweep' = [to |-> to, session |-> s]
    /\ UNCHANGED <<rows, disk, chunk, assembly, request, crashes, doubted>>

(* expire_uploads(): what is stale or expired is selected, then written.  A  *)
(* session is idle for hours before it expires, so no chunk is on its way.   *)
SweepSelect(s, to) ==
    /\ sweep = NoSweep
    /\ \/ /\ to = "uploading" /\ session[s].status = "assembling"
          /\ ~Running(s) \/ "slow" \in Faults
       \/ /\ to = "removed" /\ session[s].status \in {"uploading", "completed", "failed"}
          /\ MayStart /\ ~Running(s) /\ chunk.session # s
    /\ sweep' = [to |-> to, session |-> s]
    /\ doubted' = IF to = "uploading" /\ Running(s) THEN doubted \cup {s} ELSE doubted
    /\ UNCHANGED <<rows, disk, chunk, assembly, request, crashes>>

SweepCommit ==
    LET s == sweep.session
    IN /\ sweep # NoSweep /\ SessionFree(s)
       /\ session' = IF session[s].status = "removed" THEN session
                     ELSE [session EXCEPT ![s].status = sweep.to]
       /\ IF sweep.to = "removed" THEN RemoveParts({s}) ELSE UNCHANGED parts
       /\ sweep' = NoSweep
       /\ UNCHANGED <<version, stored, doomed, dataset, quota, other, blobs, keys,
                      chunk, assembly,
                      request, crashes, doubted>>

(* A part folder without a session, older than the sessions may get. *)
SweepOrphan(s) ==
    /\ s \in parts /\ session[s].status = "removed" /\ chunk.session # s
    /\ parts' = parts \ {s}
    /\ UNCHANGED <<rows, blobs, keys, process, crashes, doubted>>

(* remove_work_file(): the file, then the row; again after a crash. *)
CleanupUnlink(f) ==
    /\ f \in doomed \cap blobs
    /\ blobs' = blobs \ {f}
    /\ UNCHANGED <<rows, keys, parts, process, crashes, doubted>>

(* Mutant: the row goes with a file that is there, and stays without one. *)
CleanupCommitPresent(f) ==
    /\ f \in doomed \cap blobs
    /\ doomed' = doomed \ {f}
    /\ UNCHANGED <<version, stored, dataset, quota, other, session, disk, process,
                   crashes, doubted>>

CleanupCommit(f) ==
    /\ f \in doomed \ blobs
    /\ doomed' = doomed \ {f}
    /\ UNCHANGED <<version, stored, dataset, quota, other, session, disk, process,
                   crashes, doubted>>

(* The API process restarts: transactions roll back, threads are gone. *)
Crash ==
    /\ crashes < MaxCrashes /\ Room(1)
    /\ crashes' = crashes + 1
    /\ chunk' = NoChunk
    /\ assembly' = [a \in Assemblers |-> NoAssembly]
    /\ request' = NoRequest /\ sweep' = NoSweep
    /\ other' = [other EXCEPT !.charged = FALSE]
    /\ UNCHANGED <<version, stored, doomed, dataset, quota, session, disk, doubted>>
-----------------------------------------------------------------------------
AssemblerStep(a) ==
    \/ AssembleBegin(a) \/ (\E f \in Files : Build(a, f)) \/ BuildFails(a)
    \/ LockRows(a) \/ Charge(a) \/ AttachCommit(a) \/ Fail(a)
    \/ DeadlockFailsAssembly(a)

RequestStep ==
    \/ RemoveFileCommit \/ DiscardCommit \/ RemoveCommit \/ UploadFails \/ CreateSessionCommit
    \/ \E v \in Versions : UploadCommit(v)
    \/ \E a \in Assemblers : DeadlockFailsRequest(a)
    \/ \E n \in 0 .. MaxOther : OtherEnds(n)

ChunkStep == ChunkRefused \/ WritePart \/ ChunkCommit

Receive ==
    \/ \E v \in Versions, carryOver \in BOOLEAN : CreateDraft(v, carryOver)
    \/ PublishDraft \/ DiscardRead \/ RemoveRead
    \/ \E v \in Versions : DeleteVersion(v)
    \/ \E p \in Paths : RemoveFileRead(p) \/ \E f \in Files : UploadCharge(p, f)
    \/ OtherCharge \/ \E q \in Quotas : SetQuota(q)
    \/ \E s \in Sessions :
          \/ \E p \in Paths : CreateSessionCharge(s, p)
          \/ ChunkBegin(s) \/ Abort(s)
          \/ \E a \in Assemblers : Complete(s, a)

SweepStep ==
    \/ \E s \in Sessions, to \in {"uploading", "removed"} : SweepSelect(s, to)
    \/ SweepCommit

Next ==
    \/ Receive \/ RequestStep \/ SweepStep \/ Crash
    \/ \E a \in Assemblers : AssemblerStep(a)
    \/ ChunkStep \/ \E s \in Sessions : SweepOrphan(s)
    \/ \E f \in Files : CleanupUnlink(f) \/ CleanupCommit(f)

Spec == Init /\ [][Next]_vars
-----------------------------------------------------------------------------
TypeOK ==
    /\ version \in [Versions -> [status : VersionStatus, number : 0 .. MaxVersions,
                                 files : FileSets]]
    /\ stored \subseteq Files /\ doomed \subseteq Files
    /\ blobs \subseteq Files /\ keys \subseteq Files
    /\ dataset \in [exists : BOOLEAN, path : Paths \cup {None}, key : Files \cup {NoFile}]
    /\ quota \in Quotas
    /\ other \in [charged : BOOLEAN, files : 0 .. MaxOther]
    /\ session \in [Sessions -> [status : SessionStatus, version : Versions \cup {NoVersion},
                                 path : Paths \cup {None}, received : BOOLEAN]]
    /\ parts \subseteq Sessions
    /\ chunk \in [pc : {"idle", "streaming", "written"}, session : Sessions \cup {None}]
    /\ assembly \in [Assemblers -> Assembly]
    /\ request \in Request
    /\ sweep \in [to : {"none", "uploading", "removed"}, session : Sessions \cup {None}]
    /\ crashes \in 0 .. MaxCrashes
    /\ doubted \subseteq Sessions

(* A file of a draft or a published version can be read: its row and its    *)
(* blob are there and nobody is going to delete it, whatever was replaced,  *)
(* released, withdrawn or carried over at the same time.                    *)
FilesReadable ==
    \A v \in Versions, p \in Paths :
        LET f == version[v].files[p]
        IN f # NoFile => f \in stored \cap blobs /\ f \notin doomed

(* Numbered versions keep the promise of VersionHistory.                    *)
Numbered(n) == {v \in Versions : version[v].number = n}
Snapshot(v) == [state |-> version[v].status, files |-> version[v].files]
Promise == INSTANCE VersionHistory WITH
    MaxNumber <- MaxVersions,
    history <- [n \in 1 .. MaxVersions |->
                   IF dataset.exists /\ Numbered(n) # {}
                   THEN Snapshot(CHOOSE v \in Numbered(n) : TRUE)
                   ELSE [state |-> "unused", files |-> NoFiles]],
    removed <- ~dataset.exists
HistorySpec == Promise!Spec

(* Files, and what unfinished uploads have reserved, only grow within the   *)
(* quota of the moment: a request for this dataset, one for another and an  *)
(* assembly cannot take the same free space.  A session that was declared   *)
(* interrupted while it was assembled may be counted twice.  (Under a site  *)
(* default that is lowered meanwhile, the quota is the one a request read.) *)
Kept == Cardinality(stored) + other.files
Reserved == Kept + Cardinality(Active)
CapacityKept ==
    [][/\ Kept' > Kept => Kept' <= quota
       /\ doubted = {} /\ Reserved' > Reserved => Reserved' <= quota]_vars

(* The legacy fields of the dataset name a CSV of the latest version, and   *)
(* nothing only if it has none, so old links read the latest data.          *)
PrimaryCurrent ==
    dataset.exists =>
        LET fs == FilesOf(version, Latest(version))
        IN IF dataset.key = NoFile THEN \A p \in CsvPaths : fs[p] = NoFile
           ELSE dataset.path \in CsvPaths /\ fs[dataset.path] = dataset.key

(* An unfinished upload still has a draft to go into: no draft is published *)
(* or discarded over it.                                                    *)
ActiveIntoDraft ==
    \A s \in Active \ doubted : version[session[s].version].status = "draft"

(* Versions have their files, and uploads their drafts.                     *)
VersionsWhole == TypeOK /\ FilesReadable /\ ActiveIntoDraft

(* An upload that was reported completed is not reported otherwise later,   *)
(* unless it was declared interrupted while it was assembled.               *)
CompletedStays ==
    [][\A s \in Sessions \ doubted :
          session[s].status = "completed" =>
              session'[s].status \in {"completed", "removed"}]_vars

(* While the process lives, no blob is left that neither a row nor a thread *)
(* knows of.                                                                *)
BlobsAccounted ==
    crashes = 0 =>
        blobs \subseteq stored \cup doomed
            \cup {request.file} \cup {assembly[a].file : a \in Assemblers}

(* Every stored file that counts against the quota belongs to a version     *)
(* (docs/datasets.md: deleting frees "the space of blobs no remaining       *)
(* version uses").                                                          *)
SpaceFreed == \A f \in stored : Referenced(f, version)
-----------------------------------------------------------------------------
(* A thread, a request that is being served and the loops of the API        *)
(* process go on.  PostgreSQL queues those that wait for a row, so a thread *)
(* gets the rows that others take and give back (SF); a pass of the sweep   *)
(* takes every stale session, here one after the other (SF).  Nobody has to *)
(* send a request or to finish an upload.                                   *)
FairSpec ==
    /\ Spec
    /\ \A a \in Assemblers : SF_vars(AssemblerStep(a))
    /\ WF_vars(RequestStep) /\ WF_vars(ChunkStep) /\ WF_vars(SweepCommit)
    /\ \A s \in Sessions : SF_vars(SweepSelect(s, "uploading")) /\ WF_vars(SweepOrphan(s))
    /\ \A f \in Files : WF_vars(CleanupUnlink(f)) /\ WF_vars(CleanupCommit(f))

(* An assembly does not last for ever: it completes, fails, or is given     *)
(* back after a restart.                                                    *)
AssemblyEnds ==
    \A s \in Sessions : session[s].status = "assembling" ~> session[s].status # "assembling"

(* A file whose deletion was recorded goes, with the record.                *)
DeletedFilesGo == \A f \in Files : f \in doomed ~> f \notin doomed \cup blobs

(* The parts of a removed session go, even those written after its removal. *)
PartsGo == \A s \in Sessions : session[s].status = "removed" ~> s \notin parts

(* Uploads come to an end, and stay completed.                              *)
UploadsSettle == CompletedStays /\ AssemblyEnds

(* What was deleted goes from disk.                                         *)
CleanupEnds == DeletedFilesGo /\ PartsGo
=============================================================================
