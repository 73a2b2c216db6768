------------------------------- MODULE Inputs -------------------------------
(***************************************************************************)
(* Inputs of notebooks: a dataset with numbered versions, the reference to *)
(* it in somebody else's notebook, and its staging for an interactive      *)
(* kernel and for a background run (input_sources.py, notebook_editor.py,  *)
(* notebook_files.py, isolated_runner.py, dataset_access.py).              *)
(*                                                                         *)
(* The kernel's side is one coroutine at a time, under the lock of its     *)
(* user, with an await before each file; the run is staged by the worker,  *)
(* another process.  The owner of the dataset publishes and deletes        *)
(* versions, changes who may read it and deletes it at any time.  Uploads  *)
(* and drafts are in Storage; moderation and the copies that a kernel of   *)
(* the older layout keeps in the root folder are left out.                 *)
(***************************************************************************)
EXTENDS Naturals, FiniteSets, Sequences

CONSTANTS
    Files,            \* paths in a version
    InteractiveFiles, \* larger versions are not copied for a kernel (INTERACTIVE_FILES)
    MaxVersions       \* bound on versions of the dataset

InputsAssumption == InteractiveFiles \in Nat /\ MaxVersions \in Nat \ {0}

VARIABLES
    versions,   \* the published and deleted versions, by number
    blobs,      \* stored files: <<path, version it was uploaded for>>
    access,     \* "open" to the notebook's owner (public, or shared with them), "private", "deleted"
    tab,        \* the reference in the open editor
    document,   \* the reference in the saved notebook
    folder,     \* input/<source>/ of the notebook: path -> stored file
    kernel,     \* the notebook has a kernel
    editor,     \* the request under the user's lock
    job         \* the background run

vars == <<versions, blobs, access, tab, document, folder, kernel, editor, job>>

\* The files of a version: for each of its paths, the upload it was carried over from.
Listings == UNION {[F -> 1 .. MaxVersions] : F \in SUBSET Files}

Empty == [f \in {} |-> 0]

\* A reference of format 3: a pinned number, or 0 to follow the latest, and the files
\* that were listed when it was attached.
Unattached == [version |-> MaxVersions + 1, files |-> Empty]

References == [version : 0 .. MaxVersions + 1, files : Listings]

Idle == [pc |-> "idle", ref |-> Unattached, files |-> Empty, todo |-> {}]

TypeOK ==
    /\ versions \in Seq([status : {"published", "deleted"}, files : Listings])
    /\ Len(versions) <= MaxVersions
    /\ blobs \subseteq Files \X (1 .. MaxVersions)
    /\ access \in {"open", "private", "deleted"}
    /\ tab \in References /\ document \in References
    /\ folder \in Listings
    /\ kernel \in BOOLEAN
    /\ editor \in [pc : {"idle", "attach", "start", "remove"}, ref : References,
                   files : Listings, todo : SUBSET Files]
    /\ job \in [pc : {"idle", "queued", "staging", "executing"}, ref : References,
                files : Listings, todo : SUBSET Files]

Init ==
    /\ \E F \in SUBSET Files \ {{}} :
           /\ versions = <<[status |-> "published", files |-> [f \in F |-> 1]]>>
           /\ blobs = F \X {1}
    /\ access = "open"
    /\ tab = Unattached /\ document = Unattached
    /\ folder = Empty
    /\ kernel = FALSE
    /\ editor = Idle /\ job = Idle

-----------------------------------------------------------------------------
(* The dataset.                                                            *)

Published == {k \in DOMAIN versions : versions[k].status = "published"}

Latest == CHOOSE k \in Published : \A j \in Published : j <= k

Stored(files) == {<<f, files[f]>> : f \in DOMAIN files}

\* A draft that carries over the latest version's files, without some and with new ones.
PublishVersion ==
    /\ access # "deleted"
    /\ Len(versions) < MaxVersions
    /\ \E kept \in SUBSET DOMAIN versions[Latest].files, new \in SUBSET Files :
           LET files == [f \in kept \cup new |->
                            IF f \in new THEN Len(versions) + 1 ELSE versions[Latest].files[f]]
           IN /\ kept \cup new # {}
              /\ versions' = Append(versions, [status |-> "published", files |-> files])
              /\ blobs' = blobs \cup Stored(files)
    /\ UNCHANGED <<access, tab, document, folder, kernel, editor, job>>

\* Mutant: the row goes, and the next version gets its number.
DeleteVersionRow ==
    /\ access # "deleted"
    /\ Published # {Latest}
    /\ Latest = Len(versions)
    /\ versions' = SubSeq(versions, 1, Latest - 1)
    /\ UNCHANGED <<blobs, access, tab, document, folder, kernel, editor, job>>

\* The row stays; another version must be left.
DeleteVersion ==
    /\ access # "deleted"
    /\ \E k \in Published :
           /\ Published # {k}
           /\ versions' = [versions EXCEPT ![k].status = "deleted"]
    /\ UNCHANGED <<blobs, access, tab, document, folder, kernel, editor, job>>

\* change_access(), share() and revoke()
ChangeAccess ==
    /\ access # "deleted"
    /\ access' \in {"open", "private"} \ {access}
    /\ UNCHANGED <<versions, blobs, tab, document, folder, kernel, editor, job>>

DeleteDataset ==
    /\ access # "deleted"
    /\ access' = "deleted"
    /\ versions' = [k \in DOMAIN versions |-> [versions[k] EXCEPT !.status = "deleted"]]
    /\ UNCHANGED <<blobs, tab, document, folder, kernel, editor, job>>

\* The cleanup removes what no version has any more, some time after the commit.
Sweep ==
    /\ \E blob \in blobs \ UNION {Stored(versions[k].files) : k \in Published} :
           blobs' = blobs \ {blob}
    /\ UNCHANGED <<versions, access, tab, document, folder, kernel, editor, job>>

-----------------------------------------------------------------------------
(* Resolving a reference.                                                  *)

Readable == access = "open"

\* versioned_source(): a number is that version or nothing, other references are the latest.
Chosen(version) == IF version \in 1 .. MaxVersions THEN {version} \cap Published
                   ELSE IF Published = {} THEN {} ELSE {Latest}

Resolved(version) == IF Readable THEN Chosen(version) ELSE {}

Interactive(files) == Cardinality(DOMAIN files) <= InteractiveFiles

\* What materialize() copies
Copied(files) == IF Interactive(files) THEN DOMAIN files ELSE {}

-----------------------------------------------------------------------------
(* The editor.                                                             *)

Begin(pc, ref, files, todo) ==
    /\ editor.pc = "idle"
    /\ editor' = [pc |-> pc, ref |-> ref, files |-> files, todo |-> todo]

\* attach_source(): the newest version pinned, a chosen one, or the latest from now on
Attach ==
    /\ \E version \in 1 .. MaxVersions + 1, follow \in BOOLEAN :
           \E k \in Resolved(version) :
               LET files == versions[k].files IN
               Begin("attach", [version |-> IF follow THEN 0 ELSE k, files |-> files],
                     files, Copied(files))
    /\ UNCHANGED <<versions, blobs, access, tab, document, folder, kernel, job>>

\* kernel_for(), without a kernel: the saved document's inputs are staged first.
StartKernel ==
    /\ ~kernel
    /\ IF document = Unattached
       THEN Begin("start", Unattached, Empty, {})
       ELSE \E k \in Resolved(document.version) :
                Begin("start", document, versions[k].files, Copied(versions[k].files))
    /\ UNCHANGED <<versions, blobs, access, tab, document, folder, kernel, job>>

\* remove_source() goes by the files that the reference in the editor lists.
RemoveSource ==
    /\ tab # Unattached
    /\ Begin("remove", tab, tab.files, DOMAIN tab.files)
    /\ UNCHANGED <<versions, blobs, access, tab, document, folder, kernel, job>>

Overwrite(old, f, value) ==
    [g \in DOMAIN old \cup {f} |-> IF g = f THEN value ELSE old[g]]

\* materialize(): the stored file is read when its turn comes.
StageFile(f) ==
    /\ editor.pc \in {"attach", "start"}
    /\ <<f, editor.files[f]>> \in blobs
    /\ editor' = [editor EXCEPT !.todo = @ \ {f}]
    /\ folder' = Overwrite(folder, f, editor.files[f])

RemoveFile(f) ==
    /\ editor.pc = "remove"
    /\ editor' = [editor EXCEPT !.todo = @ \ {f}]
    /\ folder' = [g \in DOMAIN folder \ {f} |-> folder[g]]

EditorFile ==
    /\ \E f \in editor.todo : StageFile(f) \/ RemoveFile(f)
    /\ UNCHANGED <<versions, blobs, access, tab, document, kernel, job>>

\* The editor puts the answer into its document; a kernel starts.
EditorDone ==
    /\ editor.pc # "idle"
    /\ editor.todo = {}
    /\ tab' = CASE editor.pc = "attach" -> editor.ref
                [] editor.pc = "remove" -> Unattached
                [] OTHER -> tab
    /\ kernel' = (kernel \/ editor.pc = "start")
    /\ editor' = Idle
    /\ UNCHANGED <<versions, blobs, access, document, folder, job>>

\* A stored file is gone, or the server answers with an error.
EditorFails ==
    /\ editor.pc # "idle"
    /\ editor' = Idle
    /\ UNCHANGED <<versions, blobs, access, tab, document, folder, kernel, job>>

Save ==
    /\ editor.pc = "idle"
    /\ document # tab
    /\ document' = tab
    /\ UNCHANGED <<versions, blobs, access, tab, folder, kernel, editor, job>>

\* The server stops, with its kernels.  A restart of the kernel keeps its session, and
\* nothing is staged again (control_kernel()).
StopServer ==
    /\ kernel
    /\ kernel' = FALSE
    /\ UNCHANGED <<versions, blobs, access, tab, document, folder, editor, job>>

-----------------------------------------------------------------------------
(* A background run of the saved notebook.                                 *)

Queue ==
    /\ job.pc = "idle"
    /\ document # Unattached
    /\ job' = [Idle EXCEPT !.pc = "queued", !.ref = document]
    /\ UNCHANGED <<versions, blobs, access, tab, document, folder, kernel, editor>>

\* stage_inputs() resolves the queued reference when the run starts.
JobResolves ==
    /\ job.pc = "queued"
    /\ \E k \in Resolved(job.ref.version) :
           job' = [job EXCEPT !.pc = "staging", !.todo = DOMAIN versions[k].files,
                              !.files = versions[k].files]
    /\ UNCHANGED <<versions, blobs, access, tab, document, folder, kernel, editor>>

\* InputFile.copy_to()
JobCopies ==
    /\ job.pc = "staging"
    /\ \E f \in job.todo :
           /\ <<f, job.files[f]>> \in blobs
           /\ job' = [job EXCEPT !.todo = @ \ {f}]
    /\ UNCHANGED <<versions, blobs, access, tab, document, folder, kernel, editor>>

JobExecutes ==
    /\ job.pc = "staging"
    /\ job.todo = {}
    /\ job' = [job EXCEPT !.pc = "executing"]
    /\ UNCHANGED <<versions, blobs, access, tab, document, folder, kernel, editor>>

\* It fails without access, version or stored file, or ends.
JobEnds ==
    /\ job.pc # "idle"
    /\ job' = Idle
    /\ UNCHANGED <<versions, blobs, access, tab, document, folder, kernel, editor>>

-----------------------------------------------------------------------------
Next ==
    \/ PublishVersion \/ DeleteVersion \/ ChangeAccess \/ DeleteDataset \/ Sweep
    \/ Attach \/ StartKernel \/ RemoveSource \/ EditorFile \/ EditorDone \/ EditorFails
    \/ Save \/ StopServer
    \/ Queue \/ JobResolves \/ JobCopies \/ JobExecutes \/ JobEnds

Spec == Init /\ [][Next]_vars

-----------------------------------------------------------------------------
(* Properties                                                              *)

Pinned(ref) == ref.version \in 1 .. MaxVersions

\* A run executes with all files of one version of the dataset and no others, whatever
\* happened to the dataset since it was queued and while its files were copied; a pinned
\* version means the files it had when it was attached, or the run fails
\* (resource_versions.py:7-9: "so a notebook pinned to it fails clearly instead of
\* reading different files").
RunsReadOneVersion ==
    job.pc = "executing" =>
        /\ \E k \in DOMAIN versions : job.files = versions[k].files
        /\ Pinned(job.ref) => job.files = job.ref.files

\* The kernel of a new session finds each file of the version that the saved notebook
\* names, also after attaching, removing and staging were cut off in the middle.
KernelsFindInputs ==
    [][kernel' /\ ~kernel /\ Interactive(editor.files) =>
           /\ \A f \in DOMAIN editor.files : f \in DOMAIN folder /\ folder[f] = editor.files[f]
           /\ Pinned(editor.ref) => editor.files = editor.ref.files]_vars

\* What was published is what is read, by runs and by kernels.
InputsKept == [](TypeOK /\ RunsReadOneVersion) /\ KernelsFindInputs

\* docs/notebooks.md:22: "Save & Run All and scheduled runs stage the same version": a
\* new kernel finds the files of that version and no others.
KernelsFindOneVersion ==
    [][kernel' /\ ~kernel /\ editor.ref # Unattached /\ Interactive(editor.files) =>
           folder = editor.files]_vars
=============================================================================
