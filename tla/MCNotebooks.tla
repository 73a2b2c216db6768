---------------------------- MODULE MCNotebooks -----------------------------
(***************************************************************************)
(* Three parts around saved notebooks, checked side by side: who may read  *)
(* which document (Publications), the datasets they read (Inputs), and     *)
(* the files they write (Outputs).  Each behaviour follows one of them,    *)
(* and the others keep their initial state.                                *)
(***************************************************************************)
EXTENDS Publications, TLC

CONSTANTS
    Files, InteractiveFiles, MaxVersions,
    Writers, Names, Contents, MaxRows, MaxKeys

VARIABLES
    focus,
    versions, blobs, access, tab, document, folder, kernel, editor, job,
    alive, rows, disk, session, export, tasks, checked, attached

inputs == <<versions, blobs, access, tab, document, folder, kernel, editor, job>>
outputs == <<alive, rows, disk, session, export, tasks, checked, attached>>

I == INSTANCE Inputs
O == INSTANCE Outputs WITH Notebooks <- Writers

ASSUME NotebooksAssumption == I!InputsAssumption /\ O!OutputsAssumption

\* Nothing orders or tells apart users, paths, files and the notebooks that write them.
Symmetry == Permutations(Files) \cup Permutations(Writers) \cup Permutations(Contents)

MCInit ==
    /\ focus \in {"publications", "kernel inputs", "run inputs", "outputs"}
    /\ Init /\ I!Init /\ O!Init
    /\ focus # "publications" => publication[Sample] = None /\ working[Sample] = None
    /\ IF focus = "kernel inputs" THEN Cardinality(DOMAIN versions[1].files) = 2
       ELSE DOMAIN versions[1].files = Files

\* The kernel and the background run touch nothing of each other's inputs.  For a kernel,
\* a later version lacks files or is larger than what is copied; a run gets larger ones.
OneReader ==
    IF focus = "kernel inputs"
    THEN /\ job' = job
         /\ \A k \in DOMAIN versions' :
                DOMAIN versions'[k].files \in {Files} \cup SUBSET DOMAIN versions[1].files
    ELSE /\ editor'.pc \in {"idle", "attach"}
         /\ \A k \in DOMAIN versions' : DOMAIN versions'[k].files = Files

MCNext ==
    /\ UNCHANGED focus
    /\ \/ focus = "publications" /\ Next /\ UNCHANGED <<inputs, outputs>>
       \/ /\ focus \in {"kernel inputs", "run inputs"}
          /\ I!Next /\ OneReader
          /\ UNCHANGED <<vars, outputs>>
       \/ focus = "outputs" /\ O!Next /\ UNCHANGED <<vars, inputs>>

MCSpec == MCInit /\ [][MCNext]_<<focus, vars, inputs, outputs>>

-----------------------------------------------------------------------------
\* A background run reads one version of a dataset as it was published, and a kernel
\* that starts finds every file of the inputs it copied (input_sources.py).
InputsKept == I!InputsKept

\* Recorded outputs keep their file and their contents, whatever was snapshotted, attached
\* or cleaned up (notebook_outputs.py).
OutputsKept == O!OutputsKept

\* docs/notebooks.md: kernels and runs find the same version.  The program violates it:
\* files of a version that was attached before stay in the input folder.
KernelsFindOneVersion == I!KernelsFindOneVersion
=============================================================================
