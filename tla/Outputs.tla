------------------------------ MODULE Outputs -------------------------------
(***************************************************************************)
(* Saved output files of notebooks: rows of notebook_outputs and the files *)
(* they share (notebook_outputs.py, notebook_files.py), written by saves   *)
(* in the API, by finished jobs in the worker and by exports; attached to  *)
(* other notebooks by row (input_sources.py); removed with their notebook  *)
(* (main.py, work_cleanup.py).                                             *)
(*                                                                         *)
(* A save and a job snapshot one output file here; the rows of more files  *)
(* are independent.  Who may see a notebook is left out.                   *)
(***************************************************************************)
EXTENDS Naturals, Sequences

CONSTANTS
    Notebooks,
    Names,      \* names of output files
    Contents,
    MaxRows,    \* bound on rows
    MaxKeys     \* bound on files on disk

OutputsAssumption == MaxRows \in Nat /\ MaxKeys \in Nat

VARIABLES
    alive,      \* notebooks that exist
    rows,       \* rows of notebook_outputs in the order of their ids
    disk,       \* files by storage key; those below nextKey exist or are "gone"
    session,    \* the database session of a save, and of a finished job
    export,     \* an export_output() that wrote its file
    tasks,      \* keys in work_file_deletions
    checked,    \* the key that the cleanup found without rows, or 0
    attached    \* the rows that another notebook attached

vars == <<alive, rows, disk, session, export, tasks, checked, attached>>

Sessions == {"save", "job"}

Keys == 1 .. MaxKeys

Row(n, name, key, content, shared, state) ==
    [notebook |-> n, name |-> name, key |-> key, content |-> content, shared |-> shared,
     state |-> state]

Snapshots == Notebooks \X Names \X Contents

Idle == [pc |-> "idle"]

TypeOK ==
    /\ alive \subseteq Notebooks
    /\ Len(rows) <= MaxRows
    /\ \A k \in DOMAIN rows :
           rows[k] \in [notebook : Notebooks, name : Names, key : Keys, content : Contents,
                        shared : BOOLEAN, state : {"live", "gone"} \cup Sessions]
    /\ disk \in Seq(Contents \cup {"gone"}) /\ Len(disk) <= MaxKeys
    /\ DOMAIN session = Sessions
    /\ tasks \subseteq Keys /\ checked \in {0} \cup Keys
    /\ attached \subseteq 1 .. MaxRows

Init ==
    /\ alive = Notebooks
    /\ rows = <<>> /\ disk = <<>>
    /\ session = [s \in Sessions |-> Idle]
    /\ export = Idle
    /\ tasks = {} /\ checked = 0
    /\ attached = {}

Newest(K) == CHOOSE k \in K : \A j \in K : j <= k

Live(k) == rows[k].state = "live"

SharedRows(n, name) ==
    {k \in DOMAIN rows : Live(k) /\ rows[k].shared /\ rows[k].notebook = n /\ rows[k].name = name}

-----------------------------------------------------------------------------
(* store_snapshot() in a transaction.                                      *)

\* A save began before the notebook was deleted; a job's notebook stays until it ended.
Begin(s, n, name, content) ==
    /\ session[s].pc = "idle"
    /\ n \in alive
    /\ session' = [session EXCEPT ![s] =
           [pc |-> "read", notebook |-> n, name |-> name, content |-> content, key |-> 0]]
    /\ UNCHANGED <<alive, rows, disk, export, tasks, checked, attached>>

\* Mutant: bytes are reused across notebooks.
ReusableAnywhere(x) == {k \in DOMAIN rows : Live(k) /\ rows[k].content = x.content}

\* Rows whose bytes may be used again
Reusable(x) ==
    {k \in DOMAIN rows : Live(k) /\ rows[k].notebook = x.notebook /\ rows[k].content = x.content}

\* The newest shared row of the file
Previous(x) ==
    LET shared == SharedRows(x.notebook, x.name) IN
    IF shared = {} THEN {} ELSE {Newest(shared)}

\* The same bytes as last time: nothing to add.
Unchanged(s) ==
    /\ session[s].pc = "read"
    /\ \E k \in Previous(session[s]) : rows[k].content = session[s].content
    /\ session' = [session EXCEPT ![s].pc = "written"]
    /\ UNCHANGED <<alive, rows, disk, export, tasks, checked, attached>>

\* The file: one of the notebook with these bytes, if it is on disk, or a new one.
StoreFile(s) ==
    /\ session[s].pc = "read"
    /\ \A k \in Previous(session[s]) : rows[k].content # session[s].content
    /\ LET same == Reusable(session[s])
           key == IF same = {} THEN 0 ELSE rows[Newest(same)].key
       IN IF same # {} /\ disk[key] # "gone"
          THEN /\ session' = [session EXCEPT ![s].pc = "stored", ![s].key = key]
               /\ UNCHANGED disk
          ELSE /\ Len(disk) < MaxKeys
               /\ disk' = Append(disk, session[s].content)
               /\ session' = [session EXCEPT ![s].pc = "stored", ![s].key = Len(disk) + 1]
    /\ UNCHANGED <<alive, rows, export, tasks, checked, attached>>

\* The flush; the foreign key then locks the notebook until the session ends.
Insert(s) ==
    /\ session[s].pc = "stored"
    /\ session[s].notebook \in alive
    /\ Len(rows) < MaxRows
    /\ LET x == session[s] IN
       rows' = Append(rows, Row(x.notebook, x.name, x.key, x.content, TRUE, s))
    /\ session' = [session EXCEPT ![s].pc = "written"]
    /\ UNCHANGED <<alive, disk, export, tasks, checked, attached>>

Settle(s, state) ==
    [k \in DOMAIN rows |-> IF rows[k].state = s THEN [rows[k] EXCEPT !.state = state] ELSE rows[k]]

Commit(s) ==
    /\ session[s].pc = "written"
    /\ rows' = Settle(s, "live")
    /\ session' = [session EXCEPT ![s] = Idle]
    /\ UNCHANGED <<alive, disk, export, tasks, checked, attached>>

\* The foreign key, a limit, another file or the server fails: written files stay.
Abort(s) ==
    /\ session[s].pc # "idle"
    /\ rows' = Settle(s, "gone")
    /\ session' = [session EXCEPT ![s] = Idle]
    /\ UNCHANGED <<alive, disk, export, tasks, checked, attached>>

-----------------------------------------------------------------------------
(* export_output(), by the owner.                                          *)

ExportWrite ==
    /\ export = Idle
    /\ Len(disk) < MaxKeys
    /\ \E n \in alive, name \in Names, content \in Contents, shared \in BOOLEAN :
           /\ disk' = Append(disk, content)
           /\ export' = [pc |-> "write", notebook |-> n, name |-> name, content |-> content,
                         shared |-> shared, key |-> Len(disk) + 1]
    /\ UNCHANGED <<alive, rows, session, tasks, checked, attached>>

ExportCommit ==
    /\ export # Idle
    /\ export.notebook \in alive
    /\ Len(rows) < MaxRows
    /\ rows' = Append(rows, Row(export.notebook, export.name, export.key, export.content,
                                export.shared, "live"))
    /\ export' = Idle
    /\ UNCHANGED <<alive, disk, session, tasks, checked, attached>>

ExportFails ==
    /\ export # Idle
    /\ disk' = [disk EXCEPT ![export.key] = "gone"]
    /\ export' = Idle
    /\ UNCHANGED <<alive, rows, session, tasks, checked, attached>>

-----------------------------------------------------------------------------
(* Deleting a notebook; the cleanup of its files.                          *)

\* remove_work() waits for what holds the row, and is refused while a job is active.
DeleteNotebook ==
    /\ \E n \in alive :
           /\ \A k \in DOMAIN rows : rows[k].notebook = n => rows[k].state \in {"live", "gone"}
           /\ ~(session["job"].pc # "idle" /\ session["job"].notebook = n)
           /\ alive' = alive \ {n}
           /\ tasks' = tasks \cup {rows[k].key : k \in {j \in DOMAIN rows :
                                                           Live(j) /\ rows[j].notebook = n}}
           /\ rows' = [k \in DOMAIN rows |-> IF rows[k].notebook = n
                                             THEN [rows[k] EXCEPT !.state = "gone"] ELSE rows[k]]
    /\ UNCHANGED <<disk, session, export, checked, attached>>

\* remove_work_file() looks for another row with the file...
CleanCheck ==
    /\ checked = 0
    /\ \E key \in tasks :
           IF \E k \in DOMAIN rows : Live(k) /\ rows[k].key = key
           THEN /\ tasks' = tasks \ {key}
                /\ UNCHANGED checked
           ELSE /\ checked' = key
                /\ UNCHANGED tasks
    /\ UNCHANGED <<alive, rows, disk, session, export, attached>>

\* ...and removes it.
CleanUnlink ==
    /\ checked # 0
    /\ disk' = [disk EXCEPT ![checked] = "gone"]
    /\ tasks' = tasks \ {checked}
    /\ checked' = 0
    /\ UNCHANGED <<alive, rows, session, export, attached>>

-----------------------------------------------------------------------------
\* source_files(): the newest shared row of each file of a notebook is attached.
Attach ==
    /\ \E n \in alive :
           /\ attached' = {Newest(SharedRows(n, name)) :
                              name \in {m \in Names : SharedRows(n, m) # {}}}
           /\ attached' # {}
    /\ UNCHANGED <<alive, rows, disk, session, export, tasks, checked>>

Next ==
    \/ \E s \in Sessions, n \in Notebooks, name \in Names, content \in Contents :
           Begin(s, n, name, content)
    \/ \E s \in Sessions : Unchanged(s) \/ StoreFile(s) \/ Insert(s) \/ Commit(s) \/ Abort(s)
    \/ ExportWrite \/ ExportCommit \/ ExportFails
    \/ DeleteNotebook \/ CleanCheck \/ CleanUnlink
    \/ Attach

Spec == Init /\ [][Next]_vars

-----------------------------------------------------------------------------
(* Properties                                                              *)

\* Each row's file is on disk with the row's bytes: sharing a file between rows never
\* lets the cleanup of a deleted notebook take it from a save or a job that found it.
RowsHaveFiles ==
    \A k \in DOMAIN rows : Live(k) => disk[rows[k].key] = rows[k].content

\* An attached output stays what it was while its notebook exists: later saves, jobs and
\* exports of the same file add rows and never replace one.
AttachedStay ==
    \A k \in attached : rows[k].notebook \in alive => Live(k)

\* Rows keep their file and their contents.
OutputsKept == TypeOK /\ RowsHaveFiles /\ AttachedStay
=============================================================================
