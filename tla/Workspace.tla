----------------------------- MODULE Workspace -----------------------------
(***************************************************************************)
(* Temporary and saved notebooks in the workspaces of their owners:        *)
(* leases, Save, discard, the cleanup loops, and the editor's documents    *)
(* (notebook_drafts.py, notebook_editor.py, notebook_runtime.py,           *)
(* work_cleanup.py and remove_work() of main.py).  All handlers but        *)
(* create() are coroutines of one event loop.  Each is split at its        *)
(* awaits; its database calls block the loop (`blocked').                  *)
(***************************************************************************)
EXTENDS Naturals, FiniteSets

CONSTANTS
    Users,       \* owners; each has at most one draft, and the notebook saved from it
    Tabs,        \* browser tabs, each with at most one request under way
    TabUser,     \* [Tabs -> Users]
    Linked,      \* users whose draft belongs to the competition
    Lease,       \* LEASE_SECONDS, in units of time
    Operations,  \* the operations tabs ask for
    None

ASSUME WorkspaceAssumption ==
    /\ TabUser \in [Tabs -> Users]
    /\ Linked \subseteq Users
    /\ Lease \in Nat \ {0}
    /\ None \notin Tabs \cup Users \cup {"cleaner", "thread"}
    /\ {"cleaner", "thread"} \cap Tabs = {}

VARIABLES
    draft,        \* notebook_drafts; "gone" is a deleted row
    notebook,     \* the notebook saved from the draft
    file,         \* the two files in the user's workspace
    ready,        \* the Hub's server of a user is ready
    lock,         \* user_lock(): the coroutine that has it
    competition,  \* who holds the competition row FOR UPDATE
    bookRow,      \* the coroutine that holds the notebook row FOR UPDATE
    blocked,      \* the coroutine whose database call waits and stops the loop
    tab,          \* where a tab's request is
    cleaner,      \* cleanup_drafts(): expired drafts selected, and the one being removed
    trash         \* work_file_deletions of notebooks

vars == <<draft, notebook, file, ready, lock, competition, bookRow, blocked, tab, cleaner, trash>>

Steps == {"idle", "openAsk", "openJoin", "openPut", "saveJoin", "saveRead", "saveWrite",
          "removing", "putDraft", "putBook", "snapshot", "commit", "bookAsk", "bookPut", "resolve"}

TypeOK ==
    /\ draft \in [Users -> [state : {"none", "live", "gone"}, lease : 0 .. Lease, saved : BOOLEAN]]
    /\ notebook \in [Users -> {"none", "live", "deleted"}]
    /\ file \in [Users -> [draft : BOOLEAN, book : {"none", "import", "saved"}]]
    /\ ready \in [Users -> BOOLEAN]
    /\ lock \in [Users -> Tabs \cup {None, "cleaner"}]
    /\ competition \in Tabs \cup {None, "thread"}
    /\ bookRow \in [Users -> Tabs \cup {None}]
    /\ blocked \in Tabs \cup {None}
    /\ tab \in [Tabs -> Steps]
    /\ cleaner \in [todo : SUBSET Users, at : Users \cup {None}]
    /\ trash \subseteq Users

Init ==
    /\ notebook \in [Users -> {"none", "live"}]    \* live: a fork, which has no file yet
    /\ draft = [u \in Users |-> [state |-> IF notebook[u] = "live" THEN "gone" ELSE "none",
                                 lease |-> 0, saved |-> FALSE]]
    /\ file = [u \in Users |-> [draft |-> FALSE, book |-> "none"]]
    /\ ready = [u \in Users |-> TRUE]
    /\ lock = [u \in Users |-> None]
    /\ competition = None
    /\ bookRow = [u \in Users |-> None]
    /\ blocked = None
    /\ tab = [t \in Tabs |-> "idle"]
    /\ cleaner = [todo |-> {}, at |-> None]
    /\ trash = {}

-----------------------------------------------------------------------------
LoopFree == blocked = None

Expired(u) == draft[u].state = "live" /\ draft[u].lease = 0

\* owned(): 404 without a draft, 410 after its lease.
Owned(u) == draft[u].state = "live" /\ draft[u].lease > 0

\* serialized() and `async with user_lock()'.
Serialized(u) == LoopFree /\ lock[u] = None

\* The handler of t ends, with a commit or a rollback: its locks go.
Return(t) ==
    LET u == TabUser[t] IN
    /\ tab' = [tab EXCEPT ![t] = "idle"]
    /\ lock' = [lock EXCEPT ![u] = IF @ = t THEN None ELSE @]
    /\ bookRow' = [bookRow EXCEPT ![u] = IF @ = t THEN None ELSE @]
    /\ competition' = IF competition = t THEN None ELSE competition

Renewed(u) == [draft EXCEPT ![u].lease = Lease]

\* joined_competition(): a draft of a competition takes its row, or stops the loop.
JoinedCompetition(t, next, waiting) ==
    IF TabUser[t] \in Linked
    THEN IF competition = None
         THEN /\ tab' = [tab EXCEPT ![t] = next]
              /\ competition' = t
              /\ UNCHANGED blocked
         ELSE /\ tab' = [tab EXCEPT ![t] = waiting]
              /\ blocked' = t
              /\ UNCHANGED competition
    ELSE /\ tab' = [tab EXCEPT ![t] = next]
         /\ UNCHANGED <<competition, blocked>>

-----------------------------------------------------------------------------
(* Time, the Hub, and requests in threads.                                 *)

\* Time passes.
Tick ==
    /\ \E u \in Users : draft[u].lease > 0
    /\ draft' = [u \in Users |-> [draft[u] EXCEPT !.lease = IF @ > 0 THEN @ - 1 ELSE 0]]
    /\ UNCHANGED <<notebook, file, ready, lock, competition, bookRow, blocked, tab, cleaner, trash>>

\* A user's server starts or stops.
SwitchServer(u) ==
    /\ ready' = [ready EXCEPT ![u] = ~@]
    /\ UNCHANGED <<draft, notebook, file, lock, competition, bookRow, blocked, tab, cleaner, trash>>

\* A plain handler, or another process, locks the competition row and ends.
ThreadLocks ==
    /\ competition = None
    /\ Linked # {}
    /\ competition' = "thread"
    /\ UNCHANGED <<draft, notebook, file, ready, lock, bookRow, blocked, tab, cleaner, trash>>

ThreadEnds ==
    /\ competition = "thread"
    /\ competition' = None
    /\ UNCHANGED <<draft, notebook, file, ready, lock, bookRow, blocked, tab, cleaner, trash>>

\* create()
CreateDraft(u) ==
    /\ LoopFree
    /\ draft[u].state = "none"
    /\ u \in Linked => competition = None
    /\ draft' = [draft EXCEPT ![u] = [state |-> "live", lease |-> Lease, saved |-> FALSE]]
    /\ UNCHANGED <<notebook, file, ready, lock, competition, bookRow, blocked, tab, cleaner, trash>>

-----------------------------------------------------------------------------
(* Requests about a draft.  A Hub call may fail at any await (Fails): the  *)
(* handler raises and its transaction is rolled back.                      *)

Begin(t, op) == op \in Operations /\ tab[t] = "idle" /\ LoopFree

\* heartbeat()
Heartbeat(u) ==
    /\ Serialized(u)
    /\ Owned(u)
    /\ draft' = Renewed(u)
    /\ UNCHANGED <<notebook, file, ready, lock, competition, bookRow, blocked, tab, cleaner, trash>>

OpenBegin(t) ==
    LET u == TabUser[t] IN
    /\ Begin(t, "open")
    /\ Serialized(u)
    /\ Owned(u)
    /\ lock' = [lock EXCEPT ![u] = t]
    /\ tab' = [tab EXCEPT ![t] = "openAsk"]
    /\ UNCHANGED <<draft, notebook, file, ready, competition, bookRow, blocked, cleaner, trash>>

\* The Hub has the file: the lease is renewed.
OpenFound(t) ==
    LET u == TabUser[t] IN
    /\ LoopFree
    /\ tab[t] = "openAsk"
    /\ ready[u]
    /\ file[u].draft
    /\ draft' = Renewed(u)
    /\ Return(t)
    /\ UNCHANGED <<notebook, file, ready, blocked, cleaner, trash>>

\* It has not: inputs and the document are prepared, under the competition row.
OpenMissing(t) ==
    LET u == TabUser[t] IN
    /\ LoopFree
    /\ tab[t] = "openAsk"
    /\ ready[u]
    /\ ~file[u].draft
    /\ JoinedCompetition(t, "openPut", "openJoin")
    /\ UNCHANGED <<draft, notebook, file, ready, lock, bookRow, cleaner, trash>>

OpenPut(t) ==
    LET u == TabUser[t] IN
    /\ LoopFree
    /\ tab[t] = "openPut"
    /\ ready[u]
    /\ file' = [file EXCEPT ![u].draft = TRUE]
    /\ draft' = Renewed(u)
    /\ Return(t)
    /\ UNCHANGED <<notebook, ready, blocked, cleaner, trash>>

\* save() takes the draft, the notebook that was saved before, and the competition.
SaveBegin(t) ==
    LET u == TabUser[t] IN
    /\ Begin(t, "save")
    /\ Serialized(u)
    /\ Owned(u)
    /\ lock' = [lock EXCEPT ![u] = t]
    /\ bookRow' = [bookRow EXCEPT ![u] = IF draft[u].saved THEN t ELSE @]
    /\ JoinedCompetition(t, "saveRead", "saveJoin")
    /\ UNCHANGED <<draft, notebook, file, ready, cleaner, trash>>

\* The file is read; what follows until the copy is written waits on the Hub only.
SaveRead(t) ==
    LET u == TabUser[t] IN
    /\ LoopFree
    /\ tab[t] = "saveRead"
    /\ ready[u]
    /\ file[u].draft
    /\ tab' = [tab EXCEPT ![t] = "saveWrite"]
    /\ UNCHANGED <<draft, notebook, file, ready, lock, competition, bookRow, blocked, cleaner, trash>>

SaveWrite(t) ==
    LET u == TabUser[t] IN
    /\ LoopFree
    /\ tab[t] = "saveWrite"
    /\ ready[u]
    /\ file' = [file EXCEPT ![u].book = "saved"]
    /\ notebook' = [notebook EXCEPT ![u] = "live"]
    /\ draft' = [draft EXCEPT ![u] = [@ EXCEPT !.lease = Lease, !.saved = TRUE]]
    /\ Return(t)
    /\ UNCHANGED <<ready, blocked, cleaner, trash>>

\* discard() commits the expiry first.
DiscardBegin(t) ==
    LET u == TabUser[t] IN
    /\ Begin(t, "discard")
    /\ Serialized(u)
    /\ draft[u].state = "live"
    /\ draft' = [draft EXCEPT ![u].lease = 0]
    /\ lock' = [lock EXCEPT ![u] = t]
    /\ tab' = [tab EXCEPT ![t] = "removing"]
    /\ UNCHANGED <<notebook, file, ready, competition, bookRow, blocked, cleaner, trash>>

\* remove_file(): the kernel and the file go, then the row.
DiscardRemoves(t) ==
    LET u == TabUser[t] IN
    /\ LoopFree
    /\ tab[t] = "removing"
    /\ ready[u]
    /\ file' = [file EXCEPT ![u].draft = FALSE]
    /\ draft' = [draft EXCEPT ![u].state = "gone", ![u].saved = FALSE]
    /\ Return(t)
    /\ UNCHANGED <<notebook, ready, blocked, cleaner, trash>>

\* put_document() of a draft
PutDraftBegin(t) ==
    LET u == TabUser[t] IN
    /\ Begin(t, "putDraft")
    /\ Serialized(u)
    /\ Owned(u)
    /\ lock' = [lock EXCEPT ![u] = t]
    /\ tab' = [tab EXCEPT ![t] = "putDraft"]
    /\ UNCHANGED <<draft, notebook, file, ready, competition, bookRow, blocked, cleaner, trash>>

PutDraft(t) ==
    LET u == TabUser[t] IN
    /\ LoopFree
    /\ tab[t] = "putDraft"
    /\ ready[u]
    /\ file' = [file EXCEPT ![u].draft = TRUE]
    /\ Return(t)
    /\ UNCHANGED <<draft, notebook, ready, blocked, cleaner, trash>>

\* open_draft() and save() hold the draft's row FOR UPDATE until they end.
DraftRowHeld(u) ==
    \E t \in Tabs : /\ TabUser[t] = u
                    /\ tab[t] \in {"openAsk", "openJoin", "openPut",
                                  "saveJoin", "saveRead", "saveWrite"}

\* resolve() of execute() and control_kernel(), without the user lock: it waits for the
\* draft's row and stops the loop.  With the row free, it reads and commits at once.
Resolve(t) ==
    LET u == TabUser[t] IN
    /\ Begin(t, "resolve")
    /\ draft[u].state = "live"
    /\ DraftRowHeld(u)
    /\ tab' = [tab EXCEPT ![t] = "resolve"]
    /\ blocked' = t
    /\ UNCHANGED <<draft, notebook, file, ready, lock, competition, bookRow, cleaner, trash>>

-----------------------------------------------------------------------------
(* Requests about the saved notebook.                                      *)

\* put_document() of a notebook: user_lock() covers the file only.
PutBookBegin(t) ==
    LET u == TabUser[t] IN
    /\ Begin(t, "putBook")
    /\ Serialized(u)
    /\ notebook[u] = "live"
    /\ lock' = [lock EXCEPT ![u] = t]
    /\ tab' = [tab EXCEPT ![t] = "putBook"]
    /\ UNCHANGED <<draft, notebook, file, ready, competition, bookRow, blocked, cleaner, trash>>

PutBook(t) ==
    LET u == TabUser[t] IN
    /\ LoopFree
    /\ tab[t] = "putBook"
    /\ ready[u]
    /\ file' = [file EXCEPT ![u].book = "saved"]
    /\ lock' = [lock EXCEPT ![u] = None]
    /\ tab' = [tab EXCEPT ![t] = "snapshot"]
    /\ UNCHANGED <<draft, notebook, ready, competition, bookRow, blocked, cleaner, trash>>

\* After snapshot_outputs(): the new version needs a shared lock of the notebook row.
PutBookCommit(t) ==
    LET u == TabUser[t] IN
    /\ LoopFree
    /\ tab[t] = "snapshot"
    /\ notebook[u] = "live"
    /\ IF bookRow[u] = None
       THEN tab' = [tab EXCEPT ![t] = "idle"] /\ UNCHANGED blocked
       ELSE tab' = [tab EXCEPT ![t] = "commit"] /\ blocked' = t
    /\ UNCHANGED <<draft, notebook, file, ready, lock, competition, bookRow, cleaner, trash>>

\* open_notebook() takes no lock: the import of a file that was missing.
OpenBookBegin(t) ==
    LET u == TabUser[t] IN
    /\ Begin(t, "openBook")
    /\ notebook[u] = "live"
    /\ tab' = [tab EXCEPT ![t] = "bookAsk"]
    /\ UNCHANGED <<draft, notebook, file, ready, lock, competition, bookRow, blocked, cleaner, trash>>

OpenBookAsk(t) ==
    LET u == TabUser[t] IN
    /\ LoopFree
    /\ tab[t] = "bookAsk"
    /\ ready[u]
    /\ tab' = [tab EXCEPT ![t] = IF file[u].book = "none" THEN "bookPut" ELSE "idle"]
    /\ UNCHANGED <<draft, notebook, file, ready, lock, competition, bookRow, blocked, cleaner, trash>>

OpenBookPut(t) ==
    LET u == TabUser[t] IN
    /\ LoopFree
    /\ tab[t] = "bookPut"
    /\ ready[u]
    /\ file' = [file EXCEPT ![u].book = "import"]
    /\ tab' = [tab EXCEPT ![t] = "idle"]
    /\ UNCHANGED <<draft, notebook, ready, lock, competition, bookRow, blocked, cleaner, trash>>

\* remove_work() of the notebook expires the draft it was saved from.
DeleteNotebook(u) ==
    /\ "delete" \in Operations
    /\ Serialized(u)
    /\ notebook[u] = "live"
    /\ notebook' = [notebook EXCEPT ![u] = "deleted"]
    /\ draft' = IF draft[u].saved
                THEN [draft EXCEPT ![u].lease = 0, ![u].saved = FALSE]
                ELSE draft
    /\ trash' = trash \cup {u}
    /\ UNCHANGED <<file, ready, lock, competition, bookRow, blocked, tab, cleaner>>

\* remove_work_file() of a notebook file; the record may outlive the file.
RemoveNotebookFile(u) ==
    /\ Serialized(u)
    /\ u \in trash
    /\ ready[u]
    /\ file' = [file EXCEPT ![u].book = "none"]
    /\ \E answered \in BOOLEAN : trash' = IF answered THEN trash \ {u} ELSE trash
    /\ UNCHANGED <<draft, notebook, ready, lock, competition, bookRow, blocked, tab, cleaner>>

-----------------------------------------------------------------------------
(* Failures and waiting.                                                   *)

Awaiting == {"openAsk", "openPut", "saveRead", "saveWrite", "removing", "putDraft", "putBook",
             "snapshot", "bookAsk", "bookPut"}

\* The Hub refuses, is not ready or does not answer; a write may have happened.
Fails(t) ==
    LET u == TabUser[t] IN
    /\ LoopFree
    /\ tab[t] \in Awaiting
    /\ \E written \in BOOLEAN :
           file' = IF ~written \/ ~ready[u] THEN file
                   ELSE CASE tab[t] \in {"openPut", "putDraft"} -> [file EXCEPT ![u].draft = TRUE]
                          [] tab[t] \in {"saveWrite", "putBook"} -> [file EXCEPT ![u].book = "saved"]
                          [] tab[t] = "removing" -> [file EXCEPT ![u].draft = FALSE]
                          [] tab[t] = "bookPut" -> [file EXCEPT ![u].book = "import"]
                          [] OTHER -> file
    /\ Return(t)
    /\ UNCHANGED <<draft, notebook, ready, blocked, cleaner, trash>>

\* The row a coroutine waits for is free again, and the loop goes on.
Unblock(t) ==
    /\ blocked = t
    /\ blocked' = None
    /\ \/ /\ tab[t] \in {"openJoin", "saveJoin"}
          /\ competition = None
          /\ competition' = t
          /\ tab' = [tab EXCEPT ![t] = IF @ = "openJoin" THEN "openPut" ELSE "saveRead"]
       \/ /\ \/ tab[t] = "commit" /\ bookRow[TabUser[t]] = None
             \/ tab[t] = "resolve" /\ ~DraftRowHeld(TabUser[t])
          /\ tab' = [tab EXCEPT ![t] = "idle"]
          /\ UNCHANGED competition
    /\ UNCHANGED <<draft, notebook, file, ready, lock, bookRow, cleaner, trash>>

-----------------------------------------------------------------------------
(* cleanup_drafts()                                                        *)

CleanSelect ==
    /\ LoopFree
    /\ cleaner.todo = {}
    /\ {u \in Users : Expired(u)} # {}
    /\ cleaner' = [cleaner EXCEPT !.todo = {u \in Users : Expired(u)}]
    /\ UNCHANGED <<draft, notebook, file, ready, lock, competition, bookRow, blocked, tab, trash>>

\* Mutant: the draft is not read again after the wait for the lock.
CleanLockUnchecked(u) ==
    /\ Serialized(u)
    /\ u \in cleaner.todo
    /\ cleaner.at = None
    /\ lock' = [lock EXCEPT ![u] = "cleaner"]
    /\ cleaner' = [cleaner EXCEPT !.at = u]
    /\ UNCHANGED <<draft, notebook, file, ready, competition, bookRow, blocked, tab, trash>>

\* The draft is read again under the lock: it may have been renewed by a slow
\* request, or deleted, which ends the pass.
CleanLock(u) ==
    /\ Serialized(u)
    /\ u \in cleaner.todo
    /\ cleaner.at = None
    /\ IF Expired(u)
       THEN /\ lock' = [lock EXCEPT ![u] = "cleaner"]
            /\ cleaner' = [cleaner EXCEPT !.at = u]
       ELSE /\ cleaner' = [cleaner EXCEPT !.todo = IF draft[u].state = "gone" THEN {} ELSE @ \ {u}]
            /\ UNCHANGED lock
    /\ UNCHANGED <<draft, notebook, file, ready, competition, bookRow, blocked, tab, trash>>

\* Mutant: an error on the way keeps the user's lock.
CleanDoneLocked(u) ==
    /\ LoopFree
    /\ cleaner.at = u
    /\ cleaner' = [todo |-> cleaner.todo \ {u}, at |-> None]
    /\ UNCHANGED <<notebook, ready, lock, competition, bookRow, blocked, tab, trash>>

\* The end of serialized work on a draft.
CleanDone(u) ==
    /\ LoopFree
    /\ cleaner.at = u
    /\ lock' = [lock EXCEPT ![u] = None]
    /\ cleaner' = [todo |-> cleaner.todo \ {u}, at |-> None]
    /\ UNCHANGED <<notebook, ready, competition, bookRow, blocked, tab, trash>>

CleanRemove(u) ==
    /\ CleanDone(u)
    /\ ready[u]
    /\ file' = [file EXCEPT ![u].draft = FALSE]
    /\ draft' = [draft EXCEPT ![u].state = "gone", ![u].saved = FALSE]

\* The server is not ready, or an answer is lost: the next pass tries again.
CleanFails(u) ==
    /\ CleanDone(u)
    /\ \E written \in BOOLEAN :
           file' = IF written /\ ready[u] THEN [file EXCEPT ![u].draft = FALSE] ELSE file
    /\ UNCHANGED draft

-----------------------------------------------------------------------------
TabStep(t) ==
    \/ OpenFound(t) \/ OpenMissing(t) \/ OpenPut(t)
    \/ SaveRead(t) \/ SaveWrite(t)
    \/ DiscardRemoves(t) \/ PutDraft(t)
    \/ PutBook(t) \/ PutBookCommit(t)
    \/ OpenBookAsk(t) \/ OpenBookPut(t)
    \/ Fails(t) \/ Unblock(t)

Asks(t) ==
    \/ OpenBegin(t) \/ SaveBegin(t) \/ DiscardBegin(t) \/ PutDraftBegin(t)
    \/ PutBookBegin(t) \/ OpenBookBegin(t) \/ Resolve(t)

Next ==
    \/ Tick
    \/ ThreadLocks
    \/ ThreadEnds
    \/ CleanSelect
    \/ \E u \in Users :
           \/ SwitchServer(u) \/ CreateDraft(u) \/ Heartbeat(u)
           \/ DeleteNotebook(u) \/ RemoveNotebookFile(u)
           \/ CleanLock(u) \/ CleanRemove(u) \/ CleanFails(u)
    \/ \E t \in Tabs : Asks(t) \/ TabStep(t)

Spec == Init /\ [][Next]_vars

\* Coroutines go on, since Hub calls time out; asyncio.Lock and row locks serve in
\* turn; a Hub that stays ready does not fail for ever.
FairSpec ==
    /\ Spec
    /\ WF_vars(Tick)
    /\ WF_vars(ThreadEnds)
    /\ WF_vars(CleanSelect)
    /\ \A t \in Tabs : WF_vars(TabStep(t)) /\ SF_vars(Unblock(t))
    /\ \A u \in Users :
           /\ SF_vars(CleanLock(u))
           /\ SF_vars(CleanRemove(u))
           /\ WF_vars(CleanRemove(u) \/ CleanFails(u))

-----------------------------------------------------------------------------
(* Properties                                                              *)

\* No draft, and no file of one, goes while its lease runs, whatever requests were
\* under way when the cleanup selected it.
LeaseKeepsDraft ==
    [][\A u \in Users :
           draft[u].lease > 0 =>
               /\ draft[u].state = "live" => draft'[u].state = "live"
               /\ file[u].draft => file'[u].draft]_vars

\* A notebook that was deleted is not created again by the editor it was saved from
\* (remove_work() expires it), also not by a Save that began before.
SaveCannotRecreate ==
    [][\A u \in Users : notebook[u] = "deleted" => notebook'[u] = "deleted"]_vars

\* What the cleanup and the deletion of a notebook leave alone, and what they end
DraftsKept == []TypeOK /\ LeaseKeepsDraft /\ SaveCannotRecreate

Stuck == blocked # None

\* A draft whose lease has ended, of a user whose server is ready from then on, goes.
AbandonedGo ==
    \A u \in Users : (<>[]ready[u]) => [](Expired(u) => <>(~Expired(u)))

\* As AbandonedGo, unless a coroutine stops the loop on a row that another one holds.
AbandonedGoUnlessStuck ==
    \A u \in Users : (<>[]ready[u]) => [](Expired(u) => <>(~Expired(u) \/ Stuck))

\* An open notebook's file is not replaced by the import of a first opening.
ImportNeverReplaces ==
    [][\A u \in Users : file[u].book = "saved" => file'[u].book # "import"]_vars
=============================================================================
