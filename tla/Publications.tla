---------------------------- MODULE Publications ----------------------------
(***************************************************************************)
(* What other people see of a notebook: the private working copy, the      *)
(* public snapshot, shares, forks, and the competition Code list, which    *)
(* holds what was evaluated (code_pages.py, notebook_versions.py,          *)
(* notebook_visibility.py, notebook_commits.py, main.py).  A document is a *)
(* number: every edit is a new one.  The handlers lock the notebook row,   *)
(* so each is one step; the worker's evaluation is split.                  *)
(***************************************************************************)
EXTENDS Naturals, Sequences, FiniteSets

CONSTANTS
    Notebooks,     \* ids of notebooks
    Users,
    Competitions,
    Sample,        \* the notebook that exists at first
    Author,        \* and who owns it
    Edits,         \* bound on documents
    Commits,       \* bound on commits
    None

VARIABLES
    book,          \* notebooks: owner, the code of legacy summaries, and whether a draft saves it
    working,       \* notebook_working_copies
    publication,   \* notebook_publications
    shares,        \* notebook_shares
    links,         \* competition_resources of notebooks
    commits,       \* notebook_commits, oldest first
    running,       \* competitions that were not deleted
    edits,         \* the newest document
    released       \* history: documents that were made public on purpose

vars == <<book, working, publication, shares, links, commits, running, edits,
          released>>

Docs == 0 .. Edits

Rows == {"unused", "live", "deleted"}

Books == [row : Rows, owner : Users \cup {None}, code : Docs, drafted : BOOLEAN]

Snapshots == [doc : Docs, forked : BOOLEAN]

Statuses == {"queued", "running", "succeeded", "failed", "cancelled"}

Copies == [doc : Docs, private : BOOLEAN, competition : Competitions \cup {None}, forked : BOOLEAN]

Evaluation ==
    [book : Notebooks, competition : Competitions, doc : Docs, status : Statuses \cup {"removed"},
     scored : BOOLEAN]

\* No document, row or snapshot is None.
ASSUME PublicationsAssumption ==
    /\ Sample \in Notebooks /\ Author \in Users
    /\ Edits \in Nat /\ Commits \in Nat
    /\ None \notin Users \cup Competitions \cup Docs
    /\ None \notin Copies /\ None \notin Snapshots

TypeOK ==
    /\ book \in [Notebooks -> Books]
    /\ working \in [Notebooks -> Copies \cup {None}]
    /\ publication \in [Notebooks -> Snapshots \cup {None}]
    /\ shares \in [Notebooks -> SUBSET Users]
    /\ links \in [Notebooks -> SUBSET Competitions]
    /\ commits \in Seq(Evaluation) /\ Len(commits) <= Commits
    /\ running \subseteq Competitions
    /\ edits \in Docs
    /\ released \in [Notebooks -> SUBSET Docs]

\* A notebook of before working copies, with or without a snapshot: one that an
\* import listed in a competition, or an old fork that was listed by itself.  Or
\* one that a draft saved.
Init ==
    /\ \E drafted, forked, listed, snapshot \in BOOLEAN :
           /\ (listed \/ forked) => snapshot
           /\ ~(drafted /\ snapshot)
           /\ book = [n \in Notebooks |-> [row |-> IF n = Sample THEN "live" ELSE "unused",
                                           owner |-> IF n = Sample THEN Author ELSE None,
                                           code |-> 0, drafted |-> n = Sample /\ drafted]]
           /\ working = [n \in Notebooks |->
                             IF n = Sample /\ drafted
                             THEN [doc |-> 0, private |-> TRUE, competition |-> None, forked |-> FALSE]
                             ELSE None]
           /\ publication = [n \in Notebooks |->
                                 IF n = Sample /\ snapshot THEN [doc |-> 0, forked |-> forked]
                                 ELSE None]
           /\ links = [n \in Notebooks |-> IF n = Sample /\ listed THEN Competitions ELSE {}]
           /\ released = [n \in Notebooks |-> IF n = Sample /\ ~drafted THEN {0} ELSE {}]
    /\ shares = [n \in Notebooks |-> {}]
    /\ commits = <<>>
    /\ running = Competitions
    /\ edits = 0

-----------------------------------------------------------------------------
Live(n) == book[n].row = "live"

Private(n) == working[n] # None /\ working[n].private

\* visible_notebooks(): the owner, the people it is shared with, or everyone.
Visible(n, u) ==
    /\ Live(n)
    /\ book[n].owner = u \/ u \in shares[n] \/ ~Private(n)

\* publication_document()
PublicationDocument(n) == IF publication[n] # None THEN publication[n].doc ELSE book[n].code

\* What view_code() shows and fork_code() copies.
Shown(n) == IF Private(n) THEN working[n].doc ELSE PublicationDocument(n)

Assigned(n) == working[n] # None /\ working[n].competition # None

Active(k) == commits[k].status \in {"queued", "running"}

\* Its submission was recorded, and neither its notebook nor its competition is deleted.
Scored(k) == commits[k].scored /\ commits[k].status # "removed"

NewDocument(d) == edits < Edits /\ d = edits + 1 /\ edits' = d

\* store_publication()
StorePublication(n, d) ==
    /\ publication' = [publication EXCEPT
           ![n] = [doc |-> d, forked |-> IF @ = None THEN FALSE ELSE @.forked]]
    /\ book' = [book EXCEPT ![n].code = d]
    /\ released' = [released EXCEPT ![n] = @ \cup {d}]

Book(row, owner, code, drafted) ==
    [row |-> row, owner |-> owner, code |-> code, drafted |-> drafted]

Copy(d, private, competition, forked) ==
    [doc |-> d, private |-> private, competition |-> competition, forked |-> forked]

-----------------------------------------------------------------------------
(* Creating and saving.                                                    *)

\* create_notebook(), or the first save() of a draft, maybe of a competition.
CreateNotebook(n, u, drafted, c) ==
    \E d \in Docs :
        /\ book[n].row = "unused"
        /\ ~drafted => c = None
        /\ NewDocument(d)
        /\ book' = [book EXCEPT ![n] = Book("live", u, d, drafted)]
        /\ working' = [working EXCEPT ![n] = Copy(d, TRUE, c, FALSE)]
        /\ UNCHANGED <<publication, shares, links, commits, running, released>>

\* A later save() of the draft keeps the competition, and may give the first one.
SaveDraft(n, c) ==
    \E d \in Docs :
        /\ Live(n)
        /\ book[n].drafted
        /\ LET linked == links[n] \cup (IF Assigned(n) THEN {working[n].competition} ELSE {})
           IN  linked = {} \/ linked = {c}
        /\ NewDocument(d)
        /\ book' = [book EXCEPT ![n].code = d]
        /\ working' = [working EXCEPT ![n].doc = d, ![n].competition = c]
        /\ UNCHANGED <<publication, shares, links, commits, running, released>>

\* save_notebook(), the legacy API: a notebook without a copy is edited in public.
SaveNotebook(n) ==
    \E d \in Docs :
        /\ Live(n)
        /\ NewDocument(d)
        /\ book' = [book EXCEPT ![n].code = d]
        /\ working' = [working EXCEPT
               ![n] = IF @ = None THEN Copy(d, FALSE, None, FALSE) ELSE [@ EXCEPT !.doc = d]]
        /\ released' = [released EXCEPT ![n] = IF Private(n) THEN @ ELSE @ \cup {d}]
        /\ UNCHANGED <<publication, shares, links, commits, running>>

\* put_document() of the editor
PutDocument(n) ==
    \E d \in Docs :
        /\ Live(n)
        /\ NewDocument(d)
        /\ working' = [working EXCEPT
               ![n] = IF @ = None THEN Copy(d, FALSE, None, FALSE) ELSE [@ EXCEPT !.doc = d]]
        /\ UNCHANGED <<book, publication, shares, links, commits, running,
                       released>>

\* fork_code(): the fork is private, and keeps the competition as its context.
ForkCode(n, u, f) ==
    /\ Visible(n, u)
    /\ book[f].row = "unused"
    /\ \E c \in IF links[n] = {} THEN running \cup {None} ELSE running \cup links[n] :
           working' = [working EXCEPT ![f] = Copy(Shown(n), TRUE, c, TRUE)]
    /\ book' = [book EXCEPT ![f] = Book("live", u, book[n].code, FALSE)]
    /\ UNCHANGED <<publication, shares, links, commits, running, edits, released>>

-----------------------------------------------------------------------------
(* Sharing and publishing.                                                 *)

\* Mutant: competition code is published without an evaluation.
PublishCodeOfCompetition(n) ==
    \E d \in Docs :
        /\ Live(n)
        /\ NewDocument(d)
        /\ StorePublication(n, d)
        /\ working' = [working EXCEPT
               ![n] = IF @ = None THEN None ELSE [@ EXCEPT !.private = FALSE, !.doc = d]]
        /\ UNCHANGED <<shares, links, commits, running>>

\* publish_code() of the editor's document
PublishCode(n) ==
    \E d \in Docs :
        /\ Live(n)
        /\ ~Assigned(n) /\ links[n] = {}
        /\ NewDocument(d)
        /\ StorePublication(n, d)
        /\ working' = [working EXCEPT
               ![n] = IF @ = None THEN None ELSE [@ EXCEPT !.private = FALSE, !.doc = d]]
        /\ UNCHANGED <<shares, links, commits, running>>

\* share() and revoke_share()
Share(n, u) ==
    /\ Live(n)
    /\ u # book[n].owner
    /\ \E recipients \in {shares[n] \cup {u}, shares[n] \ {u}} :
           shares' = [shares EXCEPT ![n] = recipients]
    /\ UNCHANGED <<book, working, publication, links, commits, running, edits,
                   released>>

\* Mutant: a notebook becomes public again without a snapshot.
SetVisibilityAnyway(n, private) ==
    /\ Live(n)
    /\ working' = [working EXCEPT
           ![n] = IF @ = None THEN Copy(PublicationDocument(n), private, None, FALSE)
                  ELSE [@ EXCEPT !.private = private]]
    /\ UNCHANGED <<book, publication, shares, links, commits, running, edits, released>>

\* set_visibility()
SetVisibility(n, private) ==
    /\ Live(n)
    /\ private \/ publication[n] # None
    /\ working' = [working EXCEPT
           ![n] = IF @ = None THEN Copy(PublicationDocument(n), private, None, FALSE)
                  ELSE [@ EXCEPT !.private = private]]
    /\ UNCHANGED <<book, publication, shares, links, commits, running, edits,
                   released>>

\* update_share_settings()
UpdateShareSettings(n, private, recipients) ==
    LET competition == Assigned(n) \/ links[n] # {}
        opens == ~private /\ Private(n)
    IN  /\ Live(n)
        /\ working[n] # None
        /\ opens /\ competition => publication[n] # None
        /\ IF opens /\ ~competition
           THEN StorePublication(n, working[n].doc)
           ELSE UNCHANGED <<publication, book, released>>
        /\ working' = [working EXCEPT ![n].private = private]
        /\ shares' = [shares EXCEPT ![n] = recipients \ {book[n].owner}]
        /\ UNCHANGED <<links, commits, running, edits>>

-----------------------------------------------------------------------------
(* Save & Commit.                                                          *)

\* create_commit()
CreateCommit(n, c) ==
    /\ Live(n)
    /\ c \in running
    /\ Len(commits) < Commits
    /\ \A k \in DOMAIN commits : commits[k].book = n => ~Active(k)
    /\ working[n] # None
    /\ working[n].competition \in {None, c} /\ links[n] \subseteq {c}
    /\ working' = [working EXCEPT ![n].competition = c]
    /\ commits' = Append(commits, [book |-> n, competition |-> c, doc |-> working[n].doc,
                                   status |-> "queued", scored |-> FALSE])
    /\ UNCHANGED <<book, publication, shares, links, running, edits, released>>

\* commit_worker() takes the oldest queued commit.
StartCommit(k) ==
    /\ commits[k].status = "queued"
    /\ \A j \in DOMAIN commits : commits[j].status # "running"
    /\ \A j \in 1 .. k - 1 : commits[j].status # "queued"
    /\ commits' = [commits EXCEPT ![k].status = "running"]
    /\ UNCHANGED <<book, working, publication, shares, links, running, edits,
                   released>>

\* complete_commit(): one transaction publishes, lists and scores.  commit_worker() calls
\* the commit failed all the same when its time runs out before the kernel is gone: only
\* a cancelled one keeps its status there.
CompleteCommit(k) ==
    LET n == commits[k].book  c == commits[k].competition IN
    /\ commits[k].status = "running"
    /\ Live(n) /\ c \in running
    /\ publication' = [publication EXCEPT
           ![n] = [doc |-> commits[k].doc,
                   forked |-> IF working[n] # None THEN working[n].forked
                              ELSE @ # None /\ @.forked]]
    /\ book' = [book EXCEPT ![n].code = commits[k].doc]
    /\ released' = [released EXCEPT ![n] = @ \cup {commits[k].doc}]
    /\ working' = [working EXCEPT
           ![n] = IF @ = None THEN None ELSE [@ EXCEPT !.private = FALSE]]
    /\ links' = [links EXCEPT ![n] = @ \cup {c}]
    /\ \E status \in {"succeeded", "failed"} :
           commits' = [commits EXCEPT ![k] = [@ EXCEPT !.scored = TRUE, !.status = status]]
    /\ UNCHANGED <<shares, running, edits>>

\* An error, a timeout or a refusal of eligible() before anything is scored, or
\* cancel_commit().
EndCommit(k) ==
    /\ \E status \in {"failed", "cancelled"} :
           /\ IF status = "failed" THEN commits[k].status = "running" ELSE Active(k)
           /\ commits' = [commits EXCEPT ![k].status = status]
    /\ UNCHANGED <<book, working, publication, shares, links, running, edits,
                   released>>

\* migrate_forks() at startup: old forks that were listed by themselves become
\* private work again, and interrupted commits have failed.
MigrateForks ==
    LET old == {n \in Notebooks : /\ publication[n] # None /\ publication[n].forked
                                  /\ working[n] = None /\ links[n] # {}}
    IN  /\ working' = [n \in Notebooks |->
               IF n \in old
               THEN Copy(publication[n].doc, TRUE, CHOOSE c \in links[n] : TRUE, TRUE)
               ELSE working[n]]
        /\ links' = [n \in Notebooks |-> IF n \in old THEN {} ELSE links[n]]
        /\ commits' = [k \in DOMAIN commits |->
               IF commits[k].status = "running" THEN [commits[k] EXCEPT !.status = "failed"]
               ELSE commits[k]]
        /\ UNCHANGED <<book, publication, shares, running, edits, released>>

-----------------------------------------------------------------------------
(* remove_work()                                                           *)

DeleteNotebook(n) ==
    /\ Live(n)
    /\ \A k \in DOMAIN commits : commits[k].book = n => ~Active(k)
    /\ book' = [book EXCEPT ![n] = Book("deleted", None, 0, FALSE)]
    /\ working' = [working EXCEPT ![n] = None]
    /\ publication' = [publication EXCEPT ![n] = None]
    /\ shares' = [shares EXCEPT ![n] = {}]
    /\ links' = [links EXCEPT ![n] = {}]
    /\ commits' = [k \in DOMAIN commits |->
           IF commits[k].book = n THEN [commits[k] EXCEPT !.status = "removed"] ELSE commits[k]]
    /\ UNCHANGED <<running, edits, released>>

DeleteCompetition(c) ==
    /\ c \in running
    /\ \A k \in DOMAIN commits : commits[k].competition = c => ~Active(k)
    /\ running' = running \ {c}
    /\ links' = [n \in Notebooks |-> links[n] \ {c}]
    /\ working' = [n \in Notebooks |->
           IF Assigned(n) /\ working[n].competition = c
           THEN [working[n] EXCEPT !.competition = None] ELSE working[n]]
    /\ commits' = [k \in DOMAIN commits |->
           IF commits[k].competition = c THEN [commits[k] EXCEPT !.status = "removed"]
           ELSE commits[k]]
    /\ UNCHANGED <<book, publication, shares, edits, released>>

-----------------------------------------------------------------------------
OfNotebook(n) ==
    \/ SaveNotebook(n) \/ PutDocument(n) \/ PublishCode(n) \/ DeleteNotebook(n)
    \/ \E private \in BOOLEAN : SetVisibility(n, private)
    \/ \E private \in BOOLEAN, recipients \in SUBSET Users :
           UpdateShareSettings(n, private, recipients)
    \/ \E u \in Users : Share(n, u)
    \/ \E u \in Users, f \in Notebooks : ForkCode(n, u, f)
    \/ \E u \in Users, drafted \in BOOLEAN, c \in running \cup {None} :
           CreateNotebook(n, u, drafted, c)
    \/ \E c \in running \cup {None} : SaveDraft(n, c)
    \/ \E c \in Competitions : CreateCommit(n, c)

Next ==
    \/ \E n \in Notebooks : OfNotebook(n)
    \/ \E k \in DOMAIN commits : StartCommit(k) \/ CompleteCommit(k) \/ EndCommit(k)
    \/ MigrateForks
    \/ \E c \in Competitions : DeleteCompetition(c)

Spec == Init /\ [][Next]_vars

-----------------------------------------------------------------------------
(* Properties                                                              *)

\* Competition Code lists evaluated documents: the snapshot of a listed notebook is
\* the one its newest scored commit to that competition ran, whatever became of the
\* commit's status, and however commits, saves, publications, visibility changes and
\* restarts were ordered.  (What an import listed is its first snapshot.)
EvaluatedOnly ==
    \A n \in Notebooks : \A c \in links[n] :
        /\ publication[n] # None
        /\ \/ n = Sample /\ publication[n].doc = 0
           \/ \E k \in DOMAIN commits :
                  /\ Scored(k)
                  /\ commits[k].book = n /\ commits[k].competition = c
                  /\ commits[k].doc = publication[n].doc
                  /\ \A j \in k + 1 .. Len(commits) : commits[j].book = n => ~Scored(j)

\* Competition Code lists the documents that were scored (notebook_commits.py).
PublicationsHold == TypeOK /\ EvaluatedOnly

\* What a stranger sees was made public on purpose: edits saved while the notebook was
\* private stay private, also when it is made public again.
PrivateEditsStayPrivate ==
    \A n \in Notebooks : Live(n) /\ ~Private(n) => PublicationDocument(n) \in released[n]
=============================================================================
