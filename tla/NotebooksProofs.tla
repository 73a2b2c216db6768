-------------------------- MODULE NotebooksProofs ---------------------------
(***************************************************************************)
(* Theorems about saved notebooks, for any number of notebooks, users,     *)
(* competitions, documents, commits, rows and files.  Of Publications: the *)
(* types, that Competition Code lists what was scored, and that private    *)
(* edits stay private.  Of Outputs: recorded output files stay.  Of        *)
(* Inputs: runs and kernels read what was published.                       *)
(***************************************************************************)
EXTENDS MCNotebooks, SequenceTheorems, FiniteSetTheorems, WellFoundedInduction, TLAPS

(* The first documents have their types. *)
LEMMA InitType == Init => TypeOK
<1> USE PublicationsAssumption
<1> SUFFICES ASSUME Init PROVE TypeOK
  OBVIOUS
<1>1. 0 \in Docs
  BY DEF Docs
<1>2. book \in [Notebooks -> Books]
  BY <1>1 DEF Init, Rows, Books
<1>3. working \in [Notebooks -> Copies \cup {None}]
  BY <1>1 DEF Init, Copies
<1>4. publication \in [Notebooks -> Snapshots \cup {None}]
  BY <1>1 DEF Init, Snapshots
<1>5. commits \in Seq(Evaluation) /\ Len(commits) <= Commits
  BY DEF Init
<1>6. /\ shares \in [Notebooks -> SUBSET Users] /\ links \in [Notebooks -> SUBSET Competitions]
      /\ running \subseteq Competitions /\ edits \in Docs
  BY <1>1 DEF Init
<1>7. released \in [Notebooks -> SUBSET Docs]
  BY <1>1 DEF Init
<1> QED
  BY <1>2, <1>3, <1>4, <1>5, <1>6, <1>7 DEF TypeOK

(* What the handlers build has the type of the row it is written to. *)
LEMMA BookType ==
  ASSUME NEW row \in Rows, NEW owner \in Users \cup {None}, NEW code \in Docs,
         NEW drafted \in BOOLEAN
  PROVE  Book(row, owner, code, drafted) \in Books
BY DEF Book, Books

LEMMA CopyType ==
  ASSUME NEW d \in Docs, NEW private \in BOOLEAN, NEW c \in Competitions \cup {None},
         NEW forked \in BOOLEAN
  PROVE  /\ Copy(d, private, c, forked) \in Copies
         /\ Copy(d, private, c, forked) # None
         /\ Copy(d, private, c, forked).private = private
<1>1. Copy(d, private, c, forked) \in Copies
  BY DEF Copy, Copies
<1>2. Copy(d, private, c, forked).private = private
  BY DEF Copy
<1> QED
  BY <1>1, <1>2, PublicationsAssumption

(* A row that is not missing has its fields. *)
LEMMA RowType ==
  ASSUME TypeOK, NEW n \in Notebooks
  PROVE  /\ book[n] \in Books
         /\ working[n] # None => working[n] \in Copies
         /\ publication[n] # None => publication[n] \in Snapshots
         /\ PublicationDocument(n) \in Docs
         /\ Shown(n) \in Docs
         /\ Private(n) \in BOOLEAN
<1>1. /\ book[n] \in Books
      /\ working[n] # None => working[n] \in Copies
      /\ publication[n] # None => publication[n] \in Snapshots
  BY DEF TypeOK
<1>2. PublicationDocument(n) \in Docs
  BY <1>1 DEF PublicationDocument, Books, Snapshots
<1>3. Private(n) \in BOOLEAN
  BY <1>1 DEF Private, Copies
<1> QED
  BY <1>1, <1>2, <1>3 DEF Shown, Private, Copies

(* A commit is an evaluation, and so is one whose status is updated. *)
LEMMA CommitType ==
  ASSUME TypeOK, NEW k \in DOMAIN commits, NEW status \in Statuses \cup {"removed"}
  PROVE  /\ k \in 1 .. Len(commits)
         /\ commits[k] \in Evaluation
         /\ [commits EXCEPT ![k].status = status] \in Seq(Evaluation)
         /\ Len([commits EXCEPT ![k].status = status]) = Len(commits)
         /\ [commits EXCEPT ![k] = [@ EXCEPT !.scored = TRUE, !.status = status]] \in Seq(Evaluation)
         /\ Len([commits EXCEPT ![k] = [@ EXCEPT !.scored = TRUE, !.status = status]]) = Len(commits)
<1>1. commits \in Seq(Evaluation) /\ k \in 1 .. Len(commits)
  BY DEF TypeOK
<1>2. commits[k] \in Evaluation
  BY <1>1
<1>3. /\ [commits[k] EXCEPT !.status = status] \in Evaluation
      /\ [commits[k] EXCEPT !.scored = TRUE, !.status = status] \in Evaluation
  BY <1>2 DEF Evaluation
<1> QED
  BY <1>1, <1>2, <1>3, ExceptSeq

(* Ended and removed commits are commits. *)
LEMMA MarkType ==
  ASSUME TypeOK, NEW those \in SUBSET DOMAIN commits, NEW status \in Statuses \cup {"removed"}
  PROVE  LET marked == [k \in DOMAIN commits |->
                            IF k \in those THEN [commits[k] EXCEPT !.status = status]
                            ELSE commits[k]]
         IN  marked \in Seq(Evaluation) /\ Len(marked) = Len(commits)
<1> DEFINE mark(k) == IF k \in those THEN [commits[k] EXCEPT !.status = status] ELSE commits[k]
           marked == [k \in DOMAIN commits |-> mark(k)]
<1>1. commits \in Seq(Evaluation) /\ DOMAIN commits = 1 .. Len(commits) /\ Len(commits) \in Nat
  BY DEF TypeOK
<1>2. \A k \in DOMAIN commits : commits[k] \in Evaluation
  BY <1>1
<1>3. \A k \in DOMAIN commits : mark(k) \in Evaluation
  BY <1>2 DEF Evaluation
<1>4. marked \in [1 .. Len(commits) -> Evaluation]
  BY <1>1, <1>3
<1>5. marked \in Seq(Evaluation)
  BY <1>1, <1>4, SeqDef
<1>6. Len(marked) = Len(commits)
  BY <1>1, <1>4, <1>5, LenProperties
<1> QED
  BY <1>5, <1>6

(* A notebook that a draft saves has a working copy, and it was made public with a snapshot. *)
DraftsHaveCopies ==
    \A n \in Notebooks : Live(n) /\ book[n].drafted =>
        working[n] # None /\ (~Private(n) => publication[n] # None)

(* Every operation on one notebook keeps the types. *)
LEMMA OfNotebookType ==
  ASSUME TypeOK, DraftsHaveCopies, NEW n \in Notebooks, OfNotebook(n)
  PROVE  TypeOK'
<1> USE PublicationsAssumption
<1>0. /\ book \in [Notebooks -> Books] /\ working \in [Notebooks -> Copies \cup {None}]
      /\ publication \in [Notebooks -> Snapshots \cup {None}]
      /\ shares \in [Notebooks -> SUBSET Users] /\ links \in [Notebooks -> SUBSET Competitions]
      /\ commits \in Seq(Evaluation) /\ Len(commits) <= Commits
      /\ running \subseteq Competitions /\ edits \in Docs
      /\ released \in [Notebooks -> SUBSET Docs]
  BY DEF TypeOK
<1>1. /\ book[n] \in Books /\ released[n] \in SUBSET Docs
      /\ working[n] # None => working[n] \in Copies
      /\ publication[n] # None => publication[n] \in Snapshots
  BY <1>0
<1>2. ASSUME NEW d \in Docs
      PROVE  /\ [book[n] EXCEPT !.code = d] \in Books
             /\ working[n] # None => [working[n] EXCEPT !.doc = d] \in Copies
             /\ Copy(d, FALSE, None, FALSE) \in Copies
             /\ released[n] \cup {d} \in SUBSET Docs
  BY <1>1 DEF Books, Copies, Copy
<1>3. CASE SaveNotebook(n)
  <2> PICK d \in Docs : SaveNotebook(n)!(d)
    BY <1>3 DEF SaveNotebook
  <2> QED
    BY <1>0, <1>2 DEF TypeOK, NewDocument
<1>4. CASE PutDocument(n)
  <2> PICK d \in Docs : PutDocument(n)!(d)
    BY <1>4 DEF PutDocument
  <2> QED
    BY <1>0, <1>2 DEF TypeOK, NewDocument
<1>5. ASSUME NEW d \in Docs, StorePublication(n, d)
      PROVE  /\ publication' \in [Notebooks -> Snapshots \cup {None}]
             /\ book' \in [Notebooks -> Books]
             /\ released' \in [Notebooks -> SUBSET Docs]
  <2>1. [doc |-> d, forked |-> IF publication[n] = None THEN FALSE ELSE publication[n].forked]
           \in Snapshots
    BY <1>1 DEF Snapshots
  <2> QED
    BY <2>1, <1>0, <1>2, <1>5 DEF StorePublication
<1>6. CASE PublishCode(n)
  <2> PICK d \in Docs : PublishCode(n)!(d)
    BY <1>6 DEF PublishCode
  <2>1. working[n] # None => [working[n] EXCEPT !.private = FALSE, !.doc = d] \in Copies
    BY <1>1 DEF Copies
  <2>2. working' \in [Notebooks -> Copies \cup {None}]
    BY <2>1, <1>0
  <2> QED
    BY <2>2, <1>0, <1>5 DEF TypeOK, NewDocument
<1>7. CASE DeleteNotebook(n)
  <2>1. Book("deleted", None, 0, FALSE) \in Books
    BY DEF Book, Books, Rows, Docs
  <2> DEFINE those == {k \in DOMAIN commits : commits[k].book = n}
  <2>2. commits' = [k \in DOMAIN commits |->
                       IF k \in those THEN [commits[k] EXCEPT !.status = "removed"] ELSE commits[k]]
    BY <1>7 DEF DeleteNotebook
  <2>3. commits' \in Seq(Evaluation) /\ Len(commits') = Len(commits)
    BY <2>2, MarkType
  <2> QED
    BY <2>1, <2>3, <1>0, <1>7 DEF DeleteNotebook, TypeOK
<1>8. CASE \E private \in BOOLEAN : SetVisibility(n, private)
  <2> PICK private \in BOOLEAN : SetVisibility(n, private)
    BY <1>8
  <2>1. Copy(PublicationDocument(n), private, None, FALSE) \in Copies
    BY RowType, CopyType
  <2>2. working[n] # None => [working[n] EXCEPT !.private = private] \in Copies
    BY <1>1 DEF Copies
  <2> QED
    BY <2>1, <2>2, <1>0 DEF SetVisibility, TypeOK
<1>9. CASE \E private \in BOOLEAN, recipients \in SUBSET Users :
               UpdateShareSettings(n, private, recipients)
  <2> PICK private \in BOOLEAN, recipients \in SUBSET Users :
               UpdateShareSettings(n, private, recipients)
    BY <1>9
  <2>1. working[n] \in Copies /\ working[n].doc \in Docs
    BY <1>1 DEF UpdateShareSettings, Copies
  <2>2. /\ publication' \in [Notebooks -> Snapshots \cup {None}]
        /\ book' \in [Notebooks -> Books]
        /\ released' \in [Notebooks -> SUBSET Docs]
    BY <2>1, <1>0, <1>5 DEF UpdateShareSettings
  <2>3. [working[n] EXCEPT !.private = private] \in Copies
    BY <2>1 DEF Copies
  <2>4. working' \in [Notebooks -> Copies \cup {None}]
    BY <2>3, <1>0 DEF UpdateShareSettings
  <2>5. shares' \in [Notebooks -> SUBSET Users]
    BY <1>0 DEF UpdateShareSettings
  <2> QED
    BY <2>2, <2>4, <2>5, <1>0 DEF UpdateShareSettings, TypeOK
<1>10. CASE \E u \in Users : Share(n, u)
  BY <1>0, <1>10 DEF Share, TypeOK
<1>11. CASE \E u \in Users, f \in Notebooks : ForkCode(n, u, f)
  <2> PICK u \in Users, f \in Notebooks : ForkCode(n, u, f)
    BY <1>11
  <2>1. Book("live", u, book[n].code, FALSE) \in Books
    BY <1>1 DEF Book, Books, Rows
  <2>2. PICK c \in Competitions \cup {None} :
            working' = [working EXCEPT ![f] = Copy(Shown(n), TRUE, c, TRUE)]
    BY <1>0 DEF ForkCode
  <2>3. Copy(Shown(n), TRUE, c, TRUE) \in Copies
    BY RowType, CopyType
  <2> QED
    BY <2>1, <2>2, <2>3, <1>0 DEF ForkCode, TypeOK
<1>12. CASE \E u \in Users, drafted \in BOOLEAN, c \in running \cup {None} :
                CreateNotebook(n, u, drafted, c)
  <2> PICK u \in Users, drafted \in BOOLEAN, c \in running \cup {None} :
                CreateNotebook(n, u, drafted, c)
    BY <1>12
  <2> PICK d \in Docs : CreateNotebook(n, u, drafted, c)!(d)
    BY DEF CreateNotebook
  <2>1. Book("live", u, d, drafted) \in Books
    BY DEF Book, Books, Rows
  <2>2. Copy(d, TRUE, c, FALSE) \in Copies
    BY <1>0, CopyType
  <2> QED
    BY <2>1, <2>2, <1>0 DEF NewDocument, TypeOK
<1>13. CASE \E c \in running \cup {None} : SaveDraft(n, c)
  <2> PICK c \in running \cup {None} : SaveDraft(n, c)
    BY <1>13
  <2> PICK d \in Docs : SaveDraft(n, c)!(d)
    BY DEF SaveDraft
  <2>1. working[n] \in Copies
    BY <1>1 DEF DraftsHaveCopies
  <2>2. [working[n] EXCEPT !.doc = d, !.competition = c] \in Copies
    BY <2>1, <1>0 DEF Copies
  <2>3. working' \in [Notebooks -> Copies \cup {None}]
    BY <2>2, <1>0
  <2> QED
    BY <2>3, <1>0, <1>2 DEF NewDocument, TypeOK
<1>14. CASE \E c \in Competitions : CreateCommit(n, c)
  <2> PICK c \in Competitions : CreateCommit(n, c)
    BY <1>14
  <2> DEFINE commit == [book |-> n, competition |-> c, doc |-> working[n].doc, status |-> "queued",
                         scored |-> FALSE]
  <2>1. working[n] \in Copies
    BY <1>1 DEF CreateCommit
  <2>2. commit \in Evaluation /\ [working[n] EXCEPT !.competition = c] \in Copies
    BY <2>1 DEF Evaluation, Copies, Statuses
  <2>3. Append(commits, commit) \in Seq(Evaluation) /\ Len(Append(commits, commit)) = Len(commits) + 1
    BY <2>2, <1>0, AppendProperties
  <2>4. commits' \in Seq(Evaluation) /\ Len(commits') <= Commits
    BY <2>3, <1>0 DEF CreateCommit
  <2>5. working' \in [Notebooks -> Copies \cup {None}]
    BY <2>2, <1>0 DEF CreateCommit
  <2> QED
    BY <2>4, <2>5, <1>0 DEF CreateCommit, TypeOK
<1> QED
  BY <1>3, <1>4, <1>6, <1>7, <1>8, <1>9, <1>10, <1>11, <1>12, <1>13, <1>14 DEF OfNotebook

(* So do the commit worker, a restart and the deletion of a competition. *)
LEMMA StepType ==
  ASSUME TypeOK, DraftsHaveCopies, [Next]_vars
  PROVE  TypeOK'
<1> USE PublicationsAssumption
<1>0. /\ book \in [Notebooks -> Books] /\ working \in [Notebooks -> Copies \cup {None}]
      /\ publication \in [Notebooks -> Snapshots \cup {None}]
      /\ shares \in [Notebooks -> SUBSET Users] /\ links \in [Notebooks -> SUBSET Competitions]
      /\ commits \in Seq(Evaluation) /\ Len(commits) <= Commits
      /\ running \subseteq Competitions /\ edits \in Docs
      /\ released \in [Notebooks -> SUBSET Docs]
  BY DEF TypeOK
<1>1. CASE \E n \in Notebooks : OfNotebook(n)
  BY <1>1, OfNotebookType
<1>2. ASSUME NEW k \in DOMAIN commits, StartCommit(k) \/ CompleteCommit(k) \/ EndCommit(k)
      PROVE  TypeOK'
  <2>1. PICK status \in Statuses :
            \/ commits' = [commits EXCEPT ![k].status = status]
            \/ commits' = [commits EXCEPT ![k] = [@ EXCEPT !.scored = TRUE, !.status = status]]
    BY <1>2 DEF StartCommit, CompleteCommit, EndCommit, Statuses
  <2>2. commits' \in Seq(Evaluation) /\ Len(commits') <= Commits
    <3>1. CASE commits' = [commits EXCEPT ![k].status = status]
      BY <3>1, <1>0, CommitType
    <3>2. CASE commits' = [commits EXCEPT ![k] = [@ EXCEPT !.scored = TRUE, !.status = status]]
      BY <3>2, <1>0, CommitType
    <3> QED
      BY <2>1, <3>1, <3>2
  <2>3. CASE StartCommit(k) \/ EndCommit(k)
    BY <2>2, <2>3, <1>0 DEF StartCommit, EndCommit, TypeOK
  <2>4. CASE CompleteCommit(k)
    <3> DEFINE n == commits[k].book
    <3>1. n \in Notebooks /\ commits[k].doc \in Docs /\ commits[k].competition \in Competitions
      BY CommitType DEF Evaluation, Statuses
    <3>2. /\ book[n] \in Books
          /\ working[n] # None => working[n] \in Copies
          /\ publication[n] # None => publication[n] \in Snapshots
      BY <3>1, RowType
    <3>3. /\ [book[n] EXCEPT !.code = commits[k].doc] \in Books
          /\ working[n] # None => [working[n] EXCEPT !.private = FALSE] \in Copies
          /\ [doc |-> commits[k].doc,
              forked |-> IF working[n] # None THEN working[n].forked
                         ELSE publication[n] # None /\ publication[n].forked] \in Snapshots
      BY <3>1, <3>2 DEF Books, Copies, Snapshots
    <3>4. /\ book' \in [Notebooks -> Books]
          /\ working' \in [Notebooks -> Copies \cup {None}]
          /\ publication' \in [Notebooks -> Snapshots \cup {None}]
      BY <3>1, <3>3, <1>0, <2>4 DEF CompleteCommit
    <3>5. /\ links' \in [Notebooks -> SUBSET Competitions]
          /\ released' \in [Notebooks -> SUBSET Docs]
      BY <3>1, <1>0, <2>4 DEF CompleteCommit
    <3> QED
      BY <3>4, <3>5, <2>2, <1>0, <2>4 DEF CompleteCommit, TypeOK
  <2> QED
    BY <2>3, <2>4, <1>2
<1>3. CASE MigrateForks
  <2>1. ASSUME NEW n \in Notebooks, publication[n] # None, links[n] # {}
        PROVE  Copy(publication[n].doc, TRUE, CHOOSE c \in links[n] : TRUE, TRUE) \in Copies
    <3>1. (CHOOSE c \in links[n] : TRUE) \in Competitions
      BY <2>1, <1>0
    <3>2. publication[n].doc \in Docs
      BY <2>1, RowType DEF Snapshots
    <3> QED
      BY <3>1, <3>2, CopyType
  <2>2. working' \in [Notebooks -> Copies \cup {None}]
    BY <2>1, <1>0, <1>3 DEF MigrateForks
  <2> DEFINE those == {k \in DOMAIN commits : commits[k].status = "running"}
  <2>3. commits' = [k \in DOMAIN commits |->
                       IF k \in those THEN [commits[k] EXCEPT !.status = "failed"] ELSE commits[k]]
    BY <1>3 DEF MigrateForks
  <2>4. commits' \in Seq(Evaluation) /\ Len(commits') = Len(commits)
    BY <2>3, MarkType DEF Statuses
  <2>5. links' \in [Notebooks -> SUBSET Competitions]
    BY <1>0, <1>3 DEF MigrateForks
  <2> QED
    BY <2>2, <2>4, <2>5, <1>0, <1>3 DEF MigrateForks, TypeOK
<1>4. CASE \E c \in Competitions : DeleteCompetition(c)
  <2> PICK c \in Competitions : DeleteCompetition(c)
    BY <1>4
  <2>1. \A n \in Notebooks : working[n] # None => [working[n] EXCEPT !.competition = None] \in Copies
    BY RowType DEF Copies
  <2>2. working' \in [Notebooks -> Copies \cup {None}]
    BY <2>1, <1>0 DEF DeleteCompetition, Assigned
  <2> DEFINE those == {k \in DOMAIN commits : commits[k].competition = c}
  <2>3. commits' = [k \in DOMAIN commits |->
                       IF k \in those THEN [commits[k] EXCEPT !.status = "removed"] ELSE commits[k]]
    BY DEF DeleteCompetition
  <2>4. commits' \in Seq(Evaluation) /\ Len(commits') = Len(commits)
    BY <2>3, MarkType
  <2>5. links' \in [Notebooks -> SUBSET Competitions]
    BY <1>0 DEF DeleteCompetition
  <2> QED
    BY <2>2, <2>4, <2>5, <1>0 DEF DeleteCompetition, TypeOK
<1>5. CASE UNCHANGED vars
  BY <1>0, <1>5 DEF vars, TypeOK
<1> QED
  BY <1>1, <1>2, <1>3, <1>4, <1>5 DEF Next

(* What makes PrivateEditsStayPrivate inductive: set_visibility() may show any        *)
(* snapshot again, and a draft saves over the code of a notebook without a snapshot.  *)
KeptPrivate(n) ==
    /\ publication[n] # None => publication[n].doc \in released[n]
    /\ Live(n) /\ book[n].drafted =>
           working[n] # None /\ (~Private(n) => publication[n] # None)
    /\ Live(n) /\ ~Private(n) => PublicationDocument(n) \in released[n]

PrivacyInv == \A n \in Notebooks : KeptPrivate(n)

LEMMA PrivacyMeans == PrivacyInv => DraftsHaveCopies /\ PrivateEditsStayPrivate
BY DEF PrivacyInv, KeptPrivate, DraftsHaveCopies, PrivateEditsStayPrivate

LEMMA InitPrivacy == Init => PrivacyInv
<1> USE PublicationsAssumption
<1> SUFFICES ASSUME Init, NEW n \in Notebooks PROVE KeptPrivate(n)
  BY DEF PrivacyInv
<1>1. [doc |-> 0, private |-> TRUE, competition |-> None, forked |-> FALSE] \in Copies
  BY DEF Copies, Docs
<1>2. ASSUME NEW forked \in BOOLEAN PROVE [doc |-> 0, forked |-> forked] \in Snapshots
  BY DEF Snapshots, Docs
<1> USE DEF KeptPrivate, Live, Private, PublicationDocument
<1>3. CASE n # Sample
  BY <1>3 DEF Init
<1>4. CASE n = Sample
  <2> PICK drafted, forked, listed, snapshot \in BOOLEAN : Init!1!(drafted, forked, listed, snapshot)
    BY DEF Init
  <2>1. CASE drafted
    BY <2>1, <1>1, <1>4
  <2>2. CASE ~drafted /\ snapshot
    BY <2>2, <1>2, <1>4
  <2>3. CASE ~drafted /\ ~snapshot
    BY <2>3, <1>4
  <2> QED
    BY <2>1, <2>2, <2>3
<1> QED
  BY <1>3, <1>4

(* What one notebook shows is settled by its own rows. *)
LEMMA SameRows ==
  ASSUME NEW n \in Notebooks, KeptPrivate(n),
         book'[n] = book[n], working'[n] = working[n], publication'[n] = publication[n],
         released'[n] = released[n]
  PROVE  KeptPrivate(n)'
BY DEF KeptPrivate, Live, Private, PublicationDocument

(* store_publication() makes a document public. *)
LEMMA Stored ==
  ASSUME TypeOK, NEW n \in Notebooks, NEW d \in Docs, StorePublication(n, d)
  PROVE  publication'[n] # None /\ publication'[n].doc = d /\ d \in released'[n]
<1>1. publication[n] = None \/ publication[n] \in Snapshots
  BY DEF TypeOK
<1>2. ASSUME NEW forked \in BOOLEAN PROVE [doc |-> d, forked |-> forked] # None
  BY PublicationsAssumption DEF Snapshots
<1> QED
  BY <1>1, <1>2 DEF StorePublication, TypeOK, Snapshots

(* Every step on one notebook keeps that of every notebook. *)
LEMMA OfNotebookPrivacy ==
  ASSUME TypeOK, PrivacyInv, NEW n \in Notebooks, OfNotebook(n)
  PROVE  PrivacyInv'
<1> USE PublicationsAssumption
<1> SUFFICES ASSUME NEW m \in Notebooks PROVE KeptPrivate(m)'
  BY DEF PrivacyInv
<1>0. /\ KeptPrivate(m) /\ KeptPrivate(n)
      /\ book \in [Notebooks -> Books] /\ working \in [Notebooks -> Copies \cup {None}]
      /\ publication \in [Notebooks -> Snapshots \cup {None}]
      /\ released \in [Notebooks -> SUBSET Docs]
  BY DEF PrivacyInv, TypeOK
<1>1. book[n] \in Books
      /\ (working[n] # None => working[n] \in Copies)
      /\ (publication[n] # None => publication[n] \in Snapshots)
  BY <1>0
<1> USE DEF KeptPrivate, Live, Private, PublicationDocument
<1>2. CASE \E f \in Notebooks, u \in Users : ForkCode(n, u, f)
  <2> PICK f \in Notebooks, u \in Users : ForkCode(n, u, f)
    BY <1>2
  <2>1. PICK c \in Competitions \cup {None} :
            working' = [working EXCEPT ![f] = Copy(Shown(n), TRUE, c, TRUE)]
    BY DEF ForkCode, TypeOK
  <2>2. Copy(Shown(n), TRUE, c, TRUE) \in Copies
    BY RowType, CopyType
  <2>3. CASE m = f
    BY <2>1, <2>2, <2>3, <1>0 DEF ForkCode, Book, Copy
  <2>4. CASE m # f
    BY <2>1, <2>4, <1>0, SameRows DEF ForkCode
  <2> QED
    BY <2>3, <2>4
<1>3. CASE ~\E f \in Notebooks, u \in Users : ForkCode(n, u, f)
  <2>1. CASE m # n
    <3>1. /\ book'[m] = book[m] /\ working'[m] = working[m] /\ publication'[m] = publication[m]
          /\ released'[m] = released[m]
      BY <2>1, <1>0, <1>3 DEF OfNotebook, SaveNotebook, PutDocument, PublishCode, DeleteNotebook,
         SetVisibility, UpdateShareSettings, Share, CreateNotebook, SaveDraft, CreateCommit,
         StorePublication
    <3> QED
      BY <3>1, <1>0, SameRows
  <2>2. CASE m = n
    <3> USE <2>2
    <3>1. CASE SaveNotebook(n)
      BY <3>1, <1>0, <1>1 DEF SaveNotebook, Books, Copies, Copy
    <3>2. CASE PutDocument(n)
      BY <3>2, <1>0, <1>1 DEF PutDocument, Books, Copies, Copy
    <3>3. CASE PublishCode(n)
      <4> PICK d \in Docs : PublishCode(n)!(d)
        BY <3>3 DEF PublishCode
      <4>1. publication'[n] # None /\ publication'[n].doc = d /\ d \in released'[n]
        BY <1>0, Stored
      <4>2. book'[n].row = book[n].row /\ book'[n].drafted = book[n].drafted
        BY <1>0, <1>1 DEF StorePublication, Books
      <4>3. working[n] # None => working'[n] # None
        BY <1>0, <1>1 DEF Copies
      <4> QED
        BY <4>1, <4>2, <4>3, <1>0
    <3>4. CASE DeleteNotebook(n)
      BY <3>4, <1>0 DEF DeleteNotebook, Book
    <3>5. CASE \E private \in BOOLEAN : SetVisibility(n, private)
      BY <3>5, <1>0, <1>1 DEF SetVisibility, Books, Copies, Copy
    <3>6. CASE \E private \in BOOLEAN, recipients \in SUBSET Users :
                   UpdateShareSettings(n, private, recipients)
      <4> PICK private \in BOOLEAN, recipients \in SUBSET Users :
                   UpdateShareSettings(n, private, recipients)
        BY <3>6
      <4>1. working[n] \in Copies /\ working'[n] = [working[n] EXCEPT !.private = private]
        BY <1>0, <1>1 DEF UpdateShareSettings
      <4>2. working'[n] # None /\ working'[n].private = private /\ working[n].doc \in Docs
        BY <4>1, <1>0 DEF Copies
      <4>3. CASE StorePublication(n, working[n].doc)
        <5>1. publication'[n] # None /\ publication'[n].doc \in released'[n]
          BY <4>2, <4>3, <1>0, Stored
        <5>2. book'[n].row = book[n].row /\ book'[n].drafted = book[n].drafted
          BY <4>3, <1>0, <1>1 DEF StorePublication, Books
        <5> QED
          BY <5>1, <5>2, <4>2, <1>0
      <4>4. CASE UNCHANGED <<publication, book, released>> /\ (~private /\ Private(n) => publication[n] # None)
        BY <4>1, <4>2, <4>4, <1>0
      <4> QED
        BY <4>3, <4>4, <4>1 DEF UpdateShareSettings
    <3>7. CASE \E u \in Users : Share(n, u)
      BY <3>7, <1>0 DEF Share
    <3>8. CASE \E u \in Users, drafted \in BOOLEAN, c \in running \cup {None} :
                   CreateNotebook(n, u, drafted, c)
      <4> PICK u \in Users, drafted \in BOOLEAN, c \in running \cup {None} :
                   CreateNotebook(n, u, drafted, c)
        BY <3>8
      <4> PICK d \in Docs : CreateNotebook(n, u, drafted, c)!(d)
        BY DEF CreateNotebook
      <4>1. Copy(d, TRUE, c, FALSE) # None /\ Copy(d, TRUE, c, FALSE).private = TRUE
        BY CopyType DEF TypeOK
      <4>2. working'[n] # None /\ working'[n].private
        BY <4>1, <1>0
      <4> QED
        BY <4>2, <1>0
    <3>9. CASE \E c \in running \cup {None} : SaveDraft(n, c)
      <4> PICK c \in running \cup {None} : SaveDraft(n, c)
        BY <3>9
      <4> PICK d \in Docs : SaveDraft(n, c)!(d)
        BY DEF SaveDraft
      <4>1. working[n] \in Copies
        BY <1>0, <1>1
      <4>2. working'[n] = [working[n] EXCEPT !.doc = d, !.competition = c]
        BY <1>0
      <4>3. working'[n].private = working[n].private /\ working'[n] \in Copies
        BY <4>1, <4>2 DEF Copies, TypeOK
      <4>4. working'[n] # None
        BY <4>3
      <4>5. book'[n].row = book[n].row /\ book'[n].drafted
        BY <1>0, <1>1 DEF Books
      <4> QED
        BY <4>1, <4>3, <4>4, <4>5, <1>0
    <3>10. CASE \E c \in Competitions : CreateCommit(n, c)
      BY <3>10, <1>0, <1>1 DEF CreateCommit, Copies
    <3> QED
      BY <3>1, <3>2, <3>3, <3>4, <3>5, <3>6, <3>7, <3>8, <3>9, <3>10, <1>3 DEF OfNotebook
  <2> QED
    BY <2>1, <2>2
<1> QED
  BY <1>2, <1>3, OfNotebookType

(* So do the commit worker, a restart and the deletion of a competition. *)
LEMMA StepPrivacy ==
  ASSUME TypeOK, PrivacyInv, [Next]_vars
  PROVE  PrivacyInv'
<1> USE PublicationsAssumption
<1>0. /\ book \in [Notebooks -> Books] /\ working \in [Notebooks -> Copies \cup {None}]
      /\ publication \in [Notebooks -> Snapshots \cup {None}]
      /\ released \in [Notebooks -> SUBSET Docs]
  BY DEF TypeOK
<1>1. CASE \E n \in Notebooks : OfNotebook(n)
  BY <1>1, OfNotebookPrivacy
<1>2. ASSUME NEW k \in DOMAIN commits, CompleteCommit(k), NEW m \in Notebooks
      PROVE  KeptPrivate(m)'
  <2> DEFINE n == commits[k].book
             d == commits[k].doc
  <2>1. n \in Notebooks /\ d \in Docs
    BY CommitType DEF Evaluation, Statuses
  <2>2. CASE m # n
    BY <1>0, <1>2, <2>2, SameRows DEF CompleteCommit, PrivacyInv
  <2>3. CASE m = n
    <3>1. /\ working[n] # None => working[n] \in Copies
          /\ publication[n] # None => publication[n] \in Snapshots
          /\ book[n] \in Books
      BY <2>1, RowType
    <3>2. [doc |-> d, forked |-> IF working[n] # None THEN working[n].forked
                                ELSE publication[n] # None /\ publication[n].forked] \in Snapshots
      BY <2>1, <3>1 DEF Snapshots, Copies
    <3>3. publication'[n] # None /\ publication'[n].doc = d /\ d \in released'[n]
      BY <1>0, <1>2, <2>1, <3>2 DEF CompleteCommit
    <3>4. book'[n].row = book[n].row /\ book'[n].drafted = book[n].drafted
      BY <1>0, <1>2, <2>1, <3>1 DEF CompleteCommit, Books
    <3>5. working[n] # None => working'[n] # None
      BY <1>0, <1>2, <2>1, <3>1 DEF CompleteCommit, Copies
    <3> QED
      BY <2>3, <3>3, <3>4, <3>5 DEF PrivacyInv, KeptPrivate, Live, PublicationDocument
  <2> QED
    BY <2>2, <2>3
<1>3. ASSUME NEW k \in DOMAIN commits, StartCommit(k) \/ EndCommit(k), NEW m \in Notebooks
      PROVE  KeptPrivate(m)'
  BY <1>3, SameRows DEF StartCommit, EndCommit, PrivacyInv
<1>4. ASSUME MigrateForks, NEW m \in Notebooks
      PROVE  KeptPrivate(m)'
  <2>1. CASE working'[m] = working[m]
    BY <1>4, <2>1, SameRows DEF MigrateForks, PrivacyInv
  <2>2. CASE working'[m] # working[m]
    <3>1. publication[m] # None /\ links[m] # {} /\ links[m] \subseteq Competitions
      BY <2>2, <1>4 DEF MigrateForks, TypeOK
    <3>2. working'[m] = Copy(publication[m].doc, TRUE, CHOOSE c \in links[m] : TRUE, TRUE)
      BY <2>2, <1>4 DEF MigrateForks
    <3>3. (CHOOSE c \in links[m] : TRUE) \in Competitions /\ publication[m].doc \in Docs
      BY <3>1, RowType DEF Snapshots
    <3>4. working'[m] # None /\ working'[m].private = TRUE
      BY <3>2, <3>3, CopyType
    <3> QED
      BY <3>4, <1>4 DEF MigrateForks, PrivacyInv, KeptPrivate, Live, Private, PublicationDocument
  <2> QED
    BY <2>1, <2>2
<1>5. ASSUME NEW c \in Competitions, DeleteCompetition(c), NEW m \in Notebooks
      PROVE  KeptPrivate(m)'
  <2>1. CASE working'[m] = working[m]
    BY <1>5, <2>1, SameRows DEF DeleteCompetition, PrivacyInv
  <2>2. CASE working'[m] # working[m]
    <3>1. working[m] \in Copies /\ working'[m] = [working[m] EXCEPT !.competition = None]
      BY <2>2, <1>0, <1>5 DEF DeleteCompetition, Assigned
    <3>2. working'[m] \in Copies /\ working'[m].private = working[m].private
      BY <3>1 DEF Copies
    <3> QED
      BY <3>1, <3>2, <1>5
      DEF DeleteCompetition, PrivacyInv, KeptPrivate, Live, Private, PublicationDocument
  <2> QED
    BY <2>1, <2>2
<1>6. CASE UNCHANGED vars
  BY <1>6, SameRows DEF vars, PrivacyInv
<1> QED
  BY <1>1, <1>2, <1>3, <1>4, <1>5, <1>6 DEF Next, PrivacyInv

(* What makes EvaluatedOnly inductive: the active commit of a notebook is its newest, and *)
(* the notebook is listed nowhere but in the competition of that commit.                  *)
ActiveIsNewest ==
    \A k \in DOMAIN commits : Active(k) =>
        /\ links[commits[k].book] \subseteq {commits[k].competition}
        /\ \A j \in k + 1 .. Len(commits) : commits[j].book # commits[k].book

EvaluationInv == EvaluatedOnly /\ ActiveIsNewest

LEMMA InitEvaluation == Init => EvaluationInv
<1> USE PublicationsAssumption
<1> SUFFICES ASSUME Init PROVE EvaluationInv
  OBVIOUS
<1>1. ActiveIsNewest
  BY DEF Init, ActiveIsNewest
<1>2. ASSUME NEW n \in Notebooks, NEW c \in links[n]
      PROVE  publication[n] # None /\ n = Sample /\ publication[n].doc = 0
  <2> PICK drafted, forked, listed, snapshot \in BOOLEAN : Init!1!(drafted, forked, listed, snapshot)
    BY DEF Init
  <2>1. n = Sample /\ snapshot
    BY <1>2
  <2>2. publication[n] = [doc |-> 0, forked |-> forked]
    BY <2>1
  <2>3. [doc |-> 0, forked |-> forked] \in Snapshots
    BY DEF Snapshots, Docs
  <2> QED
    BY <2>1, <2>2, <2>3
<1> QED
  BY <1>1, <1>2 DEF EvaluationInv, EvaluatedOnly

(* Links and commits may go, and the snapshot of a notebook that is not listed may change. *)
LEMMA Fading ==
  ASSUME TypeOK, EvaluationInv,
         \A n \in Notebooks : links'[n] \subseteq links[n],
         \A n \in Notebooks : links'[n] # {} => publication'[n] = publication[n],
         DOMAIN commits = 1 .. Len(commits), DOMAIN commits' = DOMAIN commits,
         Len(commits') = Len(commits),
         \A k \in DOMAIN commits :
             /\ commits'[k].book = commits[k].book
             /\ commits'[k].competition = commits[k].competition
             /\ commits'[k].doc = commits[k].doc
             /\ Active(k)' => Active(k)
             /\ Scored(k)' => Scored(k)
             /\ Scored(k) /\ commits[k].competition \in links'[commits[k].book] => Scored(k)'
  PROVE  EvaluationInv'
<1>1. \A k \in DOMAIN commits : commits[k].book \in Notebooks
  BY CommitType DEF Statuses, Evaluation
<1>2. Len(commits) \in Nat
  BY DEF TypeOK
<1>3. ActiveIsNewest'
  <2> SUFFICES ASSUME NEW k \in DOMAIN commits', Active(k)'
               PROVE  /\ links'[commits'[k].book] \subseteq {commits'[k].competition}
                      /\ \A j \in k + 1 .. Len(commits') : commits'[j].book # commits'[k].book
    BY DEF ActiveIsNewest
  <2>1. k \in DOMAIN commits /\ Active(k) /\ commits[k].book \in Notebooks
    BY <1>1
  <2>2. /\ links[commits[k].book] \subseteq {commits[k].competition}
        /\ \A j \in k + 1 .. Len(commits) : commits[j].book # commits[k].book
    BY <2>1 DEF ActiveIsNewest, EvaluationInv
  <2>3. links'[commits[k].book] \subseteq links[commits[k].book]
    BY <2>1
  <2>4. \A j \in k + 1 .. Len(commits) : j \in DOMAIN commits
    BY <1>2, <2>1
  <2> QED
    BY <2>1, <2>2, <2>3, <2>4
<1>4. ASSUME NEW n \in Notebooks, NEW c \in links'[n]
      PROVE  EvaluatedOnly!(n)!(c)'
  <2>1. c \in links[n] /\ publication'[n] = publication[n]
    BY <1>4
  <2>2. EvaluatedOnly!(n)!(c)
    BY <2>1 DEF EvaluationInv, EvaluatedOnly
  <2> QED
    BY <2>1, <2>2, <1>2
<1> QED
  BY <1>3, <1>4 DEF EvaluationInv, EvaluatedOnly

(* A commit whose status changes without a score lists nothing new. *)
LEMMA StatusEvaluation ==
  ASSUME TypeOK, EvaluationInv, NEW k \in DOMAIN commits, Active(k),
         NEW status \in {"running", "failed", "cancelled"},
         commits' = [commits EXCEPT ![k].status = status],
         UNCHANGED <<links, publication>>
  PROVE  EvaluationInv'
<1>1. commits \in Seq(Evaluation) /\ DOMAIN commits = 1 .. Len(commits)
  BY DEF TypeOK
<1>2. commits' \in Seq(Evaluation) /\ Len(commits') = Len(commits)
  BY CommitType DEF Statuses
<1>3. ASSUME NEW j \in DOMAIN commits
      PROVE  /\ commits'[j].book = commits[j].book
             /\ commits'[j].competition = commits[j].competition
             /\ j # k => commits'[j] = commits[j]
             /\ commits'[j].doc = commits[j].doc
             /\ commits'[j].scored = commits[j].scored
             /\ j = k => commits'[j].status = status
  <2>1. commits[j] \in Evaluation
    BY CommitType DEF Statuses
  <2> QED
    BY <2>1, <1>1 DEF Evaluation
<1>4. \A j \in DOMAIN commits : Active(j)' => Active(j)
  BY <1>3 DEF Active
<1>5. \A j \in DOMAIN commits : Scored(j)' <=> Scored(j)
  BY <1>3 DEF Scored, Active
<1> QED
  BY <1>1, <1>2, <1>3, <1>4, <1>5, Fading

(* Operations on a notebook list nothing, and publish what is listed nowhere. *)
LEMMA OfNotebookEvaluation ==
  ASSUME TypeOK, EvaluationInv, NEW n \in Notebooks, OfNotebook(n)
  PROVE  EvaluationInv'
<1>0. /\ links \in [Notebooks -> SUBSET Competitions]
      /\ publication \in [Notebooks -> Snapshots \cup {None}]
      /\ commits \in Seq(Evaluation) /\ DOMAIN commits = 1 .. Len(commits)
  BY DEF TypeOK
<1>1. CASE DeleteNotebook(n)
  <2> DEFINE those == {k \in DOMAIN commits : commits[k].book = n}
  <2>1. commits' = [k \in DOMAIN commits |->
                       IF k \in those THEN [commits[k] EXCEPT !.status = "removed"] ELSE commits[k]]
    BY <1>1 DEF DeleteNotebook
  <2>2. commits' \in Seq(Evaluation) /\ Len(commits') = Len(commits)
    BY <2>1, MarkType
  <2>3. ASSUME NEW j \in DOMAIN commits
        PROVE  /\ commits'[j].book = commits[j].book
               /\ commits'[j].competition = commits[j].competition
               /\ commits'[j].doc = commits[j].doc
               /\ commits[j].book # n => commits'[j] = commits[j]
               /\ commits[j].book = n => commits'[j].status = "removed"
    <3>1. commits[j] \in Evaluation
      BY CommitType DEF Statuses
    <3> QED
      BY <3>1, <2>1 DEF Evaluation
  <2>4. links'[n] = {} /\ \A m \in Notebooks : links'[m] \subseteq links[m]
    BY <1>0, <1>1 DEF DeleteNotebook
  <2>5. \A m \in Notebooks : links'[m] # {} => publication'[m] = publication[m]
    BY <2>4, <1>0, <1>1 DEF DeleteNotebook
  <2>6. \A j \in DOMAIN commits :
            /\ Active(j)' => Active(j)
            /\ Scored(j)' => Scored(j)
            /\ Scored(j) /\ commits[j].book # n => Scored(j)'
    BY <2>3 DEF Active, Scored
  <2> QED
    BY <1>0, <2>2, <2>3, <2>4, <2>5, <2>6, Fading
<1>2. CASE \E c \in Competitions : CreateCommit(n, c)
  <2> PICK c \in Competitions : CreateCommit(n, c)
    BY <1>2
  <2> DEFINE commit == [book |-> n, competition |-> c, doc |-> working[n].doc, status |-> "queued",
                         scored |-> FALSE]
             last == Len(commits) + 1
  <2>1. working[n] \in Copies
    BY DEF CreateCommit, TypeOK
  <2>2. commit \in Evaluation
    BY <2>1 DEF Evaluation, Copies, Statuses
  <2>3. /\ commits' = Append(commits, commit)
        /\ commits' \in Seq(Evaluation) /\ Len(commits') = last
        /\ \A j \in DOMAIN commits : commits'[j] = commits[j]
        /\ commits'[last] = commit
    BY <2>2, <1>0, AppendProperties DEF CreateCommit
  <2>4. Len(commits) \in Nat /\ DOMAIN commits' = 1 .. last
    BY <1>0, <2>3
  <2>5. links' = links /\ publication' = publication
    BY DEF CreateCommit
  <2>6. EvaluatedOnly'
    <3> SUFFICES ASSUME NEW m \in Notebooks, NEW x \in links[m] PROVE EvaluatedOnly!(m)!(x)'
      BY <2>5 DEF EvaluatedOnly
    <3>1. EvaluatedOnly!(m)!(x)
      BY DEF EvaluationInv, EvaluatedOnly
    <3>2. ASSUME NEW k \in DOMAIN commits, Scored(k),
                 commits[k].book = m, commits[k].competition = x,
                 commits[k].doc = publication[m].doc,
                 \A j \in k + 1 .. Len(commits) : commits[j].book = m => ~Scored(j)
          PROVE  EvaluatedOnly!(m)!(x)'
      <4>1. k \in DOMAIN commits' /\ commits'[k] = commits[k] /\ Scored(k)'
        BY <2>3, <2>4, <1>0, <3>2 DEF Scored
      <4>2. \A j \in k + 1 .. Len(commits') : commits'[j].book = m => ~Scored(j)'
        <5> SUFFICES ASSUME NEW j \in k + 1 .. last, commits'[j].book = m
                     PROVE  ~Scored(j)'
          BY <2>3
        <5>1. CASE j = last
          BY <5>1, <2>3 DEF Scored
        <5>2. CASE j # last
          <6>1. j \in k + 1 .. Len(commits) /\ j \in DOMAIN commits
            BY <5>2, <2>4, <1>0
          <6> QED
            BY <6>1, <3>2, <2>3 DEF Scored
        <5> QED
          BY <5>1, <5>2
      <4> QED
        BY <4>1, <4>2, <3>1, <3>2, <2>5
    <3> QED
      BY <3>1, <3>2, <2>5
  <2>7. ActiveIsNewest'
    <3> SUFFICES ASSUME NEW k \in DOMAIN commits', Active(k)'
                 PROVE  /\ links[commits'[k].book] \subseteq {commits'[k].competition}
                        /\ \A j \in k + 1 .. last : commits'[j].book # commits'[k].book
      BY <2>3, <2>5 DEF ActiveIsNewest
    <3>1. CASE k = last
      BY <3>1, <2>3, <2>4 DEF CreateCommit
    <3>2. CASE k \in DOMAIN commits
      <4>1. Active(k) /\ commits'[k] = commits[k]
        BY <3>2, <2>3 DEF Active
      <4>2. commits[k].book # n
        BY <4>1, <3>2 DEF CreateCommit
      <4>3. /\ links[commits[k].book] \subseteq {commits[k].competition}
            /\ \A j \in k + 1 .. Len(commits) : commits[j].book # commits[k].book
        BY <4>1, <3>2 DEF ActiveIsNewest, EvaluationInv
      <4> QED
        BY <4>1, <4>2, <4>3, <2>3, <2>4, <1>0, <3>2
    <3> QED
      BY <3>1, <3>2, <2>4, <1>0
  <2> QED
    BY <2>6, <2>7 DEF EvaluationInv
<1>3. CASE /\ links' = links /\ commits' = commits
           /\ \A m \in Notebooks : links[m] # {} => publication'[m] = publication[m]
  BY <1>0, <1>3, Fading DEF Active, Scored
<1>4. ASSUME NEW d \in Docs, StorePublication(n, d), links[n] = {}
      PROVE  \A m \in Notebooks : links[m] # {} => publication'[m] = publication[m]
  BY <1>0, <1>4 DEF StorePublication
<1>5. CASE PublishCode(n)
  BY <1>3, <1>4, <1>5 DEF PublishCode
<1>6. CASE \E private \in BOOLEAN, recipients \in SUBSET Users :
               UpdateShareSettings(n, private, recipients)
  <2>1. working[n].doc \in Docs
    BY <1>6 DEF UpdateShareSettings, TypeOK, Copies
  <2>2. links' = links /\ commits' = commits
    BY <1>6 DEF UpdateShareSettings
  <2>3. (StorePublication(n, working[n].doc) /\ links[n] = {}) \/ publication' = publication
    BY <1>6 DEF UpdateShareSettings
  <2> QED
    BY <2>1, <2>2, <2>3, <1>3, <1>4
<1> QED
  BY <1>1, <1>2, <1>3, <1>5, <1>6
  DEF OfNotebook, SaveNotebook, PutDocument, SetVisibility, Share, ForkCode, CreateNotebook, SaveDraft

(* The worker scores the newest commit of its notebook; a restart and the deletion of a *)
(* competition only take from the lists.                                                *)
LEMMA StepEvaluation ==
  ASSUME TypeOK, EvaluationInv, [Next]_vars
  PROVE  EvaluationInv'
<1>0. /\ links \in [Notebooks -> SUBSET Competitions]
      /\ publication \in [Notebooks -> Snapshots \cup {None}]
      /\ working \in [Notebooks -> Copies \cup {None}]
      /\ commits \in Seq(Evaluation) /\ DOMAIN commits = 1 .. Len(commits) /\ Len(commits) \in Nat
  BY DEF TypeOK
<1>1. CASE \E n \in Notebooks : OfNotebook(n)
  BY <1>1, OfNotebookEvaluation
<1>2. ASSUME NEW k \in DOMAIN commits, StartCommit(k) \/ EndCommit(k)
      PROVE  EvaluationInv'
  BY <1>2, StatusEvaluation DEF StartCommit, EndCommit, Active
<1>3. ASSUME NEW k \in DOMAIN commits, CompleteCommit(k)
      PROVE  EvaluationInv'
  <2> DEFINE n == commits[k].book
             c == commits[k].competition
             d == commits[k].doc
             snapshot == [doc |-> d, forked |-> IF working[n] # None THEN working[n].forked
                                                ELSE publication[n] # None /\ publication[n].forked]
  <2>0. \A i \in DOMAIN commits : \A j \in i + 1 .. Len(commits) : j \in DOMAIN commits
    BY <1>0
  <2>1. commits[k] \in Evaluation /\ n \in Notebooks /\ c \in Competitions /\ d \in Docs
    BY CommitType DEF Evaluation, Statuses
  <2>2. commits' \in Seq(Evaluation) /\ Len(commits') = Len(commits) /\ DOMAIN commits' = DOMAIN commits
    <3>1. PICK status \in Statuses :
              commits' = [commits EXCEPT ![k] = [@ EXCEPT !.scored = TRUE, !.status = status]]
      BY <1>3 DEF CompleteCommit, Statuses
    <3> QED
      BY <1>0, <3>1, CommitType
  <2>3. /\ \A j \in DOMAIN commits : j # k => commits'[j] = commits[j]
        /\ commits'[k].book = n /\ commits'[k].competition = c /\ commits'[k].doc = d
        /\ Scored(k)' /\ ~Active(k)'
    <3>1. PICK status \in {"succeeded", "failed"} :
              commits' = [commits EXCEPT ![k] = [@ EXCEPT !.scored = TRUE, !.status = status]]
      BY <1>3 DEF CompleteCommit
    <3> QED
      BY <1>0, <2>1, <3>1 DEF Evaluation, Scored, Active
  <2>4. links[n] \subseteq {c} /\ \A j \in k + 1 .. Len(commits) : commits[j].book # n
    BY <1>3 DEF EvaluationInv, ActiveIsNewest, CompleteCommit, Active
  <2>5. snapshot \in Snapshots
    <3>1. /\ working[n] # None => working[n] \in Copies
          /\ publication[n] # None => publication[n] \in Snapshots
      BY <2>1, RowType
    <3> QED
      BY <2>1, <3>1 DEF Snapshots, Copies
  <2>6. publication'[n] = snapshot /\ publication'[n] # None /\ publication'[n].doc = d
    BY <1>0, <1>3, <2>1, <2>5, PublicationsAssumption DEF CompleteCommit
  <2>7. /\ \A m \in Notebooks : m # n => links'[m] = links[m] /\ publication'[m] = publication[m]
        /\ links'[n] = {c}
    BY <1>0, <1>3, <2>1, <2>4 DEF CompleteCommit
  <2>8. EvaluatedOnly'
    <3> SUFFICES ASSUME NEW m \in Notebooks, NEW x \in links'[m] PROVE EvaluatedOnly!(m)!(x)'
      BY DEF EvaluatedOnly
    <3>1. CASE m = n
      <4>1. x = c /\ k \in DOMAIN commits'
        BY <3>1, <2>2, <2>7
      <4>2. ASSUME NEW j \in k + 1 .. Len(commits') PROVE commits'[j].book # n
        <5>1. j \in k + 1 .. Len(commits) /\ j \in DOMAIN commits /\ j # k
          BY <1>0, <2>2, <4>2
        <5>2. commits'[j] = commits[j] /\ commits[j].book # n
          BY <2>3, <2>4, <5>1
        <5> QED
          BY <5>2
      <4> QED
        BY <3>1, <4>1, <4>2, <2>3, <2>6
    <3>2. CASE m # n
      <4>1. EvaluatedOnly!(m)!(x)
        BY <3>2, <2>7 DEF EvaluationInv, EvaluatedOnly
      <4>2. ASSUME NEW i \in DOMAIN commits, Scored(i),
                   commits[i].book = m, commits[i].competition = x,
                   commits[i].doc = publication[m].doc,
                   \A j \in i + 1 .. Len(commits) : commits[j].book = m => ~Scored(j)
            PROVE  EvaluatedOnly!(m)!(x)'
        <5>1. i # k /\ commits'[i] = commits[i] /\ Scored(i)'
          BY <3>2, <4>2, <2>3 DEF Scored
        <5>2. \A j \in i + 1 .. Len(commits') : commits'[j].book = m => ~Scored(j)'
          <6> SUFFICES ASSUME NEW j \in i + 1 .. Len(commits), commits'[j].book = m
                       PROVE  ~Scored(j)'
            BY <2>2
          <6>1. j \in DOMAIN commits /\ j # k
            BY <2>0, <2>3, <3>2
          <6> QED
            BY <6>1, <4>2, <2>3 DEF Scored
        <5> QED
          BY <5>1, <5>2, <4>1, <4>2, <3>2, <2>2, <2>7
      <4> QED
        BY <4>1, <4>2, <3>2, <2>7
    <3> QED
      BY <3>1, <3>2
  <2>9. ActiveIsNewest'
    <3> SUFFICES ASSUME NEW i \in DOMAIN commits', Active(i)'
                 PROVE  /\ links'[commits'[i].book] \subseteq {commits'[i].competition}
                        /\ \A j \in i + 1 .. Len(commits') : commits'[j].book # commits'[i].book
      BY DEF ActiveIsNewest
    <3>1. i # k
      BY <2>3 DEF Active
    <3>2. i \in DOMAIN commits /\ Active(i) /\ commits'[i] = commits[i]
      BY <3>1, <2>2, <2>3 DEF Active
    <3>3. /\ links[commits[i].book] \subseteq {commits[i].competition}
          /\ \A j \in i + 1 .. Len(commits) : commits[j].book # commits[i].book
      BY <3>2 DEF EvaluationInv, ActiveIsNewest
    <3>4. commits[i].book # n
      <4>1. i < k => commits[i].book # n
        <5>1. i < k => k \in i + 1 .. Len(commits)
          BY <3>2, <1>0, <1>3
        <5> QED
          BY <5>1, <3>3
      <4>2. i > k => commits[i].book # n
        BY <2>4, <3>2, <1>0, <1>3
      <4> QED
        BY <4>1, <4>2, <3>1, <3>2, <1>0
    <3>5. commits[i].book \in Notebooks
      BY <3>2, CommitType DEF Evaluation, Statuses
    <3>6. \A j \in i + 1 .. Len(commits) : commits'[j].book = commits[j].book
      <4> SUFFICES ASSUME NEW j \in i + 1 .. Len(commits) PROVE commits'[j].book = commits[j].book
        OBVIOUS
      <4>1. j \in DOMAIN commits
        BY <2>0, <3>2
      <4>2. CASE j = k
        BY <4>2, <2>3
      <4>3. CASE j # k
        BY <4>1, <4>3, <2>3
      <4> QED
        BY <4>2, <4>3
    <3> QED
      BY <3>2, <3>3, <3>4, <3>5, <3>6, <2>2, <2>7
  <2> QED
    BY <2>8, <2>9 DEF EvaluationInv
<1>4. CASE MigrateForks
  <2> DEFINE those == {k \in DOMAIN commits : commits[k].status = "running"}
  <2>1. commits' = [k \in DOMAIN commits |->
                       IF k \in those THEN [commits[k] EXCEPT !.status = "failed"] ELSE commits[k]]
    BY <1>4 DEF MigrateForks
  <2>2. commits' \in Seq(Evaluation) /\ Len(commits') = Len(commits) /\ DOMAIN commits' = DOMAIN commits
    BY <1>0, <2>1, MarkType DEF Statuses
  <2>3. ASSUME NEW j \in DOMAIN commits
        PROVE  /\ commits'[j].book = commits[j].book
               /\ commits'[j].competition = commits[j].competition
               /\ commits'[j].doc = commits[j].doc
               /\ commits'[j].scored = commits[j].scored
               /\ commits[j].status # "running" => commits'[j] = commits[j]
               /\ commits[j].status = "running" => commits'[j].status = "failed"
    <3>1. commits[j] \in Evaluation
      BY CommitType DEF Statuses
    <3> QED
      BY <3>1, <2>1 DEF Evaluation
  <2>4. \A j \in DOMAIN commits : (Active(j)' => Active(j)) /\ (Scored(j)' <=> Scored(j))
    BY <2>3 DEF Active, Scored
  <2>5. publication' = publication /\ \A n \in Notebooks : links'[n] \subseteq links[n]
    BY <1>0, <1>4 DEF MigrateForks
  <2> QED
    BY <1>0, <2>2, <2>3, <2>4, <2>5, Fading
<1>5. CASE \E c \in Competitions : DeleteCompetition(c)
  <2> PICK c \in Competitions : DeleteCompetition(c)
    BY <1>5
  <2> DEFINE those == {k \in DOMAIN commits : commits[k].competition = c}
  <2>1. commits' = [k \in DOMAIN commits |->
                       IF k \in those THEN [commits[k] EXCEPT !.status = "removed"] ELSE commits[k]]
    BY DEF DeleteCompetition
  <2>2. commits' \in Seq(Evaluation) /\ Len(commits') = Len(commits) /\ DOMAIN commits' = DOMAIN commits
    BY <1>0, <2>1, MarkType
  <2>3. ASSUME NEW j \in DOMAIN commits
        PROVE  /\ commits[j].book \in Notebooks
               /\ commits'[j].book = commits[j].book
               /\ commits'[j].competition = commits[j].competition
               /\ commits'[j].doc = commits[j].doc
               /\ commits[j].competition # c => commits'[j] = commits[j]
               /\ commits[j].competition = c => commits'[j].status = "removed"
    <3>1. commits[j] \in Evaluation
      BY CommitType DEF Statuses
    <3> QED
      BY <3>1, <2>1 DEF Evaluation
  <2>4. \A j \in DOMAIN commits :
            /\ Active(j)' => Active(j)
            /\ Scored(j)' => Scored(j)
            /\ Scored(j) /\ commits[j].competition # c => Scored(j)'
    BY <2>3 DEF Active, Scored
  <2>5. publication' = publication /\ \A n \in Notebooks : links'[n] = links[n] \ {c}
    BY <1>0 DEF DeleteCompetition
  <2> QED
    BY <1>0, <2>2, <2>3, <2>4, <2>5, Fading
<1>6. CASE UNCHANGED vars
  BY <1>0, <1>6, Fading DEF vars, Active, Scored
<1> QED
  BY <1>1, <1>2, <1>3, <1>4, <1>5, <1>6 DEF Next

-----------------------------------------------------------------------------
(* What a stranger sees of a notebook was made public on purpose, however saves, forks, *)
(* sharing, publications, evaluations, restarts and deletions follow each other.        *)
THEOREM PrivateEdits == Spec => []PrivateEditsStayPrivate
<1>1. TypeOK /\ PrivacyInv /\ [Next]_vars => TypeOK' /\ PrivacyInv'
  BY PrivacyMeans, StepType, StepPrivacy
<1> QED
  BY <1>1, InitType, InitPrivacy, PrivacyMeans, PTL DEF Spec

(* The tables have their types, and Competition Code lists what was scored. *)
THEOREM ListedWasScored == Spec => []PublicationsHold
<1>1. TypeOK /\ PrivacyInv /\ EvaluationInv /\ [Next]_vars =>
          TypeOK' /\ PrivacyInv' /\ EvaluationInv'
  BY PrivacyMeans, StepType, StepPrivacy, StepEvaluation
<1>2. TypeOK /\ EvaluationInv => PublicationsHold
  BY DEF EvaluationInv, PublicationsHold
<1> QED
  BY <1>1, <1>2, InitType, InitPrivacy, InitEvaluation, PTL DEF Spec

(***************************************************************************)
(* The inductive invariant, in parts.                                      *)
(***************************************************************************)
OnDisk == 1 .. Len(disk)

\* What a session and an export have read and decided.
Reading == [pc : {"read", "stored", "written"}, notebook : Writers, name : Names,
            content : Contents, key : {0} \cup O!Keys]
Writing == [pc : {"write"}, notebook : Writers, name : Names, content : Contents,
            shared : BOOLEAN, key : O!Keys]
RowTypes == [notebook : Writers, name : Names, key : O!Keys, content : Contents,
             shared : BOOLEAN, state : {"live", "gone"} \cup O!Sessions]

Shapes ==
    /\ alive \subseteq Writers
    /\ rows \in Seq(RowTypes) /\ Len(rows) <= MaxRows
    /\ disk \in Seq(Contents \cup {"gone"}) /\ Len(disk) <= MaxKeys
    /\ session \in [O!Sessions -> Reading \cup {O!Idle}]
    /\ export \in Writing \cup {O!Idle}
    /\ tasks \subseteq OnDisk
    /\ checked \in {0} \cup tasks
    /\ attached \subseteq DOMAIN rows

\* A row that is or may come to be in the table has its notebook and its file.
RowsStand ==
    \A k \in DOMAIN rows :
        /\ rows[k].key \in OnDisk
        /\ rows[k].state # "gone" =>
              rows[k].notebook \in alive /\ disk[rows[k].key] = rows[k].content

\* So has one that a session is about to insert, ...
StoredBy(s) == session[s].pc = "stored"
StoresStand ==
    \A s \in O!Sessions : StoredBy(s) =>
        /\ session[s].key \in OnDisk
        /\ session[s].notebook \in alive => disk[session[s].key] = session[s].content

\* ... and an export, whose file is nobody else's.
ExportStands ==
    export # O!Idle =>
        /\ export.key \in OnDisk /\ disk[export.key] = export.content
        /\ export.key \notin tasks
        /\ \A k \in DOMAIN rows : rows[k].key # export.key
        /\ \A s \in O!Sessions : StoredBy(s) => session[s].key # export.key

\* A file belongs to one notebook: the rows and the sessions that share it are of it.
FilesOwned ==
    /\ \A j, k \in DOMAIN rows : rows[j].key = rows[k].key => rows[j].notebook = rows[k].notebook
    /\ \A s \in O!Sessions, k \in DOMAIN rows :
          StoredBy(s) /\ session[s].key = rows[k].key => session[s].notebook = rows[k].notebook
    /\ \A s, r \in O!Sessions :
          StoredBy(s) /\ StoredBy(r) /\ session[s].key = session[r].key
              => session[s].notebook = session[r].notebook

\* What is left to the cleanup was of a notebook that is gone and does not come back.
TasksAreOfTheDead ==
    /\ \A k \in DOMAIN rows : rows[k].key \in tasks => rows[k].notebook \notin alive
    /\ \A s \in O!Sessions : StoredBy(s) /\ session[s].key \in tasks => session[s].notebook \notin alive

FilesInv == RowsStand /\ StoresStand /\ ExportStands /\ FilesOwned /\ TasksAreOfTheDead
OutputsInv == Shapes /\ FilesInv /\ O!AttachedStay

-----------------------------------------------------------------------------
\* A set of natural numbers that is bounded and not empty has a greatest element.
LEMMA Greatest ==
  ASSUME NEW m \in Nat, NEW T, T \subseteq 1 .. m, T # {}
  PROVE  O!Newest(T) \in T /\ \A y \in T : y <= O!Newest(T)
<1> DEFINE U == {m - x : x \in T}
<1>1. U \subseteq Nat /\ U # {}
  <2>1. \A x \in T : x \in Int /\ m - x \in Nat
    OBVIOUS
  <2>2. PICK x \in T : TRUE
    OBVIOUS
  <2> QED
    BY <2>1, <2>2
<1>2. IsWellFoundedOn(OpToRel(<,Nat), Nat)
  BY NatLessThanWellFounded, Zenon
<1>3. \E u \in U : \A y \in U : ~ (<<y, u>> \in OpToRel(<,Nat))
  BY <1>1, <1>2, WFMin, Zenon
<1>4. \A x, y \in Nat : y < x => <<y, x>> \in OpToRel(<,Nat)
  BY DEF OpToRel
<1>5. PICK u \in U : \A y \in U : ~ (y < u)
  BY <1>1, <1>3, <1>4, Zenon
<1>6. PICK x \in T : u = m - x
  OBVIOUS
<1>7. \A y \in T : y <= x
  <2> HIDE <1>2, <1>3, <1>4
  <2> QED
    BY <1>5, <1>6
<1> QED
  BY <1>7 DEF O!Newest

\* The conjuncts of the invariant imply the type invariant.
LEMMA ShapesAreTypes ==
  ASSUME O!OutputsAssumption, Shapes
  PROVE  O!TypeOK
<1>1. \A k \in DOMAIN rows : rows[k] \in RowTypes
  BY DEF Shapes
<1>2. OnDisk \subseteq O!Keys
  BY DEF Shapes, OnDisk, O!Keys, O!OutputsAssumption
<1>3. DOMAIN rows \subseteq 1 .. MaxRows
  BY DEF Shapes, O!OutputsAssumption
<1> QED
  BY <1>1, <1>2, <1>3 DEF O!TypeOK, Shapes, RowTypes

\* The row of a key or a session, as far as types go.
LEMMA Fields ==
  ASSUME Shapes
  PROVE  /\ \A k \in DOMAIN rows : rows[k] \in RowTypes
         /\ DOMAIN rows = 1 .. Len(rows) /\ Len(rows) \in Nat
         /\ DOMAIN disk = OnDisk /\ Len(disk) \in Nat
         /\ \A s \in O!Sessions : session[s].pc # "idle" => session[s] \in Reading
         /\ export # O!Idle => export \in Writing
         /\ OnDisk \subseteq O!Keys \/ MaxKeys \notin Nat
<1>1. \A s \in O!Sessions : session[s].pc # "idle" => session[s] \in Reading
  BY DEF Shapes, O!Idle
<1> QED
  BY <1>1 DEF Shapes, OnDisk, O!Keys

\* A session goes on, and what it has put into the table is committed or taken back: which
\* files there are, and whose they are, stays as it is.
LEMMA Moves ==
  ASSUME O!OutputsAssumption, OutputsInv,
         UNCHANGED <<alive, disk, export, tasks, checked, attached>>,
         session' \in [O!Sessions -> Reading \cup {O!Idle}],
         \A s \in O!Sessions : StoredBy(s)' => session'[s] = session[s],
         rows' = [k \in DOMAIN rows |-> rows'[k]],
         \A k \in DOMAIN rows :
            \E t \in {"live", "gone"} \cup O!Sessions :
               /\ rows'[k] = [rows[k] EXCEPT !.state = t]
               /\ rows[k].state = "gone" => t = "gone"
               /\ rows[k].state = "live" => t = "live"
  PROVE  OutputsInv'
<1> USE DEF OutputsInv, FilesInv
<1>1. \A k \in DOMAIN rows :
         /\ rows'[k] \in RowTypes
         /\ rows'[k].key = rows[k].key /\ rows'[k].notebook = rows[k].notebook
         /\ rows'[k].content = rows[k].content
         /\ rows[k].state = "gone" => rows'[k].state = "gone"
         /\ rows[k].state = "live" => rows'[k].state = "live"
  BY Fields DEF RowTypes
<1>2. DOMAIN rows' = DOMAIN rows /\ rows' \in Seq(RowTypes) /\ Len(rows') = Len(rows)
  BY <1>1, Fields
<1>3. Shapes'
  BY <1>2 DEF Shapes, OnDisk
<1>4. \A s \in O!Sessions : StoredBy(s)' => StoredBy(s) /\ session'[s] = session[s]
  BY DEF StoredBy
<1>5. RowsStand'
  BY <1>1, <1>2 DEF RowsStand, OnDisk
<1>6. StoresStand'
  BY <1>4 DEF StoresStand, OnDisk
<1>7. ExportStands'
  BY <1>1, <1>2, <1>4 DEF ExportStands, OnDisk
<1>8. FilesOwned'
  BY <1>1, <1>2, <1>4 DEF FilesOwned
<1>9. TasksAreOfTheDead'
  BY <1>1, <1>2, <1>4 DEF TasksAreOfTheDead
<1>10. O!AttachedStay'
  BY <1>1, <1>2 DEF O!AttachedStay, O!Live, Shapes
<1> QED
  BY <1>3, <1>5, <1>6, <1>7, <1>8, <1>9, <1>10

\* A row is added for a file of the same notebook that nobody else is about to write.
LEMMA Adds ==
  ASSUME O!OutputsAssumption, OutputsInv, NEW r \in RowTypes,
         UNCHANGED <<alive, disk, tasks, checked, attached>>,
         rows' = Append(rows, r), Len(rows) < MaxRows,
         r.notebook \in alive, r.key \in OnDisk \ tasks, disk[r.key] = r.content,
         \A k \in DOMAIN rows : rows[k].key = r.key => rows[k].notebook = r.notebook,
         \A s \in O!Sessions : StoredBy(s) /\ session[s].key = r.key
                                => session[s].notebook = r.notebook,
         session' \in [O!Sessions -> Reading \cup {O!Idle}],
         \A s \in O!Sessions : StoredBy(s)' => session'[s] = session[s],
         export' \in {export, O!Idle}, export' # O!Idle => r.key # export.key
  PROVE  OutputsInv'
<1> USE DEF OutputsInv, FilesInv
<1>1. /\ DOMAIN rows' = DOMAIN rows \cup {Len(rows) + 1}
      /\ \A k \in DOMAIN rows : rows'[k] = rows[k]
      /\ rows'[Len(rows) + 1] = r
      /\ rows' \in Seq(RowTypes) /\ Len(rows') = Len(rows) + 1
  BY DEF Shapes
<1>2. Shapes'
  BY <1>1 DEF Shapes, OnDisk, O!OutputsAssumption
<1>3. \A k \in DOMAIN rows' : (k \in DOMAIN rows /\ rows'[k] = rows[k]) \/ rows'[k] = r
  BY <1>1
<1>4. \A s \in O!Sessions : StoredBy(s)' => StoredBy(s) /\ session'[s] = session[s]
  BY DEF StoredBy
<1>5. RowsStand'
  BY <1>3 DEF RowsStand, OnDisk
<1>6. StoresStand'
  BY <1>4 DEF StoresStand, OnDisk
<1>7. ExportStands'
  BY <1>3, <1>4 DEF ExportStands, OnDisk
<1>8. FilesOwned'
  <2>1. \A j, k \in DOMAIN rows' :
           rows'[j].key = rows'[k].key => rows'[j].notebook = rows'[k].notebook
    BY <1>3 DEF FilesOwned
  <2>2. \A s \in O!Sessions, k \in DOMAIN rows' :
           StoredBy(s)' /\ session'[s].key = rows'[k].key
              => session'[s].notebook = rows'[k].notebook
    BY <1>3, <1>4 DEF FilesOwned
  <2>3. \A s, t \in O!Sessions :
           StoredBy(s)' /\ StoredBy(t)' /\ session'[s].key = session'[t].key
              => session'[s].notebook = session'[t].notebook
    BY <1>4 DEF FilesOwned
  <2> QED
    BY <2>1, <2>2, <2>3 DEF FilesOwned
<1>9. TasksAreOfTheDead'
  BY <1>3, <1>4 DEF TasksAreOfTheDead
<1>10. O!AttachedStay'
  BY <1>1 DEF O!AttachedStay, O!Live, Shapes
<1> QED
  BY <1>2, <1>5, <1>6, <1>7, <1>8, <1>9, <1>10

\* A file is written; nothing refers to it yet.
LEMMA Grows ==
  ASSUME O!OutputsAssumption, Shapes, NEW c \in Contents,
         disk' = Append(disk, c), Len(disk) < MaxKeys
  PROVE  /\ disk' \in Seq(Contents \cup {"gone"}) /\ Len(disk') <= MaxKeys
         /\ OnDisk' = OnDisk \cup {Len(disk) + 1} /\ Len(disk) + 1 \in O!Keys \ OnDisk
         /\ disk'[Len(disk) + 1] = c
         /\ \A k \in OnDisk : disk'[k] = disk[k]
BY DEF Shapes, OnDisk, O!Keys, O!OutputsAssumption

\* What is in the table stays there.
LEMMA SameOutputs ==
  ASSUME Shapes, rows' = rows
  PROVE  /\ rows' = [k \in DOMAIN rows |-> rows'[k]]
         /\ \A k \in DOMAIN rows :
               \E t \in {"live", "gone"} \cup O!Sessions :
                  /\ rows'[k] = [rows[k] EXCEPT !.state = t]
                  /\ rows[k].state = "gone" => t = "gone"
                  /\ rows[k].state = "live" => t = "live"
<1>1. \A k \in DOMAIN rows : rows[k] \in RowTypes
  BY Fields
<1>2. \A k \in DOMAIN rows : rows[k] = [rows[k] EXCEPT !.state = rows[k].state]
  BY <1>1 DEF RowTypes
<1>3. \A k \in DOMAIN rows : rows[k].state \in {"live", "gone"} \cup O!Sessions
  BY <1>1 DEF RowTypes
<1>4. rows = [k \in DOMAIN rows |-> rows[k]]
  BY DEF Shapes
<1> QED
  BY <1>2, <1>3, <1>4

-----------------------------------------------------------------------------
\* One case per action.
LEMMA Begins ==
  ASSUME O!OutputsAssumption, OutputsInv, NEW s \in O!Sessions, NEW n \in Writers, NEW name \in Names,
         NEW content \in Contents, O!Begin(s, n, name, content)
  PROVE  OutputsInv'
<1> DEFINE x == [pc |-> "read", notebook |-> n, name |-> name, content |-> content, key |-> 0]
<1>1. x \in Reading
  BY DEF Reading
<1>2. session' = [session EXCEPT ![s] = x] /\ session \in [O!Sessions -> Reading \cup {O!Idle}]
  BY DEF O!Begin, OutputsInv, Shapes
<1>3. session' \in [O!Sessions -> Reading \cup {O!Idle}]
  BY <1>1, <1>2
<1>4. \A t \in O!Sessions : StoredBy(t)' => session'[t] = session[t]
  BY <1>2 DEF StoredBy
<1>5. rows' = rows /\ UNCHANGED <<alive, disk, export, tasks, checked, attached>>
  BY DEF O!Begin
<1>6. Shapes
  BY DEF OutputsInv
<1> QED
  BY <1>3, <1>4, <1>5, <1>6, SameOutputs, Moves

\* What a transaction put into the table is committed, or was never there.
LEMMA Settles ==
  ASSUME Shapes, NEW s \in O!Sessions, NEW state \in {"live", "gone"}, rows' = O!Settle(s, state)
  PROVE  /\ rows' = [k \in DOMAIN rows |-> rows'[k]]
         /\ \A k \in DOMAIN rows :
               \E t \in {"live", "gone"} \cup O!Sessions :
                  /\ rows'[k] = [rows[k] EXCEPT !.state = t]
                  /\ rows[k].state = "gone" => t = "gone"
                  /\ rows[k].state = "live" => t = "live"
<1>1. \A k \in DOMAIN rows : rows[k] \in RowTypes
  BY Fields
<1>2. \A k \in DOMAIN rows :
         rows'[k] = IF rows[k].state = s THEN [rows[k] EXCEPT !.state = state] ELSE rows[k]
  BY DEF O!Settle
<1>3. \A k \in DOMAIN rows : rows[k] = [rows[k] EXCEPT !.state = rows[k].state]
  BY <1>1 DEF RowTypes
<1>4. \A k \in DOMAIN rows : rows[k].state \in {"live", "gone"} \cup O!Sessions
  BY <1>1 DEF RowTypes
<1>5. rows' = [k \in DOMAIN rows |-> rows'[k]]
  BY DEF O!Settle
<1>6. s # "live" /\ s # "gone"
  BY DEF O!Sessions
<1>7. ASSUME NEW k \in DOMAIN rows
      PROVE  \E t \in {"live", "gone"} \cup O!Sessions :
                  /\ rows'[k] = [rows[k] EXCEPT !.state = t]
                  /\ rows[k].state = "gone" => t = "gone"
                  /\ rows[k].state = "live" => t = "live"
  <2>1. CASE rows[k].state = s
    BY <1>2, <1>6, <2>1
  <2>2. CASE rows[k].state # s
    BY <1>2, <1>3, <1>4, <2>2
  <2> QED
    BY <2>1, <2>2
<1> QED
  BY <1>5, <1>7

\* The file is found to be the same as last time.
LEMMA Stays ==
  ASSUME O!OutputsAssumption, OutputsInv, NEW s \in O!Sessions, O!Unchanged(s)
  PROVE  OutputsInv'
<1>1. /\ session' = [session EXCEPT ![s].pc = "written"] /\ session[s].pc = "read"
      /\ session \in [O!Sessions -> Reading \cup {O!Idle}] /\ Shapes
  BY DEF O!Unchanged, OutputsInv, Shapes
<1>2. session[s] \in Reading
  BY <1>1, Fields
<1>3. [session[s] EXCEPT !.pc = "written"] \in Reading
  BY <1>2 DEF Reading
<1>4. session' \in [O!Sessions -> Reading \cup {O!Idle}]
  BY <1>1, <1>3
<1>5. \A t \in O!Sessions : StoredBy(t)' => session'[t] = session[t]
  BY <1>1, <1>2 DEF StoredBy, Reading
<1>6. rows' = rows /\ UNCHANGED <<alive, disk, export, tasks, checked, attached>>
  BY DEF O!Unchanged
<1> QED
  BY <1>1, <1>4, <1>5, <1>6, SameOutputs, Moves

\* The end of a transaction.
LEMMA Ends ==
  ASSUME O!OutputsAssumption, OutputsInv, NEW s \in O!Sessions, O!Commit(s) \/ O!Abort(s)
  PROVE  OutputsInv'
<1>1. /\ session' = [session EXCEPT ![s] = O!Idle]
      /\ session \in [O!Sessions -> Reading \cup {O!Idle}] /\ Shapes
      /\ UNCHANGED <<alive, disk, export, tasks, checked, attached>>
      /\ \E state \in {"live", "gone"} : rows' = O!Settle(s, state)
  BY DEF O!Commit, O!Abort, OutputsInv, Shapes
<1>2. session' \in [O!Sessions -> Reading \cup {O!Idle}]
  BY <1>1
<1>3. \A t \in O!Sessions : StoredBy(t)' => session'[t] = session[t]
  BY <1>1 DEF StoredBy, O!Idle
<1> QED
  BY <1>1, <1>2, <1>3, Settles, Moves

\* The row of a snapshot: its file is still there, for its notebook is.
LEMMA Inserts ==
  ASSUME O!OutputsAssumption, OutputsInv, NEW s \in O!Sessions, O!Insert(s)
  PROVE  OutputsInv'
<1> DEFINE x == session[s]
           r == O!Row(x.notebook, x.name, x.key, x.content, TRUE, s)
<1>1. /\ x.pc = "stored" /\ x.notebook \in alive /\ Len(rows) < MaxRows
      /\ rows' = Append(rows, r)
      /\ session' = [session EXCEPT ![s].pc = "written"]
      /\ UNCHANGED <<alive, disk, export, tasks, checked, attached>>
  BY DEF O!Insert
<1>2. /\ Shapes /\ RowsStand /\ StoresStand /\ ExportStands /\ FilesOwned /\ TasksAreOfTheDead
      /\ session \in [O!Sessions -> Reading \cup {O!Idle}]
  BY DEF OutputsInv, FilesInv, Shapes
<1>3. x \in Reading /\ StoredBy(s)
  BY <1>1, <1>2, Fields DEF StoredBy
<1>4. x.key \in OnDisk /\ disk[x.key] = x.content /\ x.key \notin tasks
  BY <1>1, <1>2, <1>3 DEF StoresStand, TasksAreOfTheDead
<1>5. r \in RowTypes /\ r.notebook = x.notebook /\ r.key = x.key /\ r.content = x.content
  <2>1. x.key \in O!Keys
    BY <1>2, <1>4, Fields DEF O!OutputsAssumption
  <2> QED
    BY <1>3, <2>1 DEF Reading, RowTypes, O!Row, O!Sessions
<1>6. \A k \in DOMAIN rows : rows[k].key = x.key => rows[k].notebook = x.notebook
  BY <1>2, <1>3 DEF FilesOwned
<1>7. \A t \in O!Sessions : StoredBy(t) /\ session[t].key = x.key => session[t].notebook = x.notebook
  BY <1>2, <1>3 DEF FilesOwned
<1>8. export # O!Idle => x.key # export.key
  BY <1>2, <1>3 DEF ExportStands
<1>9. session' \in [O!Sessions -> Reading \cup {O!Idle}]
  <2>1. [x EXCEPT !.pc = "written"] \in Reading
    BY <1>3 DEF Reading
  <2> QED
    BY <1>1, <1>2, <2>1
<1>10. \A t \in O!Sessions : StoredBy(t)' => session'[t] = session[t]
  BY <1>1, <1>2, <1>3 DEF StoredBy, Reading
<1> HIDE DEF x, r
<1> QED
  BY <1>1, <1>4, <1>5, <1>6, <1>7, <1>8, <1>9, <1>10, Adds

\* A session finds a file of its notebook with the same bytes, or writes one.
LEMMA Stores ==
  ASSUME O!OutputsAssumption, OutputsInv, NEW s \in O!Sessions, O!StoreFile(s)
  PROVE  OutputsInv'
<1> DEFINE x == session[s]
           same == O!Reusable(x)
           key == IF same = {} THEN 0 ELSE rows[O!Newest(same)].key
<1>1. /\ x.pc = "read" /\ UNCHANGED <<alive, rows, export, tasks, checked, attached>>
      /\ \/ /\ same # {} /\ disk' = disk
            /\ session' = [session EXCEPT ![s].pc = "stored", ![s].key = key]
         \/ /\ Len(disk) < MaxKeys /\ disk' = Append(disk, x.content)
            /\ session' = [session EXCEPT ![s].pc = "stored", ![s].key = Len(disk) + 1]
  BY DEF O!StoreFile
<1>2. /\ Shapes /\ RowsStand /\ StoresStand /\ ExportStands /\ FilesOwned /\ TasksAreOfTheDead
      /\ O!AttachedStay /\ session \in [O!Sessions -> Reading \cup {O!Idle}]
  BY DEF OutputsInv, FilesInv, Shapes
<1>3. x \in Reading
  BY <1>1, <1>2, Fields
<1>4. ASSUME NEW k \in O!Keys, session' = [session EXCEPT ![s].pc = "stored", ![s].key = k]
      PROVE  /\ session' \in [O!Sessions -> Reading \cup {O!Idle}]
             /\ session'[s] = [x EXCEPT !.pc = "stored", !.key = k]
             /\ session'[s].key = k /\ session'[s].notebook = x.notebook
             /\ session'[s].content = x.content
             /\ \A t \in O!Sessions \ {s} : session'[t] = session[t]
  <2>1. session'[s] = [x EXCEPT !.pc = "stored", !.key = k]
    BY <1>2, <1>4
  <2>2. [x EXCEPT !.pc = "stored", !.key = k] \in Reading
    BY <1>3 DEF Reading
  <2>3. [x EXCEPT !.pc = "stored", !.key = k].key = k
    BY <1>3 DEF Reading
  <2>4. \A t \in O!Sessions \ {s} : session'[t] = session[t]
    BY <1>2, <1>4
  <2>5. session' \in [O!Sessions -> Reading \cup {O!Idle}]
    BY <1>2, <1>4, <2>1, <2>2, <2>4
  <2> QED
    BY <1>3, <2>1, <2>3, <2>4, <2>5 DEF Reading
<1> SUFFICES ASSUME NEW k \in O!Keys, session' = [session EXCEPT ![s].pc = "stored", ![s].key = k],
                    \/ /\ disk' = disk
                       /\ \E j \in DOMAIN rows :
                             /\ O!Live(j) /\ rows[j].notebook = x.notebook
                             /\ rows[j].content = x.content /\ rows[j].key = k
                    \/ /\ disk' = Append(disk, x.content) /\ Len(disk) < MaxKeys
                       /\ k = Len(disk) + 1
             PROVE  OutputsInv'
  <2>1. CASE /\ same # {} /\ disk' = disk
             /\ session' = [session EXCEPT ![s].pc = "stored", ![s].key = key]
    <3>1. same \subseteq 1 .. Len(rows) /\ Len(rows) \in Nat
      BY <1>2, Fields DEF O!Reusable
    <3>2. O!Newest(same) \in same
      BY <2>1, <3>1, Greatest
    <3>3. key \in O!Keys
      BY <1>2, <2>1, <3>2, Fields DEF O!Reusable, RowTypes
    <3> QED
      BY <2>1, <3>2, <3>3 DEF O!Reusable
  <2>2. CASE /\ Len(disk) < MaxKeys /\ disk' = Append(disk, x.content)
             /\ session' = [session EXCEPT ![s].pc = "stored", ![s].key = Len(disk) + 1]
    <3>1. Len(disk) + 1 \in O!Keys
      BY <1>2, <1>3, <2>2, Grows DEF Reading
    <3> QED
      BY <2>2, <3>1
  <2> QED
    BY <1>1, <2>1, <2>2
<1>5. /\ session' \in [O!Sessions -> Reading \cup {O!Idle}]
      /\ session'[s].key = k /\ session'[s].notebook = x.notebook
      /\ session'[s].content = x.content
      /\ \A t \in O!Sessions \ {s} : session'[t] = session[t]
  BY <1>4
<1>6. /\ disk' \in Seq(Contents \cup {"gone"}) /\ Len(disk') <= MaxKeys
      /\ OnDisk \subseteq OnDisk' /\ k \in OnDisk'
      /\ \A i \in OnDisk : disk'[i] = disk[i]
  <2>1. CASE disk' = disk
    BY <1>2, <2>1 DEF OnDisk, Shapes, RowsStand
  <2>2. CASE disk' = Append(disk, x.content) /\ Len(disk) < MaxKeys /\ k = Len(disk) + 1
    BY <1>2, <1>3, <2>2, Grows DEF Reading
  <2> QED
    BY <2>1, <2>2
<1>7. \/ k \notin OnDisk /\ disk'[k] = x.content
      \/ \E j \in DOMAIN rows :
            /\ O!Live(j) /\ rows[j].notebook = x.notebook
            /\ rows[j].content = x.content /\ rows[j].key = k
  BY <1>2, <1>3, Grows DEF Reading
<1>8. /\ \A j \in DOMAIN rows : rows[j].key = k => rows[j].notebook = x.notebook
      /\ \A t \in O!Sessions \ {s} : StoredBy(t) /\ session[t].key = k
                                       => session[t].notebook = x.notebook
      /\ k \in tasks => x.notebook \notin alive
      /\ export # O!Idle => export.key # k
      /\ disk'[k] = x.content
  <2>1. CASE k \notin OnDisk /\ disk'[k] = x.content
    BY <1>2, <2>1 DEF RowsStand, StoresStand, ExportStands, Shapes
  <2>2. CASE \E j \in DOMAIN rows :
            /\ O!Live(j) /\ rows[j].notebook = x.notebook
            /\ rows[j].content = x.content /\ rows[j].key = k
    <3>1. PICK j \in DOMAIN rows : /\ O!Live(j) /\ rows[j].notebook = x.notebook
                                   /\ rows[j].content = x.content /\ rows[j].key = k
      BY <2>2
    <3>2. k \in OnDisk /\ disk[k] = x.content
      BY <1>2, <3>1 DEF RowsStand, O!Live
    <3> QED
      BY <1>2, <1>6, <3>1, <3>2 DEF FilesOwned, TasksAreOfTheDead, ExportStands
  <2> QED
    BY <1>7, <2>1, <2>2
<1> HIDE DEF x, same, key
<1>9. \A t \in O!Sessions : StoredBy(t)' => t = s \/ (StoredBy(t) /\ session'[t] = session[t])
  BY <1>5 DEF StoredBy
<1>10. UNCHANGED <<alive, rows, export, tasks, checked, attached>>
  BY <1>1
<1>11. Shapes'
  BY <1>2, <1>5, <1>6, <1>10 DEF Shapes
<1>12. RowsStand'
  BY <1>2, <1>6, <1>10 DEF RowsStand
<1>13. StoresStand'
  BY <1>2, <1>5, <1>6, <1>8, <1>9, <1>10 DEF StoresStand
<1>14. ExportStands'
  BY <1>2, <1>5, <1>6, <1>8, <1>9, <1>10 DEF ExportStands
<1>15. FilesOwned'
  BY <1>2, <1>5, <1>8, <1>9, <1>10 DEF FilesOwned
<1>16. TasksAreOfTheDead'
  BY <1>2, <1>5, <1>8, <1>9, <1>10 DEF TasksAreOfTheDead
<1>17. O!AttachedStay'
  BY <1>2, <1>10 DEF O!AttachedStay, O!Live
<1> QED
  BY <1>11, <1>12, <1>13, <1>14, <1>15, <1>16, <1>17 DEF OutputsInv, FilesInv

-----------------------------------------------------------------------------
\* An export writes a file of its own, ...
LEMMA ExportsWrite ==
  ASSUME O!OutputsAssumption, OutputsInv, O!ExportWrite
  PROVE  OutputsInv'
<1>1. /\ Shapes /\ RowsStand /\ StoresStand /\ ExportStands /\ FilesOwned /\ TasksAreOfTheDead
      /\ O!AttachedStay
  BY DEF OutputsInv, FilesInv
<1>2. PICK n \in alive, name \in Names, content \in Contents, shared \in BOOLEAN :
         /\ disk' = Append(disk, content)
         /\ export' = [pc |-> "write", notebook |-> n, name |-> name, content |-> content,
                       shared |-> shared, key |-> Len(disk) + 1]
  BY DEF O!ExportWrite
<1>3. /\ disk' \in Seq(Contents \cup {"gone"}) /\ Len(disk') <= MaxKeys
      /\ OnDisk' = OnDisk \cup {Len(disk) + 1} /\ Len(disk) + 1 \in O!Keys \ OnDisk
      /\ disk'[Len(disk) + 1] = content
      /\ \A k \in OnDisk : disk'[k] = disk[k]
  BY <1>1, <1>2, Grows DEF O!ExportWrite
<1>4. UNCHANGED <<alive, rows, session, tasks, checked, attached>>
  BY DEF O!ExportWrite
<1>5. export' \in Writing
  BY <1>1, <1>2, <1>3 DEF Writing, Shapes
<1>6. Shapes'
  BY <1>1, <1>3, <1>4, <1>5 DEF Shapes
<1>7. RowsStand'
  BY <1>1, <1>3, <1>4 DEF RowsStand
<1>8. StoresStand'
  BY <1>1, <1>3, <1>4 DEF StoresStand, StoredBy
<1>9. ExportStands'
  <2>1. export'.key = Len(disk) + 1 /\ export'.content = content
    BY <1>2
  <2>2. Len(disk) + 1 \notin tasks
    BY <1>1, <1>3 DEF Shapes
  <2> QED
    BY <1>1, <1>3, <1>4, <2>1, <2>2 DEF ExportStands, RowsStand, StoresStand, StoredBy
<1>10. FilesOwned'
  BY <1>1, <1>4 DEF FilesOwned, StoredBy
<1>11. TasksAreOfTheDead'
  BY <1>1, <1>4 DEF TasksAreOfTheDead, StoredBy
<1>12. O!AttachedStay'
  BY <1>1, <1>4 DEF O!AttachedStay, O!Live
<1> QED
  BY <1>6, <1>7, <1>8, <1>9, <1>10, <1>11, <1>12 DEF OutputsInv, FilesInv

\* ... adds its row ...
LEMMA ExportsCommit ==
  ASSUME O!OutputsAssumption, OutputsInv, O!ExportCommit
  PROVE  OutputsInv'
<1> DEFINE r == O!Row(export.notebook, export.name, export.key, export.content,
                    export.shared, "live")
<1>1. /\ Shapes /\ ExportStands /\ export # O!Idle /\ export.notebook \in alive
      /\ rows' = Append(rows, r) /\ Len(rows) < MaxRows /\ export' = O!Idle
      /\ UNCHANGED <<alive, disk, session, tasks, checked, attached>>
  BY DEF O!ExportCommit, OutputsInv, FilesInv
<1>2. export \in Writing
  BY <1>1, Fields
<1>3. r \in RowTypes /\ r.notebook = export.notebook /\ r.key = export.key
      /\ r.content = export.content
  BY <1>2 DEF Writing, RowTypes, O!Row
<1>4. /\ export.key \in OnDisk \ tasks /\ disk[export.key] = export.content
      /\ \A k \in DOMAIN rows : rows[k].key # export.key
      /\ \A s \in O!Sessions : StoredBy(s) => session[s].key # export.key
  BY <1>1 DEF ExportStands
<1>5. session' \in [O!Sessions -> Reading \cup {O!Idle}]
  BY <1>1 DEF Shapes
<1> HIDE DEF r
<1> QED
  BY <1>1, <1>3, <1>4, <1>5, Adds

\* The bytes of a file that neither rows nor sessions of a notebook need are removed.
LEMMA Removes ==
  ASSUME O!OutputsAssumption, OutputsInv, NEW k \in OnDisk,
         disk' = [disk EXCEPT ![k] = "gone"],
         UNCHANGED <<alive, rows, session, attached>>,
         tasks' \subseteq tasks, checked' \in {0} \cup tasks',
         export' \in {export, O!Idle}, export' # O!Idle => export.key # k,
         \A i \in DOMAIN rows : rows[i].key = k => rows[i].notebook \notin alive,
         \A s \in O!Sessions : StoredBy(s) /\ session[s].key = k => session[s].notebook \notin alive
  PROVE  OutputsInv'
<1>1. /\ Shapes /\ RowsStand /\ StoresStand /\ ExportStands /\ FilesOwned /\ TasksAreOfTheDead
      /\ O!AttachedStay
  BY DEF OutputsInv, FilesInv
<1>2. /\ disk' \in Seq(Contents \cup {"gone"}) /\ Len(disk') = Len(disk) /\ OnDisk' = OnDisk
      /\ \A i \in OnDisk \ {k} : disk'[i] = disk[i]
  BY <1>1 DEF Shapes, OnDisk
<1>3. Shapes'
  BY <1>1, <1>2 DEF Shapes
<1>4. RowsStand'
  BY <1>1, <1>2 DEF RowsStand
<1>5. StoresStand'
  BY <1>1, <1>2 DEF StoresStand, StoredBy
<1>6. ExportStands'
  BY <1>1, <1>2 DEF ExportStands, StoredBy
<1>7. FilesOwned'
  BY <1>1 DEF FilesOwned, StoredBy
<1>8. TasksAreOfTheDead'
  BY <1>1 DEF TasksAreOfTheDead, StoredBy
<1>9. O!AttachedStay'
  BY <1>1 DEF O!AttachedStay, O!Live
<1> QED
  BY <1>3, <1>4, <1>5, <1>6, <1>7, <1>8, <1>9 DEF OutputsInv, FilesInv

\* ... or takes its file away again.
LEMMA ExportsFail ==
  ASSUME O!OutputsAssumption, OutputsInv, O!ExportFails
  PROVE  OutputsInv'
<1>1. /\ Shapes /\ ExportStands /\ export # O!Idle
      /\ disk' = [disk EXCEPT ![export.key] = "gone"] /\ export' = O!Idle
      /\ UNCHANGED <<alive, rows, session, tasks, checked, attached>>
  BY DEF O!ExportFails, OutputsInv, FilesInv
<1>2. /\ export.key \in OnDisk
      /\ \A i \in DOMAIN rows : rows[i].key # export.key
      /\ \A s \in O!Sessions : StoredBy(s) => session[s].key # export.key
  BY <1>1 DEF ExportStands
<1>3. tasks' \subseteq tasks /\ checked' \in {0} \cup tasks'
  BY <1>1 DEF Shapes
<1> QED
  BY <1>1, <1>2, <1>3, Removes

\* The cleanup removes a file of a notebook that is gone.
LEMMA Unlinks ==
  ASSUME O!OutputsAssumption, OutputsInv, O!CleanUnlink
  PROVE  OutputsInv'
<1>1. /\ Shapes /\ ExportStands /\ TasksAreOfTheDead
      /\ checked # 0 /\ disk' = [disk EXCEPT ![checked] = "gone"]
      /\ tasks' = tasks \ {checked} /\ checked' = 0
      /\ UNCHANGED <<alive, rows, session, export, attached>>
  BY DEF O!CleanUnlink, OutputsInv, FilesInv
<1>2. checked \in tasks /\ checked \in OnDisk
  BY <1>1 DEF Shapes
<1>3. /\ \A i \in DOMAIN rows : rows[i].key = checked => rows[i].notebook \notin alive
      /\ \A s \in O!Sessions : StoredBy(s) /\ session[s].key = checked
                                => session[s].notebook \notin alive
      /\ export # O!Idle => export.key # checked
  BY <1>1, <1>2 DEF TasksAreOfTheDead, ExportStands
<1> QED
  BY <1>1, <1>2, <1>3, Removes

\* Nothing but the cleanup's list and the attached rows changes.
LEMMA Looks ==
  ASSUME O!OutputsAssumption, OutputsInv,
         UNCHANGED <<alive, rows, disk, session, export>>,
         tasks' \subseteq tasks, checked' \in {0} \cup tasks', attached' \subseteq DOMAIN rows,
         \A k \in attached' : k \in attached \/ O!Live(k)
  PROVE  OutputsInv'
<1>1. /\ Shapes /\ RowsStand /\ StoresStand /\ ExportStands /\ FilesOwned /\ TasksAreOfTheDead
      /\ O!AttachedStay
  BY DEF OutputsInv, FilesInv
<1>2. Shapes'
  BY <1>1 DEF Shapes, OnDisk
<1>3. RowsStand' /\ StoresStand'
  BY <1>1 DEF RowsStand, StoresStand, StoredBy, OnDisk
<1>4. ExportStands'
  BY <1>1 DEF ExportStands, StoredBy, OnDisk
<1>5. FilesOwned' /\ TasksAreOfTheDead'
  BY <1>1 DEF FilesOwned, TasksAreOfTheDead, StoredBy
<1>6. O!AttachedStay'
  BY <1>1 DEF O!AttachedStay, O!Live
<1> QED
  BY <1>2, <1>3, <1>4, <1>5, <1>6 DEF OutputsInv, FilesInv

\* The cleanup looks for a row.
LEMMA Checks ==
  ASSUME O!OutputsAssumption, OutputsInv, O!CleanCheck
  PROVE  OutputsInv'
<1>1. /\ UNCHANGED <<alive, rows, disk, session, export, attached>> /\ checked = 0
      /\ \E key \in tasks : \/ tasks' = tasks \ {key} /\ checked' = checked
                            \/ tasks' = tasks /\ checked' = key
  BY DEF O!CleanCheck
<1>2. attached' \subseteq DOMAIN rows
  BY <1>1 DEF OutputsInv, Shapes
<1> QED
  BY <1>1, <1>2, Looks

\* The rows that are attached are in the table.
LEMMA Attaches ==
  ASSUME O!OutputsAssumption, OutputsInv, O!Attach
  PROVE  OutputsInv'
<1>1. Shapes
  BY DEF OutputsInv
<1>2. PICK n \in alive :
         attached' = {O!Newest(O!SharedRows(n, name)) :
                          name \in {m \in Names : O!SharedRows(n, m) # {}}}
  BY DEF O!Attach
<1>3. ASSUME NEW name \in Names, O!SharedRows(n, name) # {}
      PROVE  O!Newest(O!SharedRows(n, name)) \in O!SharedRows(n, name)
  <2>1. O!SharedRows(n, name) \subseteq 1 .. Len(rows) /\ Len(rows) \in Nat
    BY <1>1, Fields DEF O!SharedRows
  <2> QED
    BY <1>3, <2>1, Greatest
<1>4. \A k \in attached' : k \in DOMAIN rows /\ O!Live(k)
  BY <1>2, <1>3 DEF O!SharedRows
<1>5. UNCHANGED <<alive, rows, disk, session, export, tasks, checked>>
  BY DEF O!Attach
<1>6. tasks' \subseteq tasks /\ checked' \in {0} \cup tasks'
  BY <1>1, <1>5 DEF Shapes
<1> QED
  BY <1>4, <1>5, <1>6, Looks

\* A notebook goes: its rows do, and their files are left to the cleanup.
LEMMA Deletes ==
  ASSUME O!OutputsAssumption, OutputsInv, O!DeleteNotebook
  PROVE  OutputsInv'
<1>1. /\ Shapes /\ RowsStand /\ StoresStand /\ ExportStands /\ FilesOwned /\ TasksAreOfTheDead
      /\ O!AttachedStay
  BY DEF OutputsInv, FilesInv
<1>2. PICK n \in alive :
         /\ alive' = alive \ {n}
         /\ tasks' = tasks \cup {rows[k].key : k \in {j \in DOMAIN rows :
                                                         O!Live(j) /\ rows[j].notebook = n}}
         /\ rows' = [k \in DOMAIN rows |-> IF rows[k].notebook = n
                                           THEN [rows[k] EXCEPT !.state = "gone"] ELSE rows[k]]
  BY DEF O!DeleteNotebook
<1>3. UNCHANGED <<disk, session, export, checked, attached>>
  BY DEF O!DeleteNotebook
<1>4. \A k \in DOMAIN rows :
         /\ rows'[k] \in RowTypes
         /\ rows'[k].key = rows[k].key /\ rows'[k].notebook = rows[k].notebook
         /\ rows'[k].content = rows[k].content
         /\ rows[k].notebook # n => rows'[k] = rows[k]
         /\ rows[k].notebook = n => rows'[k].state = "gone"
  BY <1>1, <1>2, Fields DEF RowTypes
<1>5. DOMAIN rows' = DOMAIN rows /\ rows' \in Seq(RowTypes) /\ Len(rows') = Len(rows)
  BY <1>1, <1>2, <1>4, Fields
<1>6. \A key \in tasks' : key \in tasks \/ \E j \in DOMAIN rows : rows[j].key = key
                                                                   /\ rows[j].notebook = n
  BY <1>2
<1>7. tasks \subseteq tasks' /\ tasks' \subseteq OnDisk
  BY <1>1, <1>2, <1>6 DEF Shapes, RowsStand
<1>8. Shapes'
  BY <1>1, <1>2, <1>3, <1>5, <1>7 DEF Shapes, OnDisk
<1>9. RowsStand'
  BY <1>1, <1>2, <1>3, <1>4, <1>5 DEF RowsStand, OnDisk
<1>10. StoresStand'
  BY <1>1, <1>2, <1>3 DEF StoresStand, StoredBy, OnDisk
<1>11. ExportStands'
  BY <1>1, <1>3, <1>4, <1>5, <1>6 DEF ExportStands, StoredBy, OnDisk
<1>12. FilesOwned'
  BY <1>1, <1>3, <1>4, <1>5 DEF FilesOwned, StoredBy
<1>13. TasksAreOfTheDead'
  <2>1. \A k \in DOMAIN rows : rows[k].key \in tasks' => rows[k].notebook \notin alive'
    BY <1>1, <1>2, <1>6 DEF TasksAreOfTheDead, FilesOwned
  <2>2. \A s \in O!Sessions : StoredBy(s) /\ session[s].key \in tasks'
                               => session[s].notebook \notin alive'
    BY <1>1, <1>2, <1>6 DEF TasksAreOfTheDead, FilesOwned
  <2> QED
    BY <1>3, <1>4, <1>5, <2>1, <2>2 DEF TasksAreOfTheDead, StoredBy
<1>14. O!AttachedStay'
  BY <1>1, <1>2, <1>3, <1>4, <1>5 DEF O!AttachedStay, O!Live, Shapes
<1> QED
  BY <1>8, <1>9, <1>10, <1>11, <1>12, <1>13, <1>14 DEF OutputsInv, FilesInv

-----------------------------------------------------------------------------
\* At first there is neither a row nor a file.
LEMMA Starts == O!OutputsAssumption /\ O!Init => OutputsInv
<1> SUFFICES ASSUME O!OutputsAssumption, O!Init PROVE OutputsInv
  OBVIOUS
<1>1. Shapes
  BY DEF O!Init, Shapes, OnDisk, O!OutputsAssumption
<1>2. /\ rows = <<>> /\ export = O!Idle /\ attached = {} /\ tasks = {}
      /\ \A s \in O!Sessions : ~StoredBy(s)
  BY DEF O!Init, StoredBy, O!Idle
<1>3. FilesInv
  BY <1>2 DEF FilesInv, RowsStand, StoresStand, ExportStands, FilesOwned, TasksAreOfTheDead
<1>4. O!AttachedStay
  BY <1>2 DEF O!AttachedStay
<1> QED
  BY <1>1, <1>3, <1>4 DEF OutputsInv

\* Every step keeps the invariant.
LEMMA StepHolds ==
  ASSUME O!OutputsAssumption, OutputsInv, [O!Next]_O!vars
  PROVE  OutputsInv'
<1>1. CASE \E s \in O!Sessions, n \in Writers, name \in Names, content \in Contents :
              O!Begin(s, n, name, content)
  BY <1>1, Begins
<1>2. CASE \E s \in O!Sessions : O!Unchanged(s) \/ O!StoreFile(s) \/ O!Insert(s) \/ O!Commit(s) \/ O!Abort(s)
  BY <1>2, Stays, Stores, Inserts, Ends
<1>3. CASE O!ExportWrite \/ O!ExportCommit \/ O!ExportFails
  BY <1>3, ExportsWrite, ExportsCommit, ExportsFail
<1>4. CASE O!DeleteNotebook \/ O!CleanCheck \/ O!CleanUnlink \/ O!Attach
  BY <1>4, Deletes, Checks, Unlinks, Attaches
<1>5. CASE UNCHANGED O!vars
  <2>1. Shapes
    BY DEF OutputsInv
  <2>2. /\ UNCHANGED <<alive, rows, disk, session, export>>
        /\ tasks' \subseteq tasks /\ checked' \in {0} \cup tasks'
        /\ attached' \subseteq DOMAIN rows /\ \A k \in attached' : k \in attached \/ O!Live(k)
    BY <1>5, <2>1 DEF O!vars, Shapes
  <2> QED
    BY <2>2, Looks
<1> QED
  BY <1>1, <1>2, <1>3, <1>4, <1>5, Zenon DEF O!Next

\* Each row of notebook_outputs has its file with its bytes, although rows share files and
\* the cleanup removes those of deleted notebooks; what was attached stays what it was
\* (notebook_outputs.py store_snapshot, export_output; work_cleanup.py remove_work_file).
THEOREM OutputsStay == O!Spec => []OutputsKept
<1>1. O!OutputsAssumption
  BY NotebooksAssumption
<1>2. O!Init => OutputsInv
  BY <1>1, Starts
<1>3. OutputsInv /\ [O!Next]_O!vars => OutputsInv'
  BY <1>1, StepHolds
<1>4. OutputsInv => OutputsKept
  BY <1>1, ShapesAreTypes
     DEF OutputsInv, FilesInv, OutputsKept, O!OutputsKept, RowsStand, O!RowsHaveFiles, O!Live
<1> QED
  BY <1>2, <1>3, <1>4, PTL DEF O!Spec

(***************************************************************************)
(* Inputs: what a reference names, and what was copied.                    *)
(***************************************************************************)
VersionRows == [status : {"published", "deleted"}, files : I!Listings]

\* A pinned reference lists the files of its version.
Faithful(ref) ==
    I!Pinned(ref) =>
        ref.version \in DOMAIN versions /\ ref.files = versions[ref.version].files

\* What a request under the user's lock has copied is in the folder.
EditorHolds ==
    editor.pc \in {"attach", "start"} =>
        /\ I!Pinned(editor.ref) => editor.files = editor.ref.files
        /\ \A f \in I!Copied(editor.files) \ editor.todo :
               f \in DOMAIN folder /\ folder[f] = editor.files[f]

\* What a run copies is a version, and the one its reference was pinned to.
JobHolds ==
    job.pc \in {"staging", "executing"} =>
        /\ \E k \in DOMAIN versions : job.files = versions[k].files
        /\ I!Pinned(job.ref) => job.files = job.ref.files

InputsInv ==
    /\ I!TypeOK
    /\ access # "deleted" => I!Published # {}
    /\ Faithful(tab) /\ Faithful(document) /\ Faithful(editor.ref) /\ Faithful(job.ref)
    /\ EditorHolds
    /\ JobHolds

-----------------------------------------------------------------------------
LEMMA InputsBounds == InteractiveFiles \in Nat /\ MaxVersions \in Nat \ {0}
BY NotebooksAssumption DEF I!InputsAssumption

\* Listings are the functions from paths to the uploads they were carried over from.
LEMMA Listed ==
  ASSUME NEW F \in SUBSET Files, NEW f \in [F -> 1 .. MaxVersions]
  PROVE  f \in I!Listings
BY DEF I!Listings

LEMMA Listing ==
  ASSUME NEW f \in I!Listings
  PROVE  /\ DOMAIN f \in SUBSET Files /\ f \in [DOMAIN f -> 1 .. MaxVersions]
         /\ \A x \in DOMAIN f : x \in Files /\ f[x] \in 1 .. MaxVersions
<1>1. PICK F \in SUBSET Files : f \in [F -> 1 .. MaxVersions]
  BY DEF I!Listings
<1> QED
  BY <1>1

\* An editor without an input
LEMMA Nothing ==
  /\ I!Empty \in I!Listings /\ DOMAIN I!Empty = {}
  /\ I!Unattached \in I!References /\ I!Unattached.version = MaxVersions + 1 /\ ~I!Pinned(I!Unattached)
  /\ \A ref \in I!References : ref.version \in 0 .. MaxVersions + 1 /\ ref.files \in I!Listings
<1>1. MaxVersions \in Nat \ {0}
  BY InputsBounds
<1>2. I!Empty \in [{} -> 1 .. MaxVersions]
  BY DEF I!Empty
<1>3. I!Empty \in I!Listings
  BY <1>2, Listed
<1> QED
  BY <1>1, <1>2, <1>3 DEF I!Unattached, I!References, I!Pinned

\* The rows of versions, by number
LEMMA VersionsTyped ==
  ASSUME I!TypeOK
  PROVE  /\ MaxVersions \in Nat /\ Len(versions) \in Nat /\ Len(versions) <= MaxVersions
         /\ DOMAIN versions = 1 .. Len(versions)
         /\ \A k \in DOMAIN versions : versions[k] \in VersionRows
         /\ \A k \in DOMAIN versions : versions[k].files \in I!Listings
         /\ I!Published \subseteq DOMAIN versions
<1>1. versions \in Seq(VersionRows) /\ Len(versions) <= MaxVersions
  BY DEF I!TypeOK, VersionRows
<1>2. /\ Len(versions) \in Nat /\ DOMAIN versions = 1 .. Len(versions)
      /\ \A k \in DOMAIN versions : versions[k] \in VersionRows
  BY <1>1
<1>3. \A row \in VersionRows : row.files \in I!Listings
  BY DEF VersionRows
<1> QED
  BY <1>1, <1>2, <1>3, InputsBounds DEF I!Published

\* The newest published version is one of them.
LEMMA LatestPublished ==
  ASSUME I!TypeOK, I!Published # {}
  PROVE  I!Latest \in I!Published
<1>1. I!Published \subseteq 1 .. MaxVersions /\ MaxVersions \in Nat
  BY VersionsTyped
<1>2. \E k \in I!Published : \A j \in I!Published : j <= k
  BY <1>1, Greatest DEF O!Newest
<1> QED
  BY <1>2 DEF I!Latest

\* A number resolves to that version; nothing resolves to a row that is not there.
LEMMA Resolves ==
  ASSUME I!TypeOK, NEW version, NEW k \in I!Resolved(version)
  PROVE  /\ k \in DOMAIN versions /\ k \in 1 .. MaxVersions /\ versions[k].files \in I!Listings
         /\ version \in 1 .. MaxVersions => k = version
<1>1. k \in I!Published
  BY LatestPublished DEF I!Resolved, I!Chosen
<1> QED
  BY <1>1, VersionsTyped DEF I!Resolved, I!Chosen

\* The owner of the dataset adds versions and withdraws them; their files stay.
LEMMA VersionsMove ==
  ASSUME InputsInv, UNCHANGED <<tab, document, folder, kernel, editor, job>>,
         versions' \in Seq(VersionRows), Len(versions') <= MaxVersions,
         DOMAIN versions \subseteq DOMAIN versions',
         \A k \in DOMAIN versions : versions'[k].files = versions[k].files,
         blobs' \subseteq Files \X (1 .. MaxVersions),
         access' \in {"open", "private", "deleted"},
         access' # "deleted" => I!Published' # {}
  PROVE  InputsInv'
<1>1. I!TypeOK'
  BY DEF InputsInv, I!TypeOK, VersionRows
<1>2. Faithful(tab)' /\ Faithful(document)' /\ Faithful(editor.ref)' /\ Faithful(job.ref)'
  BY DEF InputsInv, Faithful, I!Pinned
<1>3. EditorHolds' /\ JobHolds'
  BY DEF InputsInv, EditorHolds, JobHolds, I!Pinned, I!Copied, I!Interactive
<1> QED
  BY <1>1, <1>2, <1>3 DEF InputsInv

LEMMA Publishes == ASSUME InputsInv, I!PublishVersion PROVE InputsInv'
<1>1. I!TypeOK /\ I!Published # {} /\ Len(versions) < MaxVersions
  BY DEF InputsInv, I!PublishVersion
<1>2. I!Latest \in DOMAIN versions /\ versions[I!Latest].files \in I!Listings
  BY <1>1, VersionsTyped, LatestPublished
<1> DEFINE files(kept, new) ==
             [f \in kept \cup new |->
                 IF f \in new THEN Len(versions) + 1 ELSE versions[I!Latest].files[f]]
<1>3. PICK kept \in SUBSET DOMAIN versions[I!Latest].files, new \in SUBSET Files :
         /\ versions' = Append(versions, [status |-> "published", files |-> files(kept, new)])
         /\ blobs' = blobs \cup I!Stored(files(kept, new))
         /\ UNCHANGED <<access, tab, document, folder, kernel, editor, job>>
  BY DEF I!PublishVersion
<1>4. PICK fs : fs = files(kept, new)
  OBVIOUS
<1>5. fs \in I!Listings
  <2>1. kept \cup new \in SUBSET Files
    BY <1>2, Listing
  <2>2. Len(versions) + 1 \in 1 .. MaxVersions
    BY <1>1, VersionsTyped
  <2>3. \A f \in kept : versions[I!Latest].files[f] \in 1 .. MaxVersions
    BY <1>2, Listing
  <2>4. fs \in [kept \cup new -> 1 .. MaxVersions]
    BY <1>4, <2>2, <2>3
  <2> QED
    BY <2>1, <2>4, Listed
<1> HIDE DEF files
<1>6. I!Stored(fs) \subseteq Files \X (1 .. MaxVersions)
  BY <1>5, Listing DEF I!Stored
<1>7. PICK row : row = [status |-> "published", files |-> fs]
  OBVIOUS
<1>8. row \in VersionRows /\ versions' = Append(versions, row) /\ row.status = "published"
  BY <1>3, <1>4, <1>5, <1>7 DEF VersionRows
<1>9. versions \in Seq(VersionRows)
  BY <1>1 DEF I!TypeOK, VersionRows
<1>10. /\ versions' \in Seq(VersionRows) /\ Len(versions') = Len(versions) + 1
       /\ \A k \in 1 .. Len(versions) : versions'[k] = versions[k]
       /\ versions'[Len(versions) + 1] = row /\ DOMAIN versions' = 1 .. Len(versions) + 1
  BY <1>8, <1>9
<1>11. Len(versions) + 1 \in I!Published'
  BY <1>1, <1>8, <1>10, VersionsTyped DEF I!Published
<1>12. /\ Len(versions') <= MaxVersions /\ DOMAIN versions \subseteq DOMAIN versions'
       /\ \A k \in DOMAIN versions : versions'[k].files = versions[k].files
  BY <1>1, <1>10, VersionsTyped
<1>13. /\ blobs' \subseteq Files \X (1 .. MaxVersions)
       /\ access' \in {"open", "private", "deleted"}
  BY <1>1, <1>3, <1>4, <1>6 DEF I!TypeOK
<1> QED
  BY <1>3, <1>10, <1>11, <1>12, <1>13, VersionsMove

\* The other steps of the owner and of the cleanup
LEMMA OwnerMoves ==
  ASSUME InputsInv, I!DeleteVersion \/ I!ChangeAccess \/ I!DeleteDataset \/ I!Sweep
  PROVE  InputsInv'
<1>1. /\ I!TypeOK /\ (access # "deleted" => I!Published # {})
      /\ versions \in Seq(VersionRows) /\ Len(versions) <= MaxVersions
      /\ blobs \subseteq Files \X (1 .. MaxVersions)
      /\ access \in {"open", "private", "deleted"}
  BY DEF InputsInv, I!TypeOK, VersionRows
<1>2. CASE I!ChangeAccess \/ I!Sweep
  <2>1. /\ UNCHANGED <<versions, tab, document, folder, kernel, editor, job>>
        /\ blobs' \subseteq blobs /\ access' \in {"open", "private", "deleted"}
        /\ access = "deleted" => access' = "deleted"
    BY <1>1, <1>2 DEF I!ChangeAccess, I!Sweep
  <2>2. I!Published' = I!Published
    BY <2>1 DEF I!Published
  <2> QED
    BY <1>1, <2>1, <2>2, VersionsMove
<1>3. CASE I!DeleteVersion
  <2>1. PICK k \in I!Published :
           /\ I!Published # {k} /\ access # "deleted"
           /\ versions' = [versions EXCEPT ![k].status = "deleted"]
           /\ UNCHANGED <<blobs, access, tab, document, folder, kernel, editor, job>>
    BY <1>3 DEF I!DeleteVersion
  <2>2. PICK row : row = [versions[k] EXCEPT !.status = "deleted"]
    OBVIOUS
  <2>3. k \in DOMAIN versions /\ versions[k] \in VersionRows
    BY <1>1, VersionsTyped
  <2>4. row \in VersionRows /\ row.files = versions[k].files
    BY <2>2, <2>3 DEF VersionRows
  <2>5. versions' = [versions EXCEPT ![k] = row]
    BY <2>1, <2>2
  <2>6. /\ versions' \in Seq(VersionRows) /\ Len(versions') = Len(versions)
        /\ DOMAIN versions' = DOMAIN versions
        /\ \A j \in DOMAIN versions : versions'[j] = IF j = k THEN row ELSE versions[j]
    BY <1>1, <2>3, <2>4, <2>5
  <2>7. PICK j \in I!Published : j # k
    BY <2>1
  <2>8. j \in I!Published'
    BY <1>1, <2>6, <2>7, VersionsTyped DEF I!Published
  <2>9. \A i \in DOMAIN versions : versions'[i].files = versions[i].files
    BY <2>4, <2>6
  <2> QED
    BY <1>1, <2>1, <2>6, <2>8, <2>9, VersionsMove
<1>4. CASE I!DeleteDataset
  <2>1. /\ access' = "deleted"
        /\ versions' = [k \in DOMAIN versions |-> [versions[k] EXCEPT !.status = "deleted"]]
        /\ UNCHANGED <<blobs, tab, document, folder, kernel, editor, job>>
    BY <1>4 DEF I!DeleteDataset
  <2>2. ASSUME NEW k \in DOMAIN versions
        PROVE  versions'[k] \in VersionRows /\ versions'[k].files = versions[k].files
    <3>1. versions[k] \in VersionRows /\ versions'[k] = [versions[k] EXCEPT !.status = "deleted"]
      BY <1>1, <2>1, VersionsTyped
    <3> QED
      BY <3>1 DEF VersionRows
  <2>3. DOMAIN versions = 1 .. Len(versions) /\ Len(versions) \in Nat
    BY <1>1, VersionsTyped
  <2>4. versions' \in [1 .. Len(versions) -> VersionRows]
    BY <2>1, <2>2, <2>3
  <2>5. versions' \in Seq(VersionRows) /\ Len(versions') = Len(versions)
        /\ DOMAIN versions' = DOMAIN versions
    BY <2>3, <2>4
  <2> QED
    BY <1>1, <2>1, <2>2, <2>5, VersionsMove
<1> QED
  BY <1>2, <1>3, <1>4

-----------------------------------------------------------------------------
EditorRows == [pc : {"idle", "attach", "start", "remove"}, ref : I!References,
               files : I!Listings, todo : SUBSET Files]

JobRows == [pc : {"idle", "queued", "staging", "executing"}, ref : I!References,
            files : I!Listings, todo : SUBSET Files]

LEMMA Resting == I!Idle \in EditorRows /\ I!Idle \in JobRows /\ I!Idle.pc = "idle" /\ ~I!Pinned(I!Idle.ref)
<1>1. I!Idle = [pc |-> "idle", ref |-> I!Unattached, files |-> I!Empty, todo |-> {}]
  BY DEF I!Idle
<1>2. I!Idle.ref = I!Unattached /\ I!Idle.pc = "idle"
  BY <1>1
<1>3. I!Idle \in EditorRows /\ I!Idle \in JobRows
  BY <1>1, Nothing DEF EditorRows, JobRows
<1> QED
  BY <1>2, <1>3, Nothing

\* A step of the user leaves the dataset alone.
LEMMA ReaderMove ==
  ASSUME InputsInv, UNCHANGED <<versions, blobs, access>>,
         tab' \in I!References, document' \in I!References, folder' \in I!Listings,
         kernel' \in BOOLEAN, editor' \in EditorRows, job' \in JobRows,
         \/ tab' = tab \/ tab' = editor.ref \/ tab' = I!Unattached,
         document' \in {document, tab},
         Faithful(editor.ref)', job' = job \/ Faithful(job.ref)', EditorHolds', JobHolds'
  PROVE  InputsInv'
<1>1. I!TypeOK'
  BY DEF InputsInv, I!TypeOK, EditorRows, JobRows
<1>2. I!Published' = I!Published
  BY DEF I!Published
<1>3. Faithful(tab)' /\ Faithful(document)' /\ Faithful(job.ref)'
  BY Nothing DEF InputsInv, Faithful, I!Pinned
<1> QED
  BY <1>1, <1>2, <1>3 DEF InputsInv

\* A request that has the user's lock, as it begins
LEMMA RequestBegins ==
  ASSUME InputsInv, NEW pc \in {"attach", "start", "remove"}, NEW ref \in I!References,
         NEW files \in I!Listings, NEW todo \in SUBSET Files, I!Begin(pc, ref, files, todo),
         UNCHANGED <<versions, blobs, access, tab, document, folder, kernel, job>>,
         Faithful(ref),
         pc # "remove" => (I!Pinned(ref) => files = ref.files) /\ I!Copied(files) \subseteq todo
  PROVE  InputsInv'
<1>1. editor' = [pc |-> pc, ref |-> ref, files |-> files, todo |-> todo]
  BY DEF I!Begin
<1>2. /\ editor' \in EditorRows /\ editor'.pc = pc /\ editor'.ref = ref
      /\ editor'.files = files /\ editor'.todo = todo
  BY <1>1 DEF EditorRows
<1>3. EditorHolds'
  BY <1>2 DEF EditorHolds, I!Copied, I!Interactive, I!Pinned
<1>4. Faithful(editor.ref)'
  BY <1>2 DEF Faithful, I!Pinned
<1>5. JobHolds'
  BY DEF InputsInv, JobHolds, I!Pinned
<1>6. /\ tab' \in I!References /\ document' \in I!References /\ folder' \in I!Listings
      /\ kernel' \in BOOLEAN /\ job' \in JobRows
  BY DEF InputsInv, I!TypeOK, JobRows
<1> QED
  BY <1>2, <1>3, <1>4, <1>5, <1>6, ReaderMove

LEMMA CopiedFiles ==
  ASSUME NEW files \in I!Listings
  PROVE  /\ I!Copied(files) \in SUBSET Files /\ DOMAIN files \in SUBSET Files
         /\ I!Copied(files) \subseteq DOMAIN files
BY Listing DEF I!Copied

LEMMA RequestsBegin ==
  ASSUME InputsInv, I!Attach \/ I!StartKernel \/ I!RemoveSource
  PROVE  InputsInv'
<1>1. /\ I!TypeOK /\ Faithful(tab) /\ Faithful(document)
      /\ tab \in I!References /\ document \in I!References
  BY DEF InputsInv, I!TypeOK
<1>2. UNCHANGED <<versions, blobs, access, tab, document, folder, kernel, job>>
  BY DEF I!Attach, I!StartKernel, I!RemoveSource
<1>3. CASE I!Attach
  <2>1. PICK version \in 1 .. MaxVersions + 1, follow \in BOOLEAN :
           \E k \in I!Resolved(version) :
           I!Begin("attach",
                 [version |-> IF follow THEN 0 ELSE k, files |-> versions[k].files],
                 versions[k].files, I!Copied(versions[k].files))
    BY <1>3 DEF I!Attach
  <2>10. PICK k \in I!Resolved(version) :
           I!Begin("attach",
                 [version |-> IF follow THEN 0 ELSE k, files |-> versions[k].files],
                 versions[k].files, I!Copied(versions[k].files))
    BY <2>1
  <2>2. /\ k \in DOMAIN versions /\ k \in 1 .. MaxVersions /\ versions[k].files \in I!Listings
    BY <1>1, Resolves
  <2>9. PICK number : number = IF follow THEN 0 ELSE k
    OBVIOUS
  <2>3. PICK ref : ref = [version |-> number, files |-> versions[k].files]
    OBVIOUS
  <2>4. MaxVersions \in Nat /\ number \in {0, k}
    BY <1>1, <2>9, VersionsTyped
  <2>5. ref \in I!References /\ ref.files = versions[k].files /\ ref.version = number
    BY <2>2, <2>3, <2>4 DEF I!References
  <2>6. Faithful(ref)
    BY <2>2, <2>5, <2>4 DEF Faithful, I!Pinned
  <2>7. I!Copied(versions[k].files) \in SUBSET Files
    BY <2>2, CopiedFiles
  <2>8. I!Begin("attach", ref, versions[k].files, I!Copied(versions[k].files))
    BY <2>10, <2>3, <2>9
  <2> QED
    BY <1>2, <2>2, <2>5, <2>6, <2>7, <2>8, RequestBegins
<1>4. CASE I!StartKernel
  <2>1. CASE document = I!Unattached
    <3>1. I!Begin("start", I!Unattached, I!Empty, {})
      BY <1>4, <2>1 DEF I!StartKernel
    <3>2. I!Unattached \in I!References /\ I!Empty \in I!Listings /\ ~I!Pinned(I!Unattached)
      BY Nothing
    <3>3. I!Copied(I!Empty) \subseteq {}
      BY Nothing, CopiedFiles
    <3>4. Faithful(I!Unattached)
      BY <3>2 DEF Faithful
    <3> QED
      BY <1>2, <3>1, <3>2, <3>3, <3>4, RequestBegins
  <2>2. CASE document # I!Unattached
    <3>1. PICK k \in I!Resolved(document.version) :
             I!Begin("start", document, versions[k].files, I!Copied(versions[k].files))
      BY <1>4, <2>2 DEF I!StartKernel
    <3>2. /\ versions[k].files \in I!Listings
          /\ document.version \in 1 .. MaxVersions => k = document.version
      BY <1>1, Resolves
    <3>3. I!Pinned(document) => versions[k].files = document.files
      BY <1>1, <3>2 DEF Faithful, I!Pinned
    <3>4. I!Copied(versions[k].files) \in SUBSET Files
      BY <3>2, CopiedFiles
    <3> QED
      BY <1>1, <1>2, <3>1, <3>2, <3>3, <3>4, RequestBegins
  <2> QED
    BY <2>1, <2>2
<1>5. CASE I!RemoveSource
  <2>1. I!Begin("remove", tab, tab.files, DOMAIN tab.files)
    BY <1>5 DEF I!RemoveSource
  <2>2. tab.files \in I!Listings
    BY <1>1, Nothing
  <2>3. DOMAIN tab.files \in SUBSET Files
    BY <2>2, CopiedFiles
  <2> QED
    BY <1>1, <1>2, <2>1, <2>2, <2>3, RequestBegins
<1> QED
  BY <1>3, <1>4, <1>5

\* One file is copied or removed.
LEMMA FileMoves ==
  ASSUME InputsInv, I!EditorFile
  PROVE  InputsInv'
<1>1. PICK f \in editor.todo : I!StageFile(f) \/ I!RemoveFile(f)
  BY DEF I!EditorFile
<1>2. UNCHANGED <<versions, blobs, access, tab, document, kernel, job>>
  BY DEF I!EditorFile
<1>3. /\ editor \in EditorRows /\ folder \in I!Listings /\ blobs \subseteq Files \X (1 .. MaxVersions)
      /\ tab \in I!References /\ document \in I!References /\ kernel \in BOOLEAN /\ job \in JobRows
      /\ Faithful(editor.ref) /\ EditorHolds /\ JobHolds
  BY DEF InputsInv, I!TypeOK, EditorRows, JobRows
<1>4. /\ editor' \in EditorRows /\ editor'.todo = editor.todo \ {f} /\ editor'.pc = editor.pc
      /\ editor'.ref = editor.ref /\ editor'.files = editor.files
  <2>1. editor' = [editor EXCEPT !.todo = editor.todo \ {f}]
    BY <1>1 DEF I!StageFile, I!RemoveFile
  <2> QED
    BY <1>3, <2>1 DEF EditorRows
<1>5. folder' \in I!Listings /\ EditorHolds'
  <2>1. CASE I!StageFile(f)
    <3>1. /\ folder' = I!Overwrite(folder, f, editor.files[f])
          /\ f \in Files /\ editor.files[f] \in 1 .. MaxVersions
      BY <1>3, <2>1 DEF I!StageFile
    <3>2. folder' = [g \in DOMAIN folder \cup {f} |-> IF g = f THEN editor.files[f] ELSE folder[g]]
      BY <3>1 DEF I!Overwrite
    <3>3. /\ DOMAIN folder \in SUBSET Files
          /\ \A g \in DOMAIN folder : folder[g] \in 1 .. MaxVersions
      BY <1>3, Listing
    <3>4. DOMAIN folder \cup {f} \in SUBSET Files
      BY <3>1, <3>3
    <3>5. folder' \in [DOMAIN folder \cup {f} -> 1 .. MaxVersions]
      BY <3>1, <3>2, <3>3
    <3>6. folder' \in I!Listings
      BY <3>4, <3>5, Listed
    <3>7. ASSUME editor.pc \in {"attach", "start"},
                 NEW g \in I!Copied(editor.files) \ (editor.todo \ {f})
          PROVE  g \in DOMAIN folder' /\ folder'[g] = editor.files[g]
      BY <1>3, <3>2, <3>7 DEF EditorHolds
    <3>8. EditorHolds'
      BY <1>3, <1>4, <3>7 DEF EditorHolds, I!Copied, I!Interactive, I!Pinned
    <3> QED
      BY <3>6, <3>8
  <2>2. CASE I!RemoveFile(f)
    <3>1. /\ folder' = [g \in DOMAIN folder \ {f} |-> folder[g]] /\ editor.pc = "remove"
      BY <2>2 DEF I!RemoveFile
    <3>2. /\ DOMAIN folder \ {f} \in SUBSET Files
          /\ \A g \in DOMAIN folder : folder[g] \in 1 .. MaxVersions
      BY <1>3, Listing
    <3>3. folder' \in [DOMAIN folder \ {f} -> 1 .. MaxVersions]
      BY <3>1, <3>2
    <3>4. folder' \in I!Listings
      BY <3>2, <3>3, Listed
    <3> QED
      BY <1>4, <3>1, <3>4 DEF EditorHolds
  <2> QED
    BY <1>1, <2>1, <2>2
<1>6. Faithful(editor.ref)' /\ JobHolds'
  BY <1>2, <1>3, <1>4 DEF Faithful, I!Pinned, JobHolds
<1> QED
  BY <1>2, <1>3, <1>4, <1>5, <1>6, ReaderMove

\* A request ends, the notebook is saved, or the kernel stops.
LEMMA RequestsEnd ==
  ASSUME InputsInv, I!EditorDone \/ I!EditorFails \/ I!Save \/ I!StopServer
  PROVE  InputsInv'
<1>1. /\ editor \in EditorRows /\ folder \in I!Listings
      /\ tab \in I!References /\ document \in I!References /\ kernel \in BOOLEAN /\ job \in JobRows
      /\ Faithful(editor.ref) /\ EditorHolds /\ JobHolds
  BY DEF InputsInv, I!TypeOK, EditorRows, JobRows
<1>2. editor.ref \in I!References
  BY <1>1 DEF EditorRows
<1>3. /\ UNCHANGED <<versions, blobs, access, folder, job>>
      /\ tab' \in {tab, editor.ref, I!Unattached} /\ document' \in {document, tab}
      /\ kernel' \in BOOLEAN /\ editor' \in {editor, I!Idle}
  BY <1>1 DEF I!EditorDone, I!EditorFails, I!Save, I!StopServer
<1>4. tab' \in I!References /\ document' \in I!References
  BY <1>1, <1>2, <1>3, Nothing
<1>5. editor' \in EditorRows
  BY <1>1, <1>3, Resting
<1>6. JobHolds'
  BY <1>1, <1>3 DEF JobHolds, I!Pinned
<1>7. Faithful(editor.ref)' /\ EditorHolds'
  <2>1. CASE editor' = editor
    BY <1>1, <1>3, <2>1 DEF Faithful, EditorHolds, I!Pinned, I!Copied, I!Interactive
  <2>2. CASE editor' = I!Idle
    BY <2>2, Resting DEF Faithful, EditorHolds, I!Pinned
  <2> QED
    BY <1>3, <2>1, <2>2
<1> QED
  BY <1>1, <1>3, <1>4, <1>5, <1>6, <1>7, ReaderMove

LEMMA JobMoves ==
  ASSUME InputsInv, I!Queue \/ I!JobResolves \/ I!JobCopies \/ I!JobExecutes \/ I!JobEnds
  PROVE  InputsInv'
<1>1. /\ I!TypeOK /\ editor \in EditorRows /\ folder \in I!Listings
      /\ tab \in I!References /\ document \in I!References /\ kernel \in BOOLEAN /\ job \in JobRows
      /\ Faithful(editor.ref) /\ Faithful(document) /\ Faithful(job.ref) /\ EditorHolds /\ JobHolds
  BY DEF InputsInv, I!TypeOK, EditorRows, JobRows
<1>2. UNCHANGED <<versions, blobs, access, tab, document, folder, kernel, editor>>
  BY DEF I!Queue, I!JobResolves, I!JobCopies, I!JobExecutes, I!JobEnds
<1>3. job' \in JobRows /\ Faithful(job.ref)' /\ JobHolds'
  <2>1. CASE I!Queue
    <3>1. job' = [I!Idle EXCEPT !.pc = "queued", !.ref = document]
      BY <2>1 DEF I!Queue
    <3>2. I!Idle \in JobRows
      BY Resting
    <3>3. job' \in JobRows /\ job'.pc = "queued" /\ job'.ref = document
      BY <1>1, <3>1, <3>2 DEF JobRows
    <3> QED
      BY <1>1, <1>2, <3>3 DEF Faithful, JobHolds, I!Pinned
  <2>2. CASE I!JobResolves
    <3>1. PICK k \in I!Resolved(job.ref.version) :
             job' = [job EXCEPT !.pc = "staging", !.todo = DOMAIN versions[k].files,
                                !.files = versions[k].files]
      BY <2>2 DEF I!JobResolves
    <3>2. /\ k \in DOMAIN versions /\ versions[k].files \in I!Listings
          /\ job.ref.version \in 1 .. MaxVersions => k = job.ref.version
      BY <1>1, Resolves
    <3>3. DOMAIN versions[k].files \in SUBSET Files
      BY <3>2, CopiedFiles
    <3>4. job' \in JobRows /\ job'.ref = job.ref /\ job'.files = versions[k].files
      BY <1>1, <3>1, <3>2, <3>3 DEF JobRows
    <3> QED
      BY <1>1, <1>2, <3>2, <3>4 DEF Faithful, JobHolds, I!Pinned
  <2>3. CASE I!JobCopies
    <3>1. job.pc = "staging" /\ \E f \in job.todo : job' = [job EXCEPT !.todo = job.todo \ {f}]
      BY <2>3 DEF I!JobCopies
    <3>2. job' \in JobRows /\ job'.ref = job.ref /\ job'.files = job.files /\ job'.pc = "staging"
      BY <1>1, <3>1 DEF JobRows
    <3> QED
      BY <1>1, <1>2, <3>1, <3>2 DEF Faithful, JobHolds, I!Pinned
  <2>4. CASE I!JobExecutes
    <3>1. job.pc = "staging" /\ job' = [job EXCEPT !.pc = "executing"]
      BY <2>4 DEF I!JobExecutes
    <3>2. job' \in JobRows /\ job'.ref = job.ref /\ job'.files = job.files
      BY <1>1, <3>1 DEF JobRows
    <3> QED
      BY <1>1, <1>2, <3>1, <3>2 DEF Faithful, JobHolds, I!Pinned
  <2>5. CASE I!JobEnds
    <3>1. job' = I!Idle
      BY <2>5 DEF I!JobEnds
    <3> QED
      BY <3>1, Resting DEF Faithful, JobHolds, I!Pinned
  <2> QED
    BY <2>1, <2>2, <2>3, <2>4, <2>5
<1>4. Faithful(editor.ref)' /\ EditorHolds'
  BY <1>1, <1>2 DEF Faithful, EditorHolds, I!Pinned, I!Copied, I!Interactive
<1> QED
  BY <1>1, <1>2, <1>3, <1>4, ReaderMove

-----------------------------------------------------------------------------
LEMMA InputsInit == I!Init => InputsInv
<1> SUFFICES ASSUME I!Init
             PROVE  InputsInv
  OBVIOUS
<1>1. PICK F \in SUBSET Files \ {{}} :
         /\ versions = <<[status |-> "published", files |-> [f \in F |-> 1]]>>
         /\ blobs = F \X {1}
  BY DEF I!Init
<1>2. PICK fs : fs = [f \in F |-> 1]
  OBVIOUS
<1>3. 1 \in 1 .. MaxVersions /\ MaxVersions \in Nat
  BY InputsBounds
<1>4. fs \in I!Listings
  <2>1. fs \in [F -> 1 .. MaxVersions] /\ F \in SUBSET Files
    BY <1>2, <1>3
  <2> QED
    BY <2>1, Listed
<1>5. PICK row : row = [status |-> "published", files |-> fs]
  OBVIOUS
<1>6. row \in VersionRows /\ row.status = "published" /\ versions = <<row>>
  BY <1>1, <1>2, <1>4, <1>5 DEF VersionRows
<1>7. versions \in Seq(VersionRows) /\ Len(versions) = 1 /\ versions[1] = row
  BY <1>6
<1>8. 1 \in I!Published
  BY <1>6, <1>7 DEF I!Published
<1>9. /\ access = "open" /\ tab = I!Unattached /\ document = I!Unattached /\ folder = I!Empty
      /\ kernel = FALSE /\ editor = I!Idle /\ job = I!Idle
  BY DEF I!Init
<1>10. blobs \subseteq Files \X (1 .. MaxVersions) /\ Len(versions) <= MaxVersions
  BY <1>1, <1>3, <1>7
<1>11. I!TypeOK
  BY <1>7, <1>9, <1>10, Nothing, Resting DEF I!TypeOK, VersionRows, EditorRows, JobRows
<1>12. Faithful(tab) /\ Faithful(document) /\ Faithful(editor.ref) /\ Faithful(job.ref)
  BY <1>9, Nothing, Resting DEF Faithful
<1>13. EditorHolds /\ JobHolds
  BY <1>9, Resting DEF EditorHolds, JobHolds
<1> QED
  BY <1>8, <1>11, <1>12, <1>13 DEF InputsInv

LEMMA InputsStep == InputsInv /\ [I!Next]_I!vars => InputsInv'
<1> SUFFICES ASSUME InputsInv, [I!Next]_I!vars
             PROVE  InputsInv'
  OBVIOUS
<1>1. CASE I!Next
  BY <1>1, Publishes, OwnerMoves, RequestsBegin, FileMoves, RequestsEnd, JobMoves DEF I!Next
<1>2. CASE UNCHANGED I!vars
  BY <1>2 DEF I!vars, InputsInv, I!TypeOK, Faithful, EditorHolds, JobHolds, I!Published, I!Pinned, I!Copied,
              I!Interactive
<1> QED
  BY <1>1, <1>2

\* A kernel starts when the files of its inputs have been copied.
LEMMA KernelStep ==
  ASSUME InputsInv, I!Next, kernel', ~kernel, I!Interactive(editor.files)
  PROVE  /\ \A f \in DOMAIN editor.files : f \in DOMAIN folder /\ folder[f] = editor.files[f]
         /\ I!Pinned(editor.ref) => editor.files = editor.ref.files
<1>1. I!EditorDone /\ editor.pc = "start" /\ editor.todo = {}
  BY DEF I!Next, I!PublishVersion, I!DeleteVersion, I!ChangeAccess, I!DeleteDataset, I!Sweep, I!Attach,
         I!StartKernel, I!RemoveSource, I!EditorFile, I!EditorDone, I!EditorFails, I!Save, I!StopServer,
         I!Queue, I!JobResolves, I!JobCopies, I!JobExecutes, I!JobEnds
<1> QED
  BY <1>1 DEF InputsInv, EditorHolds, I!Copied

\* Runs and kernels read what was published, whatever happens to the dataset meanwhile
\* (input_sources.py, notebook_files.py, isolated_runner.py).
THEOREM InputsStay == I!Spec => InputsKept
<1>1. I!Spec => []InputsInv
  BY InputsInit, InputsStep, PTL DEF I!Spec
<1>2. InputsInv => I!TypeOK /\ I!RunsReadOneVersion
  BY DEF InputsInv, JobHolds, I!RunsReadOneVersion
<1>3. InputsInv /\ [I!Next]_I!vars =>
         [kernel' /\ ~kernel /\ I!Interactive(editor.files) =>
             /\ \A f \in DOMAIN editor.files : f \in DOMAIN folder /\ folder[f] = editor.files[f]
             /\ I!Pinned(editor.ref) => editor.files = editor.ref.files]_I!vars
  BY KernelStep
<1> QED
  BY <1>1, <1>2, <1>3, PTL DEF I!Spec, InputsKept, I!InputsKept, I!KernelsFindInputs
=============================================================================
