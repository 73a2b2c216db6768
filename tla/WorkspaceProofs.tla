--------------------------- MODULE WorkspaceProofs --------------------------
(***************************************************************************)
(* Proofs that drafts are kept while their lease runs and that a deleted   *)
(* notebook stays deleted, for every number of users and tabs, every lease *)
(* and every interleaving of the coroutines.                               *)
(***************************************************************************)
EXTENDS Workspace, TLAPS

(***************************************************************************)
(* The inductive invariant.                                                *)
(***************************************************************************)
\* The steps between which a coroutine has the lock of its user.
Serial == {"openAsk", "openJoin", "openPut", "saveJoin", "saveRead", "saveWrite", "removing",
           "putDraft", "putBook"}

\* Those of a request that will renew the lease.
Editing == {"openAsk", "openJoin", "openPut", "saveJoin", "saveRead", "saveWrite"}

\* What a tab's request has found still holds.
TabHolds(t) ==
    LET u == TabUser[t] IN
    /\ tab[t] \in Serial => lock[u] = t
    /\ tab[t] = "removing" => Expired(u)
    /\ tab[t] \in Editing => draft[u].state = "live" /\ notebook[u] # "deleted"

\* The draft the cleanup removes has expired.
CleanerHolds == cleaner.at # None => lock[cleaner.at] = "cleaner" /\ Expired(cleaner.at)

\* A notebook is saved from a draft, and its draft does not outlive it.
BookHolds(u) ==
    /\ draft[u].state = "none" => notebook[u] = "none"
    /\ draft[u].state = "live" /\ notebook[u] = "live" => draft[u].saved
    /\ notebook[u] = "deleted" => draft[u].lease = 0 \/ draft[u].state = "gone"

WorkspaceInv ==
    /\ TypeOK
    /\ \A t \in Tabs : TabHolds(t)
    /\ CleanerHolds
    /\ \A u \in Users : BookHolds(u)

-----------------------------------------------------------------------------
LEMMA Names ==
  /\ None \notin Tabs /\ None \notin Users /\ None # "cleaner" /\ None # "thread"
  /\ "cleaner" \notin Tabs /\ "thread" \notin Tabs
  /\ Lease \in Nat /\ Lease > 0 /\ \A t \in Tabs : TabUser[t] \in Users
BY WorkspaceAssumption

\* A step of a tab, which has the lock of its user or leaves draft, notebook and lock alone.
LEMMA TabMove ==
  ASSUME WorkspaceInv, NEW t \in Tabs, NEW u \in Users, u = TabUser[t], TypeOK',
         cleaner' = cleaner,
         \A s \in Tabs \ {t} : tab'[s] = tab[s],
         \A v \in Users \ {u} :
            draft'[v] = draft[v] /\ notebook'[v] = notebook[v] /\ lock'[v] = lock[v],
         \/ lock[u] \in {None, t}
         \/ draft'[u] = draft[u] /\ notebook'[u] = notebook[u] /\ lock'[u] = lock[u],
         TabHolds(t)', BookHolds(u)'
  PROVE  WorkspaceInv'
<1>1. /\ \A s \in Tabs : TabHolds(s) /\ TabUser[s] \in Users
      /\ CleanerHolds /\ \A v \in Users : BookHolds(v)
  BY Names DEF WorkspaceInv
<1>2. ASSUME NEW s \in Tabs \ {t} PROVE TabHolds(s)'
  <2>1. tab'[s] = tab[s] /\ TabHolds(s) /\ TabUser[s] \in Users /\ s # None /\ s # t
    BY <1>1, Names
  <2>2. CASE TabUser[s] # u
    BY <2>1, <2>2 DEF TabHolds, Expired
  <2>3. CASE TabUser[s] = u /\ lock[u] \in {None, t}
    BY <2>1, <2>3 DEF TabHolds, Serial, Editing
  <2>4. CASE TabUser[s] = u /\ draft'[u] = draft[u] /\ notebook'[u] = notebook[u] /\ lock'[u] = lock[u]
    BY <2>1, <2>4 DEF TabHolds, Expired
  <2> QED
    BY <2>2, <2>3, <2>4
<1>3. CleanerHolds'
  <2> SUFFICES ASSUME cleaner.at # None
               PROVE  lock'[cleaner.at] = "cleaner" /\ Expired(cleaner.at)'
    BY DEF CleanerHolds
  <2>1. cleaner.at \in Users /\ lock[cleaner.at] = "cleaner" /\ Expired(cleaner.at)
    BY <1>1 DEF CleanerHolds, WorkspaceInv, TypeOK
  <2>2. CASE cleaner.at # u
    BY <2>1, <2>2 DEF Expired
  <2>3. CASE cleaner.at = u
    BY <2>1, <2>3, Names DEF Expired
  <2> QED
    BY <2>2, <2>3
<1>4. \A v \in Users : BookHolds(v)'
  BY <1>1 DEF BookHolds
<1> QED
  BY <1>2, <1>3, <1>4 DEF WorkspaceInv

\* A step of a user's handler, which waits for nobody and keeps the tabs where they are.
LEMMA UserMove ==
  ASSUME WorkspaceInv, NEW u \in Users, TypeOK', UNCHANGED <<cleaner, tab, lock>>,
         \A v \in Users \ {u} : draft'[v] = draft[v] /\ notebook'[v] = notebook[v],
         \/ lock[u] = None
         \/ draft[u].state = "none" /\ draft'[u].state = "live" /\ notebook'[u] = notebook[u],
         BookHolds(u)'
  PROVE  WorkspaceInv'
<1>1. /\ \A s \in Tabs : TabHolds(s) /\ TabUser[s] \in Users
      /\ CleanerHolds /\ \A v \in Users : BookHolds(v)
  BY Names DEF WorkspaceInv
<1>2. ASSUME NEW s \in Tabs PROVE TabHolds(s)'
  <2>1. tab'[s] = tab[s] /\ TabHolds(s) /\ TabUser[s] \in Users /\ s # None
    BY <1>1, Names
  <2>2. CASE TabUser[s] # u
    BY <2>1, <2>2 DEF TabHolds, Expired
  <2>3. CASE TabUser[s] = u /\ lock[u] = None
    BY <2>1, <2>3 DEF TabHolds, Serial, Editing
  <2>4. CASE TabUser[s] = u /\ draft[u].state = "none"
    BY <2>1, <2>4 DEF TabHolds, Expired
  <2> QED
    BY <2>2, <2>3, <2>4
<1>3. CleanerHolds'
  <2> SUFFICES ASSUME cleaner.at # None
               PROVE  lock[cleaner.at] = "cleaner" /\ Expired(cleaner.at)'
    BY DEF CleanerHolds
  <2>1. cleaner.at \in Users /\ lock[cleaner.at] = "cleaner" /\ Expired(cleaner.at)
    BY <1>1 DEF CleanerHolds, WorkspaceInv, TypeOK
  <2>2. cleaner.at # u
    BY <2>1, Names DEF Expired
  <2> QED
    BY <2>1, <2>2 DEF Expired
<1>4. \A v \in Users : BookHolds(v)'
  BY <1>1 DEF BookHolds
<1> QED
  BY <1>2, <1>3, <1>4 DEF WorkspaceInv

\* A step of the cleanup for u, from the lock to the end.
LEMMA CleanMove ==
  ASSUME WorkspaceInv, NEW u \in Users, TypeOK', UNCHANGED <<tab, notebook>>,
         \A v \in Users \ {u} : draft'[v] = draft[v] /\ lock'[v] = lock[v],
         cleaner.at \in {None, u}, cleaner'.at \in {None, u},
         \/ lock[u] \in {None, "cleaner"}
         \/ lock'[u] = lock[u] /\ draft'[u] = draft[u],
         cleaner'.at = u => lock'[u] = "cleaner" /\ Expired(u)',
         BookHolds(u)'
  PROVE  WorkspaceInv'
<1>1. /\ \A s \in Tabs : TabHolds(s) /\ TabUser[s] \in Users
      /\ \A v \in Users : BookHolds(v)
  BY Names DEF WorkspaceInv
<1>2. ASSUME NEW s \in Tabs PROVE TabHolds(s)'
  <2>1. tab'[s] = tab[s] /\ TabHolds(s) /\ TabUser[s] \in Users /\ s # None /\ s # "cleaner"
    BY <1>1, Names
  <2>2. CASE TabUser[s] # u
    BY <2>1, <2>2 DEF TabHolds, Expired
  <2>3. CASE TabUser[s] = u /\ lock[u] \in {None, "cleaner"}
    BY <2>1, <2>3 DEF TabHolds, Serial, Editing
  <2>4. CASE TabUser[s] = u /\ lock'[u] = lock[u] /\ draft'[u] = draft[u]
    BY <2>1, <2>4 DEF TabHolds, Expired
  <2> QED
    BY <2>2, <2>3, <2>4
<1>3. CleanerHolds'
  BY DEF CleanerHolds
<1>4. \A v \in Users : BookHolds(v)'
  BY <1>1 DEF BookHolds
<1> QED
  BY <1>2, <1>3, <1>4 DEF WorkspaceInv

-----------------------------------------------------------------------------
(* The handlers.                                                           *)

DraftType == [state : {"none", "live", "gone"}, lease : 0 .. Lease, saved : BOOLEAN]

FileType == [draft : BOOLEAN, book : {"none", "import", "saved"}]

LEMMA Types ==
  TypeOK <=>
    /\ draft \in [Users -> DraftType] /\ notebook \in [Users -> {"none", "live", "deleted"}]
    /\ file \in [Users -> FileType] /\ ready \in [Users -> BOOLEAN]
    /\ lock \in [Users -> Tabs \cup {None, "cleaner"}]
    /\ competition \in Tabs \cup {None, "thread"} /\ bookRow \in [Users -> Tabs \cup {None}]
    /\ blocked \in Tabs \cup {None} /\ tab \in [Tabs -> Steps]
    /\ cleaner \in [todo : SUBSET Users, at : Users \cup {None}] /\ trash \subseteq Users
BY DEF TypeOK, DraftType, FileType

\* What a row of a draft becomes.
LEMMA LeaseWritten ==
  ASSUME NEW r \in DraftType, NEW n \in 0 .. Lease, NEW d, d = [r EXCEPT !.lease = n]
  PROVE  d \in DraftType /\ d.lease = n /\ d.state = r.state /\ d.saved = r.saved
BY DEF DraftType

LEMMA SavedWritten ==
  ASSUME NEW r \in DraftType, NEW d, d = [r EXCEPT !.lease = Lease, !.saved = TRUE]
  PROVE  d \in DraftType /\ d.lease = Lease /\ d.saved = TRUE /\ d.state = r.state
<1>1. d = [[r EXCEPT !.lease = Lease] EXCEPT !.saved = TRUE]
  BY DEF DraftType
<1>2. Lease \in 0 .. Lease
  BY Names
<1> QED
  BY <1>1, <1>2 DEF DraftType

LEMMA GoneWritten ==
  ASSUME NEW r \in DraftType, NEW d, d = [r EXCEPT !.state = "gone", !.saved = FALSE]
  PROVE  d \in DraftType /\ d.lease = r.lease /\ d.state = "gone"
<1>1. d = [[r EXCEPT !.state = "gone"] EXCEPT !.saved = FALSE]
  BY DEF DraftType
<1> QED
  BY <1>1 DEF DraftType

LEMMA FileWritten ==
  ASSUME TypeOK, NEW u \in Users, NEW b \in BOOLEAN, NEW w \in {"none", "import", "saved"}
  PROVE  /\ [file EXCEPT ![u].draft = b] \in [Users -> FileType]
         /\ [file EXCEPT ![u].book = w] \in [Users -> FileType]
<1>1. file \in [Users -> FileType]
  BY Types
<1>2. [file[u] EXCEPT !.draft = b] \in FileType /\ [file[u] EXCEPT !.book = w] \in FileType
  BY <1>1 DEF FileType
<1> QED
  BY <1>1, <1>2

\* The end of a handler.
LEMMA Returned ==
  ASSUME TypeOK, NEW t \in Tabs, NEW u \in Users, u = TabUser[t], Return(t)
  PROVE  /\ tab' \in [Tabs -> Steps] /\ lock' \in [Users -> Tabs \cup {None, "cleaner"}]
         /\ bookRow' \in [Users -> Tabs \cup {None}]
         /\ competition' \in Tabs \cup {None, "thread"}
         /\ tab'[t] = "idle" /\ \A s \in Tabs \ {t} : tab'[s] = tab[s]
         /\ lock'[u] = (IF lock[u] = t THEN None ELSE lock[u])
         /\ \A v \in Users \ {u} : lock'[v] = lock[v]
BY Types DEF Return, Steps

LEMMA EndMoves ==
  ASSUME WorkspaceInv, NEW t \in Tabs,
         \/ OpenFound(t) \/ OpenPut(t) \/ SaveWrite(t) \/ DiscardRemoves(t) \/ PutDraft(t)
         \/ Fails(t)
  PROVE  WorkspaceInv'
<1> DEFINE u == TabUser[t]
<1>1. /\ TypeOK /\ TabHolds(t) /\ u \in Users /\ BookHolds(u) /\ Return(t)
      /\ UNCHANGED <<ready, blocked, cleaner, trash>>
      /\ draft \in [Users -> DraftType] /\ file \in [Users -> FileType]
      /\ notebook \in [Users -> {"none", "live", "deleted"}] /\ draft[u] \in DraftType
  BY Names, Types DEF WorkspaceInv, OpenFound, OpenPut, SaveWrite, DiscardRemoves, PutDraft, Fails
<1>2. /\ tab' \in [Tabs -> Steps] /\ lock' \in [Users -> Tabs \cup {None, "cleaner"}]
      /\ bookRow' \in [Users -> Tabs \cup {None}] /\ competition' \in Tabs \cup {None, "thread"}
      /\ tab'[t] = "idle" /\ \A s \in Tabs \ {t} : tab'[s] = tab[s]
      /\ lock'[u] = (IF lock[u] = t THEN None ELSE lock[u])
      /\ \A v \in Users \ {u} : lock'[v] = lock[v]
  BY <1>1, Returned
<1>3. TabHolds(t)'
  BY <1>2 DEF TabHolds, Serial, Editing
<1>4. ASSUME draft' \in [Users -> DraftType], file' \in [Users -> FileType],
             notebook' \in [Users -> {"none", "live", "deleted"}],
             \A v \in Users \ {u} : draft'[v] = draft[v] /\ notebook'[v] = notebook[v],
             tab[t] \in Serial \/ UNCHANGED <<draft, notebook>>,
             BookHolds(u)'
      PROVE  WorkspaceInv'
  <2>1. TypeOK'
    BY <1>1, <1>2, <1>4 DEF TypeOK, DraftType, FileType
  <2>2. \/ lock[u] = t
        \/ draft'[u] = draft[u] /\ notebook'[u] = notebook[u] /\ lock'[u] = lock[u]
    BY <1>1, <1>2, <1>4 DEF TabHolds
  <2> QED
    BY <1>1, <1>2, <1>3, <1>4, <2>1, <2>2, TabMove
<1>5. CASE OpenFound(t) \/ OpenPut(t)
  <2>1. /\ draft' = [draft EXCEPT ![u].lease = Lease] /\ notebook' = notebook
        /\ file' = file \/ file' = [file EXCEPT ![u].draft = TRUE]
        /\ tab[t] \in {"openAsk", "openPut"}
    BY <1>5 DEF OpenFound, OpenPut, Renewed
  <2>2. draft[u].state = "live" /\ notebook[u] # "deleted"
    BY <1>1, <2>1 DEF TabHolds, Editing
  <2>3. file' \in [Users -> FileType]
    BY <1>1, <2>1, FileWritten
  <2> DEFINE d == [draft[u] EXCEPT !.lease = Lease]
  <2>4. d \in DraftType /\ d.state = draft[u].state /\ d.saved = draft[u].saved
    BY <1>1, LeaseWritten, Names
  <2>d. draft' = [draft EXCEPT ![u] = d]
    BY <2>1
  <2> HIDE DEF d
  <2>5. /\ draft' \in [Users -> DraftType] /\ draft'[u] = d
        /\ \A v \in Users \ {u} : draft'[v] = draft[v]
    BY <1>1, <2>d, <2>4
  <2>6. BookHolds(u)'
    BY <1>1, <2>1, <2>2, <2>4, <2>5 DEF BookHolds
  <2> QED
    BY <1>1, <1>4, <2>1, <2>3, <2>5, <2>6 DEF Serial
<1>6. CASE SaveWrite(t)
  <2> DEFINE d == [draft[u] EXCEPT !.lease = Lease, !.saved = TRUE]
  <2>1. /\ draft' = [draft EXCEPT ![u] = d] /\ notebook' = [notebook EXCEPT ![u] = "live"]
        /\ file' = [file EXCEPT ![u].book = "saved"] /\ tab[t] = "saveWrite"
    BY <1>6 DEF SaveWrite
  <2>2. draft[u].state = "live"
    BY <1>1, <2>1 DEF TabHolds, Editing
  <2>3. file' \in [Users -> FileType]
    BY <1>1, <2>1, FileWritten
  <2>4. d \in DraftType /\ d.state = draft[u].state /\ d.saved = TRUE
    BY <1>1, SavedWritten
  <2> HIDE DEF d
  <2>5. /\ draft' \in [Users -> DraftType] /\ draft'[u] = d
        /\ notebook' \in [Users -> {"none", "live", "deleted"}] /\ notebook'[u] = "live"
        /\ \A v \in Users \ {u} : draft'[v] = draft[v] /\ notebook'[v] = notebook[v]
    BY <1>1, <2>1, <2>4
  <2>6. BookHolds(u)'
    BY <2>2, <2>4, <2>5 DEF BookHolds
  <2> QED
    BY <1>4, <2>1, <2>3, <2>5, <2>6 DEF Serial
<1>7. CASE DiscardRemoves(t)
  <2> DEFINE d == [draft[u] EXCEPT !.state = "gone", !.saved = FALSE]
  <2>1. /\ draft' = [draft EXCEPT ![u].state = "gone", ![u].saved = FALSE]
        /\ notebook' = notebook /\ file' = [file EXCEPT ![u].draft = FALSE] /\ tab[t] = "removing"
    BY <1>7 DEF DiscardRemoves
  <2>2. draft' = [draft EXCEPT ![u] = d]
    BY <1>1, <2>1
  <2>3. file' \in [Users -> FileType]
    BY <1>1, <2>1, FileWritten
  <2>4. d \in DraftType /\ d.state = "gone"
    BY <1>1, GoneWritten
  <2> HIDE DEF d
  <2>5. /\ draft' \in [Users -> DraftType] /\ draft'[u] = d
        /\ \A v \in Users \ {u} : draft'[v] = draft[v]
    BY <1>1, <2>2, <2>4
  <2>6. BookHolds(u)'
    BY <2>4, <2>5 DEF BookHolds
  <2> QED
    BY <1>1, <1>4, <2>1, <2>3, <2>5, <2>6 DEF Serial
<1>8. CASE PutDraft(t) \/ Fails(t)
  <2>1. UNCHANGED <<draft, notebook>>
    BY <1>8 DEF PutDraft, Fails
  <2>2. ASSUME NEW b \in BOOLEAN PROVE [file EXCEPT ![u].draft = b] \in [Users -> FileType]
    BY <1>1, FileWritten
  <2>w. ASSUME NEW w \in {"import", "saved"}
        PROVE  [file EXCEPT ![u].book = w] \in [Users -> FileType]
    BY <1>1, FileWritten
  <2>3. file' \in [Users -> FileType]
    <3>1. CASE PutDraft(t)
      BY <2>2, <3>1 DEF PutDraft
    <3>2. CASE Fails(t)
      <4>1. \/ file' = file
            \/ file' = [file EXCEPT ![u].draft = TRUE] \/ file' = [file EXCEPT ![u].draft = FALSE]
            \/ file' = [file EXCEPT ![u].book = "saved"] \/ file' = [file EXCEPT ![u].book = "import"]
        BY <3>2 DEF Fails
      <4> QED
        BY <1>1, <2>2, <2>w, <4>1
    <3> QED
      BY <1>8, <3>1, <3>2
  <2>4. BookHolds(u)'
    BY <1>1, <2>1 DEF BookHolds
  <2> QED
    BY <1>1, <1>4, <2>1, <2>3, <2>4
<1> QED
  BY <1>5, <1>6, <1>7, <1>8

\* joined_competition() goes on, or waits.
LEMMA Joined ==
  ASSUME TypeOK, NEW t \in Tabs, NEW next \in Steps, NEW waiting \in Steps,
         JoinedCompetition(t, next, waiting)
  PROVE  /\ tab' \in [Tabs -> Steps] /\ competition' \in Tabs \cup {None, "thread"}
         /\ blocked' \in Tabs \cup {None}
         /\ tab'[t] \in {next, waiting} /\ \A s \in Tabs \ {t} : tab'[s] = tab[s]
BY Types DEF JoinedCompetition

\* A request takes the lock of its user.
LEMMA LockMoves ==
  ASSUME WorkspaceInv, NEW t \in Tabs,
         \/ OpenBegin(t) \/ SaveBegin(t) \/ DiscardBegin(t) \/ PutDraftBegin(t) \/ PutBookBegin(t)
  PROVE  WorkspaceInv'
<1> DEFINE u == TabUser[t]
<1>1. /\ TypeOK /\ u \in Users /\ BookHolds(u) /\ t # None
      /\ draft \in [Users -> DraftType] /\ draft[u] \in DraftType
      /\ lock \in [Users -> Tabs \cup {None, "cleaner"}] /\ tab \in [Tabs -> Steps]
      /\ bookRow \in [Users -> Tabs \cup {None}]
  BY Names, Types DEF WorkspaceInv
<1>2. /\ lock[u] = None /\ lock' = [lock EXCEPT ![u] = t]
      /\ UNCHANGED <<notebook, file, ready, cleaner, trash>>
  BY DEF OpenBegin, SaveBegin, DiscardBegin, PutDraftBegin, PutBookBegin, Serialized
<1>3. /\ lock' \in [Users -> Tabs \cup {None, "cleaner"}] /\ lock'[u] = t
      /\ \A v \in Users \ {u} : lock'[v] = lock[v]
  BY <1>1, <1>2
<1>4. ASSUME draft' \in [Users -> DraftType], bookRow' \in [Users -> Tabs \cup {None}],
             competition' \in Tabs \cup {None, "thread"}, blocked' \in Tabs \cup {None},
             tab' \in [Tabs -> Steps], \A s \in Tabs \ {t} : tab'[s] = tab[s],
             \A v \in Users \ {u} : draft'[v] = draft[v],
             tab'[t] \in Editing \cup {"removing", "putDraft", "putBook"},
             tab'[t] = "removing" => Expired(u)',
             tab'[t] \in Editing => draft'[u].state = "live" /\ notebook[u] # "deleted",
             BookHolds(u)'
      PROVE  WorkspaceInv'
  <2>1. TypeOK'
    BY <1>1, <1>2, <1>3, <1>4 DEF TypeOK, DraftType, FileType
  <2>2. TabHolds(t)'
    BY <1>2, <1>3, <1>4 DEF TabHolds
  <2> QED
    BY <1>1, <1>2, <1>3, <1>4, <2>1, <2>2, TabMove
<1>5. CASE OpenBegin(t)
  <2>1. /\ UNCHANGED <<draft, competition, bookRow, blocked>> /\ Owned(u)
        /\ tab' = [tab EXCEPT ![t] = "openAsk"]
    BY <1>5 DEF OpenBegin
  <2>2. /\ tab' \in [Tabs -> Steps] /\ \A s \in Tabs \ {t} : tab'[s] = tab[s]
        /\ tab'[t] = "openAsk"
    BY <1>1, <2>1 DEF Steps
  <2>3. BookHolds(u)' /\ draft'[u].state = "live" /\ notebook[u] # "deleted"
    BY <1>1, <1>2, <2>1 DEF BookHolds, Owned
  <2> QED
    BY <1>1, <1>4, <2>1, <2>2, <2>3, Types DEF Editing
<1>6. CASE SaveBegin(t)
  <2>1. /\ draft' = draft /\ Owned(u) /\ JoinedCompetition(t, "saveRead", "saveJoin")
        /\ bookRow' = [bookRow EXCEPT ![u] = IF draft[u].saved THEN t ELSE @]
    BY <1>6 DEF SaveBegin
  <2>2. /\ tab' \in [Tabs -> Steps] /\ competition' \in Tabs \cup {None, "thread"}
        /\ blocked' \in Tabs \cup {None}
        /\ tab'[t] \in {"saveRead", "saveJoin"} /\ \A s \in Tabs \ {t} : tab'[s] = tab[s]
    BY <1>1, <2>1, Joined DEF Steps
  <2>3. BookHolds(u)' /\ draft'[u].state = "live" /\ notebook[u] # "deleted"
    BY <1>1, <1>2, <2>1 DEF BookHolds, Owned
  <2>4. bookRow' \in [Users -> Tabs \cup {None}]
    BY <1>1, <2>1
  <2> QED
    BY <1>1, <1>4, <2>1, <2>2, <2>3, <2>4 DEF Editing
<1>7. CASE DiscardBegin(t)
  <2> DEFINE d == [draft[u] EXCEPT !.lease = 0]
  <2>1. /\ UNCHANGED <<competition, bookRow, blocked>> /\ draft[u].state = "live"
        /\ draft' = [draft EXCEPT ![u] = d] /\ tab' = [tab EXCEPT ![t] = "removing"]
    BY <1>7 DEF DiscardBegin
  <2>2. d \in DraftType /\ d.lease = 0 /\ d.state = draft[u].state /\ d.saved = draft[u].saved
    BY <1>1, LeaseWritten, Names
  <2> HIDE DEF d
  <2>3. /\ tab' \in [Tabs -> Steps] /\ \A s \in Tabs \ {t} : tab'[s] = tab[s]
        /\ tab'[t] = "removing"
        /\ draft' \in [Users -> DraftType] /\ draft'[u] = d
        /\ \A v \in Users \ {u} : draft'[v] = draft[v]
    BY <1>1, <2>1, <2>2 DEF Steps
  <2>4. BookHolds(u)' /\ Expired(u)'
    BY <1>1, <1>2, <2>1, <2>2, <2>3 DEF BookHolds, Expired
  <2> QED
    BY <1>1, <1>4, <2>1, <2>3, <2>4, Types DEF Editing
<1>8. CASE PutDraftBegin(t) \/ PutBookBegin(t)
  <2>1. /\ UNCHANGED <<draft, competition, bookRow, blocked>>
        /\ \E step \in {"putDraft", "putBook"} : tab' = [tab EXCEPT ![t] = step]
    BY <1>8 DEF PutDraftBegin, PutBookBegin
  <2>2. /\ tab' \in [Tabs -> Steps] /\ \A s \in Tabs \ {t} : tab'[s] = tab[s]
        /\ tab'[t] \in {"putDraft", "putBook"}
    BY <1>1, <2>1 DEF Steps
  <2>3. BookHolds(u)'
    BY <1>1, <1>2, <2>1 DEF BookHolds
  <2> QED
    BY <1>1, <1>4, <2>1, <2>2, <2>3, Types DEF Editing
<1> QED
  BY <1>5, <1>6, <1>7, <1>8

\* A request goes on, with the lock that it has or without one.
LEMMA StepMoves ==
  ASSUME WorkspaceInv, NEW t \in Tabs,
         \/ OpenMissing(t) \/ SaveRead(t) \/ PutBook(t) \/ PutBookCommit(t)
         \/ OpenBookBegin(t) \/ OpenBookAsk(t) \/ OpenBookPut(t) \/ Unblock(t) \/ Resolve(t)
  PROVE  WorkspaceInv'
<1> DEFINE u == TabUser[t]
<1>1. /\ TypeOK /\ u \in Users /\ BookHolds(u) /\ TabHolds(t) /\ t # None
      /\ draft \in [Users -> DraftType] /\ file \in [Users -> FileType]
      /\ lock \in [Users -> Tabs \cup {None, "cleaner"}] /\ tab \in [Tabs -> Steps]
      /\ blocked \in Tabs \cup {None} /\ competition \in Tabs \cup {None, "thread"}
  BY Names, Types DEF WorkspaceInv
<1>2. UNCHANGED <<draft, notebook, ready, bookRow, cleaner, trash>>
  BY DEF OpenMissing, SaveRead, PutBook, PutBookCommit, OpenBookBegin, OpenBookAsk, OpenBookPut,
         Unblock, Resolve
<1>3. ASSUME file' \in [Users -> FileType], lock' \in [Users -> Tabs \cup {None, "cleaner"}],
             competition' \in Tabs \cup {None, "thread"}, blocked' \in Tabs \cup {None},
             tab' \in [Tabs -> Steps], \A s \in Tabs \ {t} : tab'[s] = tab[s],
             \A v \in Users \ {u} : lock'[v] = lock[v],
             lock'[u] = lock[u] \/ lock[u] = t,
             tab'[t] \in Serial => tab[t] \in Serial /\ lock'[u] = lock[u],
             tab'[t] = "removing" => tab[t] = "removing",
             tab'[t] \in Editing => tab[t] \in Editing
      PROVE  WorkspaceInv'
  <2>1. TypeOK'
    BY <1>1, <1>2, <1>3 DEF TypeOK, DraftType, FileType
  <2>2. TabHolds(t)' /\ BookHolds(u)'
    BY <1>1, <1>2, <1>3 DEF TabHolds, BookHolds, Expired
  <2> QED
    BY <1>1, <1>2, <1>3, <2>1, <2>2, TabMove
<1>4. CASE OpenMissing(t)
  <2>1. /\ UNCHANGED <<file, lock>> /\ JoinedCompetition(t, "openPut", "openJoin")
        /\ tab[t] = "openAsk"
    BY <1>4 DEF OpenMissing
  <2>2. /\ tab' \in [Tabs -> Steps] /\ competition' \in Tabs \cup {None, "thread"}
        /\ blocked' \in Tabs \cup {None}
        /\ tab'[t] \in {"openPut", "openJoin"} /\ \A s \in Tabs \ {t} : tab'[s] = tab[s]
    BY <1>1, <2>1, Joined DEF Steps
  <2> QED
    BY <1>1, <1>3, <2>1, <2>2 DEF Serial, Editing
<1>5. CASE SaveRead(t)
  <2>1. /\ UNCHANGED <<file, lock, competition, blocked>> /\ tab[t] = "saveRead"
        /\ tab' = [tab EXCEPT ![t] = "saveWrite"]
    BY <1>5 DEF SaveRead
  <2>2. /\ tab' \in [Tabs -> Steps] /\ tab'[t] = "saveWrite" /\ \A s \in Tabs \ {t} : tab'[s] = tab[s]
    BY <1>1, <2>1 DEF Steps
  <2> QED
    BY <1>1, <1>3, <2>1, <2>2 DEF Serial, Editing
<1>6. CASE PutBook(t)
  <2>1. /\ UNCHANGED <<competition, blocked>> /\ tab[t] = "putBook"
        /\ file' = [file EXCEPT ![u].book = "saved"] /\ lock' = [lock EXCEPT ![u] = None]
        /\ tab' = [tab EXCEPT ![t] = "snapshot"]
    BY <1>6 DEF PutBook
  <2>2. /\ tab' \in [Tabs -> Steps] /\ tab'[t] = "snapshot" /\ \A s \in Tabs \ {t} : tab'[s] = tab[s]
        /\ lock' \in [Users -> Tabs \cup {None, "cleaner"}]
        /\ \A v \in Users \ {u} : lock'[v] = lock[v]
    BY <1>1, <2>1 DEF Steps
  <2>3. lock[u] = t
    BY <1>1, <2>1 DEF TabHolds, Serial
  <2>4. file' \in [Users -> FileType]
    BY <1>1, <2>1, FileWritten
  <2> QED
    BY <1>1, <1>3, <2>1, <2>2, <2>3, <2>4 DEF Serial, Editing
<1>7. CASE PutBookCommit(t) \/ OpenBookBegin(t) \/ OpenBookAsk(t) \/ OpenBookPut(t) \/ Resolve(t)
  <2>1. /\ UNCHANGED <<lock, competition>> /\ blocked' \in {blocked, t}
        /\ \E step \in {"idle", "commit", "bookAsk", "bookPut", "resolve"} : tab' = [tab EXCEPT ![t] = step]
    BY <1>7 DEF PutBookCommit, OpenBookBegin, OpenBookAsk, OpenBookPut, Resolve
  <2>2. /\ tab' \in [Tabs -> Steps] /\ \A s \in Tabs \ {t} : tab'[s] = tab[s]
        /\ tab'[t] \in {"idle", "commit", "bookAsk", "bookPut", "resolve"}
    BY <1>1, <2>1 DEF Steps
  <2>3. file' = file \/ file' = [file EXCEPT ![u].book = "import"]
    BY <1>7 DEF PutBookCommit, OpenBookBegin, OpenBookAsk, OpenBookPut, Resolve
  <2>4. file' \in [Users -> FileType]
    <3>1. ASSUME NEW w \in {"import"} PROVE [file EXCEPT ![u].book = w] \in [Users -> FileType]
      BY <1>1, FileWritten
    <3> QED
      BY <1>1, <2>3, <3>1
  <2> QED
    BY <1>1, <1>3, <2>1, <2>2, <2>4 DEF Serial, Editing
<1>8. CASE Unblock(t)
  <2>1. /\ UNCHANGED <<file, lock>> /\ blocked' = None /\ competition' \in {competition, t}
        /\ \/ tab[t] = "openJoin" /\ tab' = [tab EXCEPT ![t] = "openPut"]
           \/ tab[t] = "saveJoin" /\ tab' = [tab EXCEPT ![t] = "saveRead"]
           \/ tab' = [tab EXCEPT ![t] = "idle"]
    BY <1>8 DEF Unblock
  <2>2. /\ tab' \in [Tabs -> Steps] /\ \A s \in Tabs \ {t} : tab'[s] = tab[s]
        /\ \/ tab[t] = "openJoin" /\ tab'[t] = "openPut"
           \/ tab[t] = "saveJoin" /\ tab'[t] = "saveRead"
           \/ tab'[t] = "idle"
    BY <1>1, <2>1 DEF Steps
  <2> QED
    BY <1>1, <1>3, <2>1, <2>2 DEF Serial, Editing
<1> QED
  BY <1>4, <1>5, <1>6, <1>7, <1>8

\* Nothing that the invariant is about changes.
LEMMA Unmoved ==
  ASSUME WorkspaceInv, TypeOK', UNCHANGED <<draft, notebook, lock, tab>>, cleaner'.at = cleaner.at
  PROVE  WorkspaceInv'
BY DEF WorkspaceInv, TabHolds, CleanerHolds, BookHolds, Expired

\* Drafts are made and renewed, notebooks deleted, and their files removed.
LEMMA UserMoves ==
  ASSUME WorkspaceInv, NEW u \in Users,
         \/ SwitchServer(u) \/ CreateDraft(u) \/ Heartbeat(u)
         \/ DeleteNotebook(u) \/ RemoveNotebookFile(u)
  PROVE  WorkspaceInv'
<1>1. /\ TypeOK /\ BookHolds(u)
      /\ draft \in [Users -> DraftType] /\ draft[u] \in DraftType /\ file \in [Users -> FileType]
      /\ notebook \in [Users -> {"none", "live", "deleted"}] /\ ready \in [Users -> BOOLEAN]
      /\ trash \subseteq Users
  BY Types DEF WorkspaceInv
<1>2. UNCHANGED <<lock, competition, bookRow, blocked, tab, cleaner>>
  BY DEF SwitchServer, CreateDraft, Heartbeat, DeleteNotebook, RemoveNotebookFile
<1>3. ASSUME draft' \in [Users -> DraftType], notebook' \in [Users -> {"none", "live", "deleted"}],
             file' \in [Users -> FileType], ready' \in [Users -> BOOLEAN], trash' \subseteq Users
      PROVE  TypeOK'
  BY <1>1, <1>2, <1>3 DEF TypeOK, DraftType, FileType
<1>4. CASE SwitchServer(u)
  <2>1. UNCHANGED <<draft, notebook, file, trash>> /\ ready' \in [Users -> BOOLEAN]
    BY <1>1, <1>4 DEF SwitchServer
  <2>2. TypeOK'
    BY <1>1, <1>3, <2>1
  <2> QED
    BY <1>2, <2>1, <2>2, Unmoved
<1>5. CASE CreateDraft(u)
  <2> DEFINE d == [state |-> "live", lease |-> Lease, saved |-> FALSE]
  <2>1. /\ draft[u].state = "none" /\ draft' = [draft EXCEPT ![u] = d]
        /\ UNCHANGED <<notebook, file, ready, trash>>
    BY <1>5 DEF CreateDraft
  <2>2. d \in DraftType /\ d.state = "live"
    BY Names DEF DraftType
  <2> HIDE DEF d
  <2>3. /\ draft' \in [Users -> DraftType] /\ draft'[u] = d
        /\ \A v \in Users \ {u} : draft'[v] = draft[v]
    BY <1>1, <2>1, <2>2
  <2>4. BookHolds(u)'
    BY <1>1, <2>1, <2>2, <2>3 DEF BookHolds
  <2> QED
    BY <1>1, <1>2, <1>3, <2>1, <2>2, <2>3, <2>4, UserMove
<1>6. CASE Heartbeat(u)
  <2> DEFINE d == [draft[u] EXCEPT !.lease = Lease]
  <2>1. /\ lock[u] = None /\ draft[u].state = "live" /\ draft[u].lease > 0
        /\ draft' = [draft EXCEPT ![u] = d]
        /\ UNCHANGED <<notebook, file, ready, trash>>
    BY <1>6 DEF Heartbeat, Serialized, Owned, Renewed
  <2>2. d \in DraftType /\ d.state = draft[u].state /\ d.saved = draft[u].saved
    BY <1>1, LeaseWritten, Names
  <2> HIDE DEF d
  <2>3. /\ draft' \in [Users -> DraftType] /\ draft'[u] = d
        /\ \A v \in Users \ {u} : draft'[v] = draft[v]
    BY <1>1, <2>1, <2>2
  <2>4. BookHolds(u)'
    BY <1>1, <2>1, <2>2, <2>3 DEF BookHolds
  <2> QED
    BY <1>1, <1>2, <1>3, <2>1, <2>2, <2>3, <2>4, UserMove
<1>7. CASE DeleteNotebook(u)
  <2> DEFINE d == [draft[u] EXCEPT !.lease = 0, !.saved = FALSE]
  <2>1. /\ lock[u] = None /\ notebook[u] = "live" /\ notebook' = [notebook EXCEPT ![u] = "deleted"]
        /\ draft' = IF draft[u].saved THEN [draft EXCEPT ![u].lease = 0, ![u].saved = FALSE]
                    ELSE draft
        /\ trash' = trash \cup {u} /\ UNCHANGED <<file, ready>>
    BY <1>7 DEF DeleteNotebook, Serialized
  <2>2. d \in DraftType /\ d.state = draft[u].state /\ d.lease = 0
    <3>1. d = [[draft[u] EXCEPT !.lease = 0] EXCEPT !.saved = FALSE]
      BY <1>1 DEF DraftType
    <3>2. 0 \in 0 .. Lease
      BY Names
    <3> QED
      BY <1>1, <3>1, <3>2 DEF DraftType
  <2>3. draft' = IF draft[u].saved THEN [draft EXCEPT ![u] = d] ELSE draft
    BY <1>1, <2>1
  <2> HIDE DEF d
  <2>4. /\ draft' \in [Users -> DraftType] /\ \A v \in Users \ {u} : draft'[v] = draft[v]
        /\ draft'[u] = IF draft[u].saved THEN d ELSE draft[u]
    BY <1>1, <2>2, <2>3
  <2>5. /\ notebook' \in [Users -> {"none", "live", "deleted"}] /\ notebook'[u] = "deleted"
        /\ \A v \in Users \ {u} : notebook'[v] = notebook[v]
    BY <1>1, <2>1
  <2>6. draft[u].state \in {"none", "live", "gone"}
    BY <1>1 DEF DraftType
  <2>7. BookHolds(u)'
    BY <1>1, <2>1, <2>2, <2>4, <2>5, <2>6 DEF BookHolds
  <2> QED
    BY <1>1, <1>2, <1>3, <2>1, <2>4, <2>5, <2>7, UserMove
<1>8. CASE RemoveNotebookFile(u)
  <2>1. /\ UNCHANGED <<draft, notebook, ready>> /\ file' = [file EXCEPT ![u].book = "none"]
        /\ trash' \in {trash, trash \ {u}}
    BY <1>8 DEF RemoveNotebookFile
  <2>2. TypeOK'
    <3>1. ASSUME NEW w \in {"none"} PROVE [file EXCEPT ![u].book = w] \in [Users -> FileType]
      BY <1>1, FileWritten
    <3> QED
      BY <1>1, <1>3, <2>1, <3>1
  <2> QED
    BY <1>2, <2>1, <2>2, Unmoved
<1> QED
  BY <1>4, <1>5, <1>6, <1>7, <1>8

\* cleanup_drafts()
LEMMA CleanMoves ==
  ASSUME WorkspaceInv, NEW u \in Users, CleanLock(u) \/ CleanRemove(u) \/ CleanFails(u)
  PROVE  WorkspaceInv'
<1>1. /\ TypeOK /\ BookHolds(u) /\ CleanerHolds
      /\ draft \in [Users -> DraftType] /\ draft[u] \in DraftType /\ file \in [Users -> FileType]
      /\ lock \in [Users -> Tabs \cup {None, "cleaner"}]
      /\ cleaner \in [todo : SUBSET Users, at : Users \cup {None}]
  BY Types DEF WorkspaceInv
<1>2. UNCHANGED <<notebook, ready, competition, bookRow, blocked, tab, trash>>
  BY DEF CleanLock, CleanRemove, CleanFails, CleanDone
<1>3. ASSUME draft' \in [Users -> DraftType], file' \in [Users -> FileType],
             lock' \in [Users -> Tabs \cup {None, "cleaner"}],
             cleaner' \in [todo : SUBSET Users, at : Users \cup {None}]
      PROVE  TypeOK'
  BY <1>1, <1>2, <1>3 DEF TypeOK, DraftType, FileType
<1>4. CASE CleanLock(u)
  <2>1. /\ lock[u] = None /\ cleaner.at = None /\ UNCHANGED <<draft, file>>
        /\ \/ /\ Expired(u) /\ lock' = [lock EXCEPT ![u] = "cleaner"]
              /\ cleaner' = [cleaner EXCEPT !.at = u]
           \/ /\ lock' = lock
              /\ cleaner' = [cleaner EXCEPT
                     !.todo = IF draft[u].state = "gone" THEN {} ELSE @ \ {u}]
    BY <1>4 DEF CleanLock, Serialized
  <2>2. /\ lock' \in [Users -> Tabs \cup {None, "cleaner"}]
        /\ \A v \in Users \ {u} : lock'[v] = lock[v]
        /\ cleaner' \in [todo : SUBSET Users, at : Users \cup {None}]
        /\ \/ cleaner'.at = u /\ lock'[u] = "cleaner" /\ Expired(u)
           \/ cleaner'.at = None
    BY <1>1, <2>1
  <2>3. BookHolds(u)' /\ (Expired(u) => Expired(u)')
    BY <1>1, <1>2, <2>1 DEF BookHolds, Expired
  <2>4. TypeOK'
    BY <1>1, <1>3, <2>1, <2>2
  <2>5. u # None
    BY Names
  <2> QED
    BY <1>2, <2>1, <2>2, <2>3, <2>4, <2>5, CleanMove
<1>5. CASE CleanRemove(u) \/ CleanFails(u)
  <2> DEFINE d == [draft[u] EXCEPT !.state = "gone", !.saved = FALSE]
  <2>1. /\ cleaner.at = u /\ lock' = [lock EXCEPT ![u] = None]
        /\ cleaner' = [todo |-> cleaner.todo \ {u}, at |-> None]
        /\ file' = file \/ file' = [file EXCEPT ![u].draft = FALSE]
        /\ draft' = draft \/ draft' = [draft EXCEPT ![u].state = "gone", ![u].saved = FALSE]
    BY <1>5 DEF CleanRemove, CleanFails, CleanDone
  <2>2. d \in DraftType /\ d.state = "gone"
    BY <1>1, GoneWritten
  <2>3. draft' = draft \/ draft' = [draft EXCEPT ![u] = d]
    BY <1>1, <2>1
  <2> HIDE DEF d
  <2>4. /\ draft' \in [Users -> DraftType] /\ \A v \in Users \ {u} : draft'[v] = draft[v]
        /\ draft'[u] \in {draft[u], d}
    BY <1>1, <2>2, <2>3
  <2>5. file' \in [Users -> FileType]
    <3>1. ASSUME NEW b \in {FALSE} PROVE [file EXCEPT ![u].draft = b] \in [Users -> FileType]
      BY <1>1, FileWritten
    <3> QED
      BY <1>1, <2>1, <3>1
  <2>6. /\ lock' \in [Users -> Tabs \cup {None, "cleaner"}]
        /\ \A v \in Users \ {u} : lock'[v] = lock[v]
        /\ cleaner' \in [todo : SUBSET Users, at : Users \cup {None}] /\ cleaner'.at = None
    BY <1>1, <2>1
  <2>7. lock[u] = "cleaner" /\ u # None
    BY <1>1, <2>1, Names DEF CleanerHolds
  <2>8. BookHolds(u)'
    BY <1>1, <1>2, <2>2, <2>4 DEF BookHolds
  <2>9. TypeOK'
    BY <1>3, <2>4, <2>5, <2>6
  <2> QED
    BY <1>2, <2>1, <2>4, <2>6, <2>7, <2>8, <2>9, CleanMove
<1> QED
  BY <1>4, <1>5

\* Time passes, the competition row is taken, and the cleanup looks for expired drafts.
LEMMA TimeMoves ==
  ASSUME WorkspaceInv, Tick \/ ThreadLocks \/ ThreadEnds \/ CleanSelect
  PROVE  WorkspaceInv'
<1>1. /\ TypeOK /\ CleanerHolds /\ \A t \in Tabs : TabHolds(t) /\ TabUser[t] \in Users
      /\ \A u \in Users : BookHolds(u)
      /\ draft \in [Users -> DraftType] /\ cleaner \in [todo : SUBSET Users, at : Users \cup {None}]
  BY Types, Names DEF WorkspaceInv
<1>2. CASE Tick
  <2>1. /\ draft' = [u \in Users |-> [draft[u] EXCEPT
              !.lease = IF draft[u].lease > 0 THEN draft[u].lease - 1 ELSE 0]]
        /\ UNCHANGED <<notebook, file, ready, lock, competition, bookRow, blocked, tab, cleaner,
                       trash>>
    BY <1>2 DEF Tick
  <2>2. ASSUME NEW u \in Users
        PROVE  /\ draft'[u] \in DraftType /\ draft'[u].state = draft[u].state
               /\ draft'[u].saved = draft[u].saved
               /\ draft[u].lease = 0 => draft'[u].lease = 0
    <3> DEFINE n == IF draft[u].lease > 0 THEN draft[u].lease - 1 ELSE 0
    <3>1. draft[u] \in DraftType /\ draft[u].lease \in 0 .. Lease
      BY <1>1 DEF DraftType
    <3>2. n \in 0 .. Lease /\ (draft[u].lease = 0 => n = 0)
      BY <3>1, Names
    <3>3. draft'[u] = [draft[u] EXCEPT !.lease = n]
      BY <2>1
    <3> HIDE DEF n
    <3>4. /\ draft'[u] \in DraftType /\ draft'[u].lease = n
          /\ draft'[u].state = draft[u].state /\ draft'[u].saved = draft[u].saved
      BY <3>1, <3>2, <3>3, LeaseWritten
    <3> QED
      BY <3>2, <3>4
  <2>3. draft' \in [Users -> DraftType]
    BY <2>1, <2>2
  <2>4. TypeOK'
    BY <1>1, <2>1, <2>3 DEF TypeOK, DraftType
  <2>5. \A u \in Users : BookHolds(u)' /\ (Expired(u) => Expired(u)')
    BY <1>1, <2>1, <2>2 DEF BookHolds, Expired
  <2>6. \A t \in Tabs : TabHolds(t)'
    BY <1>1, <2>1, <2>2, <2>5 DEF TabHolds
  <2>7. CleanerHolds'
    BY <1>1, <2>1, <2>5 DEF CleanerHolds
  <2> QED
    BY <2>4, <2>5, <2>6, <2>7 DEF WorkspaceInv
<1>3. CASE ThreadLocks \/ ThreadEnds \/ CleanSelect
  <2>1. /\ competition' \in {competition, None, "thread"}
        /\ cleaner' \in [todo : SUBSET Users, at : Users \cup {None}] /\ cleaner'.at = cleaner.at
        /\ UNCHANGED <<draft, notebook, file, ready, lock, bookRow, blocked, tab, trash>>
    BY <1>1, <1>3 DEF ThreadLocks, ThreadEnds, CleanSelect
  <2>2. TypeOK'
    BY <1>1, <2>1 DEF TypeOK
  <2> QED
    BY <2>1, <2>2, Unmoved
<1> QED
  BY <1>2, <1>3

LEMMA WorkspaceInit == Init => WorkspaceInv
<1> SUFFICES ASSUME Init
             PROVE  WorkspaceInv
  OBVIOUS
<1>1. \A u \in Users :
         /\ draft[u] = [state |-> IF notebook[u] = "live" THEN "gone" ELSE "none", lease |-> 0,
                        saved |-> FALSE]
         /\ notebook[u] \in {"none", "live"}
  BY DEF Init
<1>2. TypeOK
  <2>1. /\ notebook \in [Users -> {"none", "live", "deleted"}]
        /\ file \in [Users -> [draft : BOOLEAN, book : {"none", "import", "saved"}]]
        /\ ready \in [Users -> BOOLEAN] /\ trash \subseteq Users
    BY DEF Init
  <2>2. /\ lock \in [Users -> Tabs \cup {None, "cleaner"}]
        /\ competition \in Tabs \cup {None, "thread"}
        /\ bookRow \in [Users -> Tabs \cup {None}] /\ blocked \in Tabs \cup {None}
        /\ tab \in [Tabs -> Steps] /\ cleaner \in [todo : SUBSET Users, at : Users \cup {None}]
    BY DEF Init, Steps
  <2>3. draft \in [Users -> [state : {"none", "live", "gone"}, lease : 0 .. Lease,
                             saved : BOOLEAN]]
    <3>1. 0 \in 0 .. Lease
      BY Names
    <3> QED
      BY <3>1 DEF Init
  <2> QED
    BY <2>1, <2>2, <2>3 DEF TypeOK
<1>3. \A t \in Tabs : TabHolds(t)
  BY DEF Init, TabHolds, Serial, Editing
<1>4. CleanerHolds
  BY DEF Init, CleanerHolds
<1>5. ASSUME NEW u \in Users PROVE BookHolds(u)
  <2>1. CASE notebook[u] = "live"
    <3>1. draft[u] = [state |-> "gone", lease |-> 0, saved |-> FALSE]
      BY <1>1, <2>1
    <3> QED
      BY <2>1, <3>1 DEF BookHolds
  <2>2. CASE notebook[u] # "live"
    <3>1. notebook[u] = "none"
      BY <1>1, <2>2
    <3>2. draft[u] = [state |-> "none", lease |-> 0, saved |-> FALSE]
      BY <1>1, <2>2
    <3> QED
      BY <3>1, <3>2 DEF BookHolds
  <2> QED
    BY <2>1, <2>2
<1> QED
  BY <1>2, <1>3, <1>4, <1>5 DEF WorkspaceInv

LEMMA WorkspaceStep == WorkspaceInv /\ [Next]_vars => WorkspaceInv'
<1> SUFFICES ASSUME WorkspaceInv, [Next]_vars
             PROVE  WorkspaceInv'
  OBVIOUS
<1>1. CASE Next
  BY <1>1, EndMoves, LockMoves, StepMoves, UserMoves, CleanMoves, TimeMoves
     DEF Next, Asks, TabStep
<1>2. CASE UNCHANGED vars
  <2>1. UNCHANGED <<draft, notebook, file, ready, lock, competition, bookRow, blocked, tab, cleaner,
                    trash>>
    BY <1>2 DEF vars
  <2>2. TypeOK'
    BY <2>1 DEF TypeOK, WorkspaceInv
  <2> QED
    BY <2>1, <2>2, Unmoved
<1> QED
  BY <1>1, <1>2

\* No step but one of a request or cleanup that found the lease ended removes a draft.
LEMMA LeaseStep ==
  ASSUME WorkspaceInv, [Next]_vars
  PROVE  [\A u \in Users :
             draft[u].lease > 0 =>
                 /\ draft[u].state = "live" => draft'[u].state = "live"
                 /\ file[u].draft => file'[u].draft]_vars
<1> DEFINE Kept(u) ==
             draft[u].lease > 0 =>
                 /\ draft[u].state = "live" => draft'[u].state = "live"
                 /\ file[u].draft => file'[u].draft
<1> SUFFICES ASSUME Next, NEW u \in Users
             PROVE  Kept(u)
  OBVIOUS
<1>1. /\ draft \in [Users -> DraftType] /\ file \in [Users -> FileType] /\ CleanerHolds
      /\ \A t \in Tabs : TabHolds(t) /\ TabUser[t] \in Users
  BY Types, Names DEF WorkspaceInv
<1>2. CASE Tick
  BY <1>1, <1>2 DEF Tick, DraftType
<1>3. CASE ThreadLocks \/ ThreadEnds \/ CleanSelect
  BY <1>3 DEF ThreadLocks, ThreadEnds, CleanSelect
<1>4. ASSUME NEW v \in Users,
             \/ SwitchServer(v) \/ CreateDraft(v) \/ Heartbeat(v)
             \/ DeleteNotebook(v) \/ RemoveNotebookFile(v) \/ CleanLock(v)
      PROVE  Kept(u)
  <2>1. CASE SwitchServer(v) \/ CleanLock(v)
    BY <2>1 DEF SwitchServer, CleanLock
  <2>2. CASE CreateDraft(v) \/ Heartbeat(v)
    BY <1>1, <2>2 DEF CreateDraft, Heartbeat, Renewed, DraftType
  <2>3. CASE DeleteNotebook(v)
    BY <1>1, <2>3 DEF DeleteNotebook, DraftType
  <2>4. CASE RemoveNotebookFile(v)
    BY <1>1, <2>4 DEF RemoveNotebookFile, FileType
  <2> QED
    BY <1>4, <2>1, <2>2, <2>3, <2>4
<1>5. ASSUME NEW v \in Users, CleanRemove(v) \/ CleanFails(v) PROVE Kept(u)
  <2>1. draft[v].lease = 0
    BY <1>1, <1>5, Names DEF CleanRemove, CleanFails, CleanDone, CleanerHolds, Expired
  <2>2. CASE v = u
    BY <2>1, <2>2
  <2>3. CASE v # u
    BY <1>1, <1>5, <2>3 DEF CleanRemove, CleanFails
  <2> QED
    BY <2>2, <2>3
<1>6. ASSUME NEW t \in Tabs, DiscardRemoves(t) \/ (Fails(t) /\ tab[t] = "removing")
      PROVE  Kept(u)
  <2>1. draft[TabUser[t]].lease = 0
    BY <1>1, <1>6 DEF DiscardRemoves, TabHolds, Expired
  <2>2. CASE TabUser[t] = u
    BY <2>1, <2>2
  <2>3. CASE TabUser[t] # u
    BY <1>1, <1>6, <2>3 DEF DiscardRemoves, Fails
  <2> QED
    BY <2>2, <2>3
<1>7. ASSUME NEW t \in Tabs, Fails(t), tab[t] # "removing" PROVE Kept(u)
  <2>1. /\ draft' = draft /\ TabUser[t] \in Users
        /\ \/ file' = file
           \/ file' = [file EXCEPT ![TabUser[t]].draft = TRUE]
           \/ \E w \in {"saved", "import"} : file' = [file EXCEPT ![TabUser[t]].book = w]
    BY <1>1, <1>7 DEF Fails
  <2>2. file'[u].draft = file[u].draft \/ file'[u].draft = TRUE
    BY <1>1, <2>1 DEF FileType
  <2> QED
    BY <2>1, <2>2
<1>8. ASSUME NEW t \in Tabs,
             OpenFound(t) \/ OpenPut(t) \/ SaveWrite(t) \/ PutDraft(t) \/ DiscardBegin(t)
      PROVE  Kept(u)
  <2>1. CASE OpenFound(t) \/ OpenPut(t)
    <3>1. /\ draft' = [draft EXCEPT ![TabUser[t]].lease = Lease] /\ TabUser[t] \in Users
          /\ file' = file \/ file' = [file EXCEPT ![TabUser[t]].draft = TRUE]
      BY <1>1, <2>1 DEF OpenFound, OpenPut, Renewed
    <3>2. draft'[u].state = draft[u].state
      BY <1>1, <3>1 DEF DraftType
    <3>3. file'[u].draft = file[u].draft \/ file'[u].draft = TRUE
      BY <1>1, <3>1 DEF FileType
    <3> QED
      BY <3>2, <3>3
  <2>2. CASE SaveWrite(t)
    BY <1>1, <2>2 DEF SaveWrite, DraftType, FileType
  <2>3. CASE PutDraft(t)
    BY <1>1, <2>3 DEF PutDraft, FileType
  <2>4. CASE DiscardBegin(t)
    BY <1>1, <2>4 DEF DiscardBegin, DraftType
  <2> QED
    BY <1>8, <2>1, <2>2, <2>3, <2>4
<1>9. ASSUME NEW t \in Tabs,
             \/ OpenBegin(t) \/ SaveBegin(t) \/ PutDraftBegin(t) \/ PutBookBegin(t)
             \/ OpenMissing(t) \/ SaveRead(t) \/ PutBook(t) \/ PutBookCommit(t)
             \/ OpenBookBegin(t) \/ OpenBookAsk(t) \/ OpenBookPut(t) \/ Unblock(t) \/ Resolve(t)
      PROVE  Kept(u)
  <2>1. /\ draft' = draft
        /\ \/ file' = file
           \/ \E w : file' = [file EXCEPT ![TabUser[t]].book = w]
    BY <1>9 DEF OpenBegin, SaveBegin, PutDraftBegin, PutBookBegin, OpenMissing, SaveRead, PutBook,
                PutBookCommit, OpenBookBegin, OpenBookAsk, OpenBookPut, Unblock, Resolve
  <2> QED
    BY <1>1, <2>1 DEF FileType
<1> HIDE DEF Kept
<1> QED
  BY <1>2, <1>3, <1>4, <1>5, <1>6, <1>7, <1>8, <1>9 DEF Next, Asks, TabStep

\* A Save writes a notebook that was not deleted.
LEMMA DeletedStep ==
  ASSUME WorkspaceInv, [Next]_vars
  PROVE  [\A u \in Users : notebook[u] = "deleted" => notebook'[u] = "deleted"]_vars
<1> SUFFICES ASSUME Next, NEW u \in Users, notebook[u] = "deleted"
             PROVE  notebook'[u] = "deleted"
  OBVIOUS
<1>1. /\ notebook \in [Users -> {"none", "live", "deleted"}]
      /\ \A t \in Tabs : TabHolds(t) /\ TabUser[t] \in Users
  BY Types, Names DEF WorkspaceInv
<1>2. CASE \E t \in Tabs : SaveWrite(t)
  BY <1>1, <1>2 DEF SaveWrite, TabHolds, Editing
<1>3. CASE \E v \in Users : DeleteNotebook(v)
  BY <1>1, <1>3 DEF DeleteNotebook
<1>4. CASE \/ Tick \/ ThreadLocks \/ ThreadEnds \/ CleanSelect
           \/ \E v \in Users :
                 \/ SwitchServer(v) \/ CreateDraft(v) \/ Heartbeat(v) \/ RemoveNotebookFile(v)
                 \/ CleanLock(v) \/ CleanRemove(v) \/ CleanFails(v)
  BY <1>4 DEF Tick, ThreadLocks, ThreadEnds, CleanSelect, SwitchServer, CreateDraft, Heartbeat,
              RemoveNotebookFile, CleanLock, CleanRemove, CleanFails, CleanDone
<1>5. CASE \E t \in Tabs :
              \/ OpenFound(t) \/ OpenMissing(t) \/ OpenPut(t) \/ SaveRead(t)
              \/ DiscardRemoves(t) \/ PutDraft(t) \/ PutBook(t) \/ PutBookCommit(t)
              \/ OpenBookAsk(t) \/ OpenBookPut(t) \/ Fails(t) \/ Unblock(t)
  BY <1>5 DEF OpenFound, OpenMissing, OpenPut, SaveRead, DiscardRemoves, PutDraft, PutBook,
              PutBookCommit, OpenBookAsk, OpenBookPut, Fails, Unblock
<1>6. CASE \E t \in Tabs : Asks(t)
  BY <1>6 DEF Asks, OpenBegin, SaveBegin, DiscardBegin, PutDraftBegin, PutBookBegin, OpenBookBegin,
              Resolve
<1> QED
  BY <1>2, <1>3, <1>4, <1>5, <1>6 DEF Next, TabStep

\* Whatever requests, cleanups and deletions overlap, a draft and its file stay while the
\* lease runs, and no editor brings a deleted notebook back (notebook_drafts.py,
\* remove_work()).
THEOREM DraftsAreKept == Spec => DraftsKept
<1>1. Spec => []WorkspaceInv
  BY WorkspaceInit, WorkspaceStep, PTL DEF Spec
<1>2. WorkspaceInv => TypeOK
  BY DEF WorkspaceInv
<1>3. WorkspaceInv /\ [Next]_vars =>
         [\A u \in Users :
             draft[u].lease > 0 =>
                 /\ draft[u].state = "live" => draft'[u].state = "live"
                 /\ file[u].draft => file'[u].draft]_vars
  BY LeaseStep
<1>4. WorkspaceInv /\ [Next]_vars =>
         [\A u \in Users : notebook[u] = "deleted" => notebook'[u] = "deleted"]_vars
  BY DeletedStep
<1> QED
  BY <1>1, <1>2, <1>3, <1>4, PTL DEF Spec, DraftsKept, LeaseKeepsDraft, SaveCannotRecreate
=============================================================================
