------------------------- MODULE CompetitionsProofs -------------------------
(***************************************************************************)
(* Proofs about a hosted competition, for any number of users, teams,      *)
(* timelines, submissions and commits: the types, that entries, teams and  *)
(* submissions refer to each other, the daily and the final limits, that   *)
(* a commit is scored once, and that stored results are current.           *)
(***************************************************************************)
EXTENDS Competitions, SequenceTheorems, FiniteSetTheorems, TLAPS

(* Whoever works or uploads works on something. *)
Working ==
    /\ worker.pc # "idle" => worker.job # 0
    /\ ~Unlocked => upload.user \in Users

TypeInv == TypeOK /\ Working

LEMMA InitType == Init => TypeInv
<1> SUFFICES ASSUME Init PROVE TypeInv
  OBVIOUS
<1> USE CompetitionAssumption
<1>1. worker \in [pc : {"idle", "running", "completed", "failing"},
                  job : 0 .. Len(commits), seen : CommitStatus]
  BY DEF Init, NoWork, CommitStatus, Active
<1>2. upload \in Upload /\ Unlocked
  BY DEF Init, NoUpload, Upload, Unlocked
<1>3. clock \in Nat /\ finalized \in Nat /\ dq \subseteq Entries
  BY DEF Init
<1>4. /\ members \in [Teams -> Seq(Users)] /\ owner \in [Teams -> Users \cup {Null}]
      /\ subs \in Seq(Submission) /\ commits \in Seq(Commit)
      /\ entry \in [Users -> {"none", "outdated", "current"}]
  BY DEF Init
<1>5. /\ times \in [starts : Nat, entry : Nat, merger : Nat, ends : Nat]
      /\ limits \in [daily : Nat \ {0}, final : Nat \ {0}]
  BY DEF Init
<1> QED
  BY <1>1, <1>2, <1>3, <1>4, <1>5 DEF TypeInv, TypeOK, Working, Init, NoWork

(* Removing one position of a sequence leaves what stood elsewhere. *)
LEMMA RemoveAtProperties ==
  ASSUME NEW S, NEW s \in Seq(S), NEW i \in DOMAIN s
  PROVE  /\ RemoveAt(s, i) \in Seq(S)
         /\ Len(RemoveAt(s, i)) = Len(s) - 1
         /\ \A j \in 1 .. Len(s) - 1 : RemoveAt(s, i)[j] = IF j < i THEN s[j] ELSE s[j + 1]
<1>0. Len(s) \in Nat /\ i \in 1 .. Len(s) /\ \A j \in 1 .. Len(s) : s[j] \in S
  BY LenProperties
<1> DEFINE front == SubSeq(s, 1, i - 1)
           back == SubSeq(s, i + 1, Len(s))
<1>1. /\ front \in Seq(S) /\ Len(front) = i - 1
      /\ \A j \in 1 .. i - 1 : front[j] = s[j]
  <2>1. \A j \in 1 .. i - 1 : s[j] \in S
    BY <1>0
  <2> QED
    BY <1>0, <2>1, SubSeqProperties
<1>2. /\ back \in Seq(S) /\ Len(back) = Len(s) - i
      /\ \A j \in 1 .. Len(s) - i : back[j] = s[i + j]
  <2>1. \A j \in i + 1 .. Len(s) : s[j] \in S
    BY <1>0
  <2> QED
    BY <1>0, <2>1, SubSeqProperties
<1> HIDE DEF front, back
<1>3. /\ front \o back \in Seq(S) /\ Len(front \o back) = Len(s) - 1
      /\ \A j \in 1 .. Len(s) - 1 :
             (front \o back)[j] = IF j <= i - 1 THEN front[j] ELSE back[j - (i - 1)]
  <2>1. Len(front) + Len(back) = Len(s) - 1 /\ Len(front) \in Nat
    BY <1>0, <1>1, <1>2
  <2>2. /\ front \o back \in Seq(S) /\ Len(front \o back) = Len(front) + Len(back)
        /\ \A j \in 1 .. Len(front) + Len(back) :
               (front \o back)[j] = IF j <= Len(front) THEN front[j] ELSE back[j - Len(front)]
    <3>1. front \in Seq(S) /\ back \in Seq(S)
      BY <1>1, <1>2
    <3> QED
      BY <3>1, ConcatProperties
  <2> QED
    BY <1>1, <2>1, <2>2
<1>4. RemoveAt(s, i) = front \o back
  BY DEF RemoveAt, front, back
<1>5. ASSUME NEW j \in 1 .. Len(s) - 1
      PROVE  RemoveAt(s, i)[j] = IF j < i THEN s[j] ELSE s[j + 1]
  <2>1. CASE j < i
    BY <1>0, <1>1, <1>3, <1>4, <2>1
  <2>2. CASE ~(j < i)
    <3>1. j - (i - 1) \in 1 .. Len(s) - i /\ i + (j - (i - 1)) = j + 1
      BY <1>0, <2>2
    <3>2. RemoveAt(s, i)[j] = back[j - (i - 1)]
      <4>1. ~(j <= i - 1)
        BY <1>0, <2>2
      <4>2. (front \o back)[j] = back[j - (i - 1)]
        BY <1>3, <4>1
      <4> QED
        BY <1>4, <4>2
    <3>3. back[j - (i - 1)] = s[i + (j - (i - 1))]
      BY <1>2, <3>1
    <3> QED
      BY <2>2, <3>1, <3>2, <3>3
  <2> QED
    BY <2>1, <2>2
<1> QED
  BY <1>3, <1>4, <1>5

(* A commit keeps its owner whatever becomes of it. *)
LEMMA StatusType ==
  ASSUME TypeOK, NEW c \in DOMAIN commits, NEW status \in CommitStatus,
         commits' = [commits EXCEPT ![c].status = status]
  PROVE  /\ commits' \in Seq(Commit) /\ Len(commits') = Len(commits)
         /\ DOMAIN commits' = DOMAIN commits
         /\ \A k \in DOMAIN commits :
                /\ commits'[k].user = commits[k].user
                /\ commits'[k].status = IF k = c THEN status ELSE commits[k].status
<1>1. commits \in Seq(Commit) /\ DOMAIN commits = 1 .. Len(commits)
  BY DEF TypeOK
<1>2. \A k \in DOMAIN commits : commits[k] \in Commit
  BY <1>1
<1>3. [commits[c] EXCEPT !.status = status] \in Commit
  BY <1>2 DEF Commit
<1>4. commits' \in Seq(Commit) /\ Len(commits') = Len(commits)
  BY <1>1, <1>3, ExceptSeq
<1>5. DOMAIN commits' = DOMAIN commits
  BY <1>1, <1>4
<1> QED
  BY <1>1, <1>2, <1>4, <1>5 DEF Commit

(* The team of a member is one of the teams. *)
LEMMA TeamType ==
  ASSUME NEW u
  PROVE  /\ TeamOf(u) \in Teams \cup {Null}
         /\ TeamOf(u) # Null => TeamOf(u) \in Teams /\ u \in Members(TeamOf(u))
BY CompetitionAssumption DEF TeamOf, TeamsOf

(* A new submission is the last one, and is attributed to the team of its user. *)
LEMMA NewType ==
  ASSUME TypeOK, NEW u \in Users, NEW commit \in Nat, NewSubmission(u, commit)
  PROVE  /\ subs' \in Seq(Submission) /\ Len(subs') = Len(subs) + 1
         /\ DOMAIN subs' = DOMAIN subs \cup {Len(subs) + 1}
         /\ \A i \in DOMAIN subs : subs'[i] = subs[i]
         /\ LET new == subs'[Len(subs) + 1]
            IN  new.user = u /\ new.team = TeamOf(u) /\ new.day = clock /\ new.final = FALSE
                /\ new.commit = commit
<1> PICK score \in Scores :
        subs' = Append(subs, [user |-> u, team |-> TeamOf(u), day |-> clock, score |-> score,
                              final |-> FALSE, commit |-> commit])
  BY DEF NewSubmission
<1> DEFINE new == [user |-> u, team |-> TeamOf(u), day |-> clock, score |-> score,
                   final |-> FALSE, commit |-> commit]
<1>1. new \in Submission
  BY TeamType DEF Submission, TypeOK
<1>2. subs \in Seq(Submission) /\ DOMAIN subs = 1 .. Len(subs) /\ Len(subs) \in Nat
  BY DEF TypeOK
<1>3. /\ subs' \in Seq(Submission) /\ Len(subs') = Len(subs) + 1
      /\ \A i \in 1 .. Len(subs) : subs'[i] = subs[i]
      /\ subs'[Len(subs) + 1] = new
  BY <1>1, <1>2, AppendProperties
<1>4. DOMAIN subs' = 1 .. Len(subs) + 1
  BY <1>3
<1> QED
  BY <1>2, <1>3, <1>4

(* A restart fails what was running. *)
LEMMA RestartType ==
  ASSUME TypeOK, WorkerRestart
  PROVE  /\ commits' \in Seq(Commit) /\ Len(commits') = Len(commits)
         /\ DOMAIN commits' = DOMAIN commits
         /\ \A k \in DOMAIN commits :
                /\ commits'[k].user = commits[k].user
                /\ commits'[k].status = IF commits[k].status = "running" THEN "failed"
                                        ELSE commits[k].status
<1> DEFINE after(c) == IF commits[c].status = "running"
                       THEN [commits[c] EXCEPT !.status = "failed"] ELSE commits[c]
<1>1. commits \in Seq(Commit) /\ DOMAIN commits = 1 .. Len(commits) /\ Len(commits) \in Nat
  BY DEF TypeOK
<1>2. \A k \in DOMAIN commits : commits[k] \in Commit
  BY <1>1
<1>3. \A k \in DOMAIN commits : after(k) \in Commit
  BY <1>2 DEF Commit, CommitStatus
<1>4. commits' = [k \in 1 .. Len(commits) |-> after(k)]
  BY <1>1 DEF WorkerRestart
<1>5. commits' \in [1 .. Len(commits) -> Commit]
  BY <1>1, <1>3, <1>4
<1>6. commits' \in Seq(Commit)
  BY <1>1, <1>5, SeqDef
<1>7. Len(commits') = Len(commits) /\ DOMAIN commits' = DOMAIN commits
  BY <1>1, <1>5, <1>6, LenProperties
<1> QED
  BY <1>1, <1>2, <1>4, <1>6, <1>7 DEF Commit

(* New answers change nothing but the scores. *)
LEMMA RescoreType ==
  ASSUME TypeOK, NEW f \in Rescorings, Rescore(f)
  PROVE  /\ subs' \in Seq(Submission) /\ Len(subs') = Len(subs)
         /\ DOMAIN subs' = DOMAIN subs
         /\ \A i \in DOMAIN subs :
                /\ subs'[i].user = subs[i].user /\ subs'[i].team = subs[i].team
                /\ subs'[i].day = subs[i].day /\ subs'[i].final = subs[i].final
                /\ subs'[i].commit = subs[i].commit
<1> DEFINE after(i) == [subs[i] EXCEPT !.score = f[@]]
<1>1. subs \in Seq(Submission) /\ DOMAIN subs = 1 .. Len(subs) /\ Len(subs) \in Nat
  BY DEF TypeOK
<1>2. \A i \in DOMAIN subs : subs[i] \in Submission
  BY <1>1
<1>3. \A i \in DOMAIN subs : after(i) \in Submission
  BY <1>2, CompetitionAssumption DEF Submission
<1>4. subs' = [i \in 1 .. Len(subs) |-> after(i)]
  BY <1>1 DEF Rescore
<1>5. subs' \in [1 .. Len(subs) -> Submission]
  BY <1>1, <1>3, <1>4
<1>6. subs' \in Seq(Submission)
  BY <1>1, <1>5, SeqDef
<1>7. Len(subs') = Len(subs) /\ DOMAIN subs' = DOMAIN subs
  BY <1>1, <1>5, <1>6, LenProperties
<1> QED
  BY <1>1, <1>2, <1>4, <1>6, <1>7 DEF Submission

(* Teams keep their types. *)
LEMMA TeamsType ==
  ASSUME TypeInv, NEW u \in Users, NEW t \in Teams,
         CreateTeam(u, t) \/ JoinTeam(u, t) \/ LeaveTeam(u, t)
  PROVE  members' \in [Teams -> Seq(Users)] /\ owner' \in [Teams -> Users \cup {Null}]
<1>0. /\ members \in [Teams -> Seq(Users)] /\ owner \in [Teams -> Users \cup {Null}]
      /\ members[t] \in Seq(Users)
  BY DEF TypeInv, TypeOK
<1>1. CASE CreateTeam(u, t)
  <2>1. <<u>> \in Seq(Users)
    OBVIOUS
  <2> QED
    BY <1>0, <1>1, <2>1 DEF CreateTeam
<1>2. CASE JoinTeam(u, t)
  <2>1. Append(members[t], u) \in Seq(Users)
    BY <1>0, AppendProperties
  <2> QED
    BY <1>0, <1>2, <2>1 DEF JoinTeam
<1>3. CASE LeaveTeam(u, t)
  <2> PICK i \in DOMAIN members[t] : members' = [members EXCEPT ![t] = RemoveAt(@, i)]
    BY <1>3 DEF LeaveTeam
  <2>1. RemoveAt(members[t], i) \in Seq(Users)
    BY <1>0, RemoveAtProperties
  <2>2. members' \in [Teams -> Seq(Users)] /\ members'[t] \in Seq(Users)
    BY <1>0, <2>1
  <2>3. members'[t] # <<>> => Head(members'[t]) \in Users
    BY <2>2, HeadTailProperties
  <2> QED
    BY <1>0, <1>3, <2>2, <2>3 DEF LeaveTeam
<1> QED
  BY <1>1, <1>2, <1>3

(* Every step keeps the types. *)
LEMMA StepType ==
  ASSUME TypeInv, [Next]_vars
  PROVE  TypeInv'
<1>0. /\ TypeOK /\ Working
      /\ clock \in Nat /\ times \in [starts : Nat, entry : Nat, merger : Nat, ends : Nat]
      /\ limits \in [daily : Nat \ {0}, final : Nat \ {0}]
      /\ entry \in [Users -> {"none", "outdated", "current"}]
      /\ members \in [Teams -> Seq(Users)] /\ owner \in [Teams -> Users \cup {Null}]
      /\ subs \in Seq(Submission) /\ commits \in Seq(Commit)
      /\ worker \in [pc : {"idle", "running", "completed", "failing"},
                     job : 0 .. Len(commits), seen : CommitStatus]
      /\ upload \in Upload /\ dq \subseteq Entries /\ finalized \in Nat
      /\ DOMAIN commits = 1 .. Len(commits) /\ Len(commits) \in Nat
  BY DEF TypeInv, TypeOK
<1>1. /\ NoWork \in [pc : {"idle", "running", "completed", "failing"},
                     job : 0 .. Len(commits), seen : CommitStatus]
      /\ NoUpload \in Upload
      /\ clock + 1 \in Nat
  BY <1>0 DEF NoWork, NoUpload, Upload, CommitStatus, Active
<1>2. CASE \E u \in Users : Join(u)
  BY <1>0, <1>2 DEF Join, TypeInv, TypeOK, Working, Unlocked
<1>3. CASE \E u \in Users, t \in Teams : CreateTeam(u, t) \/ JoinTeam(u, t) \/ LeaveTeam(u, t)
  BY <1>0, <1>3, TeamsType
     DEF CreateTeam, JoinTeam, LeaveTeam, TeamUnchanged, TypeInv, TypeOK, Working, Unlocked
<1>4. CASE \E u \in Users, large \in BOOLEAN : SubmitBegin(u, large)
  BY <1>0, <1>4 DEF SubmitBegin, UploadUnchanged, Upload, TypeInv, TypeOK, Working
<1>5. CASE \E u \in Users : SubmitBlocks(u)
  <2> PICK u \in Users : SubmitBlocks(u)
    BY <1>5
  <2>1. upload' = [upload EXCEPT !.waiting = u] /\ upload.large
    BY DEF SubmitBlocks
  <2>2. upload' \in Upload /\ upload'.user = upload.user
    BY <1>0, <2>1 DEF Upload
  <2>3. ~Unlocked
    BY <2>1 DEF Unlocked, NoUpload
  <2> QED
    BY <1>0, <2>2, <2>3 DEF SubmitBlocks, UploadUnchanged, TypeInv, TypeOK, Working
<1>6. CASE SubmitReject
  BY <1>0, <1>1, <1>6 DEF SubmitReject, UploadUnchanged, TypeInv, TypeOK, Working, Unlocked
<1>7. CASE SubmitCommit
  <2>1. subs' \in Seq(Submission)
    BY <1>0, <1>7, NewType DEF SubmitCommit, Resumable, Working
  <2> QED
    BY <1>0, <1>1, <1>7, <2>1 DEF SubmitCommit, UploadUnchanged, TypeInv, TypeOK, Working, Unlocked
<1>8. CASE \E u \in Users, i \in DOMAIN subs, selected \in BOOLEAN : SelectFinal(u, i, selected)
  <2> PICK u \in Users, i \in DOMAIN subs, selected \in BOOLEAN : SelectFinal(u, i, selected)
    BY <1>8
  <2>1. subs[i] \in Submission /\ i \in 1 .. Len(subs)
    BY <1>0
  <2>2. [subs[i] EXCEPT !.final = selected] \in Submission
    BY <2>1 DEF Submission
  <2>3. subs' \in Seq(Submission)
    BY <1>0, <2>1, <2>2, ExceptSeq DEF SelectFinal
  <2> QED
    BY <1>0, <2>3 DEF SelectFinal, TypeInv, TypeOK, Working, Unlocked
<1>9. CASE \E u \in Users, n \in Notebooks : CreateCommit(u, n)
  <2> PICK u \in Users, n \in Notebooks : CreateCommit(u, n)
    BY <1>9
  <2>1. [user |-> u, notebook |-> n, status |-> "queued"] \in Commit
    BY DEF Commit, CommitStatus, Active
  <2>2. commits' \in Seq(Commit) /\ Len(commits') = Len(commits) + 1
    BY <1>0, <2>1, AppendProperties DEF CreateCommit
  <2> QED
    BY <1>0, <2>2 DEF CreateCommit, CommitsUnchanged, TypeInv, TypeOK, Working, Unlocked
<1>10. CASE \E c \in DOMAIN commits : CancelCommit(c)
  <2> PICK c \in DOMAIN commits : CancelCommit(c)
    BY <1>10
  <2>1. commits' \in Seq(Commit) /\ Len(commits') = Len(commits)
    BY <1>0, StatusType DEF CancelCommit, CommitStatus
  <2> QED
    BY <1>0, <2>1 DEF CancelCommit, CommitsUnchanged, TypeInv, TypeOK, Working, Unlocked
<1>11. CASE WorkerClaim
  <2> PICK c \in DOMAIN commits : /\ commits' = [commits EXCEPT ![c].status = "running"]
                                  /\ worker' = [worker EXCEPT !.pc = "running", !.job = c]
    BY <1>11 DEF WorkerClaim
  <2>1. commits' \in Seq(Commit) /\ Len(commits') = Len(commits)
    BY <1>0, StatusType DEF CommitStatus, Active
  <2>2. /\ worker' \in [pc : {"idle", "running", "completed", "failing"},
                        job : 0 .. Len(commits), seen : CommitStatus]
        /\ worker'.job # 0
    <3>1. c \in 0 .. Len(commits) /\ c # 0
      BY <1>0
    <3>2. worker' = [worker EXCEPT !.pc = "running", !.job = c]
      OBVIOUS
    <3> QED
      BY <1>0, <3>1, <3>2
  <2> QED
    BY <1>0, <1>11, <2>1, <2>2 DEF WorkerClaim, CommitsUnchanged, TypeInv, TypeOK, Working, Unlocked
<1>12. CASE CompleteCommit
  <2>1. worker.job \in DOMAIN commits
    BY <1>0, <1>12 DEF CompleteCommit, Working
  <2>2. commits' \in Seq(Commit) /\ Len(commits') = Len(commits)
    BY <1>0, <1>12, <2>1, StatusType DEF CompleteCommit, CommitStatus
  <2>3. commits[worker.job].user \in Users /\ worker.job \in Nat
    <3>1. commits[worker.job] \in Commit
      BY <1>0, <2>1
    <3> QED
      BY <1>0, <2>1, <3>1 DEF Commit
  <2>4. subs' \in Seq(Submission)
    BY <1>0, <1>12, <2>3, NewType DEF CompleteCommit
  <2>5. /\ worker' \in [pc : {"idle", "running", "completed", "failing"},
                        job : 0 .. Len(commits), seen : CommitStatus]
        /\ worker'.job # 0
    <3>1. worker' = [worker EXCEPT !.pc = "completed"]
      BY <1>12 DEF CompleteCommit
    <3>2. worker'.job = worker.job /\ worker.job # 0
      BY <1>0, <2>1, <3>1
    <3> QED
      BY <1>0, <3>1, <3>2
  <2> QED
    BY <1>0, <1>12, <2>2, <2>4, <2>5
    DEF CompleteCommit, CommitsUnchanged, TypeInv, TypeOK, Working, Unlocked
<1>13. CASE CompleteNothing
  BY <1>0, <1>13 DEF CompleteNothing, CommitsUnchanged, TypeInv, TypeOK, Working, Unlocked
<1>14. CASE WorkerDone
  BY <1>0, <1>1, <1>14 DEF WorkerDone, CommitsUnchanged, TypeInv, TypeOK, Working, Unlocked, NoWork
<1>15. CASE WorkerFails
  <2>1. worker.job \in DOMAIN commits
    BY <1>0, <1>15 DEF WorkerFails, Working
  <2>2. commits[worker.job].status \in CommitStatus
    <3>1. commits[worker.job] \in Commit
      BY <1>0, <2>1
    <3> QED
      BY <3>1 DEF Commit
  <2> QED
    BY <1>0, <1>15, <2>1, <2>2
    DEF WorkerFails, CommitsUnchanged, TypeInv, TypeOK, Working, Unlocked
<1>16. CASE RecordFailure
  <2>1. worker.job \in DOMAIN commits
    BY <1>0, <1>16 DEF RecordFailure, Working
  <2>2. commits' \in Seq(Commit) /\ Len(commits') = Len(commits)
    BY <1>0, <1>16, <2>1, StatusType DEF RecordFailure, CommitStatus
  <2> QED
    BY <1>0, <1>1, <1>16, <2>2
    DEF RecordFailure, CommitsUnchanged, TypeInv, TypeOK, Working, Unlocked, NoWork
<1>17. CASE WorkerRestart
  <2>1. commits' \in Seq(Commit) /\ Len(commits') = Len(commits)
    BY <1>0, <1>17, RestartType
  <2> QED
    BY <1>0, <1>1, <1>17, <2>1
    DEF WorkerRestart, CommitsUnchanged, TypeInv, TypeOK, Working, Unlocked, NoWork
<1>18. CASE UpdateRules
  BY <1>0, <1>18 DEF UpdateRules, TypeInv, TypeOK, Working, Unlocked
<1>19. CASE NextDay
  BY <1>0, <1>1, <1>19 DEF NextDay, TypeInv, TypeOK, Working, Unlocked
<1>20. ASSUME NEW e \in Entries, Disqualify(e) \/ Reinstate(e)
       PROVE  TypeInv'
  BY <1>0, <1>20 DEF Disqualify, Reinstate, HostUnchanged, RefreshResults, Finalize, Forget,
     TypeInv, TypeOK, Working, Unlocked
<1>21. ASSUME NEW t \in Timelines, NEW new \in Limits,
              UpdateSettings(t, new) \/ UpdateOverview(t)
       PROVE  TypeInv'
  <2>1. t \in [starts : Nat, entry : Nat, merger : Nat, ends : Nat]
    BY CompetitionAssumption
  <2>2. /\ times' \in [starts : Nat, entry : Nat, merger : Nat, ends : Nat]
        /\ limits' \in [daily : Nat \ {0}, final : Nat \ {0}]
    BY <1>0, <1>21, <2>1, CompetitionAssumption DEF UpdateSettings, UpdateOverview
  <2> QED
    BY <1>0, <1>21, <2>2 DEF UpdateSettings, UpdateOverview, HostUnchanged, RefreshResults,
       Finalize, Forget, TypeInv, TypeOK, Working, Unlocked
<1>22. ASSUME NEW f \in Rescorings, Rescore(f)
       PROVE  TypeInv'
  <2>1. subs' \in Seq(Submission)
    BY <1>0, <1>22, RescoreType
  <2> QED
    BY <1>0, <1>22, <2>1 DEF Rescore, HostUnchanged, RefreshResults, Finalize, Forget, TypeInv,
       TypeOK, Working, Unlocked
<1>23. CASE FinalizeNow
  BY <1>0, <1>23 DEF FinalizeNow, HostUnchanged, Finalize, TypeInv, TypeOK, Working, Unlocked
<1>24. CASE UNCHANGED vars
  BY <1>0, <1>24 DEF vars, TypeInv, TypeOK, Working, Unlocked
<1> QED
  BY <1>2, <1>3, <1>4, <1>5, <1>6, <1>7, <1>8, <1>9, <1>10, <1>11, <1>12, <1>13, <1>14, <1>15,
     <1>16, <1>17, <1>18, <1>19, <1>20, <1>21, <1>22, <1>23, <1>24,
     CompetitionAssumption
  DEF Next, Participant, CommitWorker, Host

-----------------------------------------------------------------------------
(* OneEntry, with the teams of a user in a form that steps preserve. *)
OneTeam == \A u \in Users : \A s, t \in TeamsOf(u) : s = t

Attributed == \A i \in DOMAIN subs : Of(subs[i]) = EntryOf(subs[i].user)

SettledInv == OneTeam /\ Attributed /\ TeamsAreOwned

LEMMA SettledMeans == SettledInv => OneEntry /\ TeamsAreOwned
<1> SUFFICES ASSUME OneTeam, NEW u \in Users PROVE Cardinality(TeamsOf(u)) <= 1
  BY DEF SettledInv, Attributed, OneEntry
<1>1. CASE TeamsOf(u) = {}
  BY <1>1, FS_EmptySet
<1>2. CASE TeamsOf(u) # {}
  <2> PICK t : t \in TeamsOf(u)
    BY <1>2
  <2>1. TeamsOf(u) = {t}
    BY DEF OneTeam
  <2> QED
    BY <2>1, FS_Singleton
<1> QED
  BY <1>1, <1>2

LEMMA InitSettled == Init => SettledInv
BY DEF Init, SettledInv, OneTeam, Attributed, TeamsAreOwned, TeamsOf, Members, ToSet, SubmissionsOf

(* A user who is in a team is in that team. *)
LEMMA TeamIs ==
  ASSUME OneTeam, NEW u \in Users, NEW t \in Teams, u \in Members(t)
  PROVE  TeamOf(u) = t
BY DEF OneTeam, TeamOf, TeamsOf

(* Who belongs where, and what is attributed to whom, is settled by these tables. *)
LEMMA SettledSame ==
  ASSUME SettledInv, UNCHANGED <<members, owner>>, dq' \subseteq dq,
         DOMAIN subs' = DOMAIN subs,
         \A i \in DOMAIN subs : subs'[i].user = subs[i].user /\ subs'[i].team = subs[i].team
  PROVE  SettledInv'
<1>1. \A u : TeamsOf(u)' = TeamsOf(u) /\ TeamOf(u)' = TeamOf(u) /\ EntryOf(u)' = EntryOf(u)
  BY DEF TeamsOf, TeamOf, EntryOf, EntryFor, Members
<1>2. OneTeam'
  BY <1>1 DEF SettledInv, OneTeam
<1>3. Attributed'
  BY <1>1 DEF SettledInv, Attributed, Of, EntryFor
<1>4. \A e : SubmissionsOf(e)' = SubmissionsOf(e)
  BY DEF SubmissionsOf, Of, EntryFor
<1>5. TeamsAreOwned'
  BY <1>4 DEF SettledInv, TeamsAreOwned
<1> QED
  BY <1>2, <1>3, <1>5 DEF SettledInv

(* A new submission goes to the team that its user is in. *)
LEMMA SettledNew ==
  ASSUME TypeOK, SettledInv, NEW u \in Users, NEW commit \in Nat, NewSubmission(u, commit),
         UNCHANGED <<members, owner, dq>>
  PROVE  SettledInv'
<1> DEFINE last == Len(subs) + 1
<1>0. /\ DOMAIN subs' = DOMAIN subs \cup {last}
      /\ \A i \in DOMAIN subs : subs'[i] = subs[i]
      /\ subs'[last].user = u /\ subs'[last].team = TeamOf(u)
  BY NewType
<1>1. \A v : TeamsOf(v)' = TeamsOf(v) /\ TeamOf(v)' = TeamOf(v) /\ EntryOf(v)' = EntryOf(v)
  BY DEF TeamsOf, TeamOf, EntryOf, EntryFor, Members
<1>2. OneTeam'
  BY <1>1 DEF SettledInv, OneTeam
<1>3. Attributed'
  <2> SUFFICES ASSUME NEW i \in DOMAIN subs' PROVE Of(subs'[i]) = EntryOf(subs'[i].user)
    BY <1>1 DEF Attributed, Of, EntryFor
  <2>1. CASE i \in DOMAIN subs
    BY <1>0, <2>1 DEF SettledInv, Attributed
  <2>2. CASE i = last
    BY <1>0, <2>2 DEF Of, EntryOf
  <2> QED
    BY <1>0, <2>1, <2>2
<1>4. TeamsAreOwned'
  <2> SUFFICES ASSUME NEW t \in Teams, members[t] = <<>> PROVE SubmissionsOf(<<"team", t>>)' = {}
    BY DEF SettledInv, TeamsAreOwned
  <2>1. SubmissionsOf(<<"team", t>>) = {}
    BY DEF SettledInv, TeamsAreOwned
  <2>2. \A i \in DOMAIN subs : Of(subs'[i]) # <<"team", t>>
    BY <1>0, <2>1 DEF SubmissionsOf
  <2>3. TeamOf(u) # t
    <3>1. Members(t) = {}
      BY DEF Members, ToSet
    <3> QED
      BY <3>1, TeamType, CompetitionAssumption
  <2>4. Of(subs'[last]) # <<"team", t>>
    BY <1>0, <2>3 DEF Of, EntryFor
  <2> QED
    BY <1>0, <2>2, <2>4 DEF SubmissionsOf, Of
<1> QED
  BY <1>2, <1>3, <1>4 DEF SettledInv

(* A user whose membership is not locked has no submission, nor has their team. *)
LEMMA UnlockedTeam ==
  ASSUME SettledInv, NEW u \in Users, ~TeamLocked(u)
  PROVE  /\ \A i \in DOMAIN subs : subs[i].user # u
         /\ \A t \in Teams : t = TeamOf(u) => SubmissionsOf(<<"team", t>>) = {}
         /\ ActiveCommits({u}) = {}
BY CompetitionAssumption DEF TeamLocked

(* The members of a team after one user came, and after one left. *)
LEMMA Comes ==
  ASSUME NEW s \in Seq(Users), NEW u \in Users
  PROVE  ToSet(Append(s, u)) = ToSet(s) \cup {u} /\ (s # <<>> => Head(Append(s, u)) = Head(s))
<1>1. /\ Append(s, u) \in Seq(Users) /\ Len(Append(s, u)) = Len(s) + 1 /\ Len(s) \in Nat
      /\ \A i \in 1 .. Len(s) : Append(s, u)[i] = s[i]
      /\ Append(s, u)[Len(s) + 1] = u
  BY AppendProperties
<1>2. DOMAIN Append(s, u) = 1 .. Len(s) + 1 /\ DOMAIN s = 1 .. Len(s)
  BY <1>1
<1> QED
  BY <1>1, <1>2, HeadTailAppend DEF ToSet

LEMMA Leaves ==
  ASSUME NEW s \in Seq(Users), NEW i \in DOMAIN s
  PROVE  /\ ToSet(RemoveAt(s, i)) \subseteq ToSet(s)
         /\ ToSet(s) \subseteq ToSet(RemoveAt(s, i)) \cup {s[i]}
         /\ RemoveAt(s, i) # <<>> /\ i # 1 => Head(RemoveAt(s, i)) = Head(s)
         /\ RemoveAt(s, i) = <<>> => s = <<s[i]>>
<1> DEFINE r == RemoveAt(s, i)
<1>0. Len(s) \in Nat /\ i \in 1 .. Len(s)
  BY LenProperties
<1> HIDE DEF r
<1>1. /\ r \in Seq(Users) /\ Len(r) = Len(s) - 1 /\ Len(s) \in Nat
      /\ \A j \in 1 .. Len(s) - 1 : r[j] = IF j < i THEN s[j] ELSE s[j + 1]
      /\ i \in 1 .. Len(s)
  <2>1. /\ r \in Seq(Users) /\ Len(r) = Len(s) - 1
        /\ \A j \in 1 .. Len(s) - 1 : r[j] = IF j < i THEN s[j] ELSE s[j + 1]
    BY RemoveAtProperties DEF r
  <2> QED
    BY <1>0, <2>1
<1>2. DOMAIN r = 1 .. Len(s) - 1 /\ DOMAIN s = 1 .. Len(s)
  BY <1>1
<1>3. \A j \in DOMAIN r : r[j] \in ToSet(s)
  BY <1>1, <1>2 DEF ToSet
<1>4. ASSUME NEW j \in DOMAIN s, j # i
      PROVE  s[j] \in ToSet(r)
  <2>1. CASE j < i
    <3>1. j \in DOMAIN r /\ r[j] = s[j]
      BY <1>1, <1>2, <2>1
    <3> QED
      BY <3>1 DEF ToSet
  <2>2. CASE j > i
    <3>1. j - 1 \in DOMAIN r /\ ~(j - 1 < i) /\ (j - 1) + 1 = j
      BY <1>1, <1>2, <2>2
    <3>2. r[j - 1] = s[j]
      BY <1>1, <1>2, <3>1
    <3> QED
      BY <3>1, <3>2 DEF ToSet
  <2> QED
    BY <1>2, <1>4, <2>1, <2>2
<1>5. r # <<>> /\ i # 1 => Head(r) = Head(s)
  <2> SUFFICES ASSUME r # <<>>, i # 1 PROVE r[1] = s[1]
    BY <1>1
  <2>1. 1 \in DOMAIN r
    BY <1>1, <1>2
  <2> QED
    BY <1>1, <1>2, <2>1
<1>6. r = <<>> => s = <<s[i]>>
  <2> SUFFICES ASSUME r = <<>> PROVE s = <<s[i]>>
    OBVIOUS
  <2>1. Len(s) = 1 /\ i = 1
    BY <1>1
  <2> QED
    BY <2>1, <1>2
<1> QED
  BY <1>3, <1>4, <1>5, <1>6 DEF ToSet, r

(* What an operation on teams does: only the user moves, into one team or out of theirs. *)
LEMMA TeamMove ==
  ASSUME TypeOK, NEW u \in Users, NEW t \in Teams,
         CreateTeam(u, t) \/ JoinTeam(u, t) \/ LeaveTeam(u, t)
  PROVE  /\ ~TeamLocked(u) /\ Unlocked /\ TeamUnchanged
         /\ \A s \in Teams \ {t} : members'[s] = members[s] /\ owner'[s] = owner[s]
         /\ Members(t)' \subseteq Members(t) \cup {u}
         /\ Members(t) \subseteq Members(t)' \cup {u}
         /\ (TeamOf(u) = Null /\ (members[t] = <<>> => Members(t)' = {u}))
              \/ (TeamOf(u) = t /\ Members(t)' \subseteq Members(t) /\ members[t] # <<>>)
<1>0. /\ members \in [Teams -> Seq(Users)] /\ owner \in [Teams -> Users \cup {Null}]
      /\ members[t] \in Seq(Users)
  BY DEF TypeOK
<1>1. CASE CreateTeam(u, t)
  <2>1. members'[t] = <<u>> /\ Members(t) = {}
    BY <1>0, <1>1 DEF CreateTeam, Members, ToSet
  <2>2. Members(t)' = {u}
    BY <2>1 DEF Members, ToSet
  <2> QED
    BY <1>0, <1>1, <2>1, <2>2 DEF CreateTeam
<1>2. CASE JoinTeam(u, t)
  <2>1. members'[t] = Append(members[t], u)
    BY <1>0, <1>2 DEF JoinTeam
  <2>2. Members(t)' = Members(t) \cup {u}
    BY <1>0, <2>1, Comes DEF Members
  <2> QED
    BY <1>0, <1>2, <2>2 DEF JoinTeam
<1>3. CASE LeaveTeam(u, t)
  <2> PICK i \in DOMAIN members[t] :
          members[t][i] = u /\ members' = [members EXCEPT ![t] = RemoveAt(@, i)]
    BY <1>3 DEF LeaveTeam
  <2>1. members'[t] = RemoveAt(members[t], i)
    BY <1>0
  <2>2. Members(t)' \subseteq Members(t) /\ Members(t) \subseteq Members(t)' \cup {u}
    BY <1>0, <2>1, Leaves DEF Members
  <2>3. members[t] # <<>>
    OBVIOUS
  <2>4. \A s \in Teams \ {t} : members'[s] = members[s] /\ owner'[s] = owner[s]
    BY <1>0, <1>3 DEF LeaveTeam
  <2> QED
    BY <1>0, <1>3, <2>2, <2>3, <2>4 DEF LeaveTeam
<1> QED
  BY <1>1, <1>2, <1>3

(* Only the entry of that user changes. *)
LEMMA OthersStay ==
  ASSUME TypeOK, NEW u \in Users, NEW t \in Teams,
         CreateTeam(u, t) \/ JoinTeam(u, t) \/ LeaveTeam(u, t), NEW v \in Users, v # u
  PROVE  TeamsOf(v)' = TeamsOf(v) /\ EntryOf(v)' = EntryOf(v)
<1>1. ASSUME NEW s \in Teams PROVE v \in Members(s)' <=> v \in Members(s)
  BY TeamMove DEF Members
<1>2. TeamsOf(v)' = TeamsOf(v)
  BY <1>1 DEF TeamsOf
<1> QED
  BY <1>2 DEF EntryOf, EntryFor, TeamOf

LEMMA TeamsSettled ==
  ASSUME TypeOK, SettledInv, NEW u \in Users, NEW t \in Teams,
         CreateTeam(u, t) \/ JoinTeam(u, t) \/ LeaveTeam(u, t)
  PROVE  SettledInv'
<1>0. /\ members \in [Teams -> Seq(Users)] /\ owner \in [Teams -> Users \cup {Null}]
      /\ members[t] \in Seq(Users)
      /\ OneTeam /\ Attributed /\ TeamsAreOwned
  BY DEF TypeOK, SettledInv
<1>1. OneTeam'
  <2> SUFFICES ASSUME NEW v \in Users, NEW a \in TeamsOf(v)', NEW b \in TeamsOf(v)' PROVE a = b
    BY DEF OneTeam
  <2>1. CASE v # u
    BY <1>0, <2>1, OthersStay DEF OneTeam
  <2>2. CASE v = u /\ TeamOf(u) = Null
    <3>1. TeamsOf(u) = {}
      BY <2>2, CompetitionAssumption DEF TeamOf, TeamsOf
    <3>2. \A s \in Teams \ {t} : u \notin Members(s)'
      BY <3>1, TeamMove DEF TeamsOf, Members
    <3> QED
      BY <2>2, <3>2 DEF TeamsOf
  <2>3. CASE v = u /\ TeamOf(u) = t
    <3>1. \A s \in Teams : Members(s)' \subseteq Members(s)
      <4>1. Members(t)' \subseteq Members(t)
        BY <2>3, TeamMove, CompetitionAssumption
      <4> QED
        BY <4>1, TeamMove DEF Members
    <3>2. TeamsOf(u)' \subseteq TeamsOf(u)
      BY <3>1 DEF TeamsOf
    <3> QED
      BY <1>0, <2>3, <3>2 DEF OneTeam
  <2> QED
    BY <2>1, <2>2, <2>3, TeamMove
<1>2. Attributed'
  <2>1. subs' = subs /\ \A i \in DOMAIN subs : subs[i].user # u /\ subs[i].user \in Users
    <3>1. subs' = subs /\ \A i \in DOMAIN subs : subs[i].user # u
      BY TeamMove, UnlockedTeam DEF TeamUnchanged
    <3>2. \A i \in DOMAIN subs : subs[i] \in Submission
      BY DEF TypeOK
    <3> QED
      BY <3>1, <3>2 DEF Submission
  <2>2. \A i \in DOMAIN subs : Of(subs[i])' = Of(subs[i])
    BY <2>1 DEF Of, EntryFor
  <2> QED
    BY <1>0, <2>1, <2>2, OthersStay DEF Attributed, Of, EntryFor
<1>3. TeamsAreOwned'
  <2>1. subs' = subs /\ dq' = dq /\ \A e : SubmissionsOf(e)' = SubmissionsOf(e)
    BY TeamMove DEF TeamUnchanged, SubmissionsOf, Of, EntryFor
  <2>2. ASSUME NEW s \in Teams \ {t} PROVE TeamsAreOwned!(s)'
    BY <1>0, <2>1, <2>2, TeamMove DEF TeamsAreOwned
  <2>3. TeamsAreOwned!(t)'
    <3>1. CASE CreateTeam(u, t)
      <4>1. members'[t] = <<u>> /\ owner'[t] = u
        BY <1>0, <3>1 DEF CreateTeam
      <4> QED
        BY <4>1
    <3>2. CASE JoinTeam(u, t)
      <4>1. members'[t] = Append(members[t], u) /\ owner'[t] = owner[t] /\ members[t] # <<>>
        BY <1>0, <3>2 DEF JoinTeam
      <4>2. owner[t] = Head(members[t])
        BY <1>0, <4>1 DEF TeamsAreOwned
      <4>3. members'[t] # <<>> /\ Head(members'[t]) = Head(members[t])
        BY <1>0, <4>1, Comes, AppendProperties
      <4> QED
        BY <4>1, <4>2, <4>3
    <3>3. CASE LeaveTeam(u, t)
      <4> PICK i \in DOMAIN members[t] :
              members[t][i] = u /\ members' = [members EXCEPT ![t] = RemoveAt(@, i)]
        BY <3>3 DEF LeaveTeam
      <4>1. members'[t] = RemoveAt(members[t], i) /\ members[t] # <<>>
        BY <1>0
      <4>2. owner[t] = Head(members[t])
        BY <1>0, <4>1 DEF TeamsAreOwned
      <4>3. CASE members'[t] = <<>>
        <5>1. <<"team", t>> \notin dq
          BY <1>0, <3>3, <4>1, <4>3, Leaves DEF LeaveTeam
        <5>2. SubmissionsOf(<<"team", t>>) = {}
          BY <3>3, UnlockedTeam DEF LeaveTeam
        <5> QED
          BY <1>0, <2>1, <3>3, <4>3, <5>1, <5>2 DEF LeaveTeam
      <4>4. CASE members'[t] # <<>> /\ owner[t] = u
        BY <1>0, <3>3, <4>4 DEF LeaveTeam
      <4>5. CASE members'[t] # <<>> /\ owner[t] # u
        <5>1. i # 1
          BY <4>2, <4>5
        <5>2. Head(members'[t]) = Head(members[t])
          BY <1>0, <4>1, <4>5, <5>1, Leaves
        <5> QED
          BY <3>3, <4>2, <4>5, <5>2 DEF LeaveTeam
      <4> QED
        BY <4>3, <4>4, <4>5
    <3> QED
      BY <3>1, <3>2, <3>3
  <2> QED
    BY <2>2, <2>3 DEF TeamsAreOwned
<1> QED
  BY <1>1, <1>2, <1>3 DEF SettledInv

LEMMA StepSettled ==
  ASSUME TypeInv, SettledInv, [Next]_vars
  PROVE  SettledInv'
<1>0. /\ TypeOK /\ Working
      /\ DOMAIN commits = 1 .. Len(commits) /\ Len(commits) \in Nat
      /\ worker.job \in 0 .. Len(commits)
      /\ \A c \in DOMAIN commits : commits[c] \in Commit
  BY DEF TypeInv, TypeOK
<1>1. CASE \E u \in Users, t \in Teams : CreateTeam(u, t) \/ JoinTeam(u, t) \/ LeaveTeam(u, t)
  BY <1>0, <1>1, TeamsSettled
<1>2. CASE SubmitCommit
  <2>1. upload.user \in Users /\ NewSubmission(upload.user, 0) /\ UNCHANGED <<members, owner, dq>>
    BY <1>0, <1>2 DEF SubmitCommit, Resumable, Working, UploadUnchanged
  <2> QED
    BY <1>0, <2>1, SettledNew
<1>3. CASE CompleteCommit
  <2>1. worker.job \in Nat /\ worker.job \in DOMAIN commits
    BY <1>0, <1>3 DEF CompleteCommit, Working
  <2>2. commits[worker.job].user \in Users
    BY <1>0, <2>1 DEF Commit
  <2>3. NewSubmission(commits[worker.job].user, worker.job) /\ UNCHANGED <<members, owner, dq>>
    BY <1>3 DEF CompleteCommit, CommitsUnchanged
  <2> QED
    BY <1>0, <2>1, <2>2, <2>3, SettledNew
<1>4. ASSUME NEW e \in Entries, Disqualify(e)
      PROVE  SettledInv'
  <2>1. UNCHANGED <<members, owner, subs>> /\ dq' = dq \cup {e}
        /\ (e[1] = "team" => members[e[2]] # <<>>)
    BY <1>4 DEF Disqualify, HostUnchanged
  <2>2. \A v : TeamsOf(v)' = TeamsOf(v) /\ TeamOf(v)' = TeamOf(v) /\ EntryOf(v)' = EntryOf(v)
    BY <2>1 DEF TeamsOf, TeamOf, EntryOf, EntryFor, Members
  <2>3. OneTeam' /\ Attributed'
    BY <2>1, <2>2 DEF SettledInv, OneTeam, Attributed, Of, EntryFor
  <2>4. \A x : SubmissionsOf(x)' = SubmissionsOf(x)
    BY <2>1 DEF SubmissionsOf, Of, EntryFor
  <2>5. TeamsAreOwned'
    <3>1. \A t \in Teams : members[t] = <<>> => e # <<"team", t>>
      BY <2>1
    <3> QED
      BY <2>1, <2>4, <3>1 DEF SettledInv, TeamsAreOwned
  <2> QED
    BY <2>3, <2>5 DEF SettledInv
<1>5. ASSUME NEW f \in Rescorings, Rescore(f)
      PROVE  SettledInv'
  BY <1>0, <1>5, RescoreType, SettledSame DEF Rescore, HostUnchanged
<1>6. ASSUME NEW u \in Users, NEW i \in DOMAIN subs, NEW selected \in BOOLEAN,
             SelectFinal(u, i, selected)
      PROVE  SettledInv'
  <2>1. \A j \in DOMAIN subs : subs[j] \in Submission
    BY <1>0 DEF TypeOK
  <2>2. /\ DOMAIN subs' = DOMAIN subs
        /\ \A j \in DOMAIN subs : subs'[j].user = subs[j].user /\ subs'[j].team = subs[j].team
    BY <1>6, <2>1 DEF SelectFinal, Submission
  <2> QED
    BY <1>6, <2>2, SettledSame DEF SelectFinal
<1>7. CASE UNCHANGED <<members, owner, subs>> /\ dq' \subseteq dq
  BY <1>7, SettledSame
<1> QED
  BY <1>1, <1>2, <1>3, <1>4, <1>5, <1>6, <1>7
  DEF Next, Participant, CommitWorker, Host, Join, SubmitBegin, SubmitBlocks, SubmitReject,
      UploadUnchanged, CreateCommit, CancelCommit, WorkerClaim, CompleteNothing, WorkerDone,
      WorkerFails, RecordFailure, WorkerRestart, CommitsUnchanged, UpdateRules, NextDay, Reinstate,
      UpdateSettings, UpdateOverview, FinalizeNow, HostUnchanged, vars

(* Entries, teams and submissions refer to each other in every reachable state. *)
THEOREM Settled == Spec => []EntriesSettled
<1>1. TypeInv /\ SettledInv /\ [Next]_vars => TypeInv' /\ SettledInv'
  BY StepType, StepSettled
<1>2. TypeInv /\ SettledInv => EntriesSettled
  BY SettledMeans DEF TypeInv, EntriesSettled
<1> QED
  BY <1>1, <1>2, InitType, InitSettled, PTL DEF Spec

-----------------------------------------------------------------------------
(* Submissions are not of the future, and a commit that has one is over. *)
ScoredInv ==
    \A i \in DOMAIN subs :
        /\ subs[i].day <= clock
        /\ subs[i].commit \in 0 .. Len(commits)
        /\ subs[i].commit # 0 => commits[subs[i].commit].status \notin Active

LEMMA InitScored == Init => ScoredInv
BY DEF Init, ScoredInv

(* Commits are added and end, and submissions keep their day and commit. *)
LEMMA ScoredSame ==
  ASSUME TypeOK, ScoredInv, clock <= clock', clock' \in Nat,
         DOMAIN subs' = DOMAIN subs,
         \A i \in DOMAIN subs : subs'[i].day = subs[i].day /\ subs'[i].commit = subs[i].commit,
         Len(commits') \in Nat, Len(commits) <= Len(commits'),
         \A c \in DOMAIN commits : commits'[c].status \in Active => commits[c].status \in Active
  PROVE  ScoredInv'
<1>1. DOMAIN commits = 1 .. Len(commits) /\ Len(commits) \in Nat /\ clock \in Nat
  BY DEF TypeOK
<1>2. \A i \in DOMAIN subs : subs[i] \in Submission
  BY DEF TypeOK
<1>3. \A i \in DOMAIN subs : subs[i].day \in Nat
  BY <1>2 DEF Submission
<1> QED
  BY <1>1, <1>3 DEF ScoredInv

LEMMA StepScored ==
  ASSUME TypeInv, ScoredInv, [Next]_vars
  PROVE  ScoredInv' /\ (\A c \in DOMAIN commits :
         ScoredBy(c)' # ScoredBy(c) =>
            /\ ScoredBy(c) = {}
            /\ commits[c].status = "running" /\ commits'[c].status = "succeeded")
<1> DEFINE Once == \A c \in DOMAIN commits :
         ScoredBy(c)' # ScoredBy(c) =>
            /\ ScoredBy(c) = {}
            /\ commits[c].status = "running" /\ commits'[c].status = "succeeded"
<1>0. /\ TypeOK /\ Working /\ TypeInv'
      /\ DOMAIN commits = 1 .. Len(commits) /\ Len(commits) \in Nat
      /\ worker.job \in 0 .. Len(commits) /\ clock \in Nat /\ clock + 1 \in Nat
  <2>1. TypeOK /\ Working /\ TypeInv'
    BY StepType DEF TypeInv
  <2>2. /\ DOMAIN commits = 1 .. Len(commits) /\ Len(commits) \in Nat
        /\ worker.job \in 0 .. Len(commits) /\ clock \in Nat /\ clock + 1 \in Nat
    BY <2>1 DEF TypeOK
  <2> QED
    BY <2>1, <2>2
<1>01. \A c \in DOMAIN commits : commits[c] \in Commit
  BY <1>0 DEF TypeOK
<1>1. ASSUME DOMAIN subs' = DOMAIN subs,
             \A i \in DOMAIN subs : subs'[i].day = subs[i].day /\ subs'[i].commit = subs[i].commit
      PROVE  Once
  BY <1>1 DEF ScoredBy
<1>2. CASE SubmitCommit
  <2>1. upload.user \in Users /\ NewSubmission(upload.user, 0) /\ UNCHANGED <<clock, commits>>
    BY <1>0, <1>2 DEF SubmitCommit, Resumable, Working, UploadUnchanged
  <2>2. /\ DOMAIN subs' = DOMAIN subs \cup {Len(subs) + 1}
        /\ \A i \in DOMAIN subs : subs'[i] = subs[i]
        /\ subs'[Len(subs) + 1].commit = 0 /\ subs'[Len(subs) + 1].day = clock
    BY <1>0, <2>1, NewType
  <2>3. ScoredInv'
    BY <1>0, <2>1, <2>2 DEF ScoredInv
  <2>4. Once
    BY <1>0, <2>2 DEF ScoredBy
  <2> QED
    BY <2>3, <2>4
<1>3. CASE CompleteCommit
  <2> DEFINE c == worker.job
  <2>1. c \in Nat /\ c \in DOMAIN commits
    BY <1>0, <1>3 DEF CompleteCommit, Working
  <2>2. commits[c].user \in Users /\ NewSubmission(commits[c].user, c) /\ clock' = clock
        /\ commits' = [commits EXCEPT ![c].status = "succeeded"] /\ commits[c].status = "running"
    <3>1. commits[c].user \in Users
      BY <1>01, <2>1 DEF Commit
    <3> QED
      BY <1>3, <3>1 DEF CompleteCommit, CommitsUnchanged
  <2>3. /\ DOMAIN subs' = DOMAIN subs \cup {Len(subs) + 1}
        /\ \A i \in DOMAIN subs : subs'[i] = subs[i]
        /\ subs'[Len(subs) + 1].commit = c /\ subs'[Len(subs) + 1].day = clock
    BY <1>0, <2>1, <2>2, NewType
  <2>4. /\ Len(commits') = Len(commits)
        /\ \A k \in DOMAIN commits :
               commits'[k].status = IF k = c THEN "succeeded" ELSE commits[k].status
    BY <1>0, <2>1, <2>2, StatusType DEF CommitStatus
  <2>5. \A i \in DOMAIN subs : subs[i].commit # c
    BY <2>1, <2>2 DEF ScoredInv, Active
  <2>6. ScoredInv'
    <3> SUFFICES ASSUME NEW i \in DOMAIN subs' PROVE ScoredInv!(i)'
      BY DEF ScoredInv
    <3>1. CASE i \in DOMAIN subs
      BY <1>0, <2>2, <2>3, <2>4, <2>5, <3>1 DEF ScoredInv
    <3>2. CASE i = Len(subs) + 1
      BY <1>0, <2>1, <2>2, <2>3, <2>4, <3>2 DEF Active
    <3> QED
      BY <2>3, <3>1, <3>2
  <2>7. Once
    <3> SUFFICES ASSUME NEW k \in DOMAIN commits, ScoredBy(k)' # ScoredBy(k) PROVE k = c
      BY <2>2, <2>4, <2>5 DEF ScoredBy
    <3> QED
      BY <2>3 DEF ScoredBy
  <2> QED
    BY <2>6, <2>7
<1>4. CASE \E u \in Users, n \in Notebooks : CreateCommit(u, n)
  <2> PICK u \in Users, n \in Notebooks : CreateCommit(u, n)
    BY <1>4
  <2>1. commits' = Append(commits, [user |-> u, notebook |-> n, status |-> "queued"])
        /\ subs' = subs /\ clock' = clock
    BY DEF CreateCommit, CommitsUnchanged
  <2>2. [user |-> u, notebook |-> n, status |-> "queued"] \in Commit
    BY DEF Commit, CommitStatus, Active
  <2>3. commits \in Seq(Commit)
    BY <1>0 DEF TypeOK
  <2>4. Len(commits') = Len(commits) + 1 /\ \A k \in DOMAIN commits : commits'[k] = commits[k]
    BY <1>0, <2>1, <2>2, <2>3, AppendProperties
  <2>5. ScoredInv'
    BY <1>0, <2>1, <2>4, ScoredSame
  <2> QED
    BY <1>1, <2>1, <2>5
<1>5. ASSUME NEW c \in DOMAIN commits, NEW status \in CommitStatus,
             commits' = [commits EXCEPT ![c].status = status],
             status \in Active => commits[c].status \in Active, UNCHANGED <<subs, clock>>
      PROVE  ScoredInv'
  <2>1. Len(commits') = Len(commits)
        /\ \A k \in DOMAIN commits :
               commits'[k].status = IF k = c THEN status ELSE commits[k].status
    BY <1>0, <1>5, StatusType
  <2> QED
    BY <1>0, <1>5, <2>1, ScoredSame
<1>6. CASE WorkerRestart
  <2>1. Len(commits') = Len(commits)
        /\ \A k \in DOMAIN commits :
               commits'[k].status = IF commits[k].status = "running" THEN "failed"
                                    ELSE commits[k].status
    BY <1>0, <1>6, RestartType
  <2>2. UNCHANGED <<subs, clock>>
    BY <1>6 DEF WorkerRestart, CommitsUnchanged
  <2>3. ScoredInv'
    BY <1>0, <2>1, <2>2, ScoredSame DEF Active
  <2> QED
    BY <1>1, <2>2, <2>3
<1>7. CASE RecordFailure
  <2>1. worker.job \in DOMAIN commits /\ UNCHANGED <<subs, clock>>
    BY <1>0, <1>7 DEF RecordFailure, Working, CommitsUnchanged
  <2>2. CASE commits' = commits
    BY <1>0, <1>1, <2>1, <2>2, ScoredSame
  <2>3. CASE commits' = [commits EXCEPT ![worker.job].status = "failed"]
    BY <1>1, <1>5, <2>1, <2>3 DEF CommitStatus, Active
  <2> QED
    BY <1>7, <2>2, <2>3 DEF RecordFailure
<1>8. CASE WorkerClaim
  <2> PICK c \in DOMAIN commits : /\ commits[c].status = "queued"
                                  /\ commits' = [commits EXCEPT ![c].status = "running"]
    BY <1>8 DEF WorkerClaim
  <2>1. UNCHANGED <<subs, clock>>
    BY <1>8 DEF WorkerClaim, CommitsUnchanged
  <2> QED
    BY <1>1, <1>5, <2>1 DEF CommitStatus, Active
<1>9. CASE \E c \in DOMAIN commits : CancelCommit(c)
  <2> PICK c \in DOMAIN commits : CancelCommit(c)
    BY <1>9
  <2>1. UNCHANGED <<subs, clock>>
    BY DEF CancelCommit, CommitsUnchanged
  <2> QED
    BY <1>1, <1>5, <2>1 DEF CancelCommit, CommitStatus, Active
<1>10. ASSUME NEW f \in Rescorings, Rescore(f)
       PROVE  ScoredInv' /\ Once
  <2>1. /\ DOMAIN subs' = DOMAIN subs
        /\ \A i \in DOMAIN subs : subs'[i].day = subs[i].day /\ subs'[i].commit = subs[i].commit
        /\ UNCHANGED <<commits, clock>>
    BY <1>0, <1>10, RescoreType DEF Rescore, HostUnchanged
  <2> QED
    BY <1>0, <1>1, <2>1, ScoredSame
<1>11. ASSUME NEW u \in Users, NEW i \in DOMAIN subs, NEW selected \in BOOLEAN,
              SelectFinal(u, i, selected)
       PROVE  ScoredInv' /\ Once
  <2>1. /\ DOMAIN subs' = DOMAIN subs
        /\ \A j \in DOMAIN subs : subs'[j].day = subs[j].day /\ subs'[j].commit = subs[j].commit
        /\ UNCHANGED <<commits, clock>>
    BY <1>0, <1>11 DEF SelectFinal, Submission
  <2> QED
    BY <1>0, <1>1, <2>1, ScoredSame
<1>12. CASE NextDay
  <2>1. clock' = clock + 1 /\ UNCHANGED <<subs, commits>>
    BY <1>12 DEF NextDay
  <2> QED
    BY <1>0, <1>1, <2>1, ScoredSame
<1>13. CASE UNCHANGED <<subs, commits, clock>>
  BY <1>0, <1>1, <1>13, ScoredSame
<1> QED
  BY <1>2, <1>3, <1>4, <1>6, <1>7, <1>8, <1>9, <1>10, <1>11, <1>12, <1>13
  DEF Next, Participant, CommitWorker, Host, Join, SubmitBegin, SubmitBlocks, SubmitReject,
      UploadUnchanged, CreateTeam, JoinTeam, LeaveTeam, TeamUnchanged, CompleteNothing,
      WorkerDone, WorkerFails, CommitsUnchanged, UpdateRules, Disqualify, Reinstate,
      UpdateSettings, UpdateOverview, FinalizeNow, HostUnchanged, vars

(* A commit is scored once, in the step that ends it: never after a cancellation, a *)
(* failure or a restart.                                                             *)
THEOREM ScoredOnce == Spec => CommitScoredOnce
<1>1. TypeInv /\ ScoredInv /\ [Next]_vars => TypeInv' /\ ScoredInv'
  BY StepType, StepScored
<1>2. TypeInv /\ ScoredInv /\ [Next]_vars =>
          [\A c \in DOMAIN commits :
             ScoredBy(c)' # ScoredBy(c) =>
                /\ ScoredBy(c) = {}
                /\ commits[c].status = "running" /\ commits'[c].status = "succeeded"]_vars
  BY StepScored
<1> QED
  BY <1>1, <1>2, InitType, InitScored, PTL DEF Spec, CommitScoredOnce

-----------------------------------------------------------------------------
(* Results are stored after the end only, and no upload holds the row then. *)
ResultsInv ==
    /\ ResultsCurrent
    /\ finalized <= clock
    /\ ~Unlocked => finalized = 0

LEMMA InitResults == Init => ResultsInv
BY CompetitionAssumption DEF Init, ResultsInv, ResultsCurrent, Unlocked, NoUpload

(* Before the end nothing is stored. *)
LEMMA NotYet ==
  ASSUME TypeOK, ResultsInv, ~Ended
  PROVE  finalized = 0
BY DEF TypeOK, ResultsInv, ResultsCurrent, Ended

(* The results are a function of the members and of what they are computed from. *)
LEMMA ResultsOf ==
  ASSUME members' = members
  PROVE  FinalResults(subs, limits.final, dq)' = FinalResults(subs', limits'.final, dq')
BY DEF FinalResults, PeopleOf, Members, Chosen, Before, Of

LEMMA SameResults ==
  ASSUME members' = members, subs' = subs, limits' = limits, dq' = dq
  PROVE  FinalResults(subs, limits.final, dq)' = FinalResults(subs, limits.final, dq)
BY DEF FinalResults, PeopleOf, Members, Chosen, Before, Of

(* A handler of the host leaves what is stored current. *)
LEMMA Refreshed ==
  ASSUME TypeInv, TypeInv', ResultsInv, Unlocked, HostUnchanged,
         RefreshResults \/ (Ended' /\ Finalize)
  PROVE  ResultsInv'
<1>0. /\ clock \in Nat /\ clock' = clock /\ times'.ends \in Nat /\ finalized \in Nat
      /\ members' = members /\ Unlocked'
  BY DEF TypeInv, TypeOK, HostUnchanged, Unlocked
<1>1. CASE Ended' /\ Finalize
  <2>1. finalized' = clock /\ clock > times'.ends /\ results' = FinalResults(subs', limits'.final, dq')
    BY <1>0, <1>1 DEF Finalize, Ended
  <2>2. results' = FinalResults(subs, limits.final, dq)'
    BY <1>0, <2>1, ResultsOf
  <2>3. ResultsCurrent'
    BY <1>0, <2>1, <2>2 DEF ResultsCurrent
  <2> QED
    BY <1>0, <2>1, <2>3 DEF ResultsInv
<1>2. CASE Forget
  <2>1. finalized' = 0 /\ results' = NoResults'
    BY <1>2 DEF Forget, NoResults, NoResult
  <2> QED
    BY <1>0, <2>1 DEF ResultsInv, ResultsCurrent
<1>3. CASE finalized = 0 /\ UNCHANGED <<finalized, results>>
  <2>1. finalized' = 0 /\ results' = NoResults'
    BY <1>3 DEF ResultsInv, ResultsCurrent, NoResults, NoResult
  <2> QED
    BY <1>0, <2>1 DEF ResultsInv, ResultsCurrent
<1> QED
  BY <1>1, <1>2, <1>3 DEF RefreshResults

LEMMA StepResults ==
  ASSUME TypeInv, ResultsInv, [Next]_vars
  PROVE  ResultsInv'
<1>0. /\ TypeOK /\ TypeInv'
      /\ clock \in Nat /\ clock + 1 \in Nat /\ finalized \in Nat /\ times.ends \in Nat
  <2>1. TypeOK /\ TypeInv'
    BY StepType DEF TypeInv
  <2> QED
    BY <2>1 DEF TypeOK
<1>1. ASSUME finalized = 0, UNCHANGED <<clock, finalized, results>>
      PROVE  ResultsInv'
  <2>1. finalized' = 0 /\ results' = NoResults' /\ clock' \in Nat
    BY <1>0, <1>1 DEF ResultsInv, ResultsCurrent, NoResults, NoResult
  <2> QED
    BY <2>1 DEF ResultsInv, ResultsCurrent
<1>2. ASSUME UNCHANGED <<times, limits, members, subs, dq, finalized, results>>,
             clock' = clock \/ clock' = clock + 1, Unlocked' \/ finalized = 0 \/ ~Unlocked
      PROVE  ResultsInv'
  <2>1. FinalResults(subs, limits.final, dq)' = FinalResults(subs, limits.final, dq) /\ NoResults' = NoResults
    BY <1>2, SameResults DEF NoResults, NoResult
  <2> QED
    BY <1>0, <1>2, <2>1 DEF ResultsInv, ResultsCurrent
<1>3. CASE \E u \in Users, t \in Teams : CreateTeam(u, t) \/ JoinTeam(u, t) \/ LeaveTeam(u, t)
  <2>1. ~Ended /\ TeamUnchanged
    BY <1>3 DEF CreateTeam, JoinTeam, LeaveTeam, FormingOpen, ChangesOpen, Passed, Ended
  <2>2. finalized = 0
    BY <1>0, <2>1, NotYet
  <2> QED
    BY <1>1, <2>1, <2>2 DEF TeamUnchanged
<1>4. CASE \E u \in Users, large \in BOOLEAN : SubmitBegin(u, large)
  <2>1. ~Ended
    BY <1>4 DEF SubmitBegin
  <2>2. finalized = 0
    BY <1>0, <2>1, NotYet
  <2> QED
    BY <1>1, <1>4, <2>2 DEF SubmitBegin, UploadUnchanged
<1>5. CASE SubmitCommit
  <2>1. finalized = 0
    BY <1>5 DEF SubmitCommit, Resumable, ResultsInv
  <2> QED
    BY <1>1, <1>5, <2>1 DEF SubmitCommit, UploadUnchanged
<1>6. CASE CompleteCommit
  <2>1. ~Ended
    BY <1>6 DEF CompleteCommit, MayCommit
  <2>2. finalized = 0
    BY <1>0, <2>1, NotYet
  <2> QED
    BY <1>1, <1>6, <2>2 DEF CompleteCommit, CommitsUnchanged
<1>7. CASE \E u \in Users, i \in DOMAIN subs, selected \in BOOLEAN : SelectFinal(u, i, selected)
  <2>1. ~Ended /\ UNCHANGED <<clock, finalized, results>>
    BY <1>7 DEF SelectFinal
  <2> QED
    BY <1>0, <1>1, <2>1, NotYet
<1>8. CASE Host
  <2>1. CASE UpdateRules
    BY <1>2, <2>1 DEF UpdateRules, Unlocked
  <2>2. CASE ~UpdateRules
    <3>1. Unlocked /\ HostUnchanged /\ (RefreshResults \/ (Ended' /\ Finalize))
      BY <1>8, <2>2 DEF Host, UpdateSettings, UpdateOverview, Rescore, Disqualify, Reinstate,
         FinalizeNow, HostUnchanged, Ended
    <3> QED
      BY <1>0, <3>1, Refreshed
  <2> QED
    BY <2>1, <2>2
<1>9. CASE \/ \E u \in Users : Join(u) \/ SubmitBlocks(u)
           \/ SubmitReject
           \/ \E u \in Users, n \in Notebooks : CreateCommit(u, n)
           \/ \E c \in DOMAIN commits : CancelCommit(c)
           \/ WorkerClaim \/ CompleteNothing \/ WorkerDone \/ WorkerFails \/ RecordFailure
           \/ WorkerRestart \/ NextDay \/ UNCHANGED vars
  <2>1. UNCHANGED <<times, limits, members, subs, dq, finalized, results>>
        /\ (clock' = clock \/ clock' = clock + 1)
    BY <1>9 DEF Join, SubmitBlocks, SubmitReject, UploadUnchanged, CreateCommit, CancelCommit,
       WorkerClaim, CompleteNothing, WorkerDone, WorkerFails, RecordFailure, WorkerRestart,
       CommitsUnchanged, NextDay, vars
  <2>2. Unlocked' \/ ~Unlocked
    <3>1. CASE \E u \in Users : SubmitBlocks(u)
      BY <3>1 DEF SubmitBlocks, Unlocked, NoUpload
    <3>2. CASE SubmitReject
      BY <3>2 DEF SubmitReject, Resumable
    <3>3. CASE upload' = upload
      BY <3>3 DEF Unlocked
    <3> QED
      BY <1>9, <3>1, <3>2, <3>3 DEF Join, CreateCommit, CancelCommit, WorkerClaim,
         CompleteNothing, WorkerDone, WorkerFails, RecordFailure, WorkerRestart,
         CommitsUnchanged, NextDay, vars
  <2> QED
    BY <1>2, <2>1, <2>2
<1> QED
  BY <1>3, <1>4, <1>5, <1>6, <1>7, <1>8, <1>9 DEF Next, Participant, CommitWorker

(* Stored results are those of the submissions, teams and disqualifications as they are, and *)
(* exist after the end only.                                                                  *)
THEOREM Current == Spec => []ResultsCurrent
<1>1. TypeInv /\ ResultsInv /\ [Next]_vars => TypeInv' /\ ResultsInv'
  BY StepType, StepResults
<1>2. ResultsInv => ResultsCurrent
  BY DEF ResultsInv
<1> QED
  BY <1>1, <1>2, InitType, InitResults, PTL DEF Spec

-----------------------------------------------------------------------------
(* What an entry has used of its day. *)
Today(e) == {i \in SubmissionsOf(e) : subs[i].day = clock}
Pending(e) == ActiveCommits(PeopleOf(e))

(* The submission of an upload that goes on has its place in the day: the    *)
(* limits of the step from one moment to the next rest on this.              *)
LimitsInv == ~Unlocked => Used(EntryOf(upload.user)) < limits.daily
StepsLimited == DailyLimit /\ FinalCap

LEMMA InitLimits == Init => LimitsInv
BY DEF Init, Unlocked, LimitsInv

(* They are finite sets. *)
LEMMA UsedType ==
  ASSUME TypeOK, NEW e
  PROVE  /\ IsFiniteSet(Today(e)) /\ IsFiniteSet(Pending(e)) /\ IsFiniteSet(Finals(e))
         /\ Cardinality(Today(e)) \in Nat /\ Cardinality(Pending(e)) \in Nat
         /\ Cardinality(Finals(e)) \in Nat
         /\ Used(e) = Cardinality(Today(e)) + Cardinality(Pending(e))
<1>1. /\ DOMAIN subs = 1 .. Len(subs) /\ Len(subs) \in Nat
      /\ DOMAIN commits = 1 .. Len(commits) /\ Len(commits) \in Nat
  BY DEF TypeOK
<1>2. IsFiniteSet(1 .. Len(subs)) /\ IsFiniteSet(1 .. Len(commits))
  BY <1>1, FS_Interval
<1>3. Today(e) \subseteq 1 .. Len(subs) /\ Finals(e) \subseteq 1 .. Len(subs)
      /\ Pending(e) \subseteq 1 .. Len(commits)
  BY <1>1 DEF Today, Finals, Pending, SubmissionsOf, ActiveCommits
<1>4. IsFiniteSet(Today(e)) /\ IsFiniteSet(Pending(e)) /\ IsFiniteSet(Finals(e))
  BY <1>2, <1>3, FS_Subset
<1> QED
  BY <1>4, FS_CardinalityType DEF Used, Today, Pending

LEMMA UsedLess ==
  ASSUME TypeOK, TypeOK', NEW e, Today(e)' \subseteq Today(e), Pending(e)' \subseteq Pending(e)
  PROVE  Used(e)' <= Used(e)
<1>1. /\ IsFiniteSet(Today(e)) /\ IsFiniteSet(Pending(e))
      /\ Cardinality(Today(e)) \in Nat /\ Cardinality(Pending(e)) \in Nat
      /\ Used(e) = Cardinality(Today(e)) + Cardinality(Pending(e))
  BY UsedType
<1>2. /\ Cardinality(Today(e)') \in Nat /\ Cardinality(Pending(e)') \in Nat
      /\ Used(e)' = Cardinality(Today(e)') + Cardinality(Pending(e)')
  <2>1. /\ IsFiniteSet(Today(e)') /\ IsFiniteSet(Pending(e)')
    BY <1>1, FS_Subset
  <2> QED
    BY <2>1, FS_CardinalityType DEF Used, Today, Pending
<1>3. Cardinality(Today(e)') <= Cardinality(Today(e))
      /\ Cardinality(Pending(e)') <= Cardinality(Pending(e))
  BY <1>1, FS_Subset
<1> QED
  BY <1>1, <1>2, <1>3

LEMMA OneMore ==
  ASSUME NEW S, NEW x, IsFiniteSet(S)
  PROVE  /\ IsFiniteSet(S \cup {x}) /\ Cardinality(S \cup {x}) \in Nat
         /\ Cardinality(S \cup {x}) <= Cardinality(S) + 1
<1>1. Cardinality(S) \in Nat
  BY FS_CardinalityType
<1>2. CASE x \in S
  <2>1. S \cup {x} = S
    BY <1>2
  <2>2. Cardinality(S) <= Cardinality(S) + 1
    BY <1>1
  <2> QED
    BY <1>1, <2>1, <2>2, Zenon
<1>3. CASE x \notin S
  <2>1. IsFiniteSet(S \cup {x}) /\ Cardinality(S \cup {x}) = Cardinality(S) + 1
    BY <1>3, FS_AddElement
  <2> QED
    BY <1>1, <2>1
<1> QED
  BY <1>2, <1>3

(* With one more commit or submission. *)
LEMMA UsedMore ==
  ASSUME TypeOK, NEW e, NEW x,
         \/ Today(e)' \subseteq Today(e) \cup {x} /\ Pending(e)' \subseteq Pending(e)
         \/ Today(e)' \subseteq Today(e) /\ Pending(e)' \subseteq Pending(e) \cup {x}
  PROVE  Used(e)' <= Used(e) + 1
<1>1. /\ IsFiniteSet(Today(e)) /\ IsFiniteSet(Pending(e))
      /\ Cardinality(Today(e)) \in Nat /\ Cardinality(Pending(e)) \in Nat
      /\ Used(e) = Cardinality(Today(e)) + Cardinality(Pending(e))
  BY UsedType
<1>2. /\ IsFiniteSet(Today(e) \cup {x}) /\ Cardinality(Today(e) \cup {x}) <= Cardinality(Today(e)) + 1
      /\ IsFiniteSet(Pending(e) \cup {x})
      /\ Cardinality(Pending(e) \cup {x}) <= Cardinality(Pending(e)) + 1
      /\ Cardinality(Today(e) \cup {x}) \in Nat /\ Cardinality(Pending(e) \cup {x}) \in Nat
  BY <1>1, OneMore
<1>3. ASSUME NEW S, NEW P, NEW S2, NEW P2, IsFiniteSet(S), IsFiniteSet(P), S2 \subseteq S, P2 \subseteq P
      PROVE  /\ Cardinality(S2) \in Nat /\ Cardinality(P2) \in Nat
             /\ Cardinality(S2) <= Cardinality(S) /\ Cardinality(P2) <= Cardinality(P)
  <2>1. IsFiniteSet(S2) /\ IsFiniteSet(P2)
    BY <1>3, FS_Subset
  <2> QED
    BY <1>3, <2>1, FS_Subset, FS_CardinalityType
<1>4. Used(e)' = Cardinality(Today(e)') + Cardinality(Pending(e)')
  BY DEF Used, Today, Pending
<1>5. CASE Today(e)' \subseteq Today(e) \cup {x} /\ Pending(e)' \subseteq Pending(e)
  <2>1. /\ Cardinality(Today(e)') \in Nat /\ Cardinality(Pending(e)') \in Nat
        /\ Cardinality(Today(e)') <= Cardinality(Today(e) \cup {x})
        /\ Cardinality(Pending(e)') <= Cardinality(Pending(e))
    BY <1>1, <1>2, <1>3, <1>5
  <2> QED
    BY <1>1, <1>2, <1>4, <2>1
<1>6. CASE Today(e)' \subseteq Today(e) /\ Pending(e)' \subseteq Pending(e) \cup {x}
  <2>1. /\ Cardinality(Today(e)') \in Nat /\ Cardinality(Pending(e)') \in Nat
        /\ Cardinality(Today(e)') <= Cardinality(Today(e))
        /\ Cardinality(Pending(e)') <= Cardinality(Pending(e) \cup {x})
    BY <1>1, <1>2, <1>3, <1>6
  <2> QED
    BY <1>1, <1>2, <1>4, <2>1
<1> QED
  BY <1>5, <1>6

LEMMA MemberOf == ASSUME NEW u \in Users PROVE u \in PeopleOf(EntryOf(u))
<1>1. CASE TeamOf(u) = Null
  BY <1>1 DEF EntryOf, EntryFor, PeopleOf
<1>2. CASE TeamOf(u) # Null
  BY <1>2, TeamType DEF EntryOf, EntryFor, PeopleOf
<1> QED
  BY <1>1, <1>2

(* An entry of one user uses no more than the team that the user is in. *)
LEMMA EntryMost ==
  ASSUME TypeOK, SettledInv, NEW u \in Users, NEW e \in Entries, u \in PeopleOf(e)
  PROVE  Used(e) <= Used(EntryOf(u))
<1>1. CASE e = EntryOf(u)
  BY <1>1, UsedType
<1>2. CASE e # EntryOf(u)
  <2>1. ASSUME NEW t \in Teams, e = <<"team", t>> PROVE FALSE
    <3>1. u \in Members(t)
      BY <2>1 DEF PeopleOf
    <3>2. TeamOf(u) = t
      BY <3>1, TeamIs DEF SettledInv
    <3> QED
      BY <1>2, <2>1, <3>2, CompetitionAssumption DEF EntryOf, EntryFor
  <2>2. e = <<"user", u>>
    BY <2>1 DEF Entries, PeopleOf
  <2>3. \A i \in DOMAIN subs : subs[i] \in Submission
    BY DEF TypeOK
  <2>4. ASSUME NEW i \in SubmissionsOf(e) PROVE FALSE
    <3>1. i \in DOMAIN subs /\ Of(subs[i]) = <<"user", u>>
      BY <2>2, <2>4 DEF SubmissionsOf
    <3>2. subs[i].user = u
      BY <3>1 DEF Of, EntryFor
    <3> QED
      BY <1>2, <2>2, <3>1, <3>2 DEF SettledInv, Attributed
  <2>5. Today(e) = {} /\ Cardinality(Today(e)) = 0
    BY <2>4, FS_EmptySet DEF Today
  <2>6. u \in PeopleOf(EntryOf(u))
    BY MemberOf
  <2>7. Pending(e) \subseteq Pending(EntryOf(u))
    BY <2>2, <2>6 DEF Pending, ActiveCommits, PeopleOf
  <2>8. Cardinality(Pending(e)) <= Cardinality(Pending(EntryOf(u)))
    <3>1. IsFiniteSet(Pending(EntryOf(u)))
      BY UsedType
    <3> QED
      BY <2>7, <3>1, FS_Subset
  <2>9. /\ Used(e) = Cardinality(Today(e)) + Cardinality(Pending(e))
        /\ Used(EntryOf(u)) = Cardinality(Today(EntryOf(u))) + Cardinality(Pending(EntryOf(u)))
        /\ Cardinality(Pending(e)) \in Nat /\ Cardinality(Pending(EntryOf(u))) \in Nat
        /\ Cardinality(Today(EntryOf(u))) \in Nat
    BY UsedType
  <2> QED
    BY <2>5, <2>8, <2>9
<1> QED
  BY <1>1, <1>2

LEMMA EntryType == ASSUME NEW u \in Users PROVE EntryOf(u) \in Entries
BY TeamType DEF EntryOf, EntryFor, Entries

(* Who is in which team does not change. *)
LEMMA EntriesStay ==
  ASSUME members' = members
  PROVE  \A v : EntryOf(v)' = EntryOf(v) /\ PeopleOf(v)' = PeopleOf(v)
BY DEF TeamsOf, TeamOf, EntryOf, EntryFor, Members, PeopleOf

(* Submissions of an entry, and those that are final, when no submission is added. *)
LEMMA LimitsLess ==
  ASSUME TypeInv, TypeInv', LimitsInv,
         \A e \in Entries : /\ Today(e)' \subseteq Today(e) /\ Pending(e)' \subseteq Pending(e)
                            /\ Finals(e)' \subseteq Finals(e),
         ~Unlocked' => ~Unlocked /\ upload'.user = upload.user /\ members' = members
                       /\ limits' = limits
  PROVE  LimitsInv' /\ StepsLimited
<1>0. TypeOK /\ Working /\ limits.daily \in Nat
      /\ \A e \in Entries : Used(e) \in Nat /\ Used(e)' \in Nat
  <2>1. TypeOK /\ Working /\ limits.daily \in Nat
    BY DEF TypeInv, TypeOK
  <2>2. ASSUME NEW e \in Entries PROVE Used(e)' \in Nat
    <3>1. IsFiniteSet(Today(e)') /\ IsFiniteSet(Pending(e)')
      BY <2>1, UsedType, FS_Subset
    <3> QED
      BY <3>1, FS_CardinalityType DEF Used, Today, Pending
  <2> QED
    BY <2>1, <2>2, UsedType
<1>1. \A e \in Entries : Used(e)' <= Used(e)
  <2> SUFFICES ASSUME NEW e \in Entries PROVE Used(e)' <= Used(e)
    OBVIOUS
  <2>1. TypeOK /\ TypeOK'
    BY DEF TypeInv
  <2> QED
    BY <2>1, UsedLess
<1>2. DailyLimit
  BY <1>0, <1>1 DEF DailyLimit
<1>3. FinalCap
  <2> SUFFICES ASSUME NEW e \in Entries
               PROVE  ~(Cardinality(Finals(e)') > Cardinality(Finals(e)))
    BY DEF FinalCap
  <2>1. IsFiniteSet(Finals(e)) /\ Cardinality(Finals(e)) \in Nat
    BY <1>0, UsedType
  <2>2. IsFiniteSet(Finals(e)') /\ Cardinality(Finals(e)') <= Cardinality(Finals(e))
    BY <2>1, FS_Subset
  <2>3. Cardinality(Finals(e)') \in Nat
    BY <2>2, FS_CardinalityType
  <2> QED
    BY <2>1, <2>2, <2>3
<1>4. ASSUME ~Unlocked' PROVE (Used(EntryOf(upload.user)) < limits.daily)'
  <2>1. /\ upload.user \in Users /\ Used(EntryOf(upload.user)) < limits.daily
        /\ EntryOf(upload.user)' = EntryOf(upload.user) /\ limits' = limits
    BY <1>0, <1>4, EntriesStay DEF Working, LimitsInv
  <2> DEFINE e == EntryOf(upload.user)
  <2>2. e \in Entries
    BY <2>1, EntryType
  <2> QED
    BY <1>0, <1>1, <2>1, <2>2
<1> QED
  BY <1>2, <1>3, <1>4 DEF LimitsInv, StepsLimited

(* A new submission, for one who has their place in the day: either an upload *)
(* of theirs, or the commit that ends with it.                                *)
LEMMA LimitsNew ==
  ASSUME TypeInv, TypeInv', LimitsInv, NEW u \in Users, NEW commit \in Nat,
         NewSubmission(u, commit), members' = members, clock' = clock, Unlocked',
         limits' = limits,
         \/ commits' = commits /\ Used(EntryOf(u)) < limits.daily
         \/ \E c \in ActiveCommits({u}) :
               \A e : Pending(e)' \subseteq Pending(e) \ {c}
  PROVE  LimitsInv' /\ StepsLimited
<1> DEFINE last == Len(subs) + 1
<1>0. /\ TypeOK /\ TypeOK' /\ limits.daily \in Nat /\ Len(subs) \in Nat
      /\ DOMAIN subs' = DOMAIN subs \cup {last}
      /\ \A i \in DOMAIN subs : subs'[i] = subs[i]
      /\ subs'[last].user = u /\ subs'[last].team = TeamOf(u) /\ subs'[last].final = FALSE
      /\ \A e : Used(e) \in Nat /\ Used(e)' \in Nat
  <2>1. TypeOK /\ TypeOK'
    BY DEF TypeInv
  <2>2. Len(subs) \in Nat /\ limits.daily \in Nat
    BY <2>1 DEF TypeOK
  <2>3. \A e : Used(e) \in Nat
    BY <2>1, UsedType
  <2>4. ASSUME NEW e PROVE Used(e)' \in Nat
    <3>1. /\ DOMAIN subs' = 1 .. Len(subs') /\ Len(subs') \in Nat
          /\ DOMAIN commits' = 1 .. Len(commits') /\ Len(commits') \in Nat
      BY <2>1 DEF TypeOK
    <3>2. IsFiniteSet(1 .. Len(subs')) /\ IsFiniteSet(1 .. Len(commits'))
      BY <3>1, FS_Interval
    <3>3. Today(e)' \subseteq 1 .. Len(subs') /\ Pending(e)' \subseteq 1 .. Len(commits')
      BY <3>1 DEF Today, Pending, SubmissionsOf, ActiveCommits
    <3>4. Cardinality(Today(e)') \in Nat /\ Cardinality(Pending(e)') \in Nat
      BY <3>2, <3>3, FS_Subset, FS_CardinalityType
    <3> QED
      BY <3>4 DEF Used, Today, Pending
  <2> QED
    BY <2>1, <2>2, <2>3, <2>4, NewType
<1>1. Of(subs'[last]) = EntryOf(u)
  BY <1>0 DEF Of, EntryOf
<1>2. \A e : SubmissionsOf(e)' = SubmissionsOf(e) \cup (IF e = EntryOf(u) THEN {last} ELSE {})
  BY <1>0, <1>1 DEF SubmissionsOf, Of
<1>3. last \notin DOMAIN subs
  BY <1>0 DEF TypeOK
<1>4. ASSUME NEW e
      PROVE  /\ Finals(e)' = Finals(e)
             /\ Today(e)' \subseteq Today(e) \cup {last}
             /\ e # EntryOf(u) => Today(e)' = Today(e)
  <2>1. \A i \in SubmissionsOf(e) : subs'[i] = subs[i] /\ i # last
    BY <1>0, <1>3 DEF SubmissionsOf
  <2>2. Finals(e)' = Finals(e)
    BY <1>0, <1>2, <2>1 DEF Finals
  <2>3. Today(e)' \subseteq Today(e) \cup {last} /\ (e # EntryOf(u) => Today(e)' = Today(e))
    BY <1>0, <1>2, <2>1 DEF Today
  <2> QED
    BY <2>2, <2>3
<1>5. FinalCap
  <2> SUFFICES ASSUME NEW e \in Entries
               PROVE  ~(Cardinality(Finals(e)') > Cardinality(Finals(e)))
    BY DEF FinalCap
  <2>1. Finals(e)' = Finals(e) /\ Cardinality(Finals(e)) \in Nat
    BY <1>0, <1>4, UsedType
  <2> QED
    BY <2>1
<1>6. ASSUME NEW e \in Entries PROVE Used(e)' <= Used(e) \/ Used(e)' <= limits.daily
  <2>1. CASE e # EntryOf(u)
    <3>1. Pending(e)' \subseteq Pending(e)
      BY EntriesStay DEF Pending, ActiveCommits
    <3>2. Used(e)' <= Used(e)
      BY <1>0, <1>4, <2>1, <3>1, UsedLess
    <3> QED
      BY <3>2
  <2>2. CASE e = EntryOf(u) /\ commits' = commits /\ Used(EntryOf(u)) < limits.daily
    <3>1. Pending(e)' \subseteq Pending(e)
      BY <2>2, EntriesStay DEF Pending, ActiveCommits
    <3>2. Used(e)' <= Used(e) + 1
      BY <1>0, <1>4, <3>1, UsedMore
    <3> QED
      BY <1>0, <2>2, <3>2
  <2>3. ASSUME e = EntryOf(u), NEW c \in ActiveCommits({u}), Pending(e)' \subseteq Pending(e) \ {c}
        PROVE  Used(e)' <= Used(e)
    <3>1. c \in Pending(e)
      BY <2>3, MemberOf DEF Pending, ActiveCommits
    <3>2. /\ IsFiniteSet(Today(e)) /\ IsFiniteSet(Pending(e))
          /\ Cardinality(Today(e)) \in Nat /\ Cardinality(Pending(e)) \in Nat
          /\ Used(e) = Cardinality(Today(e)) + Cardinality(Pending(e))
      BY <1>0, UsedType
    <3>3. /\ IsFiniteSet(Pending(e) \ {c})
          /\ Cardinality(Pending(e) \ {c}) = Cardinality(Pending(e)) - 1
      BY <3>1, <3>2, FS_RemoveElement
    <3>4. /\ IsFiniteSet(Today(e) \cup {last})
          /\ Cardinality(Today(e) \cup {last}) <= Cardinality(Today(e)) + 1
      BY <3>2, OneMore
    <3>5. /\ Cardinality(Pending(e)') \in Nat /\ Cardinality(Today(e)') \in Nat
          /\ Cardinality(Pending(e)') <= Cardinality(Pending(e) \ {c})
          /\ Cardinality(Today(e)') <= Cardinality(Today(e) \cup {last})
      <4>1. IsFiniteSet(Pending(e)') /\ Cardinality(Pending(e)') <= Cardinality(Pending(e) \ {c})
        BY <2>3, <3>3, FS_Subset
      <4>2. IsFiniteSet(Today(e)') /\ Cardinality(Today(e)') <= Cardinality(Today(e) \cup {last})
        BY <1>4, <3>4, FS_Subset
      <4> QED
        BY <4>1, <4>2, FS_CardinalityType
    <3>6. Cardinality(Today(e) \cup {last}) \in Nat
      BY <3>4, FS_CardinalityType
    <3>7. Used(e)' = Cardinality(Today(e)') + Cardinality(Pending(e)')
      BY DEF Used, Today, Pending
    <3> QED
      BY <1>0, <3>2, <3>3, <3>4, <3>5, <3>6, <3>7
  <2> QED
    BY <2>1, <2>2, <2>3
<1> QED
  BY <1>0, <1>5, <1>6 DEF LimitsInv, StepsLimited, DailyLimit

(* A new commit takes a place of the day of its user. *)
LEMMA LimitsQueued ==
  ASSUME TypeInv, TypeInv', LimitsInv, SettledInv, NEW u \in Users, NEW n \in Notebooks,
         CreateCommit(u, n)
  PROVE  LimitsInv' /\ StepsLimited
<1> DEFINE last == Len(commits) + 1
<1>0. /\ TypeOK /\ TypeOK' /\ limits.daily \in Nat
      /\ \A e : Used(e) \in Nat
      /\ UNCHANGED <<subs, members, clock, upload, limits>> /\ Unlocked
      /\ Used(EntryOf(u)) < limits.daily
  <2>1. TypeOK /\ TypeOK'
    BY DEF TypeInv
  <2> QED
    BY <2>1, UsedType DEF TypeOK, CreateCommit, CommitsUnchanged
<1>1. /\ DOMAIN commits' = DOMAIN commits \cup {last}
      /\ \A c \in DOMAIN commits : commits'[c] = commits[c]
      /\ commits'[last].user = u
  <2>1. commits \in Seq(Commit) /\ DOMAIN commits = 1 .. Len(commits) /\ Len(commits) \in Nat
    BY <1>0 DEF TypeOK
  <2>2. [user |-> u, notebook |-> n, status |-> "queued"] \in Commit
    BY DEF Commit, CommitStatus, Active
  <2>3. /\ Len(commits') = Len(commits) + 1 /\ commits' \in Seq(Commit)
        /\ \A c \in 1 .. Len(commits) : commits'[c] = commits[c]
        /\ commits'[last] = [user |-> u, notebook |-> n, status |-> "queued"]
    BY <2>1, <2>2, AppendProperties DEF CreateCommit
  <2>4. DOMAIN commits' = 1 .. Len(commits) + 1
    BY <2>3
  <2> QED
    BY <2>1, <2>3, <2>4
<1>2. ASSUME NEW e
      PROVE  /\ Finals(e)' = Finals(e) /\ Today(e)' \subseteq Today(e)
             /\ Pending(e)' \subseteq Pending(e) \cup {last}
             /\ u \notin PeopleOf(e) => Pending(e)' \subseteq Pending(e)
  <2>1. SubmissionsOf(e)' = SubmissionsOf(e) /\ PeopleOf(e)' = PeopleOf(e)
    BY <1>0, EntriesStay DEF SubmissionsOf, Of, EntryFor
  <2>2. Finals(e)' = Finals(e) /\ Today(e)' \subseteq Today(e)
    BY <1>0, <2>1 DEF Finals, Today
  <2> QED
    BY <1>1, <2>1, <2>2 DEF Pending, ActiveCommits
<1>3. FinalCap
  <2> SUFFICES ASSUME NEW e \in Entries
               PROVE  ~(Cardinality(Finals(e)') > Cardinality(Finals(e)))
    BY DEF FinalCap
  <2>1. Finals(e)' = Finals(e) /\ Cardinality(Finals(e)) \in Nat
    BY <1>0, <1>2, UsedType
  <2> QED
    BY <2>1
<1>4. ASSUME NEW e \in Entries
      PROVE  /\ Used(e)' \in Nat
             /\ Used(e)' <= Used(e) \/ Used(e)' <= limits.daily
  <2>1. IsFiniteSet(Today(e)) /\ IsFiniteSet(Pending(e))
    BY <1>0, UsedType
  <2>2. Used(e)' \in Nat
    <3>1. IsFiniteSet(Pending(e) \cup {last})
      BY <2>1, OneMore
    <3>2. IsFiniteSet(Today(e)') /\ IsFiniteSet(Pending(e)')
      BY <1>2, <2>1, <3>1, FS_Subset
    <3> QED
      BY <3>2, FS_CardinalityType DEF Used, Today, Pending
  <2>3. CASE u \in PeopleOf(e)
    <3>1. Used(e) < limits.daily
      <4>1. Used(e) <= Used(EntryOf(u))
        BY <1>0, <2>3, EntryMost
      <4> QED
        BY <1>0, <4>1
    <3>2. Used(e)' <= Used(e) + 1
      BY <1>0, <1>2, UsedMore
    <3> QED
      BY <1>0, <2>2, <3>1, <3>2
  <2>4. CASE u \notin PeopleOf(e)
    <3>1. Used(e)' <= Used(e)
      BY <1>0, <1>2, <2>4, UsedLess
    <3> QED
      BY <1>0, <2>1, <2>2, <3>1
  <2> QED
    BY <2>2, <2>3, <2>4
<1>5. Unlocked'
  BY <1>0 DEF Unlocked
<1> QED
  BY <1>0, <1>3, <1>4, <1>5 DEF LimitsInv, StepsLimited, DailyLimit

(* A user who may still move has no part in what an entry has used. *)
LEMMA LimitsTeams ==
  ASSUME TypeInv, TypeInv', LimitsInv, SettledInv, NEW u \in Users, NEW t \in Teams,
         CreateTeam(u, t) \/ JoinTeam(u, t) \/ LeaveTeam(u, t)
  PROVE  LimitsInv' /\ StepsLimited
<1>1. TypeOK /\ TypeOK'
  BY DEF TypeInv
<1>2. /\ ~TeamLocked(u) /\ Unlocked /\ TeamUnchanged
      /\ \A s \in Teams \ {t} : members'[s] = members[s]
      /\ Members(t)' \subseteq Members(t) \cup {u}
  BY <1>1, TeamMove
<1>3. ActiveCommits({u}) = {}
  BY <1>2, UnlockedTeam
<1>4. ASSUME NEW e \in Entries
      PROVE  /\ Today(e)' = Today(e) /\ Finals(e)' = Finals(e)
             /\ Pending(e)' \subseteq Pending(e)
  <2>1. SubmissionsOf(e)' = SubmissionsOf(e)
    BY <1>2 DEF TeamUnchanged, SubmissionsOf, Of, EntryFor
  <2>2. Today(e)' = Today(e) /\ Finals(e)' = Finals(e)
    BY <1>2, <2>1 DEF TeamUnchanged, Today, Finals
  <2>3. PeopleOf(e)' \subseteq PeopleOf(e) \cup {u}
    <3>1. CASE e[1] = "team"
      <4>1. e[2] \in Teams /\ PeopleOf(e) = Members(e[2]) /\ PeopleOf(e)' = Members(e[2])'
        BY <3>1 DEF Entries, PeopleOf
      <4>2. e[2] # t => Members(e[2])' = Members(e[2])
        BY <1>2, <4>1 DEF Members
      <4> QED
        BY <1>2, <4>1, <4>2
    <3>2. CASE e[1] # "team"
      BY <3>2 DEF PeopleOf
    <3> QED
      BY <3>1, <3>2
  <2>4. Pending(e)' \subseteq Pending(e)
    <3>1. commits' = commits
      BY <1>2 DEF TeamUnchanged
    <3>2. ASSUME NEW c \in Pending(e)'
          PROVE  c \in Pending(e)
      <4>1. /\ c \in DOMAIN commits /\ commits[c].status \in Active
            /\ commits[c].user \in PeopleOf(e) \cup {u}
        BY <2>3, <3>1, <3>2 DEF Pending, ActiveCommits
      <4>2. commits[c].user # u
        BY <1>3, <4>1 DEF ActiveCommits
      <4> QED
        BY <4>1, <4>2 DEF Pending, ActiveCommits
    <3> QED
      BY <3>2
  <2> QED
    BY <2>2, <2>4
<1>5. Unlocked'
  BY <1>2 DEF TeamUnchanged, Unlocked
<1> QED
  BY <1>4, <1>5, LimitsLess

(* The parts of the limits that depend on who is where and on what is submitted. *)
LEMMA PartsSame ==
  ASSUME members' = members, clock' = clock, DOMAIN subs' = DOMAIN subs,
         \A i \in DOMAIN subs : subs'[i].user = subs[i].user /\ subs'[i].team = subs[i].team
                                /\ subs'[i].day = subs[i].day,
         DOMAIN commits' = DOMAIN commits,
         \A c \in DOMAIN commits :
             /\ commits'[c].user = commits[c].user
             /\ commits'[c].status \in Active => commits[c].status \in Active,
         NEW e
  PROVE  /\ SubmissionsOf(e)' = SubmissionsOf(e) /\ Today(e)' = Today(e)
         /\ Pending(e)' \subseteq Pending(e)
<1>1. SubmissionsOf(e)' = SubmissionsOf(e)
  BY DEF SubmissionsOf, Of, EntryFor
<1>2. Today(e)' = Today(e)
  BY <1>1 DEF Today, SubmissionsOf
<1>3. Pending(e)' \subseteq Pending(e)
  BY EntriesStay DEF Pending, ActiveCommits
<1> QED
  BY <1>1, <1>2, <1>3

LEMMA LimitsSame ==
  ASSUME TypeInv, TypeInv', LimitsInv,
         members' = members, clock' = clock, DOMAIN subs' = DOMAIN subs,
         \A i \in DOMAIN subs : subs'[i].user = subs[i].user /\ subs'[i].team = subs[i].team
                                /\ subs'[i].day = subs[i].day /\ subs'[i].final = subs[i].final,
         DOMAIN commits' = DOMAIN commits,
         \A c \in DOMAIN commits :
             /\ commits'[c].user = commits[c].user
             /\ commits'[c].status \in Active => commits[c].status \in Active,
         ~Unlocked' => ~Unlocked /\ upload'.user = upload.user /\ limits' = limits
  PROVE  LimitsInv' /\ StepsLimited
<1>1. ASSUME NEW e \in Entries
      PROVE  /\ Today(e)' \subseteq Today(e) /\ Pending(e)' \subseteq Pending(e)
             /\ Finals(e)' \subseteq Finals(e)
  <2>1. SubmissionsOf(e)' = SubmissionsOf(e) /\ Today(e)' = Today(e)
        /\ Pending(e)' \subseteq Pending(e)
    BY PartsSame
  <2> QED
    BY <2>1 DEF Finals, SubmissionsOf
<1> QED
  BY <1>1, LimitsLess DEF TypeInv

(* At most max_final_submissions are selected. *)
LEMMA LimitsSelect ==
  ASSUME TypeInv, TypeInv', LimitsInv, NEW u \in Users, NEW i \in DOMAIN subs,
         NEW selected \in BOOLEAN, SelectFinal(u, i, selected)
  PROVE  LimitsInv' /\ StepsLimited
<1>0. /\ TypeOK /\ TypeOK' /\ limits.final \in Nat
      /\ UNCHANGED <<members, clock, commits, upload, limits>> /\ Unlocked
      /\ subs' = [subs EXCEPT ![i].final = selected]
      /\ \A j \in DOMAIN subs : subs[j] \in Submission
  <2>1. TypeOK /\ TypeOK' /\ limits.final \in Nat
    BY DEF TypeInv, TypeOK
  <2>2. \A j \in DOMAIN subs : subs[j] \in Submission
    BY <2>1 DEF TypeOK
  <2> QED
    BY <2>1, <2>2 DEF SelectFinal
<1>1. /\ DOMAIN subs' = DOMAIN subs
      /\ \A j \in DOMAIN subs :
             /\ subs'[j].user = subs[j].user /\ subs'[j].team = subs[j].team
             /\ subs'[j].day = subs[j].day
             /\ j # i => subs'[j].final = subs[j].final
      /\ subs'[i].final = selected
  BY <1>0 DEF Submission
<1>2. ASSUME NEW e
      PROVE  /\ SubmissionsOf(e)' = SubmissionsOf(e) /\ Today(e)' = Today(e)
             /\ Pending(e)' \subseteq Pending(e)
  BY <1>0, <1>1, PartsSame
<1>3. DailyLimit
  <2> SUFFICES ASSUME NEW e \in Entries PROVE ~(Used(e)' > Used(e))
    BY DEF DailyLimit
  <2>1. IsFiniteSet(Today(e)') /\ IsFiniteSet(Pending(e)')
    BY <1>0, <1>2, UsedType, FS_Subset
  <2>2. Used(e)' \in Nat /\ Used(e) \in Nat
    BY <1>0, <2>1, UsedType, FS_CardinalityType DEF Used, Today, Pending
  <2>3. Used(e)' <= Used(e)
    BY <1>0, <1>2, UsedLess
  <2> QED
    BY <2>2, <2>3
<1>4. FinalCap
  <2> SUFFICES ASSUME NEW e \in Entries
               PROVE  \/ Cardinality(Finals(e)') <= limits.final
                      \/ ~(Cardinality(Finals(e)') > Cardinality(Finals(e)))
    BY <1>0 DEF FinalCap
  <2>1. IsFiniteSet(Finals(e)) /\ Cardinality(Finals(e)) \in Nat
    BY <1>0, UsedType
  <2>2. CASE Finals(e)' \subseteq Finals(e)
    <3>1. IsFiniteSet(Finals(e)') /\ Cardinality(Finals(e)') <= Cardinality(Finals(e))
      BY <2>1, <2>2, FS_Subset
    <3> QED
      BY <1>0, <2>1, <3>1, FS_CardinalityType
  <2>3. CASE ~(Finals(e)' \subseteq Finals(e))
    <3>1. /\ i \in SubmissionsOf(e) /\ selected /\ ~subs[i].final
          /\ Finals(e)' \subseteq Finals(e) \cup {i}
      BY <1>1, <1>2, <2>3 DEF Finals, SubmissionsOf
    <3>2. Cardinality(Finals(e)) < limits.final
      BY <3>1 DEF SelectFinal, SubmissionsOf, Finals
    <3>3. /\ IsFiniteSet(Finals(e) \cup {i}) /\ Cardinality(Finals(e) \cup {i}) \in Nat
          /\ Cardinality(Finals(e) \cup {i}) <= Cardinality(Finals(e)) + 1
      BY <2>1, OneMore
    <3>4. /\ IsFiniteSet(Finals(e)')
          /\ Cardinality(Finals(e)') <= Cardinality(Finals(e) \cup {i})
      BY <3>1, <3>3, FS_Subset
    <3>5. Cardinality(Finals(e)') \in Nat
      BY <3>4, FS_CardinalityType
    <3> QED
      BY <1>0, <2>1, <3>2, <3>3, <3>4, <3>5
  <2> QED
    BY <2>2, <2>3
<1>5. Unlocked'
  BY <1>0 DEF Unlocked
<1> QED
  BY <1>3, <1>4, <1>5 DEF LimitsInv, StepsLimited

(* A new day starts with what is pending: no submission is of a day to come. *)
LEMMA LimitsDay ==
  ASSUME TypeInv, TypeInv', LimitsInv, ScoredInv, NextDay
  PROVE  LimitsInv' /\ StepsLimited
<1>1. /\ TypeOK /\ TypeOK' /\ clock \in Nat /\ clock' = clock + 1
      /\ UNCHANGED <<members, subs, commits, upload, limits>>
      /\ \A i \in DOMAIN subs : subs[i] \in Submission
  BY DEF TypeInv, TypeOK, NextDay
<1>2. \A i \in DOMAIN subs : subs[i].day \in Nat /\ subs[i].day <= clock
  BY <1>1 DEF Submission, ScoredInv
<1>3. ASSUME NEW e \in Entries
      PROVE  /\ Today(e)' \subseteq Today(e) /\ Pending(e)' \subseteq Pending(e)
             /\ Finals(e)' \subseteq Finals(e)
  <2>1. SubmissionsOf(e)' = SubmissionsOf(e)
    BY <1>1 DEF SubmissionsOf, Of, EntryFor
  <2>2. Today(e)' = {}
    BY <1>1, <1>2, <2>1 DEF Today, SubmissionsOf
  <2>3. Finals(e)' = Finals(e)
    BY <1>1, <2>1 DEF Finals
  <2>4. Pending(e)' = Pending(e)
    BY <1>1, EntriesStay DEF Pending, ActiveCommits
  <2> QED
    BY <2>2, <2>3, <2>4
<1>4. ~Unlocked' => ~Unlocked /\ upload'.user = upload.user /\ members' = members
                   /\ limits' = limits
  BY <1>1 DEF Unlocked
<1> QED
  BY <1>1, <1>3, <1>4, LimitsLess

LEMMA StepLimits ==
  ASSUME TypeInv, SettledInv, ScoredInv, LimitsInv, [Next]_vars
  PROVE  LimitsInv' /\ StepsLimited
<1>0. /\ TypeOK /\ Working /\ TypeInv'
      /\ DOMAIN commits = 1 .. Len(commits) /\ Len(commits) \in Nat
      /\ worker.job \in 0 .. Len(commits)
      /\ \A c \in DOMAIN commits : commits[c] \in Commit
  <2>1. TypeOK /\ Working /\ TypeInv'
    BY StepType DEF TypeInv
  <2> QED
    BY <2>1 DEF TypeOK
<1>1. ASSUME UNCHANGED <<members, clock, subs, commits>>,
             ~Unlocked' => ~Unlocked /\ upload'.user = upload.user /\ limits' = limits
      PROVE  LimitsInv' /\ StepsLimited
  BY <1>0, <1>1, LimitsSame
<1>2. CASE \E u \in Users, t \in Teams : CreateTeam(u, t) \/ JoinTeam(u, t) \/ LeaveTeam(u, t)
  BY <1>0, <1>2, LimitsTeams
<1>3. CASE \E u \in Users, large \in BOOLEAN : SubmitBegin(u, large)
  <2> PICK u \in Users, large \in BOOLEAN : SubmitBegin(u, large)
    BY <1>3
  <2>1. /\ UNCHANGED <<members, clock, subs, commits, limits>>
        /\ upload' = [user |-> u, large |-> large, waiting |-> Null]
        /\ Used(EntryOf(u)) < limits.daily
    BY DEF SubmitBegin, UploadUnchanged
  <2>2. \A e : SubmissionsOf(e)' = SubmissionsOf(e) /\ PeopleOf(e)' = PeopleOf(e)
               /\ EntryOf(e)' = EntryOf(e)
    BY <2>1, EntriesStay DEF SubmissionsOf, Of, EntryFor
  <2>3. \A e : Used(e)' = Used(e)
    BY <2>1, <2>2 DEF Used, ActiveCommits
  <2>4. StepsLimited
    <3>1. \A e : Used(e) \in Nat /\ Cardinality(Finals(e)) \in Nat
      BY <1>0, UsedType
    <3>2. \A e : Finals(e)' = Finals(e)
      BY <2>1, <2>2 DEF Finals
    <3> QED
      BY <2>3, <3>1, <3>2 DEF StepsLimited, DailyLimit, FinalCap
  <2>5. upload'.user = u
    BY <2>1
  <2>6. (Used(EntryOf(upload.user)) < limits.daily)'
    BY <2>1, <2>2, <2>3, <2>5
  <2> QED
    BY <2>4, <2>6 DEF LimitsInv
<1>4. CASE SubmitCommit
  <2>1. /\ upload.user \in Users /\ NewSubmission(upload.user, 0)
        /\ UNCHANGED <<members, clock, commits, limits>> /\ Unlocked'
        /\ Used(EntryOf(upload.user)) < limits.daily
    BY <1>0, <1>4
    DEF SubmitCommit, Resumable, Working, UploadUnchanged, LimitsInv, Unlocked, NoUpload
  <2> QED
    BY <1>0, <2>1, LimitsNew
<1>5. CASE CompleteCommit
  <2> DEFINE c == worker.job
             u == commits[worker.job].user
  <2>1. /\ c \in Nat /\ c \in DOMAIN commits /\ u \in Users /\ commits[c].status = "running"
        /\ NewSubmission(u, c) /\ UNCHANGED <<members, clock, upload, limits>> /\ Unlocked
        /\ commits' = [commits EXCEPT ![c].status = "succeeded"]
    BY <1>0, <1>5 DEF CompleteCommit, CommitsUnchanged, Working, Commit
  <2>2. c \in ActiveCommits({u})
    BY <2>1 DEF ActiveCommits, Active
  <2>3. /\ DOMAIN commits' = DOMAIN commits
        /\ \A k \in DOMAIN commits :
               /\ commits'[k].user = commits[k].user
               /\ commits'[k].status = IF k = c THEN "succeeded" ELSE commits[k].status
    BY <1>0, <2>1, StatusType DEF CommitStatus
  <2>4. ASSUME NEW e PROVE Pending(e)' \subseteq Pending(e) \ {c}
    BY <2>1, <2>3, EntriesStay DEF Pending, ActiveCommits, Active
  <2>5. Unlocked'
    BY <2>1 DEF Unlocked
  <2> HIDE DEF c, u
  <2> QED
    BY <1>0, <2>1, <2>2, <2>4, <2>5, LimitsNew
<1>6. CASE \E u \in Users, i \in DOMAIN subs, selected \in BOOLEAN : SelectFinal(u, i, selected)
  BY <1>0, <1>6, LimitsSelect
<1>7. CASE \E u \in Users, n \in Notebooks : CreateCommit(u, n)
  BY <1>0, <1>7, LimitsQueued
<1>8. ASSUME NEW c \in DOMAIN commits, NEW status \in CommitStatus,
             commits' = [commits EXCEPT ![c].status = status],
             status \in Active => commits[c].status \in Active,
             UNCHANGED <<members, clock, subs, upload, limits>>
      PROVE  LimitsInv' /\ StepsLimited
  <2>1. /\ DOMAIN commits' = DOMAIN commits
        /\ \A k \in DOMAIN commits :
               /\ commits'[k].user = commits[k].user
               /\ commits'[k].status = IF k = c THEN status ELSE commits[k].status
    BY <1>0, <1>8, StatusType
  <2> QED
    BY <1>0, <1>8, <2>1, LimitsSame DEF Unlocked
<1>9. CASE \E c \in DOMAIN commits : CancelCommit(c)
  <2> PICK c \in DOMAIN commits : CancelCommit(c)
    BY <1>9
  <2> QED
    BY <1>8 DEF CancelCommit, CommitStatus, CommitsUnchanged
<1>10. CASE WorkerClaim
  <2> PICK c \in DOMAIN commits : /\ commits[c].status = "queued"
                                  /\ commits' = [commits EXCEPT ![c].status = "running"]
    BY <1>10 DEF WorkerClaim
  <2>1. UNCHANGED <<members, clock, subs, upload, limits>>
    BY <1>10 DEF WorkerClaim, CommitsUnchanged
  <2> QED
    BY <1>8, <2>1 DEF CommitStatus, Active
<1>11. CASE RecordFailure
  <2>1. worker.job \in DOMAIN commits /\ UNCHANGED <<members, clock, subs, upload, limits>>
    BY <1>0, <1>11 DEF RecordFailure, Working, CommitsUnchanged
  <2>2. CASE commits' = commits
    BY <1>1, <2>1, <2>2 DEF Unlocked
  <2>3. CASE commits' = [commits EXCEPT ![worker.job].status = "failed"]
    BY <1>8, <2>1, <2>3 DEF CommitStatus, Active
  <2> QED
    BY <1>11, <2>2, <2>3 DEF RecordFailure
<1>12. CASE WorkerRestart
  <2>1. /\ DOMAIN commits' = DOMAIN commits
        /\ \A k \in DOMAIN commits :
               /\ commits'[k].user = commits[k].user
               /\ commits'[k].status = IF commits[k].status = "running" THEN "failed"
                                       ELSE commits[k].status
    BY <1>0, <1>12, RestartType
  <2>2. UNCHANGED <<members, clock, subs, upload, limits>>
    BY <1>12 DEF WorkerRestart, CommitsUnchanged
  <2> QED
    BY <1>0, <2>1, <2>2, LimitsSame DEF Active, Unlocked
<1>13. ASSUME NEW f \in Rescorings, Rescore(f)
       PROVE  LimitsInv' /\ StepsLimited
  <2>1. UNCHANGED <<members, clock, commits, upload, limits>>
    BY <1>13 DEF Rescore, HostUnchanged
  <2> QED
    BY <1>0, <1>13, <2>1, RescoreType, LimitsSame DEF Unlocked
<1>14. CASE NextDay
  BY <1>0, <1>14, LimitsDay
<1>15. CASE \E u \in Users : SubmitBlocks(u)
  <2>1. /\ UNCHANGED <<members, clock, subs, commits, limits>>
        /\ ~Unlocked /\ upload'.user = upload.user
    BY <1>0, <1>15 DEF SubmitBlocks, UploadUnchanged, Unlocked, NoUpload, TypeOK, Upload
  <2> QED
    BY <1>1, <2>1
<1>16. CASE SubmitReject
  BY <1>1, <1>16 DEF SubmitReject, UploadUnchanged, Unlocked
<1>17. CASE UNCHANGED <<members, clock, subs, commits, upload, limits>>
  BY <1>1, <1>17 DEF Unlocked
<1>18. CASE \E s \in Timelines, new \in Limits : UpdateSettings(s, new)
  BY <1>1, <1>18 DEF UpdateSettings, HostUnchanged, Unlocked
<1> QED
  BY <1>2, <1>3, <1>4, <1>5, <1>6, <1>7, <1>9, <1>10, <1>11, <1>12, <1>13, <1>14, <1>15, <1>16,
     <1>17, <1>18
  DEF Next, Participant, CommitWorker, Host, Join, CompleteNothing, WorkerDone, WorkerFails,
      CommitsUnchanged, UpdateRules, Disqualify, Reinstate, UpdateOverview,
      FinalizeNow, HostUnchanged, vars

(* Nobody gets another score out of a day, or another final submission, beyond what the  *)
(* competition allows at that moment.                                                     *)
THEOREM Limited == Spec => LimitsKept
<1>1. TypeInv /\ SettledInv /\ ScoredInv /\ LimitsInv /\ [Next]_vars
      => TypeInv' /\ SettledInv' /\ ScoredInv' /\ LimitsInv' /\ [DailyLimit /\ FinalCap]_vars
  BY StepType, StepSettled, StepScored, StepLimits DEF StepsLimited
<1> QED
  BY <1>1, InitType, InitSettled, InitScored, InitLimits, PTL DEF Spec, LimitsKept

===============================================================================
