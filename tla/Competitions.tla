----------------------------- MODULE Competitions -----------------------------
(***************************************************************************)
(* One hosted competition: entries and rules, teams, CSV submissions,      *)
(* notebook commits and their worker, final selection, the host's tools    *)
(* and the stored final results (competition_*.py, team_scoring.py,        *)
(* notebook_commits.py and submit() and join() of main.py).                *)
(*                                                                         *)
(* Handlers that take the competition row FOR UPDATE are one action, and   *)
(* wait while an upload holds it.  An upload is two: the checks, and the   *)
(* insert after the file has been read and scored.  It runs on the event   *)
(* loop of the API process, the other handlers in threads beside it.  The  *)
(* commit worker is a process of its own.  A unit of time is a day.        *)
(***************************************************************************)
EXTENDS Integers, Sequences, FiniteSets, SequencesExt

CONSTANTS
    Users, Teams,
    Null,
    Timelines,      \* the timelines a host may set
    Scores,         \* the public and private scores a prediction may have; higher is better
    Rescorings,     \* what new answers or a new metric make of them
    Limits,         \* the daily and final limits a host may set
    Notebooks,      \* the notebooks of one user
    MaxSubmissions, \* bound: submissions rows
    MaxCommits,     \* bound: notebook_commits rows
    MaxBanned,      \* bound: disqualifications at a time
    MaxTime         \* bound: days

ASSUME CompetitionAssumption ==
    /\ IsFiniteSet(Users) /\ Null \notin Users \cup Teams
    /\ Timelines \subseteq [starts : Nat, entry : Nat, merger : Nat, ends : Nat]
    /\ Timelines # {}
    /\ Scores \subseteq [public : Nat, private : Nat] /\ Rescorings \subseteq [Scores -> Scores]
    /\ Limits \subseteq [daily : Nat \ {0}, final : Nat \ {0}] /\ Limits # {}
    /\ MaxSubmissions \in Nat /\ MaxCommits \in Nat /\ MaxBanned \in Nat /\ MaxTime \in Nat

VARIABLES
    clock,
    times,       \* overview.starts_at, entry_deadline, merger_deadline, deadline
    limits,      \* max_daily_submissions, max_final_submissions
    entry,       \* [Users -> the entry, and which revision of the rules it accepted]
    members,     \* [Teams -> the members, in the order they joined]
    owner,       \* [Teams -> owner_id, Null where there is no team]
    subs,        \* submissions, with the team they are attached to
    commits,     \* notebook_commits
    worker,      \* commit_worker()
    upload,      \* the upload that holds the competition row
    dq,          \* disqualified leaderboard entries
    finalized,   \* finalized_at, 0 for null
    results      \* competition_results, per user

vars == <<clock, times, limits, entry, members, owner, subs, commits, worker, upload,
          dq, finalized, results>>

Active == {"queued", "running"}
CommitStatus == Active \cup {"succeeded", "failed", "cancelled"}
Entries == ({"team"} \X Teams) \cup ({"user"} \X Users)
Submission == [user : Users, team : Teams \cup {Null}, day : Nat, score : Scores,
               final : BOOLEAN, commit : Nat]
Commit == [user : Users, notebook : Notebooks, status : CommitStatus]
NoResult == [rank |-> 0, entry |-> <<>>, entries |-> 0]
(* A file that is larger than 1 MB has been spooled to a disk; "waiting" is  *)
(* the user of a second upload that blocks the event loop until it gets the  *)
(* row.                                                                      *)
Upload == [user : Users \cup {Null}, large : BOOLEAN, waiting : Users \cup {Null}]
NoUpload == [user |-> Null, large |-> FALSE, waiting |-> Null]
NoWork == [pc |-> "idle", job |-> 0, seen |-> "queued"]

(* The competition row can be locked. *)
Unlocked == upload = NoUpload

-------------------------------------------------------------------------------
(* competition_policy.py *)

Passed(limit) == clock > limit \/ clock > times.ends
Ended == clock > times.ends
Started == clock >= times.starts
FormingOpen == ~Passed(times.entry) /\ ~Passed(times.merger)
ChangesOpen == ~Passed(times.merger)

Members(t) == ToSet(members[t])
TeamsOf(u) == {t \in Teams : u \in Members(t)}
TeamOf(u) == IF TeamsOf(u) = {} THEN Null ELSE CHOOSE t \in TeamsOf(u) : TRUE

(* A leaderboard entry: a team, or a user on their own. *)
EntryFor(team, u) == IF team # Null THEN <<"team", team>> ELSE <<"user", u>>
EntryOf(u) == EntryFor(TeamOf(u), u)
Of(sub) == EntryFor(sub.team, sub.user)
SubmissionsOf(e) == {i \in DOMAIN subs : Of(subs[i]) = e}
PeopleOf(e) == IF e[1] = "team" THEN Members(e[2]) ELSE {e[2]}

ActiveCommits(people) ==
    {c \in DOMAIN commits : commits[c].user \in people /\ commits[c].status \in Active}

(* submissions_today(): scored today, and every pending commit. *)
Used(e) == Cardinality({i \in SubmissionsOf(e) : subs[i].day = clock})
           + Cardinality(ActiveCommits(PeopleOf(e)))

Entered(u) == entry[u] # "none"
(* require_current_rules() *)
Accepted(u) == entry[u] = "current"

-------------------------------------------------------------------------------
(* team_scoring.py: the final ranking of submissions ss *)

(* The order by public or private scores: ties to the earlier. *)
Before(ss, kind, i, j) ==
    \/ ss[i].score[kind] > ss[j].score[kind]
    \/ ss[i].score[kind] = ss[j].score[kind] /\ i < j

(* An entry's final submissions: those selected, also from before the limit  *)
(* was lowered, or else the best in public, up to the limit.                 *)
Chosen(ss, cap, all) ==
    LET selected == {i \in all : ss[i].final}
    IN  IF selected # {} THEN selected
        ELSE {i \in all : Cardinality({j \in all : Before(ss, "public", j, i)}) < cap}

(* finalize(): every member of a ranked entry is placed, once, at its best. *)
FinalResults(ss, cap, banned) ==
    LET eligible == {Of(ss[i]) : i \in DOMAIN ss} \ banned
        best == [e \in eligible |->
                   LET chosen == Chosen(ss, cap, {i \in DOMAIN ss : Of(ss[i]) = e})
                   IN  CHOOSE i \in chosen :
                         \A j \in chosen \ {i} : Before(ss, "private", i, j)]
        rank == [e \in eligible |->
                   Cardinality({f \in eligible : ~Before(ss, "private", best[e], best[f])})]
        ranked(u) == {e \in eligible : u \in PeopleOf(e)}
        first(u) == CHOOSE e \in ranked(u) : \A f \in ranked(u) : rank[e] <= rank[f]
    IN  [u \in Users |->
           IF ranked(u) = {} THEN NoResult
           ELSE [rank |-> rank[first(u)], entry |-> first(u), entries |-> Cardinality(eligible)]]
NoResults == [u \in Users |-> NoResult]

Finalize == finalized' = clock /\ results' = FinalResults(subs', limits'.final, dq')
Forget == finalized' = 0 /\ results' = NoResults

(* refresh_results() of a handler that holds the row. *)
RefreshResults ==
    IF Ended' THEN Finalize
    ELSE IF finalized # 0 THEN Forget
    ELSE UNCHANGED <<finalized, results>>

-------------------------------------------------------------------------------
Init ==
    /\ clock = 1
    /\ times \in Timelines /\ limits \in Limits
    /\ entry = [u \in Users |-> "none"]
    /\ members = [t \in Teams |-> <<>>] /\ owner = [t \in Teams |-> Null]
    /\ subs = <<>> /\ commits = <<>>
    /\ worker = NoWork
    /\ upload = NoUpload
    /\ dq = {}
    /\ finalized = 0 /\ results = NoResults

-------------------------------------------------------------------------------
(* Participants *)

(* join(): enter, or accept the current rules again. *)
Join(u) ==
    /\ Unlocked /\ ~Ended
    /\ ~Accepted(u)
    /\ ~Entered(u) => ~Passed(times.entry)
    /\ entry' = [entry EXCEPT ![u] = "current"]
    /\ UNCHANGED <<clock, times, limits, members, owner, subs, commits, worker, upload,
                   dq, finalized, results>>

TeamUnchanged == UNCHANGED <<clock, times, limits, entry, subs, commits, worker, upload,
                             dq, finalized, results>>

(* can_change() *)
TeamLocked(u) ==
    \/ \E i \in DOMAIN subs : subs[i].user = u
    \/ TeamOf(u) # Null /\ SubmissionsOf(<<"team", TeamOf(u)>>) # {}
    \/ ActiveCommits({u}) # {}

CreateTeam(u, t) ==
    /\ Unlocked /\ FormingOpen /\ Entered(u) /\ ~TeamLocked(u)
    /\ TeamOf(u) = Null /\ members[t] = <<>>
    /\ members' = [members EXCEPT ![t] = <<u>>]
    /\ owner' = [owner EXCEPT ![t] = u]
    /\ TeamUnchanged

(* Mutant: a pending commit does not lock the membership. *)
JoinTeamPending(u, t) ==
    /\ Unlocked /\ FormingOpen /\ Entered(u)
    /\ ~\E i \in DOMAIN subs : subs[i].user = u
    /\ TeamOf(u) = Null /\ members[t] # <<>>
    /\ members' = [members EXCEPT ![t] = Append(@, u)]
    /\ UNCHANGED owner
    /\ TeamUnchanged

(* Mutant: only a pending commit does. *)
JoinTeamScored(u, t) ==
    /\ Unlocked /\ FormingOpen /\ Entered(u) /\ ActiveCommits({u}) = {}
    /\ TeamOf(u) = Null /\ members[t] # <<>>
    /\ members' = [members EXCEPT ![t] = Append(@, u)]
    /\ UNCHANGED owner
    /\ TeamUnchanged

JoinTeam(u, t) ==
    /\ Unlocked /\ FormingOpen /\ Entered(u) /\ ~TeamLocked(u)
    /\ TeamOf(u) = Null /\ members[t] # <<>>
    /\ members' = [members EXCEPT ![t] = Append(@, u)]
    /\ UNCHANGED owner
    /\ TeamUnchanged

(* The team passes to the member who joined first; an empty one is deleted,  *)
(* which a disqualification that refers to it prevents.                      *)
LeaveTeam(u, t) ==
    /\ Unlocked /\ ChangesOpen /\ Entered(u) /\ ~TeamLocked(u)
    /\ t = TeamOf(u)
    /\ members[t] = <<u>> => <<"team", t>> \notin dq
    /\ \E i \in DOMAIN members[t] :
          members[t][i] = u /\ members' = [members EXCEPT ![t] = RemoveAt(@, i)]
    /\ owner' = IF members'[t] = <<>> THEN [owner EXCEPT ![t] = Null]
                ELSE IF owner[t] = u THEN [owner EXCEPT ![t] = Head(members'[t])] ELSE owner
    /\ TeamUnchanged

UploadUnchanged == UNCHANGED <<clock, times, limits, entry, members, owner, commits, worker,
                               dq, finalized, results>>

(* submit(): the checks.  The row stays locked while the file is read and    *)
(* scored.                                                                   *)
SubmitBegin(u, large) ==
    /\ Unlocked
    /\ Started /\ ~Ended /\ Accepted(u)
    /\ Used(EntryOf(u)) < limits.daily
    /\ upload' = [user |-> u, large |-> large, waiting |-> Null]
    /\ UNCHANGED subs /\ UploadUnchanged

(* Only the read of a spooled file suspends the handler: it runs in a        *)
(* thread, and another upload may then start on the loop and ask for the row.*)
SubmitBlocks(u) ==
    /\ upload.large /\ upload.waiting = Null
    /\ upload' = [upload EXCEPT !.waiting = u]
    /\ UNCHANGED subs /\ UploadUnchanged

(* The handler goes on when the loop gets back to it. *)
Resumable == ~Unlocked /\ upload.waiting = Null

(* 413 for a large file, 422 for one that cannot be scored. *)
SubmitReject ==
    /\ Resumable
    /\ upload' = NoUpload
    /\ UNCHANGED subs /\ UploadUnchanged

NewSubmission(u, commit) ==
    \E score \in Scores :
        subs' = Append(subs, [user |-> u, team |-> TeamOf(u), day |-> clock, score |-> score,
                              final |-> FALSE, commit |-> commit])

SubmitCommit ==
    /\ Resumable /\ ~upload.large /\ Len(subs) < MaxSubmissions
    /\ NewSubmission(upload.user, 0)
    /\ upload' = NoUpload
    /\ UploadUnchanged

(* A team's submission is every member's, any other its submitter's. *)
MayChoose(u, i) ==
    IF subs[i].team # Null THEN subs[i].team = TeamOf(u) ELSE subs[i].user = u

SelectFinal(u, i, selected) ==
    /\ Unlocked /\ ~Ended
    /\ MayChoose(u, i)
    /\ selected /\ ~subs[i].final =>
          Cardinality({j \in SubmissionsOf(Of(subs[i])) : subs[j].final}) < limits.final
    /\ subs' = [subs EXCEPT ![i].final = selected]
    /\ UNCHANGED <<clock, times, limits, entry, members, owner, commits, worker, upload,
                   dq, finalized, results>>

-------------------------------------------------------------------------------
(* Notebook commits *)

CommitsUnchanged == UNCHANGED <<clock, times, limits, entry, members, owner, upload,
                                dq, finalized, results>>

(* eligible(): the window and the entry, not the rules. *)
MayCommit(u) == Started /\ ~Ended /\ Entered(u)

CreateCommit(u, n) ==
    /\ Unlocked
    /\ MayCommit(u) /\ Accepted(u)
    /\ \A c \in ActiveCommits({u}) : commits[c].notebook # n
    /\ Used(EntryOf(u)) < limits.daily
    /\ Len(commits) < MaxCommits
    /\ commits' = Append(commits, [user |-> u, notebook |-> n, status |-> "queued"])
    /\ UNCHANGED <<subs, worker>> /\ CommitsUnchanged

CancelCommit(c) ==
    /\ commits[c].status \in Active
    /\ commits' = [commits EXCEPT ![c].status = "cancelled"]
    /\ UNCHANGED <<subs, worker>> /\ CommitsUnchanged

(* commit_worker(): the oldest queued commit. *)
WorkerClaim ==
    /\ worker.pc = "idle"
    /\ \E c \in DOMAIN commits :
          /\ commits[c].status = "queued"
          /\ \A d \in 1..(c - 1) : commits[d].status # "queued"
          /\ commits' = [commits EXCEPT ![c].status = "running"]
          /\ worker' = [worker EXCEPT !.pc = "running", !.job = c]
    /\ UNCHANGED subs /\ CommitsUnchanged

(* Mutant: the commit is scored without a look at its status. *)
CompleteCommitAlways ==
    /\ worker.pc = "running" /\ Unlocked
    /\ MayCommit(commits[worker.job].user) /\ Len(subs) < MaxSubmissions
    /\ NewSubmission(commits[worker.job].user, worker.job)
    /\ commits' = [commits EXCEPT ![worker.job].status = "succeeded"]
    /\ worker' = [worker EXCEPT !.pc = "completed"]
    /\ CommitsUnchanged

(* complete_commit(): scored, published and recorded in one transaction. *)
CompleteCommit ==
    /\ worker.pc = "running" /\ Unlocked
    /\ commits[worker.job].status = "running"
    /\ MayCommit(commits[worker.job].user) /\ Len(subs) < MaxSubmissions
    /\ NewSubmission(commits[worker.job].user, worker.job)
    /\ commits' = [commits EXCEPT ![worker.job].status = "succeeded"]
    /\ worker' = [worker EXCEPT !.pc = "completed"]
    /\ CommitsUnchanged

(* The commit was cancelled when its result arrived. *)
CompleteNothing ==
    /\ worker.pc = "running" /\ commits[worker.job].status # "running"
    /\ worker' = [worker EXCEPT !.pc = "completed"]
    /\ UNCHANGED <<subs, commits>> /\ CommitsUnchanged

WorkerDone ==
    /\ worker.pc = "completed"
    /\ worker' = NoWork
    /\ UNCHANGED <<subs, commits>> /\ CommitsUnchanged

(* The notebook, its scoring or the runtime fails, or the deadline passes:   *)
(* also while the kernel of a commit that has been scored is deleted.  The   *)
(* handler reads the row without a lock ...                                  *)
WorkerFails ==
    /\ worker.pc \in {"running", "completed"}
    /\ worker' = [worker EXCEPT !.pc = "failing", !.seen = commits[worker.job].status]
    /\ UNCHANGED <<subs, commits>> /\ CommitsUnchanged

(* ... and writes "failed" over whatever it did not read as "cancelled". *)
RecordFailure ==
    /\ worker.pc = "failing"
    /\ commits' = IF worker.seen # "cancelled"
                  THEN [commits EXCEPT ![worker.job].status = "failed"] ELSE commits
    /\ worker' = NoWork
    /\ UNCHANGED subs /\ CommitsUnchanged

(* The worker process restarts; migrate_forks() fails what was running. *)
WorkerRestart ==
    /\ worker.pc # "idle"
    /\ commits' = [c \in DOMAIN commits |->
                     IF commits[c].status = "running"
                     THEN [commits[c] EXCEPT !.status = "failed"] ELSE commits[c]]
    /\ worker' = NoWork
    /\ UNCHANGED subs /\ CommitsUnchanged

-------------------------------------------------------------------------------
(* The host *)

HostUnchanged == UNCHANGED <<clock, entry, members, owner, commits, worker, upload>>

UpdateSettings(t, new) ==
    /\ Unlocked
    /\ times' = t /\ limits' = new
    /\ UNCHANGED <<subs, dq>>
    /\ HostUnchanged
    /\ RefreshResults

(* A material change raises rules_revision above every accepted one. *)
UpdateRules ==
    /\ Unlocked
    /\ entry' = [u \in Users |-> IF Entered(u) THEN "outdated" ELSE "none"]
    /\ UNCHANGED <<clock, times, limits, members, owner, subs, commits, worker, upload, dq,
                   finalized, results>>

(* replace_solution(), rescore_all() and a changed metric.  An answers file  *)
(* of up to 1 MB is read from memory, without suspending; a larger one is    *)
(* refused, and holds the row until then like a large upload.                *)
Rescore(f) ==
    /\ Unlocked /\ subs # <<>>
    /\ subs' = [i \in DOMAIN subs |-> [subs[i] EXCEPT !.score = f[@]]]
    /\ UNCHANGED <<times, limits, dq>>
    /\ HostUnchanged
    /\ RefreshResults

(* Mutant: a disqualification leaves the stored results as they are. *)
DisqualifyKeepsResults(e) ==
    /\ Unlocked /\ e \notin dq /\ Cardinality(dq) < MaxBanned
    /\ dq' = dq \cup {e}
    /\ UNCHANGED <<times, limits, subs, finalized, results>>
    /\ HostUnchanged

Disqualify(e) ==
    /\ Unlocked /\ e \notin dq /\ Cardinality(dq) < MaxBanned
    /\ IF e[1] = "team" THEN members[e[2]] # <<>> ELSE Entered(e[2])
    /\ dq' = dq \cup {e}
    /\ UNCHANGED <<times, limits, subs>>
    /\ HostUnchanged
    /\ RefreshResults

Reinstate(e) ==
    /\ Unlocked /\ e \in dq
    /\ dq' = dq \ {e}
    /\ UNCHANGED <<times, limits, subs>>
    /\ HostUnchanged
    /\ RefreshResults

(* finalize_now() of the host; finalize_if_due() of whatever request comes   *)
(* first after the end is the case finalized = 0.                            *)
FinalizeNow ==
    /\ Unlocked /\ Ended
    /\ UNCHANGED <<times, limits, subs, dq>>
    /\ HostUnchanged
    /\ Finalize

(* update_overview(): the entry and merger deadlines stay, and must fit.     *)
UpdateOverview(t) ==
    /\ Unlocked
    /\ {times.entry, times.merger} \subseteq (t.starts + 1)..t.ends
    /\ times' = [times EXCEPT !.starts = t.starts, !.ends = t.ends]
    /\ UNCHANGED <<limits, subs, dq>>
    /\ HostUnchanged
    /\ RefreshResults

NextDay ==
    /\ clock < MaxTime
    /\ clock' = clock + 1
    /\ UNCHANGED <<times, limits, entry, members, owner, subs, commits, worker, upload,
                   dq, finalized, results>>

-------------------------------------------------------------------------------
Participant ==
    \/ \E u \in Users : Join(u) \/ SubmitBlocks(u)
    \/ \E u \in Users, large \in BOOLEAN : SubmitBegin(u, large)
    \/ \E u \in Users, t \in Teams : CreateTeam(u, t) \/ JoinTeam(u, t) \/ LeaveTeam(u, t)
    \/ SubmitReject \/ SubmitCommit
    \/ \E u \in Users, i \in DOMAIN subs, selected \in BOOLEAN : SelectFinal(u, i, selected)
    \/ \E u \in Users, n \in Notebooks : CreateCommit(u, n)
    \/ \E c \in DOMAIN commits : CancelCommit(c)

CommitWorker ==
    WorkerClaim \/ CompleteCommit \/ CompleteNothing \/ WorkerDone
    \/ WorkerFails \/ RecordFailure

Host ==
    \/ \E t \in Timelines, new \in Limits : UpdateSettings(t, new)
    \/ \E t \in Timelines : UpdateOverview(t)
    \/ UpdateRules
    \/ \E f \in Rescorings : Rescore(f)
    \/ \E e \in Entries : Disqualify(e) \/ Reinstate(e)
    \/ FinalizeNow

Next == Participant \/ CommitWorker \/ WorkerRestart \/ Host \/ NextDay

Spec == Init /\ [][Next]_vars
(* A handler that can go on does. *)
FairSpec == Spec /\ WF_vars(SubmitReject \/ SubmitCommit)

-------------------------------------------------------------------------------
(* Properties *)

(* Rows, the worker and the upload have their types. *)
TypeOK ==
    /\ clock \in Nat /\ times \in [starts : Nat, entry : Nat, merger : Nat, ends : Nat]
    /\ limits \in [daily : Nat \ {0}, final : Nat \ {0}]
    /\ entry \in [Users -> {"none", "outdated", "current"}]
    /\ members \in [Teams -> Seq(Users)] /\ owner \in [Teams -> Users \cup {Null}]
    /\ subs \in Seq(Submission) /\ commits \in Seq(Commit)
    /\ worker \in [pc : {"idle", "running", "completed", "failing"},
                   job : 0 .. Len(commits), seen : CommitStatus]
    /\ upload \in Upload /\ dq \subseteq Entries /\ finalized \in Nat

(* The score or commit that an entry gets is within the daily limit of that  *)
(* moment, whatever it used while the limit was higher: also for uploads     *)
(* that straddle midnight, commits queued on one day and scored on another,  *)
(* and teams that change while commits run.                                  *)
DailyLimit == \A e \in Entries : Used(e)' > Used(e) => Used(e)' <= limits'.daily

(* Every submission of a user belongs to the one leaderboard entry the user  *)
(* is in now, so that scores, attributed when they are made, and results,    *)
(* placed by the members of the end, cannot come apart.                      *)
OneEntry ==
    /\ \A i \in DOMAIN subs : Of(subs[i]) = EntryOf(subs[i].user)
    /\ \A u \in Users : Cardinality(TeamsOf(u)) <= 1

(* A team that has members is owned by the one who joined first, and no      *)
(* submission or disqualification refers to a team that was deleted.         *)
TeamsAreOwned ==
    \A t \in Teams :
        IF members[t] # <<>> THEN owner[t] = Head(members[t])
        ELSE owner[t] = Null /\ <<"team", t>> \notin dq /\ SubmissionsOf(<<"team", t>>) = {}

Finals(e) == {i \in SubmissionsOf(e) : subs[i].final}

(* An entry gets another final submission only within the limit of the       *)
(* moment, whoever of the team selects and clears them.                      *)
FinalCap ==
    \A e \in Entries :
        Cardinality(Finals(e)') > Cardinality(Finals(e))
            => Cardinality(Finals(e)') <= limits'.final

(* The limits of a day and of final submissions hold, also for those who are *)
(* above a limit that the host has lowered.                                  *)
LimitsKept == [][DailyLimit /\ FinalCap]_vars

(* Entries, submissions and teams refer to each other.                       *)
EntriesSettled == TypeOK /\ OneEntry /\ TeamsAreOwned

(* Stored results exist only past the present end, and are those of the      *)
(* submissions, selections, teams and disqualifications as they are now:     *)
(* uploads that end after the deadline, hosts who rescore, disqualify or     *)
(* move the end either way, and lazy finalization included.                  *)
ResultsCurrent ==
    IF finalized # 0 THEN finalized > times.ends /\ results = FinalResults(subs, limits.final, dq)
    ELSE results = NoResults

ScoredBy(c) == {i \in DOMAIN subs : subs[i].commit = c}

(* A commit is scored once, while it is running, in the step that records    *)
(* it: never after its owner cancelled it or a restart failed it.            *)
CommitScoredOnce ==
    [][\A c \in DOMAIN commits :
         ScoredBy(c)' # ScoredBy(c) =>
            /\ ScoredBy(c) = {}
            /\ commits[c].status = "running" /\ commits'[c].status = "succeeded"]_vars

(* "Prediction CSVs are limited to 1 MB" (docs/code-library.md), "rejected   *)
(* uploads do not use the allowance" (submit()): an upload ends, scored or   *)
(* rejected, and gives the competition back.                                 *)
UploadsEnd == \A u \in Users : (upload.user = u) ~> (upload.user # u)

===============================================================================
