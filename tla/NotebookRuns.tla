----------------------------- MODULE NotebookRuns -----------------------------
(***************************************************************************)
(* Background notebook runs, exercise attempts and schedules: the API      *)
(* handlers of notebook_runs.py and learn.py, and the compute worker and   *)
(* scheduler loops of compute_worker.py, sharing one PostgreSQL database.  *)
(*                                                                         *)
(* An API handler that locks the row it decides on is one action.  The     *)
(* worker and the scheduler are split wherever another transaction can     *)
(* commit in between; what they carry from one step to the next (the rows  *)
(* claim() selected, the schedule that was read, the uncommitted inserts)  *)
(* is in w and scan, and is lost when the process dies.                    *)
(***************************************************************************)
EXTENDS Integers, FiniteSets

CONSTANTS
    Notebooks, Learners, SessionUsers, Schedules,
    Null,          \* a null column
    MaxRuns,       \* bound: notebook_runs rows ever inserted
    MaxAttempts,   \* bound: exercise_attempts rows ever inserted
    MaxTime,       \* bound: the clock; one unit is the shortest schedule interval
    MaxCrashes,    \* bound: restarts of the evaluation worker
    BatchLimit,    \* rows one claim() looks at per kind: 20 in the code
    MaxFailures,   \* MAX_CONSECUTIVE_FAILURES: 3 in the code
    GpuCount, Capacity,
    Faults         \* which of "db" and "leak" may happen

ASSUME RunsAssumption ==
    /\ IsFiniteSet(SessionUsers)
    /\ MaxRuns \in Nat /\ MaxAttempts \in Nat /\ MaxTime \in Nat /\ MaxCrashes \in Nat
    /\ BatchLimit \in Nat \ {0} /\ MaxFailures \in Nat \ {0}
    /\ GpuCount \in Nat \ {0} /\ Capacity \in Nat
    /\ Null \notin Schedules \cup Notebooks \cup Learners
    /\ Faults \subseteq {"db", "leak"}

Attempts == {"attempt"} \X (1..MaxAttempts)
Runs == {"run"} \X (1..MaxRuns)
Item == Attempts \cup Runs

Active == {"queued", "running"}
Ended == {"succeeded", "failed", "timed_out", "cancelled", "passed"}
(* An uncommitted insert is "inserting"; a row that is not in the table is *)
(* "absent" before its insert and "deleted" after its delete.              *)
Status == Active \cup Ended \cup {"absent", "inserting", "deleted"}

Row == [status : Status, gpu : BOOLEAN, of : Notebooks \cup Learners \cup {Null},
        via : Schedules \cup {Null}, slot : Nat]
ScheduleStatus == {"unborn", "active", "paused", "disabled", "deleted"}
(* next = 0 stands for a null next_run_at. *)
Schedule == [status : ScheduleStatus, of : Notebooks \cup {Null}, gpu : BOOLEAN,
             fails : Nat, next : Nat]
Unborn == [status |-> "unborn", of |-> Null, gpu |-> FALSE, fails |-> 0, next |-> 0]

VARIABLES
    notebooks,   \* the notebooks that exist
    row,         \* [Item -> Row]: notebook_runs and exercise_attempts
    sched,       \* [Schedules -> Schedule]: notebook_schedules
    open,        \* items with an open gpu_usage row
    sessions,    \* users with an open gpu_usage row of an interactive session
    jobs,        \* items whose Job exists in the cluster
    clock,
    w,           \* the worker() coroutine
    scan,        \* the scheduler() coroutine and its transaction
    crashes

vars == <<notebooks, row, sched, open, sessions, jobs, clock, w, scan, crashes>>

InUse == GpuCount * (Cardinality(open) + Cardinality(sessions))
GpuFree == InUse + GpuCount <= Capacity

-------------------------------------------------------------------------------
(* The schedule rows a session has read; "unborn" are those it has not. *)
Unread == [s \in Schedules |-> Unborn]

WorkerPc == {"idle", "scan", "refusing", "claimed", "polling", "answered",
             "completing", "failing", "recording", "releasing", "down"}

Verdicts == {"succeeded", "failed", "timed_out", "passed"}
NoItem == <<>>

(* The worker's claim() session: the rows it selected and has not looked at  *)
(* yet, those still locked, the schedules read; then the item it is on.      *)
Worker == [pc : WorkerPc, item : Item \cup {NoItem}, kind : {"attempt", "run"},
           batch : SUBSET Item, locked : SUBSET Item,
           seen : [Schedules -> Schedule], verdict : Verdicts]
Idle == [pc |-> "idle", item |-> NoItem, kind |-> "attempt", batch |-> {},
         locked |-> {}, seen |-> Unread, verdict |-> "failed"]

(* The scheduler's transaction: the schedules it locked, those still to be   *)
(* looked at, what it read of them and what it is going to write.            *)
Scan == [pc : {"idle", "batch", "insert"}, at : Nat, locked : SUBSET Schedules,
         todo : SUBSET Schedules, pick : Schedules \cup {Null},
         read : [Schedules -> Schedule], plan : [Schedules -> Schedule],
         refused : SUBSET Runs]
NoScan == [pc |-> "idle", at |-> 0, locked |-> {}, todo |-> {}, pick |-> Null,
           read |-> Unread, plan |-> Unread, refused |-> {}]

Init ==
    /\ notebooks = Notebooks
    /\ row = [i \in Item |-> [status |-> "absent", gpu |-> FALSE,
                              of |-> Null, via |-> Null, slot |-> 0]]
    /\ sched = [s \in Schedules |-> Unborn]
    /\ open = {} /\ sessions = {} /\ jobs = {}
    /\ clock = 1
    /\ w = Idle /\ scan = NoScan
    /\ crashes = 0

-------------------------------------------------------------------------------
(* Rows and schedules *)

(* The id sequence of a table: the lowest id never inserted. *)
Fresh(set) == {i \in set : /\ row[i].status = "absent"
                           /\ \A j \in set : j[2] < i[2] => row[j].status # "absent"}

RunsOf(n) == {r \in Runs : row[r].of = n}
Busy(n) == \E r \in RunsOf(n) : row[r].status \in Active

(* An uncommitted insert holds FOR KEY SHARE on its notebook, which blocks   *)
(* a transaction that locks that notebook FOR UPDATE.                        *)
KeyShared(n) == \E r \in RunsOf(n) : row[r].status = "inserting"

NextOccurrence(after) == after + 1

(* Mutant: a failure clears next_run_at before it looks at the count. *)
OutcomeClearsNext(x, verdict) ==
    IF verdict = "succeeded" THEN [x EXCEPT !.fails = 0]
    ELSE [x EXCEPT !.fails = @ + 1, !.next = 0]

(* schedule_result() on the schedule x a session has in memory. *)
Outcome(x, verdict) ==
    IF verdict = "succeeded" THEN [x EXCEPT !.fails = 0]
    ELSE IF x.fails + 1 >= MaxFailures /\ x.status = "active"
    THEN [x EXCEPT !.fails = @ + 1, !.status = "disabled", !.next = 0]
    ELSE [x EXCEPT !.fails = @ + 1]

(* A flush writes the attributes the session changed, over whatever the row  *)
(* holds by then.                                                            *)
Flush(current, read, new) ==
    [current EXCEPT
        !.status = IF new.status = read.status THEN @ ELSE new.status,
        !.fails  = IF new.fails = read.fails THEN @ ELSE new.fails,
        !.next   = IF new.next = read.next THEN @ ELSE new.next]

Exists(x) == x.status \notin {"unborn", "deleted"}

-------------------------------------------------------------------------------
(* API: runs and attempts *)

RowsLeft == {r \in Runs : row[r].status = "absent"}

CreateRun(n, gpu) ==
    /\ n \in notebooks
    /\ ~Busy(n) /\ ~KeyShared(n)
    /\ Cardinality(scan.todo) < Cardinality(RowsLeft)   \* the row bound
    /\ \E r \in Fresh(Runs) :
          row' = [row EXCEPT ![r] = [status |-> "queued", gpu |-> gpu, of |-> n,
                                     via |-> Null, slot |-> 0]]
    /\ UNCHANGED <<notebooks, sched, open, sessions, jobs, clock, w, scan, crashes>>

(* Mutant: cancelling forgets the gpu_usage row. *)
CancelRunKeepsUsage(r) ==
    /\ row[r].status \in Active
    /\ r \notin w.locked
    /\ row' = [row EXCEPT ![r].status = "cancelled"]
    /\ UNCHANGED <<notebooks, open, sched, sessions, jobs, clock, w, scan, crashes>>

CancelRun(r) ==
    /\ row[r].status \in Active
    /\ r \notin w.locked
    /\ row' = [row EXCEPT ![r].status = "cancelled"]
    /\ open' = open \ {r}
    /\ UNCHANGED <<notebooks, sched, sessions, jobs, clock, w, scan, crashes>>

CreateAttempt(u, gpu) ==
    /\ ~\E a \in Attempts : row[a].of = u /\ row[a].status \in Active
    /\ \E a \in Fresh(Attempts) :
          row' = [row EXCEPT ![a] = [status |-> "queued", gpu |-> gpu, of |-> u,
                                     via |-> Null, slot |-> 0]]
    /\ UNCHANGED <<notebooks, sched, open, sessions, jobs, clock, w, scan, crashes>>

(* Editing a course deletes the attempts of the exercises it removes. *)
RemoveExercise(a) ==
    /\ row[a].status \in Active \cup Ended
    /\ a \notin w.locked
    /\ row' = [row EXCEPT ![a].status = "deleted"]
    /\ UNCHANGED <<notebooks, sched, open, sessions, jobs, clock, w, scan, crashes>>

(* Deleting a notebook deletes its runs, which have all ended, and schedules. *)
RunsWithout(n) ==
    [i \in Item |-> IF i \in RunsOf(n) /\ row[i].status \in Ended
                    THEN [row[i] EXCEPT !.status = "deleted"] ELSE row[i]]
SchedulesWithout(n) ==
    [s \in Schedules |-> IF sched[s].of = n /\ Exists(sched[s])
                         THEN [sched[s] EXCEPT !.status = "deleted", !.next = 0] ELSE sched[s]]

(* Mutant: the notebook is deleted without waiting for the scan's locks. *)
DeleteNotebookUnlocked(n) ==
    /\ n \in notebooks /\ ~Busy(n)
    /\ notebooks' = notebooks \ {n}
    /\ sched' = SchedulesWithout(n)
    /\ UNCHANGED <<row, open, sessions, jobs, clock, w, scan, crashes>>

DeleteNotebook(n) ==
    /\ n \in notebooks
    /\ ~Busy(n) /\ ~KeyShared(n)
    /\ RunsOf(n) \cap w.locked = {}
    /\ \A s \in scan.locked : sched[s].of # n
    /\ notebooks' = notebooks \ {n}
    /\ row' = RunsWithout(n)
    /\ sched' = SchedulesWithout(n)
    /\ UNCHANGED <<open, sessions, jobs, clock, w, scan, crashes>>

(* The scan waits for the notebook that remove_work() has locked, and that   *)
(* waits for the schedule the scan has locked.  PostgreSQL ends the deadlock *)
(* by a rollback of either; here it is the scan's, which is tried again.     *)
DeleteNotebookDeadlock(n) ==
    /\ n \in notebooks
    /\ ~Busy(n) /\ ~KeyShared(n)
    /\ RunsOf(n) \cap w.locked = {}
    /\ scan.pc = "insert" /\ sched[scan.pick].of = n
    /\ notebooks' = notebooks \ {n}
    /\ row' = [i \in Item |-> IF row[i].status = "inserting"
                              THEN [row[i] EXCEPT !.status = "absent"] ELSE RunsWithout(n)[i]]
    /\ sched' = SchedulesWithout(n)
    /\ scan' = NoScan
    /\ UNCHANGED <<open, sessions, jobs, clock, w, crashes>>

(* API: interactive GPU sessions, seen here only as other holders of the pool. *)

(* Mutant: a session starts without a look at the capacity. *)
StartSessionUnchecked(u) ==
    /\ u \notin sessions
    /\ sessions' = sessions \cup {u}
    /\ UNCHANGED <<notebooks, row, sched, open, jobs, clock, w, scan, crashes>>

StartSession(u) ==
    /\ u \notin sessions
    /\ GpuFree
    /\ sessions' = sessions \cup {u}
    /\ UNCHANGED <<notebooks, row, sched, open, jobs, clock, w, scan, crashes>>

StopSession(u) ==
    /\ u \in sessions
    /\ sessions' = sessions \ {u}
    /\ UNCHANGED <<notebooks, row, sched, open, jobs, clock, w, scan, crashes>>

-------------------------------------------------------------------------------
(* API: schedules.  owned_schedule() locks the row, so it waits for the scan. *)

ScheduleUnchanged == UNCHANGED <<notebooks, row, open, sessions, jobs, clock, w, scan, crashes>>

CreateSchedule(s, n, gpu) ==
    /\ sched[s].status = "unborn" /\ n \in notebooks
    /\ sched' = [sched EXCEPT ![s] = [status |-> "active", of |-> n, gpu |-> gpu,
                                      fails |-> 0, next |-> NextOccurrence(clock)]]
    /\ ScheduleUnchanged

Owned(s) == Exists(sched[s]) /\ s \notin scan.locked

UpdateSchedule(s, gpu) ==
    /\ Owned(s)
    /\ sched' = [sched EXCEPT ![s].gpu = gpu,
                              ![s].next = IF sched[s].status = "active"
                                          THEN NextOccurrence(clock) ELSE @]
    /\ ScheduleUnchanged

(* Mutant: the schedule is paused without locking its row. *)
PauseScheduleUnlocked(s) ==
    /\ sched[s].status = "active"
    /\ sched' = [sched EXCEPT ![s].status = "paused", ![s].next = 0]
    /\ ScheduleUnchanged

PauseSchedule(s) ==
    /\ Owned(s) /\ sched[s].status = "active"
    /\ sched' = [sched EXCEPT ![s].status = "paused", ![s].next = 0]
    /\ ScheduleUnchanged

ResumeSchedule(s) ==
    /\ Owned(s)
    /\ sched' = [sched EXCEPT ![s].status = "active", ![s].fails = 0,
                              ![s].next = NextOccurrence(clock)]
    /\ ScheduleUnchanged

DeleteSchedule(s) ==
    /\ Owned(s)
    /\ sched' = [sched EXCEPT ![s].status = "deleted", ![s].next = 0]
    /\ ScheduleUnchanged

-------------------------------------------------------------------------------
(* The worker: claim() *)

(* SELECT ... WHERE status = 'queued' ORDER BY id LIMIT 20 FOR UPDATE. *)
Queued(set) == {i \in set : row[i].status = "queued"}
Queue(set) ==
    {i \in Queued(set) : Cardinality({j \in Queued(set) : j[2] < i[2]}) < BatchLimit}

WorkerUnchanged == UNCHANGED <<notebooks, sessions, clock, scan, crashes>>

(* An empty queue changes nothing, so the poll that finds one is no step. *)
ClaimAttempts ==
    /\ w.pc = "idle"
    /\ Queued(Item) # {}
    /\ w' = [w EXCEPT !.pc = "scan", !.kind = "attempt", !.batch = Queue(Attempts),
                      !.locked = Queue(Attempts)]
    /\ UNCHANGED <<row, sched, open, jobs>> /\ WorkerUnchanged

ClaimRuns ==
    /\ w.pc = "scan" /\ w.batch = {} /\ w.kind = "attempt"
    /\ w' = [w EXCEPT !.kind = "run", !.batch = Queue(Runs),
                      !.locked = @ \cup Queue(Runs)]
    /\ UNCHANGED <<row, sched, open, jobs>> /\ WorkerUnchanged

ClaimNothing ==
    /\ w.pc = "scan" /\ w.batch = {} /\ w.kind = "run"
    /\ w' = Idle
    /\ UNCHANGED <<row, sched, open, jobs>> /\ WorkerUnchanged

(* The next row of the batch; to claim() it is still the queued row that was *)
(* selected.                                                                 *)
Candidate(i) == w.pc = "scan" /\ i \in w.batch /\ \A j \in w.batch : i[2] <= j[2]

(* Mutant: the first GPU row that has to wait ends the scan of the queue. *)
ClaimWaitBlocks(i) ==
    /\ Candidate(i) /\ row[i].gpu /\ ~GpuFree
    /\ w' = Idle
    /\ UNCHANGED <<row, sched, open, jobs>> /\ WorkerUnchanged

ClaimWait(i) ==
    /\ Candidate(i) /\ row[i].gpu /\ ~GpuFree
    /\ w' = [w EXCEPT !.batch = @ \ {i}]
    /\ UNCHANGED <<row, sched, open, jobs>> /\ WorkerUnchanged

(* The commit of the claim.  It writes "running" over the row's current      *)
(* status: after a refusal has committed, the row is no longer locked.       *)
ClaimStart(i) ==
    /\ Candidate(i)
    /\ row[i].gpu => GpuFree
    /\ row[i].status # "deleted"
    /\ row' = [row EXCEPT ![i].status = "running"]
    /\ open' = IF row[i].gpu THEN open \cup {i} ELSE open
    /\ w' = [Idle EXCEPT !.pc = "claimed", !.item = i]
    /\ UNCHANGED <<sched, jobs>> /\ WorkerUnchanged

(* The row was deleted under the stale batch: the flush raises, claim() is   *)
(* rolled back and the loop starts over.                                     *)
ClaimVanished(i) ==
    /\ Candidate(i)
    /\ row[i].gpu => GpuFree
    /\ row[i].status = "deleted"
    /\ w' = Idle
    /\ UNCHANGED <<row, sched, open, jobs>> /\ WorkerUnchanged

(* db.get(NotebookSchedule): the identity map keeps what was read first. *)
Read(i) ==
    LET s == row[i].via IN
    IF s \in Schedules /\ w.seen[s].status = "unborn"
    THEN [w.seen EXCEPT ![s] = sched[s]] ELSE w.seen

(* The owner's quota is used up, or GPUs have been switched off. *)
ClaimRefuse(i) ==
    /\ Candidate(i) /\ row[i].gpu
    /\ w' = [w EXCEPT !.pc = "refusing", !.item = i, !.seen = Read(i)]
    /\ UNCHANGED <<row, sched, open, jobs>> /\ WorkerUnchanged

-------------------------------------------------------------------------------
(* finish_run() and finish_attempt(): the row, its usage, its schedule *)

(* The schedule the session has to update for this verdict, if any. *)
Touched(i) == {s \in Schedules : s = row[i].via /\ Exists(w.seen[s])
                                 /\ Outcome(w.seen[s], w.verdict) # w.seen[s]}

Verdict(i) == IF i \in Attempts /\ w.verdict # "passed" THEN "failed" ELSE w.verdict

Finishable(i) ==
    /\ row[i].status # "deleted"
    /\ \A s \in Touched(i) : sched[s].status # "deleted"
(* A flush that matches no row raises StaleDataError and is rolled back. *)
StaleFlush(i) ==
    \/ row[i].status = "deleted"
    \/ \E s \in Touched(i) : sched[s].status = "deleted"

Finish(i) ==
    /\ Finishable(i)
    /\ Touched(i) \cap scan.locked = {}
    /\ row' = [row EXCEPT ![i].status = Verdict(i)]
    /\ open' = open \ {i}
    /\ sched' = [s \in Schedules |->
                    IF s \in Touched(i)
                    THEN Flush(sched[s], w.seen[s], Outcome(w.seen[s], w.verdict))
                    ELSE sched[s]]

RefuseCommit ==
    /\ w.pc = "refusing"
    /\ Finish(w.item)
    /\ w' = [w EXCEPT !.pc = "scan", !.batch = @ \ {w.item}, !.locked = {},
                      !.seen = [s \in Schedules |->
                                  IF s \in Touched(w.item)
                                  THEN Outcome(w.seen[s], w.verdict) ELSE w.seen[s]]]
    /\ UNCHANGED jobs /\ WorkerUnchanged

RefuseStale ==
    /\ w.pc = "refusing" /\ StaleFlush(w.item)
    /\ w' = Idle
    /\ UNCHANGED <<row, sched, open, jobs>> /\ WorkerUnchanged

-------------------------------------------------------------------------------
(* The worker: execute_run() and execute_attempt() *)

ToFail(verdict) == [w EXCEPT !.pc = "failing", !.verdict = verdict]

CreateJob ==
    /\ w.pc = "claimed" /\ row[w.item].status = "running"
    /\ jobs' = jobs \cup {w.item}
    /\ w' = [w EXCEPT !.pc = "polling"]
    /\ UNCHANGED <<row, sched, open>> /\ WorkerUnchanged

SkipJob ==
    /\ w.pc = "claimed" /\ row[w.item].status # "running"
    /\ w' = [w EXCEPT !.pc = "releasing"]
    /\ UNCHANGED <<row, sched, open, jobs>> /\ WorkerUnchanged

(* Staging an input, or the request that creates the Job, fails; the Job may *)
(* have been created all the same when the answer is lost.                   *)
CreateJobFails ==
    /\ w.pc = "claimed" /\ row[w.item].status = "running"
    /\ \/ jobs' = jobs
       \/ "leak" \in Faults /\ jobs' = jobs \cup {w.item}
    /\ w' = ToFail("failed")
    /\ UNCHANGED <<row, sched, open>> /\ WorkerUnchanged

(* The finally block of run_kubernetes(); its errors are suppressed. *)
DeleteJob ==
    \/ jobs' = jobs \ {w.item}
    \/ "leak" \in Faults /\ jobs' = jobs

PollCancelled ==
    /\ w.pc = "polling" /\ row[w.item].status # "running"
    /\ DeleteJob
    /\ w' = ToFail("failed")
    /\ UNCHANGED <<row, sched, open>> /\ WorkerUnchanged

(* The Job succeeded and its result.json was read. *)
PollResult ==
    /\ w.pc = "polling"
    /\ DeleteJob
    /\ \E verdict \in IF w.item \in Attempts THEN {"passed", "failed"}
                      ELSE {"succeeded", "failed", "timed_out"} :
          w' = [w EXCEPT !.pc = "answered", !.verdict = verdict]
    /\ UNCHANGED <<row, sched, open>> /\ WorkerUnchanged

(* The Job failed, its deadline passed, or the cluster could not be asked. *)
PollError ==
    /\ w.pc = "polling"
    /\ DeleteJob
    /\ \E verdict \in {"failed", "timed_out"} : w' = ToFail(verdict)
    /\ UNCHANGED <<row, sched, open>> /\ WorkerUnchanged

(* Mutant: the result is stored without a look at the row's status. *)
CompleteReadAlways ==
    /\ w.pc = "answered"
    /\ w' = [w EXCEPT !.pc = "completing", !.locked = {w.item}, !.seen = Read(w.item)]
    /\ UNCHANGED <<row, sched, open, jobs>> /\ WorkerUnchanged

CompleteRead ==
    /\ w.pc = "answered"
    /\ w' = IF row[w.item].status = "running"
            THEN [w EXCEPT !.pc = "completing", !.locked = {w.item}, !.seen = Read(w.item)]
            ELSE [w EXCEPT !.pc = "releasing"]
    /\ UNCHANGED <<row, sched, open, jobs>> /\ WorkerUnchanged

CompleteCommit ==
    /\ w.pc = "completing"
    /\ Finish(w.item)
    /\ w' = [w EXCEPT !.pc = "releasing", !.locked = {}, !.seen = Unread]
    /\ UNCHANGED jobs /\ WorkerUnchanged

(* Saving the version or its files raises, or the flush is stale. *)
CompleteRollback ==
    /\ w.pc = "completing"
    /\ StaleFlush(w.item) \/ w.verdict = "succeeded"
    /\ w' = [w EXCEPT !.pc = "failing", !.locked = {}, !.seen = Unread, !.verdict = "failed"]
    /\ UNCHANGED <<row, sched, open, jobs>> /\ WorkerUnchanged

Release ==
    /\ w.pc = "releasing"
    /\ open' = open \ {w.item}
    /\ w' = Idle
    /\ UNCHANGED <<row, sched, jobs>> /\ WorkerUnchanged

(* fail() *)
FailRead ==
    /\ w.pc = "failing" /\ row[w.item].status = "running"
    /\ w' = [w EXCEPT !.pc = "recording", !.locked = {w.item}, !.seen = Read(w.item)]
    /\ UNCHANGED <<row, sched, open, jobs>> /\ WorkerUnchanged

FailNothing ==
    /\ w.pc = "failing" /\ row[w.item].status # "running"
    /\ open' = open \ {w.item}
    /\ w' = Idle
    /\ UNCHANGED <<row, sched, jobs>> /\ WorkerUnchanged

FailCommit ==
    /\ w.pc = "recording"
    /\ Finish(w.item)
    /\ w' = Idle
    /\ UNCHANGED jobs /\ WorkerUnchanged

(* fail() itself raises: worker() logs it and the row stays "running". *)
FailLost ==
    /\ w.pc = "recording"
    /\ StaleFlush(w.item) \/ "db" \in Faults
    /\ w' = Idle
    /\ UNCHANGED <<row, sched, open, jobs>> /\ WorkerUnchanged

WorkerStep ==
    \/ ClaimAttempts \/ ClaimRuns \/ ClaimNothing
    \/ \E i \in Item : ClaimWait(i) \/ ClaimStart(i) \/ ClaimVanished(i) \/ ClaimRefuse(i)
    \/ RefuseCommit \/ RefuseStale
    \/ CreateJob \/ SkipJob \/ CreateJobFails
    \/ PollCancelled \/ PollResult \/ PollError
    \/ CompleteRead \/ CompleteCommit \/ CompleteRollback \/ Release
    \/ FailRead \/ FailNothing \/ FailCommit \/ FailLost

-------------------------------------------------------------------------------
(* The scheduler: enqueue_due(), one transaction over all due schedules *)

Due == {s \in Schedules : sched[s].status = "active" /\ sched[s].next <= clock}
ScanUnchanged == UNCHANGED <<notebooks, open, sessions, jobs, clock, w, crashes>>

(* The row bound: a scan starts only if its inserts fit. *)
ScanBegin ==
    /\ w.pc # "down" /\ scan.pc = "idle" /\ Due # {}
    /\ Cardinality(Due) <= Cardinality(RowsLeft)
    /\ scan' = [scan EXCEPT !.pc = "batch", !.at = clock, !.locked = Due, !.todo = Due,
                            !.read = sched, !.plan = sched]
    /\ UNCHANGED <<row, sched>> /\ ScanUnchanged

(* The reads recorded and busy; a transaction sees its own inserts. *)
Skipped(s) ==
    \/ \E r \in Runs : /\ row[r].status \notin {"absent", "deleted"}
                       /\ row[r].via = s /\ row[r].slot = scan.plan[s].next
    \/ \E r \in RunsOf(sched[s].of) : row[r].status \in Active \cup {"inserting"}

(* Mutant: a skipped slot continues before next_run_at is assigned. *)
ScanCheckKeepsSlot(s) ==
    /\ scan.pc = "batch" /\ s \in scan.todo
    /\ scan' = IF Skipped(s) THEN [scan EXCEPT !.todo = @ \ {s}]
               ELSE [scan EXCEPT !.pc = "insert", !.pick = s]
    /\ UNCHANGED <<row, sched>> /\ ScanUnchanged

ScanCheck(s) ==
    /\ scan.pc = "batch" /\ s \in scan.todo
    /\ \A t \in scan.todo : scan.plan[s].next <= scan.plan[t].next
    /\ scan' = IF sched[s].of \notin notebooks
               THEN [scan EXCEPT !.todo = @ \ {s}, !.plan[s].status = "disabled",
                                 !.plan[s].next = 0]
               ELSE IF Skipped(s)
               THEN [scan EXCEPT !.todo = @ \ {s}, !.plan[s].next = NextOccurrence(scan.at)]
               ELSE [scan EXCEPT !.pc = "insert", !.pick = s]
    /\ UNCHANGED <<row, sched>> /\ ScanUnchanged

(* queue_run(), or the failed run recorded when it refuses.  Either way      *)
(* next_run_at is assigned last, also when that failure was the third.       *)
ScanInsert ==
    /\ scan.pc = "insert"
    /\ \E r \in Fresh(Runs), refused \in BOOLEAN :
          /\ row' = [row EXCEPT ![r] = [status |-> "inserting", gpu |-> sched[scan.pick].gpu,
                                        of |-> sched[scan.pick].of, via |-> scan.pick,
                                        slot |-> scan.plan[scan.pick].next]]
          /\ scan' = [scan EXCEPT
                !.pc = "batch", !.todo = @ \ {scan.pick}, !.pick = Null,
                !.refused = IF refused THEN @ \cup {r} ELSE @,
                !.plan[scan.pick] =
                    [(IF refused THEN Outcome(@, "failed") ELSE @)
                        EXCEPT !.next = NextOccurrence(scan.at)]]
    /\ UNCHANGED sched /\ ScanUnchanged

ScanCommit ==
    /\ scan.pc = "batch" /\ scan.todo = {}
    /\ row' = [i \in Item |->
                 IF row[i].status # "inserting" THEN row[i]
                 ELSE [row[i] EXCEPT !.status = IF i \in scan.refused THEN "failed" ELSE "queued"]]
    /\ sched' = [s \in Schedules |-> IF s \in scan.locked
                                     THEN Flush(sched[s], scan.read[s], scan.plan[s])
                                     ELSE sched[s]]
    /\ scan' = NoScan
    /\ ScanUnchanged

SchedulerStep == ScanBegin \/ ScanInsert \/ ScanCommit \/ \E s \in Schedules : ScanCheck(s)

-------------------------------------------------------------------------------
(* The evaluation worker process and time *)

(* The process dies with everything it held in memory; its transactions are  *)
(* rolled back, its Jobs go on.                                              *)
Crash ==
    /\ w.pc # "down" /\ crashes < MaxCrashes
    /\ crashes' = crashes + 1
    /\ w' = [Idle EXCEPT !.pc = "down"]
    /\ scan' = NoScan
    /\ row' = [i \in Item |-> IF row[i].status = "inserting"
                              THEN [row[i] EXCEPT !.status = "absent"] ELSE row[i]]
    /\ UNCHANGED <<notebooks, sched, open, sessions, jobs, clock>>

(* Mutant: recover() only closes usage and leaves the rows "running". *)
RestartKeepsRunning ==
    /\ w.pc = "down"
    /\ w' = Idle /\ jobs' = {} /\ open' = {}
    /\ UNCHANGED <<notebooks, row, sched, sessions, clock, scan, crashes>>

(* cleanup() deletes every Job, then recover() fails what was running. *)
Restart ==
    /\ w.pc = "down"
    /\ w' = Idle
    /\ jobs' = {}
    /\ row' = [i \in Item |-> IF row[i].status = "running"
                              THEN [row[i] EXCEPT !.status = "failed"] ELSE row[i]]
    /\ open' = {}
    /\ UNCHANGED <<notebooks, sched, sessions, clock, scan, crashes>>

Tick ==
    /\ clock < MaxTime
    /\ clock' = clock + 1
    /\ UNCHANGED <<notebooks, row, sched, open, sessions, jobs, w, scan, crashes>>

Api ==
    \/ \E n \in Notebooks, gpu \in BOOLEAN : CreateRun(n, gpu)
    \/ \E r \in Runs : CancelRun(r)
    \/ \E u \in Learners, gpu \in BOOLEAN : CreateAttempt(u, gpu)
    \/ \E a \in Attempts : RemoveExercise(a)
    \/ \E n \in Notebooks : DeleteNotebook(n) \/ DeleteNotebookDeadlock(n)
    \/ \E u \in SessionUsers : StartSession(u) \/ StopSession(u)
    \/ \E s \in Schedules, n \in Notebooks, gpu \in BOOLEAN : CreateSchedule(s, n, gpu)
    \/ \E s \in Schedules, gpu \in BOOLEAN : UpdateSchedule(s, gpu)
    \/ \E s \in Schedules : PauseSchedule(s) \/ ResumeSchedule(s) \/ DeleteSchedule(s)

Next == Api \/ WorkerStep \/ SchedulerStep \/ Crash \/ Restart \/ Tick

Spec == Init /\ [][Next]_vars
FairSpec == Spec /\ WF_vars(WorkerStep) /\ WF_vars(SchedulerStep) /\ WF_vars(Restart)

-------------------------------------------------------------------------------
(* Properties *)

(* Rows, schedules, the worker and the scan have their types. *)
TypeOK ==
    /\ notebooks \subseteq Notebooks
    /\ row \in [Item -> Row]
    /\ sched \in [Schedules -> Schedule]
    /\ open \subseteq Item /\ sessions \subseteq SessionUsers /\ jobs \subseteq Item
    /\ clock \in Nat /\ crashes \in Nat
    /\ w \in Worker /\ (w.pc \notin {"idle", "scan", "down"} => w.item \in Item)
    /\ scan \in Scan /\ (scan.pc = "insert" => scan.pick \in scan.todo)

(* A GPU row holds GPUs exactly while it runs: every way a row leaves        *)
(* "running" (finish, cancel, refusal, restart) closes its usage row, and    *)
(* the usage of an attempt deleted under the worker stays open only until    *)
(* the worker, or its restart, lets go of it (or fail() cannot record it).   *)
UsageMatchesRows ==
    \A i \in Item :
        /\ row[i].gpu /\ row[i].status = "running" => i \in open
        /\ i \in open =>
             /\ row[i].gpu
             /\ \/ row[i].status = "running"
                \/ row[i].status = "deleted" /\ (w.item = i \/ w.pc = "down" \/ "db" \in Faults)

(* A Job with a GPU outlives its usage row only when its run was cancelled,  *)
(* its attempt deleted, or the cluster did not delete it; the worker is then *)
(* about to delete it.                                                       *)
JobsHoldGpus ==
    \A i \in jobs : row[i].gpu =>
        \/ i \in open
        \/ row[i].status \in {"cancelled", "deleted"} /\ w.item = i
        \/ w.pc = "down" \/ "leak" \in Faults

(* The GPUs of all open rows never exceed gpu_capacity, whatever order runs, *)
(* attempts, sessions, cancellations and restarts come in.                   *)
WithinCapacity == InUse <= Capacity

(* An active schedule always has a next run, and a paused one never: no      *)
(* order of owner requests, finished runs and scans leaves a schedule that   *)
(* is shown as active but that enqueue_due() will never select again.        *)
ActiveScheduleFires ==
    \A s \in Schedules : /\ sched[s].status = "active" => sched[s].next # 0
                         /\ sched[s].status = "paused" => sched[s].next = 0

(* Work that is queued or running, and every schedule, belongs to a notebook *)
(* that still exists: deleting a notebook cannot slip in between the         *)
(* scheduler's checks and its insert.                                        *)
NoOrphans ==
    /\ \A r \in Runs : row[r].status \in Active \cup {"inserting"} => row[r].of \in notebooks
    /\ \A s \in Schedules : Exists(sched[s]) => sched[s].of \in notebooks

(* One consumer: the only Job of this queue is that of the item the worker   *)
(* is on, and a row is "running" only while the worker is on it, or when     *)
(* fail() could not record the failure: the schedule of the run was deleted  *)
(* meanwhile, so that the flush raises, or the database was away.            *)
SerialConsumer ==
    w.pc # "down" =>
        /\ "leak" \in Faults \/ jobs \subseteq {w.item}
        /\ \A i \in Item : row[i].status = "running" =>
              \/ w.item = i
              \/ "db" \in Faults
              \/ row[i].via # Null /\ sched[row[i].via].status = "deleted"

(* Rows, their owners, the worker and its Jobs agree with each other. *)
RowsConsistent == TypeOK /\ NoOrphans /\ SerialConsumer /\ JobsHoldGpus

(* What has ended stays as it ended, until it is deleted: late results,      *)
(* timeouts and failures of a run that was cancelled or removed write        *)
(* nothing.  claim() is the exception: behind a refusal it may take a run    *)
(* that was cancelled after it had been selected.                            *)
EndedStaysEnded ==
    [][\A i \in Item : row[i].status \in Ended =>
          \/ row'[i].status \in {row[i].status, "deleted"}
          \/ /\ row[i].status = "cancelled"
             /\ i \in w.batch \ w.locked]_vars

(* The scan only queues runs of schedules that are active when it commits: a *)
(* pause, a deletion or a third failure that commits while the scan decides  *)
(* is not overtaken by a run it still queues.                                *)
PauseStopsRuns ==
    [][\A r \in Runs : row[r].status = "inserting" /\ row'[r].status = "queued"
                          => sched[row[r].via].status = "active"]_vars

(* One scan queues at most one run per notebook, however many of its         *)
(* schedules and slots are due: the transaction sees its own inserts.        *)
OneRunPerScan ==
    [][\A r, q \in Runs :
          /\ row[r].status = "inserting" /\ row'[r].status = "queued"
          /\ row[q].status = "inserting" /\ row'[q].status = "queued"
          /\ row[r].of = row[q].of
          => r = q]_vars

(* A scan queues only what its schedules still ask for, once. *)
ScanObeys == PauseStopsRuns /\ OneRunPerScan

(* The gpu_usage rows behave like the abstract pool. *)
Holder == ({"session"} \X SessionUsers) \cup Item
Pool == INSTANCE GpuPool WITH holders <- ({"session"} \X sessions) \cup open
PoolSpec == Pool!Spec

(* What the worker has claimed comes to an end, by a result, a failure, a    *)
(* timeout, a cancellation or a restart, except for the run of a deleted     *)
(* schedule that SerialConsumer names.                                       *)
ClaimedEnds ==
    \A i \in Item :
        row[i].status = "running"
            ~> \/ row[i].status # "running"
               \/ row[i].via # Null /\ sched[row[i].via].status = "deleted"

(* "a queued GPU run waits in the worker until a GPU is free, while CPU work *)
(* behind it continues" (docs/compute.md).                                   *)
CpuWorkNeverWaits ==
    \A i \in Item : (row[i].status = "queued" /\ ~row[i].gpu) ~> (row[i].status # "queued")

(* GPU work that was queued before the row fills what claim() selects. *)
BehindBatch(i) ==
    Cardinality({j \in Queued(Item) : j[1] = i[1] /\ j[2] < i[2] /\ row[j].gpu}) >= BatchLimit

(* Queued CPU work that does not stay behind a batch of waiting GPU work is  *)
(* claimed or ends, also when less GPU work waits before it for ever.        *)
CpuWorkContinues ==
    \A i \in Item :
        (row[i].status = "queued" /\ ~row[i].gpu)
            ~> (row[i].status # "queued" \/ BehindBatch(i))

(* A slot that is due is enqueued or skipped: next_run_at moves on.          *)
DueSlotHandled ==
    \A s \in Schedules : (s \in Due) ~> (s \notin Due \/ RowsLeft = {})

(* "Owners can cancel queued or running runs": cancelled is an end.          *)
CancelIsFinal ==
    [][\A r \in Runs : row[r].status = "cancelled" =>
                          row'[r].status \in {"cancelled", "deleted"}]_vars

(* "one run per notebook can be active" (docs/compute.md). *)
OneActiveRun ==
    \A r, q \in Runs : /\ row[r].status \in Active /\ row[q].status \in Active
                        /\ row[r].of = row[q].of
                        => r = q

===============================================================================
