-------------------------- MODULE NotebookRunsProofs --------------------------
(***************************************************************************)
(* Proofs about background runs, attempts and schedules, for every number  *)
(* of notebooks, learners, sessions, schedules, rows, GPUs and restarts:   *)
(* their types; that background work and interactive sessions share the    *)
(* GPUs like the abstract pool, whose capacity is never exceeded; and that *)
(* rows, schedules, notebooks, Jobs and gpu_usage agree, that what has     *)
(* ended stays ended, and that a scan obeys its schedules.                 *)
(***************************************************************************)
EXTENDS NotebookRuns, FiniteSetTheorems, TLAPS

(***************************************************************************)
(* Types.  One lemma per group of actions that write the same variables.   *)
(***************************************************************************)

(* TypeOK in pieces: what the rows, the schedules and the two loops are. *)
RowTypes == row \in [Item -> Row]
SchedTypes == sched \in [Schedules -> Schedule]
WorkerTypes == w \in Worker /\ (w.pc \notin {"idle", "scan", "down"} => w.item \in Item)
ScanTypes == scan \in Scan /\ (scan.pc = "insert" => scan.pick \in scan.todo)
RestTypes == /\ notebooks \subseteq Notebooks
             /\ open \subseteq Item /\ sessions \subseteq SessionUsers /\ jobs \subseteq Item
             /\ clock \in Nat /\ crashes \in Nat

(* The type invariant is the conjunction of its pieces ... *)
LEMMA Pieces ==
  TypeOK <=> RowTypes /\ SchedTypes /\ WorkerTypes /\ ScanTypes /\ RestTypes
BY DEF TypeOK, RowTypes, SchedTypes, WorkerTypes, ScanTypes, RestTypes

(* ... also in the next state. *)
LEMMA Assemble ==
  ASSUME RowTypes', SchedTypes', WorkerTypes', ScanTypes', RestTypes'
  PROVE  TypeOK'
BY DEF TypeOK, RowTypes, SchedTypes, WorkerTypes, ScanTypes, RestTypes

(* A piece is kept by a step that leaves its variables alone. *)
LEMMA Kept ==
  ASSUME TypeOK
  PROVE  /\ UNCHANGED row => RowTypes'
         /\ UNCHANGED sched => SchedTypes'
         /\ UNCHANGED w => WorkerTypes'
         /\ UNCHANGED scan => ScanTypes'
         /\ UNCHANGED <<notebooks, open, sessions, jobs, clock, crashes>> => RestTypes'
BY DEF TypeOK, RowTypes, SchedTypes, WorkerTypes, ScanTypes, RestTypes

(* The initial records have their types. *)
LEMMA UnbornType == Unborn \in Schedule /\ Unread \in [Schedules -> Schedule]
BY DEF Unborn, Unread, Schedule, ScheduleStatus

(* An idle worker is a worker. *)
LEMMA IdleType == Idle \in Worker
BY UnbornType DEF Idle, Worker, WorkerPc, Verdicts

(* A scheduler between two scans has the type of one. *)
LEMMA NoScanType == NoScan \in Scan
BY UnbornType DEF NoScan, Scan

(* What schedule_result() makes of a schedule is a schedule. *)
LEMMA OutcomeType ==
  ASSUME NEW x \in Schedule, NEW verdict
  PROVE  Outcome(x, verdict) \in Schedule
<1>1. [x EXCEPT !.fails = 0] \in Schedule
  BY DEF Schedule
<1>2. [x EXCEPT !.fails = @ + 1] \in Schedule
  BY DEF Schedule
<1>3. [x EXCEPT !.fails = @ + 1, !.status = "disabled", !.next = 0] \in Schedule
  <2>1. x.fails + 1 \in Nat
    BY DEF Schedule
  <2> QED
    BY <2>1 DEF Schedule, ScheduleStatus
<1> QED
  BY <1>1, <1>2, <1>3 DEF Outcome

(* What a flush writes is a schedule. *)
LEMMA FlushType ==
  ASSUME NEW current \in Schedule, NEW read \in Schedule, NEW new \in Schedule
  PROVE  Flush(current, read, new) \in Schedule
BY DEF Flush, Schedule

(* What a session has read of the schedules are schedules. *)
LEMMA ReadType ==
  ASSUME SchedTypes, WorkerTypes, NEW i \in Item
  PROVE  Read(i) \in [Schedules -> Schedule]
BY DEF Read, SchedTypes, WorkerTypes, Worker

(* finish_run() and finish_attempt() *)
LEMMA FinishType ==
  ASSUME TypeOK, NEW i \in Item, Finish(i)
  PROVE  RowTypes' /\ SchedTypes' /\ open' \subseteq Item
<1>1. w.seen \in [Schedules -> Schedule] /\ w.verdict \in Verdicts
  BY Pieces DEF WorkerTypes, Worker
<1>2. Verdict(i) \in Status
  BY <1>1 DEF Verdict, Verdicts, Status, Ended
<1>3. RowTypes'
  BY <1>2, Pieces DEF Finish, RowTypes, Row
<1>4. \A s \in Schedules : sched'[s] \in Schedule
  <2> TAKE s \in Schedules
  <2>1. sched[s] \in Schedule /\ w.seen[s] \in Schedule
    BY <1>1, Pieces DEF SchedTypes
  <2>2. Flush(sched[s], w.seen[s], Outcome(w.seen[s], w.verdict)) \in Schedule
    BY <2>1, OutcomeType, FlushType
  <2> QED
    BY <2>1, <2>2 DEF Finish
<1>5. SchedTypes'
  BY <1>4 DEF Finish, SchedTypes
<1> QED
  BY <1>3, <1>5, Pieces DEF Finish, RestTypes

(* Every API request keeps the types. *)
LEMMA ApiType ==
  ASSUME TypeOK, Api
  PROVE  TypeOK'
<1>0. RowTypes /\ SchedTypes /\ RestTypes
  BY Pieces
<1>1. ASSUME NEW n \in Notebooks, NEW gpu \in BOOLEAN, CreateRun(n, gpu) PROVE TypeOK'
  <2>1. PICK r \in Runs :
          row' = [row EXCEPT ![r] = [status |-> "queued", gpu |-> gpu, of |-> n,
                                     via |-> Null, slot |-> 0]]
    BY <1>1 DEF CreateRun, Fresh
  <2>2. RowTypes'
    BY <2>1, <1>0 DEF RowTypes, Row, Status, Active
  <2> QED
    BY <1>1, <2>2, Kept, Assemble DEF CreateRun
<1>2. ASSUME NEW r \in Runs, CancelRun(r) PROVE TypeOK'
  <2>1. RowTypes'
    BY <1>0, <1>2 DEF CancelRun, RowTypes, Row, Status, Ended
  <2>2. RestTypes'
    BY <1>0, <1>2 DEF CancelRun, RestTypes
  <2> QED
    BY <1>2, <2>1, <2>2, Kept, Assemble DEF CancelRun
<1>3. ASSUME NEW u \in Learners, NEW gpu \in BOOLEAN, CreateAttempt(u, gpu) PROVE TypeOK'
  <2>1. PICK a \in Attempts :
          row' = [row EXCEPT ![a] = [status |-> "queued", gpu |-> gpu, of |-> u,
                                     via |-> Null, slot |-> 0]]
    BY <1>3 DEF CreateAttempt, Fresh
  <2>2. RowTypes'
    BY <2>1, <1>0 DEF RowTypes, Row, Status, Active
  <2> QED
    BY <1>3, <2>2, Kept, Assemble DEF CreateAttempt
<1>4. ASSUME NEW a \in Attempts, RemoveExercise(a) PROVE TypeOK'
  <2>1. RowTypes'
    BY <1>0, <1>4 DEF RemoveExercise, RowTypes, Row, Status
  <2> QED
    BY <1>4, <2>1, Kept, Assemble DEF RemoveExercise
<1>5. ASSUME NEW n \in Notebooks, DeleteNotebook(n) \/ DeleteNotebookDeadlock(n)
      PROVE  TypeOK'
  <2>1. \A i \in Item : /\ [row[i] EXCEPT !.status = "deleted"] \in Row
                        /\ [row[i] EXCEPT !.status = "absent"] \in Row
    BY <1>0 DEF RowTypes, Row, Status
  <2>2. RunsWithout(n) \in [Item -> Row]
    BY <1>0, <2>1 DEF RunsWithout, RowTypes
  <2>3. RowTypes'
    BY <1>0, <1>5, <2>1, <2>2 DEF DeleteNotebook, DeleteNotebookDeadlock, RowTypes
  <2>4. \A s \in Schedules :
           [sched[s] EXCEPT !.status = "deleted", !.next = 0] \in Schedule
    BY <1>0 DEF SchedTypes, Schedule, ScheduleStatus
  <2>5. SchedulesWithout(n) \in [Schedules -> Schedule]
    BY <1>0, <2>4 DEF SchedulesWithout, SchedTypes
  <2>6. SchedTypes'
    BY <1>5, <2>5 DEF DeleteNotebook, DeleteNotebookDeadlock, SchedTypes
  <2>7. RestTypes'
    BY <1>0, <1>5 DEF DeleteNotebook, DeleteNotebookDeadlock, RestTypes
  <2>8. ScanTypes'
    <3>1. CASE UNCHANGED scan
      BY <3>1, Kept
    <3>2. CASE scan' = NoScan
      BY <3>2, NoScanType DEF ScanTypes, NoScan
    <3> QED
      BY <1>5, <3>1, <3>2 DEF DeleteNotebook, DeleteNotebookDeadlock
  <2> QED
    BY <1>5, <2>3, <2>6, <2>7, <2>8, Kept, Assemble DEF DeleteNotebook, DeleteNotebookDeadlock
<1>6. ASSUME NEW u \in SessionUsers, StartSession(u) \/ StopSession(u) PROVE TypeOK'
  <2>1. RestTypes'
    BY <1>0, <1>6 DEF StartSession, StopSession, RestTypes
  <2> QED
    BY <1>6, <2>1, Kept, Assemble DEF StartSession, StopSession
<1>7. ASSUME SchedTypes', ScheduleUnchanged PROVE TypeOK'
  BY <1>7, Kept, Assemble DEF ScheduleUnchanged
<1>8. ASSUME NEW s \in Schedules, NEW n \in Notebooks, NEW gpu \in BOOLEAN,
             CreateSchedule(s, n, gpu)
      PROVE TypeOK'
  <2>1. SchedTypes'
    BY <1>0, <1>8 DEF CreateSchedule, SchedTypes, Schedule, ScheduleStatus,
                      NextOccurrence, RestTypes
  <2> QED
    BY <1>7, <1>8, <2>1 DEF CreateSchedule
<1>9. ASSUME NEW s \in Schedules, NEW gpu \in BOOLEAN, UpdateSchedule(s, gpu) PROVE TypeOK'
  <2>1. sched[s] \in Schedule /\ NextOccurrence(clock) \in Nat
    BY <1>0 DEF SchedTypes, NextOccurrence, RestTypes
  <2>2. [sched[s] EXCEPT !.gpu = gpu,
                         !.next = IF sched[s].status = "active"
                                  THEN NextOccurrence(clock) ELSE @] \in Schedule
    BY <2>1 DEF Schedule
  <2>3. SchedTypes'
    BY <1>0, <1>9, <2>2 DEF UpdateSchedule, SchedTypes
  <2> QED
    BY <1>7, <1>9, <2>3 DEF UpdateSchedule
<1>10. ASSUME NEW s \in Schedules,
              PauseSchedule(s) \/ ResumeSchedule(s) \/ DeleteSchedule(s)
       PROVE TypeOK'
  <2>1. sched[s] \in Schedule /\ NextOccurrence(clock) \in Nat
    BY <1>0 DEF SchedTypes, NextOccurrence, RestTypes
  <2>2. /\ [sched[s] EXCEPT !.status = "paused", !.next = 0] \in Schedule
        /\ [sched[s] EXCEPT !.status = "deleted", !.next = 0] \in Schedule
        /\ [sched[s] EXCEPT !.status = "active", !.fails = 0,
                            !.next = NextOccurrence(clock)] \in Schedule
    BY <2>1 DEF Schedule, ScheduleStatus
  <2>3. SchedTypes'
    BY <1>0, <1>10, <2>2 DEF PauseSchedule, ResumeSchedule, DeleteSchedule, SchedTypes
  <2> QED
    BY <1>7, <1>10, <2>3 DEF PauseSchedule, ResumeSchedule, DeleteSchedule
<1> QED
  BY <1>1, <1>2, <1>3, <1>4, <1>5, <1>6, <1>8, <1>9, <1>10 DEF Api

(* Every step of the worker keeps the types: first the steps of claim(). *)
LEMMA QueueType ==
  ASSUME NEW set \in SUBSET Item
  PROVE  Queue(set) \in SUBSET Item
BY DEF Queue, Queued

(* The steps of claim(). *)
LEMMA ClaimType ==
  ASSUME TypeOK,
         \/ ClaimAttempts \/ ClaimRuns \/ ClaimNothing
         \/ \E i \in Item : ClaimWait(i) \/ ClaimStart(i) \/ ClaimVanished(i) \/ ClaimRefuse(i)
         \/ RefuseCommit \/ RefuseStale
  PROVE  TypeOK'
<1>0. RowTypes /\ SchedTypes /\ WorkerTypes /\ RestTypes /\ w \in Worker
  BY Pieces DEF WorkerTypes
<1> USE DEF WorkerUnchanged
<1>1. CASE ClaimAttempts
  <2>1. Queue(Attempts) \in SUBSET Item
    BY QueueType DEF Item
  <2>2. WorkerTypes'
    BY <1>0, <1>1, <2>1 DEF ClaimAttempts, WorkerTypes, Worker, WorkerPc
  <2> QED
    BY <1>1, <2>2, Kept, Assemble DEF ClaimAttempts
<1>2. CASE ClaimRuns
  <2>1. Queue(Runs) \in SUBSET Item
    BY QueueType DEF Item
  <2>2. WorkerTypes'
    BY <1>0, <1>2, <2>1 DEF ClaimRuns, WorkerTypes, Worker
  <2> QED
    BY <1>2, <2>2, Kept, Assemble DEF ClaimRuns
<1>3. w' = Idle => WorkerTypes'
  BY IdleType DEF WorkerTypes, Idle
<1>4. CASE ClaimNothing
  BY <1>3, <1>4, Kept, Assemble DEF ClaimNothing
<1>5. ASSUME NEW i \in Item, ClaimWait(i) PROVE TypeOK'
  <2>1. WorkerTypes'
    BY <1>0, <1>5 DEF ClaimWait, Candidate, WorkerTypes, Worker
  <2> QED
    BY <1>5, <2>1, Kept, Assemble DEF ClaimWait
<1>6. ASSUME NEW i \in Item, ClaimStart(i) PROVE TypeOK'
  <2>1. WorkerTypes'
    BY <1>6, IdleType DEF ClaimStart, WorkerTypes, Worker, WorkerPc, Idle
  <2>2. RowTypes'
    BY <1>0, <1>6 DEF ClaimStart, RowTypes, Row, Status, Active
  <2>3. RestTypes'
    BY <1>0, <1>6 DEF ClaimStart, RestTypes
  <2> QED
    BY <1>6, <2>1, <2>2, <2>3, Kept, Assemble DEF ClaimStart
<1>7. ASSUME NEW i \in Item, ClaimVanished(i) PROVE TypeOK'
  BY <1>3, <1>7, Kept, Assemble DEF ClaimVanished
<1>8. ASSUME NEW i \in Item, ClaimRefuse(i) PROVE TypeOK'
  <2>1. Read(i) \in [Schedules -> Schedule]
    BY <1>0, ReadType
  <2>2. WorkerTypes'
    BY <1>0, <1>8, <2>1 DEF ClaimRefuse, WorkerTypes, Worker, WorkerPc
  <2> QED
    BY <1>8, <2>2, Kept, Assemble DEF ClaimRefuse
<1>9. CASE RefuseCommit
  <2>1. w.item \in Item
    BY <1>0, <1>9 DEF RefuseCommit, WorkerTypes
  <2>2. RowTypes' /\ SchedTypes' /\ open' \subseteq Item
    BY <1>9, <2>1, FinishType DEF RefuseCommit
  <2>3. [s \in Schedules |-> IF s \in Touched(w.item) THEN Outcome(w.seen[s], w.verdict)
                             ELSE w.seen[s]] \in [Schedules -> Schedule]
    BY <1>0, OutcomeType DEF Worker
  <2>4. WorkerTypes'
    BY <1>0, <1>9, <2>3 DEF RefuseCommit, WorkerTypes, Worker, WorkerPc
  <2>5. RestTypes'
    BY <1>0, <1>9, <2>2 DEF RefuseCommit, RestTypes
  <2> QED
    BY <1>9, <2>2, <2>4, <2>5, Kept, Assemble DEF RefuseCommit
<1>10. CASE RefuseStale
  BY <1>3, <1>10, Kept, Assemble DEF RefuseStale
<1> QED
  BY <1>1, <1>2, <1>4, <1>5, <1>6, <1>7, <1>8, <1>9, <1>10

(* Then the steps of execute_run(), execute_attempt() and fail(). *)
LEMMA ExecuteType ==
  ASSUME TypeOK,
         \/ CreateJob \/ SkipJob \/ CreateJobFails
         \/ PollCancelled \/ PollResult \/ PollError
         \/ CompleteRead \/ CompleteCommit \/ CompleteRollback \/ Release
         \/ FailRead \/ FailNothing \/ FailCommit \/ FailLost
  PROVE  TypeOK'
<1>0. RowTypes /\ SchedTypes /\ WorkerTypes /\ RestTypes /\ w \in Worker /\ w.item \in Item
  BY Pieces
     DEF WorkerTypes, CreateJob, SkipJob, CreateJobFails, PollCancelled, PollResult, PollError,
         CompleteRead, CompleteCommit, CompleteRollback, Release,
         FailRead, FailNothing, FailCommit, FailLost
<1> USE DEF WorkerUnchanged
<1>1. \A pc \in WorkerPc : [w EXCEPT !.pc = pc] \in Worker
  BY <1>0 DEF Worker
<1>2. \A verdict \in Verdicts : ToFail(verdict) \in Worker
  BY <1>0 DEF ToFail, Worker, WorkerPc
<1>3. DeleteJob => jobs' \subseteq Item
  BY <1>0 DEF DeleteJob, RestTypes
<1>4. CASE CreateJob
  <2>1. WorkerTypes'
    BY <1>0, <1>1, <1>4 DEF CreateJob, WorkerTypes, Worker, WorkerPc
  <2>2. RestTypes'
    BY <1>0, <1>4 DEF CreateJob, RestTypes
  <2> QED
    BY <1>4, <2>1, <2>2, Kept, Assemble DEF CreateJob
<1>5. CASE SkipJob
  <2>1. WorkerTypes'
    BY <1>0, <1>1, <1>5 DEF SkipJob, WorkerTypes, Worker, WorkerPc
  <2> QED
    BY <1>5, <2>1, Kept, Assemble DEF SkipJob
<1>6. ASSUME NEW verdict \in Verdicts, w' = ToFail(verdict) PROVE WorkerTypes'
  BY <1>0, <1>2, <1>6 DEF ToFail, WorkerTypes, Worker
<1>7. CASE CreateJobFails
  <2>1. RestTypes'
    BY <1>0, <1>7 DEF CreateJobFails, RestTypes
  <2> QED
    BY <1>6, <1>7, <2>1, Kept, Assemble DEF CreateJobFails, Verdicts
<1>8. CASE PollCancelled \/ PollError
  <2>1. RestTypes'
    BY <1>0, <1>3, <1>8 DEF PollCancelled, PollError, RestTypes
  <2> QED
    BY <1>6, <1>8, <2>1, Kept, Assemble DEF PollCancelled, PollError, Verdicts
<1>9. CASE PollResult
  <2>1. PICK verdict \in Verdicts : w' = [w EXCEPT !.pc = "answered", !.verdict = verdict]
    BY <1>9 DEF PollResult, Verdicts
  <2>2. WorkerTypes'
    BY <1>0, <2>1 DEF WorkerTypes, Worker, WorkerPc
  <2>3. RestTypes'
    BY <1>0, <1>3, <1>9 DEF PollResult, RestTypes
  <2> QED
    BY <1>9, <2>2, <2>3, Kept, Assemble DEF PollResult
<1>10. CASE CompleteRead \/ FailRead
  <2>1. Read(w.item) \in [Schedules -> Schedule]
    BY <1>0, ReadType
  <2>2. WorkerTypes'
    <3>1. \A pc \in {"completing", "recording"} :
            [w EXCEPT !.pc = pc, !.locked = {w.item}, !.seen = Read(w.item)] \in Worker
      BY <1>0, <2>1 DEF Worker, WorkerPc
    <3>2. [w EXCEPT !.pc = "releasing"] \in Worker
      BY <1>1 DEF WorkerPc
    <3>3. w' \in Worker /\ w'.item = w.item
      BY <1>0, <1>10, <3>1, <3>2 DEF CompleteRead, FailRead, Worker
    <3> QED
      BY <1>0, <3>3 DEF WorkerTypes
  <2> QED
    BY <1>10, <2>2, Kept, Assemble DEF CompleteRead, FailRead
<1>11. CASE CompleteCommit \/ FailCommit
  <2>1. RowTypes' /\ SchedTypes' /\ open' \subseteq Item
    BY <1>0, <1>11, FinishType DEF CompleteCommit, FailCommit
  <2>2. WorkerTypes'
    BY <1>0, <1>11, UnbornType, IdleType
       DEF CompleteCommit, FailCommit, WorkerTypes, Worker, WorkerPc, Idle
  <2>3. RestTypes'
    BY <1>0, <1>11, <2>1 DEF CompleteCommit, FailCommit, RestTypes
  <2> QED
    BY <1>11, <2>1, <2>2, <2>3, Kept, Assemble DEF CompleteCommit, FailCommit
<1>12. CASE CompleteRollback
  <2>1. WorkerTypes'
    BY <1>0, <1>12, UnbornType DEF CompleteRollback, WorkerTypes, Worker, WorkerPc, Verdicts
  <2> QED
    BY <1>12, <2>1, Kept, Assemble DEF CompleteRollback
<1>13. CASE Release \/ FailNothing
  <2>1. RestTypes'
    BY <1>0, <1>13 DEF Release, FailNothing, RestTypes
  <2>2. WorkerTypes'
    BY <1>13, IdleType DEF Release, FailNothing, WorkerTypes, Idle
  <2> QED
    BY <1>13, <2>1, <2>2, Kept, Assemble DEF Release, FailNothing
<1>14. CASE FailLost
  <2>1. WorkerTypes'
    BY <1>14, IdleType DEF FailLost, WorkerTypes, Idle
  <2> QED
    BY <1>14, <2>1, Kept, Assemble DEF FailLost
<1> QED
  BY <1>4, <1>5, <1>7, <1>8, <1>9, <1>10, <1>11, <1>12, <1>13, <1>14

(* The scheduler's scan keeps the types. *)
LEMMA ScanType ==
  ASSUME TypeOK, SchedulerStep
  PROVE  TypeOK'
<1>0. RowTypes /\ SchedTypes /\ ScanTypes /\ RestTypes /\ scan \in Scan
  BY Pieces DEF ScanTypes
<1> USE DEF ScanUnchanged
<1>1. CASE ScanBegin
  <2>1. Due \in SUBSET Schedules
    BY DEF Due
  <2>2. ScanTypes'
    BY <1>0, <1>1, <2>1 DEF ScanBegin, ScanTypes, Scan, SchedTypes, RestTypes
  <2> QED
    BY <1>1, <2>2, Kept, Assemble DEF ScanBegin
<1>2. CASE ScanInsert
  <2>1. scan.pick \in Schedules
    BY <1>0, <1>2 DEF ScanInsert, ScanTypes, Scan
  <2>2. PICK r \in Runs, refused \in BOOLEAN :
          /\ row' = [row EXCEPT ![r] = [status |-> "inserting", gpu |-> sched[scan.pick].gpu,
                                        of |-> sched[scan.pick].of, via |-> scan.pick,
                                        slot |-> scan.plan[scan.pick].next]]
          /\ scan' = [scan EXCEPT
                !.pc = "batch", !.todo = @ \ {scan.pick}, !.pick = Null,
                !.refused = IF refused THEN @ \cup {r} ELSE @,
                !.plan[scan.pick] =
                    [(IF refused THEN Outcome(@, "failed") ELSE @)
                        EXCEPT !.next = NextOccurrence(scan.at)]]
    BY <1>2 DEF ScanInsert, Fresh
  <2>3. /\ sched[scan.pick] \in Schedule /\ scan.plan[scan.pick] \in Schedule
        /\ Outcome(scan.plan[scan.pick], "failed") \in Schedule
    BY <1>0, <2>1, OutcomeType DEF SchedTypes, Scan
  <2>4. RowTypes'
    BY <1>0, <2>1, <2>2, <2>3 DEF RowTypes, Row, Schedule, Status
  <2>5. [(IF refused THEN Outcome(scan.plan[scan.pick], "failed") ELSE scan.plan[scan.pick])
            EXCEPT !.next = NextOccurrence(scan.at)] \in Schedule
    BY <1>0, <2>3 DEF Schedule, NextOccurrence, Scan
  <2>6. ScanTypes'
    BY <1>0, <2>2, <2>5 DEF ScanTypes, Scan
  <2> QED
    BY <1>2, <2>4, <2>6, Kept, Assemble DEF ScanInsert
<1>3. CASE ScanCommit
  <2>1. \A i \in Item :
          /\ [row[i] EXCEPT !.status = "failed"] \in Row
          /\ [row[i] EXCEPT !.status = "queued"] \in Row
    BY <1>0 DEF RowTypes, Row, Status, Active, Ended
  <2>2. RowTypes'
    BY <1>0, <1>3, <2>1 DEF ScanCommit, RowTypes
  <2>3. \A s \in Schedules : Flush(sched[s], scan.read[s], scan.plan[s]) \in Schedule
    BY <1>0, FlushType DEF Scan, SchedTypes
  <2>4. SchedTypes'
    BY <1>0, <1>3, <2>3 DEF ScanCommit, SchedTypes
  <2>5. ScanTypes'
    BY <1>3, NoScanType DEF ScanCommit, ScanTypes, NoScan
  <2> QED
    BY <1>3, <2>2, <2>4, <2>5, Kept, Assemble DEF ScanCommit
<1>4. ASSUME NEW s \in Schedules, ScanCheck(s) PROVE TypeOK'
  <2>0. /\ scan.plan \in [Schedules -> Schedule] /\ scan.plan[s] \in Schedule
        /\ scan.todo \in SUBSET Schedules /\ s \in scan.todo /\ scan.at \in Nat
        /\ scan.pc = "batch"
    BY <1>0, <1>4 DEF Scan, ScanCheck
  <2>1. \A x \in [Schedules -> Schedule] :
           [scan EXCEPT !.todo = @ \ {s}, !.plan = x] \in Scan
    BY <1>0, <2>0 DEF Scan
  <2>2. [scan.plan EXCEPT ![s].next = NextOccurrence(scan.at)] \in [Schedules -> Schedule]
    <3>1. [scan.plan[s] EXCEPT !.next = NextOccurrence(scan.at)] \in Schedule
      BY <2>0 DEF Schedule, NextOccurrence
    <3> QED
      BY <2>0, <3>1
  <2>3. [scan.plan EXCEPT ![s].status = "disabled", ![s].next = 0] \in [Schedules -> Schedule]
    <3>1. [scan.plan[s] EXCEPT !.status = "disabled", !.next = 0] \in Schedule
      BY <2>0 DEF Schedule, ScheduleStatus
    <3> QED
      BY <2>0, <3>1
  <2>4. ScanTypes'
    <3>1. CASE sched[s].of \notin notebooks
      <4>0. scan' = [scan EXCEPT !.todo = @ \ {s}, !.plan[s].status = "disabled",
                                 !.plan[s].next = 0]
        BY <1>4, <3>1 DEF ScanCheck
      <4>1. scan' \in Scan
        BY <2>1, <2>3, <4>0
      <4>2. scan'.pc = "batch"
        BY <2>0, <4>0, <1>0 DEF Scan
      <4> QED
        BY <4>1, <4>2 DEF ScanTypes, Scan
    <3>2. CASE sched[s].of \in notebooks /\ Skipped(s)
      <4>0. scan' = [scan EXCEPT !.todo = @ \ {s}, !.plan[s].next = NextOccurrence(scan.at)]
        BY <1>4, <3>2 DEF ScanCheck
      <4>1. scan' \in Scan
        BY <2>1, <2>2, <4>0
      <4>2. scan'.pc = "batch"
        BY <2>0, <4>0, <1>0 DEF Scan
      <4> QED
        BY <4>1, <4>2 DEF ScanTypes, Scan
    <3>3. CASE sched[s].of \in notebooks /\ ~Skipped(s)
      <4>0. scan' = [scan EXCEPT !.pc = "insert", !.pick = s]
        BY <1>4, <3>3 DEF ScanCheck
      <4>1. scan' \in Scan
        BY <1>0, <4>0 DEF Scan
      <4>2. scan'.pick = s /\ scan'.todo = scan.todo
        BY <1>0, <4>0 DEF Scan
      <4> QED
        BY <2>0, <4>1, <4>2 DEF ScanTypes, Scan
    <3> QED
      BY <3>1, <3>2, <3>3
  <2> QED
    BY <1>4, <2>4, Kept, Assemble DEF ScanCheck
<1> QED
  BY <1>1, <1>2, <1>3, <1>4 DEF SchedulerStep

(* Runs, attempts, schedules, usage rows, Jobs and both loops of the worker  *)
(* process have their types in every reachable state.                        *)
THEOREM TypeCorrect == Spec => []TypeOK
<1>1. Init => TypeOK
  <2> SUFFICES ASSUME Init PROVE TypeOK
    OBVIOUS
  <2>1. RowTypes
    BY DEF Init, RowTypes, Row, Status
  <2>2. SchedTypes
    BY UnbornType DEF Init, SchedTypes
  <2>3. WorkerTypes /\ ScanTypes /\ RestTypes
    BY IdleType, NoScanType DEF Init, WorkerTypes, ScanTypes, RestTypes, Idle, NoScan
  <2> QED
    BY <2>1, <2>2, <2>3, Pieces
<1>2. TypeOK /\ [Next]_vars => TypeOK'
  <2> SUFFICES ASSUME TypeOK, [Next]_vars PROVE TypeOK'
    OBVIOUS
  <2>0. RowTypes /\ RestTypes
    BY Pieces
  <2>1. CASE Api
    BY <2>1, ApiType
  <2>2. CASE WorkerStep
    BY <2>2, ClaimType, ExecuteType DEF WorkerStep
  <2>3. CASE SchedulerStep
    BY <2>3, ScanType
  <2>4. \A i \in Item :
          /\ [row[i] EXCEPT !.status = "failed"] \in Row
          /\ [row[i] EXCEPT !.status = "absent"] \in Row
    BY <2>0 DEF RowTypes, Row, Status, Ended
  <2>5. CASE Crash
    <3>0. RowTypes'
      BY <2>0, <2>4, <2>5 DEF Crash, RowTypes
    <3>1. RestTypes'
      BY <2>0, <2>5 DEF Crash, RestTypes
    <3>2. [Idle EXCEPT !.pc = "down"] \in Worker /\ [Idle EXCEPT !.pc = "down"].pc = "down"
      BY IdleType DEF Worker, WorkerPc
    <3>3. WorkerTypes' /\ ScanTypes'
      BY <2>5, <3>2, NoScanType DEF Crash, WorkerTypes, ScanTypes, NoScan
    <3> QED
      BY <2>5, <3>0, <3>1, <3>3, Kept, Assemble DEF Crash
  <2>6. CASE Restart
    <3>1. RowTypes' /\ RestTypes' /\ WorkerTypes'
      BY <2>0, <2>4, <2>6, IdleType DEF Restart, RowTypes, RestTypes, WorkerTypes, Idle
    <3> QED
      BY <2>6, <3>1, Kept, Assemble DEF Restart
  <2>7. CASE Tick
    <3>1. RestTypes'
      BY <2>0, <2>7 DEF Tick, RestTypes
    <3> QED
      BY <2>7, <3>1, Kept, Assemble DEF Tick
  <2>8. CASE UNCHANGED vars
    BY <2>8, Kept, Assemble DEF vars
  <2> QED
    BY <2>1, <2>2, <2>3, <2>5, <2>6, <2>7, <2>8 DEF Next
<1> QED
  BY <1>1, <1>2, PTL DEF Spec

(***************************************************************************)
(* Two actions open a row, and both look at the capacity in the            *)
(* transaction that opens it; every other action closes rows or leaves     *)
(* them alone.                                                             *)
(***************************************************************************)
Closes == open' \subseteq open /\ sessions' \subseteq sessions
OpensRun == \E i \in Item : /\ GpuFree
                            /\ open' = open \cup {i} /\ sessions' = sessions
OpensSession == \E u \in SessionUsers : /\ GpuFree /\ u \notin sessions
                                        /\ sessions' = sessions \cup {u} /\ open' = open

(* Every step of the runs model is one of the three. *)
LEMMA PoolStep ==
  ASSUME [Next]_vars
  PROVE  Closes \/ OpensRun \/ OpensSession
<1>1. ASSUME Api PROVE Closes \/ OpensSession
  <2>1. ASSUME NEW u \in SessionUsers, StartSession(u) \/ StopSession(u)
        PROVE  Closes \/ OpensSession
    BY <2>1 DEF StartSession, StopSession, Closes, OpensSession
  <2>2. ASSUME NEW n \in Notebooks, NEW gpu \in BOOLEAN,
               CreateRun(n, gpu) \/ DeleteNotebook(n) \/ DeleteNotebookDeadlock(n)
        PROVE  Closes
    BY <2>2 DEF CreateRun, DeleteNotebook, DeleteNotebookDeadlock, Closes
  <2>3. ASSUME NEW r \in Runs, CancelRun(r) PROVE Closes
    BY <2>3 DEF CancelRun, Closes
  <2>4. ASSUME NEW u \in Learners, NEW gpu \in BOOLEAN, CreateAttempt(u, gpu) PROVE Closes
    BY <2>4 DEF CreateAttempt, Closes
  <2>5. ASSUME NEW a \in Attempts, RemoveExercise(a) PROVE Closes
    BY <2>5 DEF RemoveExercise, Closes
  <2>6. ASSUME NEW s \in Schedules, NEW n \in Notebooks, NEW gpu \in BOOLEAN,
               CreateSchedule(s, n, gpu)
        PROVE  Closes
    BY <2>6 DEF CreateSchedule, ScheduleUnchanged, Closes
  <2>7. ASSUME NEW s \in Schedules, NEW gpu \in BOOLEAN, UpdateSchedule(s, gpu) PROVE Closes
    BY <2>7 DEF UpdateSchedule, ScheduleUnchanged, Closes
  <2>8. ASSUME NEW s \in Schedules,
               PauseSchedule(s) \/ ResumeSchedule(s) \/ DeleteSchedule(s)
        PROVE  Closes
    BY <2>8 DEF PauseSchedule, ResumeSchedule, DeleteSchedule, ScheduleUnchanged, Closes
  <2> QED
    BY <1>1, <2>1, <2>2, <2>3, <2>4, <2>5, <2>6, <2>7, <2>8 DEF Api
<1>2. ASSUME WorkerStep PROVE Closes \/ OpensRun
  <2>1. ASSUME NEW i \in Item, ClaimStart(i) PROVE Closes \/ OpensRun
    BY <2>1 DEF ClaimStart, WorkerUnchanged, Closes, OpensRun
  <2>2. ASSUME NEW i \in Item, ClaimWait(i) \/ ClaimVanished(i) \/ ClaimRefuse(i) PROVE Closes
    BY <2>2 DEF ClaimWait, ClaimVanished, ClaimRefuse, WorkerUnchanged, Closes
  <2>3. ClaimAttempts \/ ClaimRuns \/ ClaimNothing \/ RefuseStale => Closes
    BY DEF ClaimAttempts, ClaimRuns, ClaimNothing, RefuseStale, WorkerUnchanged, Closes
  <2>4. RefuseCommit \/ CompleteCommit \/ FailCommit => Closes
    BY DEF RefuseCommit, CompleteCommit, FailCommit, Finish, WorkerUnchanged, Closes
  <2>5. CreateJob \/ SkipJob \/ CreateJobFails \/ PollCancelled \/ PollResult \/ PollError
          => Closes
    BY DEF CreateJob, SkipJob, CreateJobFails, PollCancelled, PollResult, PollError,
           WorkerUnchanged, Closes
  <2>6. CompleteRead \/ CompleteRollback \/ Release \/ FailRead \/ FailNothing \/ FailLost
          => Closes
    BY DEF CompleteRead, CompleteRollback, Release, FailRead, FailNothing, FailLost,
           WorkerUnchanged, Closes
  <2> QED
    BY <1>2, <2>1, <2>2, <2>3, <2>4, <2>5, <2>6 DEF WorkerStep
<1>3. SchedulerStep => Closes
  BY DEF SchedulerStep, ScanBegin, ScanInsert, ScanCommit, ScanCheck, ScanUnchanged, Closes
<1>4. Crash \/ Restart \/ Tick \/ UNCHANGED vars => Closes
  BY DEF Crash, Restart, Tick, vars, Closes
<1> QED
  BY <1>1, <1>2, <1>3, <1>4 DEF Next

(***************************************************************************)
(* Cardinalities.                                                          *)
(***************************************************************************)
(* The tables are bounded. *)
LEMMA ItemsFinite == IsFiniteSet(Item)
<1>1. IsFiniteSet(1..MaxAttempts) /\ IsFiniteSet(1..MaxRuns)
  BY RunsAssumption, FS_Interval
<1>2. IsFiniteSet({"attempt"}) /\ IsFiniteSet({"run"})
  BY FS_Singleton
<1>3. IsFiniteSet(Attempts) /\ IsFiniteSet(Runs)
  BY <1>1, <1>2, FS_Product, Zenon DEF Attempts, Runs
<1> QED
  BY <1>3, FS_Union, Zenon DEF Item

(* The open rows are finitely many, so they can be counted. *)
LEMMA PoolFinite ==
  ASSUME TypeOK
  PROVE  /\ IsFiniteSet(open) /\ Cardinality(open) \in Nat
         /\ IsFiniteSet(sessions) /\ Cardinality(sessions) \in Nat
<1>1. open \in SUBSET Item /\ sessions \in SUBSET SessionUsers
  BY DEF TypeOK
<1>2. IsFiniteSet(open) /\ IsFiniteSet(sessions)
  BY <1>1, ItemsFinite, FS_Subset, RunsAssumption
<1> QED
  BY <1>2, FS_CardinalityType

(* Multiplication by a natural number is monotonic. *)
LEMMA Times ==
  ASSUME NEW a \in Nat, NEW b \in Nat, NEW c \in Nat, b <= c
  PROVE  a * b <= a * c
OBVIOUS

(* The GPUs of the open rows never exceed gpu_capacity: require_gpu() and    *)
(* claim() check and open under the pool lock, and nothing else opens a row. *)
THEOREM CapacityKept == Spec => []WithinCapacity
<1>1. Init => WithinCapacity
  BY FS_EmptySet, RunsAssumption DEF Init, WithinCapacity, InUse
<1>2. TypeOK /\ TypeOK' /\ WithinCapacity /\ [Next]_vars => WithinCapacity'
  <2> SUFFICES ASSUME TypeOK, TypeOK', WithinCapacity, [Next]_vars
               PROVE  WithinCapacity'
    OBVIOUS
  <2> DEFINE used == Cardinality(open) + Cardinality(sessions)
             usedThen == Cardinality(open') + Cardinality(sessions')
  <2>1. used \in Nat
    BY PoolFinite
  <2>2. /\ IsFiniteSet(open') /\ Cardinality(open') \in Nat
        /\ IsFiniteSet(sessions') /\ Cardinality(sessions') \in Nat
    <3>1. open' \in SUBSET Item /\ sessions' \in SUBSET SessionUsers
      BY DEF TypeOK
    <3>2. IsFiniteSet(open') /\ IsFiniteSet(sessions')
      BY <3>1, ItemsFinite, FS_Subset, RunsAssumption
    <3> QED
      BY <3>2, FS_CardinalityType
  <2>3. CASE Closes
    <3>1. Cardinality(open') <= Cardinality(open)
      BY <2>3, PoolFinite, FS_Subset DEF Closes
    <3>2. Cardinality(sessions') <= Cardinality(sessions)
      BY <2>3, PoolFinite, FS_Subset DEF Closes
    <3>3. usedThen \in Nat /\ usedThen <= used
      BY <3>1, <3>2, <2>2, PoolFinite
    <3>4. GpuCount * usedThen <= GpuCount * used
      BY <2>1, <3>3, Times, RunsAssumption
    <3> QED
      BY <2>1, <3>3, <3>4, RunsAssumption DEF WithinCapacity, InUse
  <2>4. ASSUME GpuFree, usedThen <= used + 1 PROVE WithinCapacity'
    <3>1. usedThen \in Nat
      BY <2>2
    <3>2. GpuCount * usedThen <= GpuCount * (used + 1)
      BY <2>1, <2>4, <3>1, Times, RunsAssumption
    <3>3. GpuCount * used + GpuCount <= Capacity
      BY <2>4 DEF GpuFree, InUse
    <3> QED
      BY <2>1, <3>1, <3>2, <3>3, RunsAssumption DEF WithinCapacity, InUse
  <2>5. CASE OpensRun
    <3>1. PICK i \in Item : open' = open \cup {i} /\ sessions' = sessions
      BY <2>5 DEF OpensRun
    <3>2. Cardinality(open \cup {i}) = IF i \in open THEN Cardinality(open)
                                       ELSE Cardinality(open) + 1
      BY PoolFinite, FS_AddElement, Zenon
    <3>3. Cardinality(open') <= Cardinality(open) + 1
      BY <3>1, <3>2, PoolFinite
    <3>4. GpuFree /\ usedThen <= used + 1
      BY <2>5, <2>2, <3>1, <3>3, PoolFinite DEF OpensRun
    <3> QED
      BY <2>4, <3>4
  <2>6. CASE OpensSession
    <3>1. PICK u \in SessionUsers : sessions' = sessions \cup {u} /\ open' = open
      BY <2>6 DEF OpensSession
    <3>2. Cardinality(sessions \cup {u}) = IF u \in sessions THEN Cardinality(sessions)
                                           ELSE Cardinality(sessions) + 1
      BY PoolFinite, FS_AddElement, Zenon
    <3>3. Cardinality(sessions') <= Cardinality(sessions) + 1
      BY <3>1, <3>2, PoolFinite
    <3>4. GpuFree /\ usedThen <= used + 1
      BY <2>6, <2>2, <3>1, <3>3, PoolFinite DEF OpensSession
    <3> QED
      BY <2>4, <3>4
  <2> QED
    BY <2>3, <2>5, <2>6, PoolStep
<1> QED
  BY <1>1, <1>2, TypeCorrect, PTL DEF Spec

(***************************************************************************)
(* The abstract pool counts both kinds of rows as one set.                 *)
(***************************************************************************)
PoolHolders == ({"session"} \X sessions) \cup open

(* Rows of sessions and of items are different rows. *)
LEMMA HoldersCounted ==
  ASSUME TypeOK
  PROVE  Cardinality(PoolHolders) = Cardinality(open) + Cardinality(sessions)
<1>1. IsFiniteSet({"session"}) /\ Cardinality({"session"}) = 1
  BY FS_Singleton
<1>2. /\ IsFiniteSet({"session"} \X sessions)
      /\ Cardinality({"session"} \X sessions) = 1 * Cardinality(sessions)
  BY <1>1, PoolFinite, FS_Product
<1>3. ({"session"} \X sessions) \cap open = {}
  BY DEF TypeOK, Item, Attempts, Runs
<1>4. Cardinality(PoolHolders) =
        Cardinality({"session"} \X sessions) + Cardinality(open)
           - Cardinality(({"session"} \X sessions) \cap open)
  BY <1>2, PoolFinite, FS_Union, Zenon DEF PoolHolders
<1>5. Cardinality({}) = 0
  BY FS_EmptySet
<1>6. /\ Cardinality(open) \in Nat /\ Cardinality(sessions) \in Nat
      /\ Cardinality({"session"} \X sessions) = Cardinality(sessions)
  BY <1>2, PoolFinite
<1>7. Cardinality(({"session"} \X sessions) \cap open) = 0
  BY <1>3, <1>5, Zenon
<1> QED
  BY <1>4, <1>6, <1>7

(* Runs, attempts and sessions together implement the abstract pool.         *)
THEOREM RunsImplementPool == Spec => PoolSpec
<1>1. Init => Pool!Init
  BY DEF Init, Pool!Init
<1>2. TypeOK /\ [Next]_vars => [Pool!Next]_PoolHolders
  <2> SUFFICES ASSUME TypeOK, [Next]_vars PROVE [Pool!Next]_PoolHolders
    OBVIOUS
  <2>1. GpuFree => Pool!InUse(PoolHolders) + GpuCount <= Capacity
    <3>1. Pool!InUse(PoolHolders) = GpuCount * Cardinality(PoolHolders)
      BY Zenon DEF Pool!InUse, Pool!Cardinality, Cardinality
    <3> QED
      BY <3>1, HoldersCounted DEF GpuFree, InUse
  <2>2. CASE Closes
    <3>1. PoolHolders' = PoolHolders \ (PoolHolders \ PoolHolders')
      BY <2>2 DEF Closes, PoolHolders
    <3>2. PoolHolders' # PoolHolders => PoolHolders \ PoolHolders' # {}
      BY <3>1
    <3> QED
      BY <3>1, <3>2 DEF Pool!Next, Pool!Release, PoolHolders
  <2>3. CASE OpensRun
    <3>1. PICK i \in Item : GpuFree /\ open' = open \cup {i} /\ sessions' = sessions
      BY <2>3 DEF OpensRun
    <3>2. PoolHolders' = PoolHolders \cup {i}
      BY <3>1 DEF PoolHolders
    <3>3. CASE i \in PoolHolders
      BY <3>2, <3>3
    <3>4. CASE i \notin PoolHolders
      <4>1. Pool!Acquire(i)
        BY <2>1, <3>1, <3>2, <3>4 DEF Pool!Acquire, PoolHolders
      <4> QED
        BY <3>1, <4>1 DEF Pool!Next, Holder
    <3> QED
      BY <3>3, <3>4
  <2>4. CASE OpensSession
    <3>1. PICK u \in SessionUsers :
             GpuFree /\ sessions' = sessions \cup {u} /\ open' = open
      BY <2>4 DEF OpensSession
    <3> DEFINE h == <<"session", u>>
    <3>2. PoolHolders' = PoolHolders \cup {h}
      BY <3>1 DEF PoolHolders
    <3>3. CASE h \in PoolHolders
      BY <3>2, <3>3
    <3>4. CASE h \notin PoolHolders
      <4>1. Pool!Acquire(h)
        BY <2>1, <3>1, <3>2, <3>4 DEF Pool!Acquire, PoolHolders
      <4> QED
        BY <3>1, <4>1 DEF Pool!Next, Holder
    <3> QED
      BY <3>3, <3>4
  <2> QED
    BY <2>2, <2>3, <2>4, PoolStep
<1> QED
  BY <1>1, <1>2, TypeCorrect, PTL DEF Spec, PoolSpec, Pool!Spec, PoolHolders

(***************************************************************************)
(* Rows, schedules and the two loops: the inductive invariant, in parts.   *)
(***************************************************************************)

(* What the scan has locked is still as it was read, and active; what it is  *)
(* going to write over it is active with a next run, or disabled.            *)
ScanLocks ==
    /\ scan.todo \subseteq scan.locked
    /\ scan.pc = "idle" => scan.locked = {}
    /\ \A s \in scan.locked :
          /\ scan.read[s] = sched[s] /\ sched[s].status = "active"
          /\ scan.plan[s].status \in {"active", "disabled"}
          /\ scan.plan[s].status = "active" => scan.plan[s].next # 0

(* Schedules. *)
SchedInv == ActiveScheduleFires /\ ScanLocks

(* An uncommitted insert is the scan's, for a schedule it has locked, and    *)
(* there is one per notebook.                                                *)
Inserted ==
    /\ \A r \in Runs : row[r].status = "inserting" => row[r].via \in scan.locked
    /\ \A r, q \in Runs : /\ row[r].status = "inserting" /\ row[q].status = "inserting"
                          /\ row[r].of = row[q].of
                          => r = q
    /\ scan.pc = "insert" => ~KeyShared(sched[scan.pick].of)

(* Runs and schedules that are in the table belong to a notebook that is. *)
RunsOwned ==
    \A r \in Runs : row[r].status \notin {"absent", "deleted"} => row[r].of \in notebooks
SchedulesOwned ==
    \A s \in Schedules : Exists(sched[s]) => sched[s].of \in notebooks

(* The worker has read only schedules that were in the table. *)
SeenBorn ==
    \A s \in Schedules : w.seen[s].status # "unborn" => sched[s].status # "unborn"

(* The rows of a batch were queued when they were selected: unless they are  *)
(* still locked, their owner may have cancelled or removed them.             *)
ClaimRows ==
    /\ w.batch # {} => w.pc \in {"scan", "refusing"}
    /\ w.pc = "refusing" => w.item \in w.batch
    /\ \A i \in w.batch : /\ row[i].status \in {"queued", "cancelled", "deleted"}
                          /\ i \in w.locked => row[i].status = "queued"

Executing == {"claimed", "polling", "answered", "completing", "failing", "recording"}

(* The row of the item the worker executes is running, unless its owner has  *)
(* cancelled or removed it, and certainly while the worker has it locked.    *)
ItemRow ==
    /\ w.pc \in Executing => row[w.item].status \in {"running", "cancelled", "deleted"}
    /\ w.pc \in {"completing", "recording"} =>
          w.item \in w.locked /\ row[w.item].status = "running"
    /\ w.pc = "releasing" => row[w.item].status # "running"

(* A row the worker may have left running. *)
Left(i) == \/ "db" \in Faults
           \/ row[i].via # Null /\ sched[row[i].via].status = "deleted"

(* Any other row is running only while the worker executes it. *)
OneRunning ==
    w.pc # "down" =>
        \A i \in Item : row[i].status = "running"
                           => Left(i) \/ (w.item = i /\ w.pc \in Executing)

AttemptsUnscheduled == \A a \in Attempts : row[a].via = Null

(* Unless the cluster keeps one, a Job exists only while the worker polls.   *)
JobOfItem ==
    "leak" \notin Faults =>
        /\ w.pc \notin {"polling", "down"} => jobs = {}
        /\ w.pc = "polling" => jobs \subseteq {w.item}

(* The usage of a removed attempt is open only until the worker lets go.     *)
Held(i) == \/ w.item = i /\ w.pc \in Executing \cup {"releasing"}
           \/ w.pc = "down" \/ "db" \in Faults
UsageOfRows ==
    \A i \in Item :
        /\ row[i].gpu /\ row[i].status = "running" => i \in open
        /\ i \in open =>
             /\ row[i].gpu
             /\ row[i].status = "running" \/ (row[i].status = "deleted" /\ Held(i))

(***************************************************************************)
(* Schedules.                                                              *)
(***************************************************************************)

(* The schedule requests of the API. *)
LEMMA OwnerSched ==
  ASSUME TypeOK, SchedInv, NEW s \in Schedules,
         \/ \E n \in Notebooks, gpu \in BOOLEAN : CreateSchedule(s, n, gpu)
         \/ \E gpu \in BOOLEAN : UpdateSchedule(s, gpu)
         \/ PauseSchedule(s) \/ ResumeSchedule(s) \/ DeleteSchedule(s)
  PROVE  SchedInv'
<1>0. /\ sched \in [Schedules -> Schedule] /\ clock \in Nat /\ NextOccurrence(clock) # 0
      /\ scan' = scan
  <2>1. sched \in [Schedules -> Schedule] /\ clock \in Nat
    BY DEF TypeOK
  <2>2. NextOccurrence(clock) # 0
    BY <2>1 DEF NextOccurrence
  <2>3. scan' = scan
    BY DEF CreateSchedule, UpdateSchedule, PauseSchedule, ResumeSchedule, DeleteSchedule,
           ScheduleUnchanged
  <2> QED
    BY <2>1, <2>2, <2>3
<1>1. s \notin scan.locked
  BY DEF SchedInv, ScanLocks, CreateSchedule, UpdateSchedule, PauseSchedule,
         ResumeSchedule, DeleteSchedule, Owned
<1>2. \A t \in Schedules : t # s => sched'[t] = sched[t]
  BY <1>0 DEF CreateSchedule, UpdateSchedule, PauseSchedule, ResumeSchedule, DeleteSchedule
<1>3. /\ sched'[s].status = "active" => sched'[s].next # 0
      /\ sched'[s].status = "paused" => sched'[s].next = 0
  <2>1. CASE \E n \in Notebooks, gpu \in BOOLEAN : CreateSchedule(s, n, gpu)
    BY <1>0, <2>1 DEF CreateSchedule
  <2>2. ASSUME NEW gpu \in BOOLEAN, UpdateSchedule(s, gpu)
        PROVE  /\ sched'[s].status = sched[s].status
               /\ sched'[s].next = IF sched[s].status = "active"
                                   THEN NextOccurrence(clock) ELSE sched[s].next
    BY <1>0, <2>2 DEF UpdateSchedule, Schedule
  <2>3. CASE PauseSchedule(s) \/ ResumeSchedule(s) \/ DeleteSchedule(s)
    BY <1>0, <2>3 DEF PauseSchedule, ResumeSchedule, DeleteSchedule, Schedule
  <2> QED
    BY <1>0, <2>1, <2>2, <2>3 DEF SchedInv, ActiveScheduleFires
<1>4. scan.locked \subseteq Schedules
  BY DEF TypeOK, Scan
<1> QED
  BY <1>0, <1>1, <1>2, <1>3, <1>4 DEF SchedInv, ActiveScheduleFires, ScanLocks

(* Deleting a notebook. *)
LEMMA DeleteSched ==
  ASSUME TypeOK, SchedInv, NEW n \in Notebooks,
         DeleteNotebook(n) \/ DeleteNotebookDeadlock(n)
  PROVE  SchedInv'
<1>0. sched \in [Schedules -> Schedule] /\ scan.locked \subseteq Schedules
  BY DEF TypeOK, Scan
<1>1. \A s \in Schedules : \/ sched'[s] = sched[s]
                           \/ sched[s].of = n /\ sched'[s].status = "deleted"
  <2>1. sched' = SchedulesWithout(n)
    BY DEF DeleteNotebook, DeleteNotebookDeadlock
  <2> QED
    BY <1>0, <2>1 DEF SchedulesWithout, Schedule
<1>2. ActiveScheduleFires'
  BY <1>1 DEF SchedInv, ActiveScheduleFires
<1>3. CASE DeleteNotebook(n)
  <2>1. \A s \in scan.locked : sched'[s] = sched[s]
    BY <1>0, <1>1, <1>3 DEF DeleteNotebook
  <2> QED
    BY <1>2, <1>3, <2>1 DEF DeleteNotebook, SchedInv, ScanLocks
<1>4. CASE DeleteNotebookDeadlock(n)
  BY <1>2, <1>4 DEF DeleteNotebookDeadlock, SchedInv, ScanLocks, NoScan
<1> QED
  BY <1>3, <1>4

(* A flush of a run's outcome writes a status only to disable the schedule.  *)
LEMMA OutcomeFlush ==
  ASSUME NEW current \in Schedule, NEW read \in Schedule, NEW verdict
  PROVE  LET new == Flush(current, read, Outcome(read, verdict)) IN
           new.status = "disabled" \/ (new.status = current.status /\ new.next = current.next)
BY DEF Flush, Outcome, Schedule

(* finish_run() and finish_attempt(): they wait for the schedules the scan   *)
(* has locked, and write "disabled" or leave status and next run alone.      *)
LEMMA FinishWrites ==
  ASSUME TypeOK, SeenBorn, NEW i \in Item, Finish(i)
  PROVE  /\ \A s \in scan.locked : sched'[s] = sched[s]
         /\ \A s \in Schedules :
               \/ sched'[s].status = "disabled"
               \/ sched'[s].status = sched[s].status /\ sched'[s].next = sched[s].next
         /\ \A s \in Schedules : sched'[s].of = sched[s].of
         /\ \A s \in Schedules : sched[s].status = "deleted" => sched'[s] = sched[s]
         /\ \A s \in Schedules : Exists(sched'[s]) => Exists(sched[s])
<1>0. /\ sched \in [Schedules -> Schedule] /\ w.seen \in [Schedules -> Schedule]
      /\ scan.locked \subseteq Schedules
  BY DEF TypeOK, Scan, Worker
<1>1. \A s \in Schedules : s \notin Touched(i) => sched'[s] = sched[s]
  BY DEF Finish
<1>2. \A s \in scan.locked : sched'[s] = sched[s]
  BY <1>0, <1>1 DEF Finish
<1>3. ASSUME NEW s \in Schedules
      PROVE  \/ sched'[s].status = "disabled"
             \/ sched'[s].status = sched[s].status /\ sched'[s].next = sched[s].next
  <2>1. CASE s \in Touched(i)
    <3>1. sched'[s] = Flush(sched[s], w.seen[s], Outcome(w.seen[s], w.verdict))
      BY <2>1 DEF Finish
    <3>2. sched[s] \in Schedule /\ w.seen[s] \in Schedule
      BY <1>0
    <3> QED
      BY <3>1, <3>2, OutcomeFlush
  <2> QED
    BY <1>1, <2>1
<1>4. \A s \in Schedules : sched'[s].of = sched[s].of
  BY <1>0 DEF Finish, Flush, Schedule
<1>5. \A s \in Schedules : sched[s].status = "deleted" => sched'[s] = sched[s]
  BY <1>1 DEF Finish, Finishable
<1>6. \A s \in Schedules : sched[s].status = "unborn" => sched'[s] = sched[s]
  BY <1>1 DEF SeenBorn, Touched, Exists
<1> QED
  BY <1>2, <1>3, <1>4, <1>5, <1>6 DEF Exists

(* The scheduler: what it writes is active with a next run, or disabled. *)
LEMMA ScanSched ==
  ASSUME TypeOK, SchedInv, SchedulerStep
  PROVE  SchedInv'
<1>0. /\ sched \in [Schedules -> Schedule] /\ scan.plan \in [Schedules -> Schedule]
      /\ scan.locked \in SUBSET Schedules /\ scan.todo \subseteq scan.locked
      /\ scan \in Scan /\ scan.at \in Nat
  BY DEF TypeOK, Scan, SchedInv, ScanLocks
<1>a. NextOccurrence(scan.at) # 0
  BY <1>0 DEF NextOccurrence
<1>b. ASSUME sched' = sched, scan'.locked = scan.locked, scan'.read = scan.read,
             scan'.todo \subseteq scan.todo, scan'.pc # "idle",
             NEW p \in scan.locked,
             \A s \in Schedules : s # p => scan'.plan[s] = scan.plan[s],
             scan'.plan[p].status \in {"active", "disabled"},
             scan'.plan[p].status = "active" => scan'.plan[p].next # 0
      PROVE  SchedInv'
  <2>1. ActiveScheduleFires'
    BY <1>b DEF SchedInv, ActiveScheduleFires
  <2>2. ScanLocks'
    BY <1>0, <1>b DEF SchedInv, ScanLocks
  <2> QED
    BY <2>1, <2>2 DEF SchedInv
<1>1. CASE ScanBegin
  <2>1. /\ scan'.pc = "batch" /\ scan'.locked = Due /\ scan'.todo = Due
        /\ scan'.read = sched /\ scan'.plan = sched
    BY <1>0, <1>1 DEF ScanBegin, Scan
  <2>2. \A s \in Due : sched[s].status = "active" /\ sched[s].next # 0
    BY DEF Due, SchedInv, ActiveScheduleFires
  <2>3. sched' = sched
    BY <1>1 DEF ScanBegin
  <2> QED
    BY <2>1, <2>2, <2>3 DEF SchedInv, ActiveScheduleFires, ScanLocks
<1>2. ASSUME NEW s \in Schedules, ScanCheck(s) PROVE SchedInv'
  <2>0. /\ s \in scan.todo /\ s \in scan.locked /\ scan.plan[s] \in Schedule
        /\ scan.plan[s].status \in {"active", "disabled"}
        /\ scan.plan[s].status = "active" => scan.plan[s].next # 0
        /\ sched' = sched /\ scan.pc = "batch"
    BY <1>0, <1>2 DEF ScanCheck, SchedInv, ScanLocks
  <2>1. CASE scan' = [scan EXCEPT !.todo = @ \ {s}, !.plan[s].status = "disabled",
                                  !.plan[s].next = 0]
    <3>1. /\ scan'.locked = scan.locked /\ scan'.read = scan.read
          /\ scan'.todo \subseteq scan.todo /\ scan'.pc # "idle"
          /\ \A t \in Schedules : t # s => scan'.plan[t] = scan.plan[t]
          /\ scan'.plan[s].status = "disabled"
      BY <1>0, <2>0, <2>1 DEF Scan, Schedule
    <3> QED
      BY <1>b, <2>0, <3>1
  <2>2. CASE scan' = [scan EXCEPT !.todo = @ \ {s}, !.plan[s].next = NextOccurrence(scan.at)]
    <3>1. /\ scan'.locked = scan.locked /\ scan'.read = scan.read
          /\ scan'.todo \subseteq scan.todo /\ scan'.pc # "idle"
          /\ \A t \in Schedules : t # s => scan'.plan[t] = scan.plan[t]
          /\ scan'.plan[s].status = scan.plan[s].status
          /\ scan'.plan[s].next = NextOccurrence(scan.at)
      BY <1>0, <2>0, <2>2 DEF Scan, Schedule
    <3> QED
      BY <1>a, <1>b, <2>0, <3>1
  <2>3. CASE scan' = [scan EXCEPT !.pc = "insert", !.pick = s]
    <3>1. /\ scan'.locked = scan.locked /\ scan'.read = scan.read
          /\ scan'.todo = scan.todo /\ scan'.pc # "idle" /\ scan'.plan = scan.plan
      BY <1>0, <2>3 DEF Scan
    <3> QED
      BY <1>b, <2>0, <3>1
  <2> QED
    BY <1>2, <2>1, <2>2, <2>3 DEF ScanCheck
<1>3. CASE ScanInsert
  <2>0. /\ scan.pick \in Schedules /\ scan.pick \in scan.locked
        /\ sched' = sched /\ scan.plan[scan.pick] \in Schedule
        /\ scan.plan[scan.pick].status \in {"active", "disabled"}
    BY <1>0, <1>3 DEF ScanInsert, TypeOK, SchedInv, ScanLocks
  <2>1. PICK r \in Runs, refused \in BOOLEAN :
          scan' = [scan EXCEPT
                !.pc = "batch", !.todo = @ \ {scan.pick}, !.pick = Null,
                !.refused = IF refused THEN @ \cup {r} ELSE @,
                !.plan[scan.pick] =
                    [(IF refused THEN Outcome(@, "failed") ELSE @)
                        EXCEPT !.next = NextOccurrence(scan.at)]]
    BY <1>3 DEF ScanInsert, Fresh
  <2> DEFINE x == IF refused THEN Outcome(scan.plan[scan.pick], "failed")
                  ELSE scan.plan[scan.pick]
  <2>2. x \in Schedule /\ x.status \in {"active", "disabled"}
    <3>1. Outcome(scan.plan[scan.pick], "failed") \in Schedule
      BY <2>0, OutcomeType
    <3>2. Outcome(scan.plan[scan.pick], "failed").status \in {"active", "disabled"}
      BY <2>0 DEF Outcome, Schedule
    <3> QED
      BY <2>0, <3>1, <3>2
  <2>3. /\ scan'.locked = scan.locked /\ scan'.read = scan.read
        /\ scan'.todo \subseteq scan.todo /\ scan'.pc # "idle"
        /\ \A t \in Schedules : t # scan.pick => scan'.plan[t] = scan.plan[t]
        /\ scan'.plan[scan.pick] = [x EXCEPT !.next = NextOccurrence(scan.at)]
    BY <1>0, <2>0, <2>1 DEF Scan
  <2>4. /\ scan'.plan[scan.pick].status \in {"active", "disabled"}
        /\ scan'.plan[scan.pick].next # 0
    BY <1>a, <2>2, <2>3 DEF Schedule
  <2> QED
    BY <1>b, <2>0, <2>3, <2>4
<1>4. CASE ScanCommit
  <2>1. ASSUME NEW s \in Schedules
        PROVE  \/ s \notin scan.locked /\ sched'[s] = sched[s]
               \/ /\ sched'[s].status \in {"active", "disabled"}
                  /\ sched'[s].status = "active" => sched'[s].next # 0
    <3>1. CASE s \in scan.locked
      <4>1. sched'[s] = Flush(sched[s], scan.read[s], scan.plan[s])
        BY <1>4, <3>1 DEF ScanCommit
      <4>2. /\ scan.read[s] = sched[s] /\ sched[s] \in Schedule
            /\ scan.plan[s].status \in {"active", "disabled"}
            /\ scan.plan[s].status = "active" => scan.plan[s].next # 0
        BY <1>0, <3>1 DEF SchedInv, ScanLocks
      <4>3. sched'[s].status = scan.plan[s].status /\ sched'[s].next = scan.plan[s].next
        BY <4>1, <4>2 DEF Flush, Schedule
      <4> QED
        BY <4>2, <4>3
    <3> QED
      BY <1>4, <3>1 DEF ScanCommit
  <2>2. ActiveScheduleFires'
    BY <2>1 DEF SchedInv, ActiveScheduleFires
  <2>3. ScanLocks'
    BY <1>4 DEF ScanCommit, ScanLocks, NoScan
  <2> QED
    BY <2>2, <2>3 DEF SchedInv
<1> QED
  BY <1>1, <1>2, <1>3, <1>4 DEF SchedulerStep

(* The worker writes schedules in finish_run() only. *)
LEMMA WorkerSched ==
  ASSUME TypeOK, SeenBorn, SchedInv, WorkerStep
  PROVE  SchedInv'
<1>1. ASSUME NEW i \in Item, Finish(i), scan' = scan PROVE SchedInv'
  <2>1. /\ \A s \in scan.locked : sched'[s] = sched[s]
        /\ \A s \in Schedules :
               \/ sched'[s].status = "disabled"
               \/ sched'[s].status = sched[s].status /\ sched'[s].next = sched[s].next
    BY <1>1, FinishWrites
  <2> QED
    BY <1>1, <2>1 DEF SchedInv, ActiveScheduleFires, ScanLocks
<1>2. CASE RefuseCommit \/ CompleteCommit \/ FailCommit
  <2>1. w.item \in Item /\ Finish(w.item) /\ scan' = scan
    BY <1>2 DEF TypeOK, RefuseCommit, CompleteCommit, FailCommit, WorkerUnchanged
  <2> QED
    BY <1>1, <2>1
<1>3. CASE sched' = sched /\ scan' = scan
  BY <1>3 DEF SchedInv, ActiveScheduleFires, ScanLocks
<1>4. CASE \E i \in Item : ClaimWait(i) \/ ClaimStart(i) \/ ClaimVanished(i) \/ ClaimRefuse(i)
  BY <1>3, <1>4 DEF ClaimWait, ClaimStart, ClaimVanished, ClaimRefuse, WorkerUnchanged
<1>5. CASE ClaimAttempts \/ ClaimRuns \/ ClaimNothing \/ RefuseStale \/ CreateJob \/ SkipJob
           \/ CreateJobFails
  BY <1>3, <1>5 DEF ClaimAttempts, ClaimRuns, ClaimNothing, RefuseStale, CreateJob, SkipJob,
                    CreateJobFails, WorkerUnchanged
<1>6. CASE PollCancelled \/ PollResult \/ PollError \/ CompleteRead \/ CompleteRollback
           \/ Release \/ FailRead \/ FailNothing \/ FailLost
  BY <1>3, <1>6 DEF PollCancelled, PollResult, PollError, CompleteRead, CompleteRollback,
                    Release, FailRead, FailNothing, FailLost, WorkerUnchanged
<1> QED
  BY <1>2, <1>4, <1>5, <1>6 DEF WorkerStep

(***************************************************************************)
(* How schedules and rows move, whatever the step.                         *)
(***************************************************************************)

(* A schedule keeps its notebook, and a deleted one stays deleted. *)
SchedMoves(s) ==
    \/ sched'[s] = sched[s]
    \/ sched[s].status = "unborn" /\ sched'[s].status = "active" /\ sched'[s].of \in notebooks
    \/ /\ Exists(sched[s]) /\ sched'[s].status # "unborn" /\ sched'[s].of = sched[s].of

(* Every step moves a schedule that way. *)
LEMMA SchedMove ==
  ASSUME TypeOK, SchedInv, SeenBorn, [Next]_vars
  PROVE  \A s \in Schedules : SchedMoves(s)
<1>0. sched \in [Schedules -> Schedule] /\ scan.locked \subseteq Schedules
  BY DEF TypeOK, Scan
<1>1. CASE sched' = sched
  BY <1>1 DEF SchedMoves
<1>2. ASSUME NEW i \in Item, Finish(i) PROVE \A s \in Schedules : SchedMoves(s)
  <2>1. ASSUME NEW s \in Schedules PROVE SchedMoves(s)
    <3>1. s \notin Touched(i) => sched'[s] = sched[s]
      BY <1>2 DEF Finish
    <3>2. /\ s \in Touched(i) => Exists(sched[s])
          /\ sched'[s].of = sched[s].of
          /\ sched'[s].status = "disabled" \/ sched'[s].status = sched[s].status
      <4>1. s \in Touched(i) => Exists(sched[s])
        BY <1>2 DEF SeenBorn, Touched, Finish, Finishable, Exists
      <4> QED
        BY <1>2, <4>1, FinishWrites
    <3> QED
      BY <3>1, <3>2 DEF SchedMoves, Exists
  <2> QED
    BY <2>1
<1>3. CASE Api
  <2>1. ASSUME NEW s \in Schedules, NEW n \in Notebooks, NEW gpu \in BOOLEAN,
               CreateSchedule(s, n, gpu)
        PROVE  \A t \in Schedules : SchedMoves(t)
    BY <1>0, <2>1 DEF CreateSchedule, SchedMoves
  <2>2. ASSUME NEW s \in Schedules, NEW gpu \in BOOLEAN, UpdateSchedule(s, gpu)
        PROVE  \A t \in Schedules : SchedMoves(t)
    <3>1. Exists(sched[s]) /\ sched'[s].of = sched[s].of /\ sched'[s].status = sched[s].status
      BY <1>0, <2>2 DEF UpdateSchedule, Owned, Schedule
    <3>2. \A t \in Schedules : t # s => sched'[t] = sched[t]
      BY <1>0, <2>2 DEF UpdateSchedule
    <3> QED
      BY <3>1, <3>2 DEF SchedMoves, Exists
  <2>3. ASSUME NEW s \in Schedules, PauseSchedule(s) \/ ResumeSchedule(s) \/ DeleteSchedule(s)
        PROVE  \A t \in Schedules : SchedMoves(t)
    <3>1. Exists(sched[s]) /\ sched'[s].of = sched[s].of /\ sched'[s].status # "unborn"
      BY <1>0, <2>3 DEF PauseSchedule, ResumeSchedule, DeleteSchedule, Owned, Schedule
    <3>2. \A t \in Schedules : t # s => sched'[t] = sched[t]
      BY <1>0, <2>3 DEF PauseSchedule, ResumeSchedule, DeleteSchedule
    <3> QED
      BY <3>1, <3>2 DEF SchedMoves
  <2>4. ASSUME NEW n \in Notebooks, DeleteNotebook(n) \/ DeleteNotebookDeadlock(n)
        PROVE  \A t \in Schedules : SchedMoves(t)
    <3>1. sched' = SchedulesWithout(n)
      BY <2>4 DEF DeleteNotebook, DeleteNotebookDeadlock
    <3> QED
      BY <1>0, <3>1 DEF SchedulesWithout, Schedule, SchedMoves
  <2>5. CASE \/ \E n \in Notebooks, gpu \in BOOLEAN : CreateRun(n, gpu)
             \/ \E r \in Runs : CancelRun(r)
             \/ \E u \in Learners, gpu \in BOOLEAN : CreateAttempt(u, gpu)
             \/ \E a \in Attempts : RemoveExercise(a)
             \/ \E u \in SessionUsers : StartSession(u) \/ StopSession(u)
    BY <1>1, <2>5 DEF CreateRun, CancelRun, CreateAttempt, RemoveExercise, StartSession,
                      StopSession
  <2> QED
    BY <1>3, <2>1, <2>2, <2>3, <2>4, <2>5 DEF Api
<1>4. CASE WorkerStep
  <2>1. CASE RefuseCommit \/ CompleteCommit \/ FailCommit
    <3>1. w.item \in Item /\ Finish(w.item)
      BY <2>1 DEF TypeOK, RefuseCommit, CompleteCommit, FailCommit
    <3> QED
      BY <1>2, <3>1
  <2>2. CASE \E i \in Item : ClaimWait(i) \/ ClaimStart(i) \/ ClaimVanished(i) \/ ClaimRefuse(i)
    BY <1>1, <2>2 DEF ClaimWait, ClaimStart, ClaimVanished, ClaimRefuse
  <2>3. CASE ClaimAttempts \/ ClaimRuns \/ ClaimNothing \/ RefuseStale \/ CreateJob \/ SkipJob
             \/ CreateJobFails
    BY <1>1, <2>3 DEF ClaimAttempts, ClaimRuns, ClaimNothing, RefuseStale, CreateJob, SkipJob,
                      CreateJobFails
  <2>4. CASE PollCancelled \/ PollResult \/ PollError \/ CompleteRead \/ CompleteRollback
             \/ Release \/ FailRead \/ FailNothing \/ FailLost
    BY <1>1, <2>4 DEF PollCancelled, PollResult, PollError, CompleteRead, CompleteRollback,
                      Release, FailRead, FailNothing, FailLost
  <2> QED
    BY <1>4, <2>1, <2>2, <2>3, <2>4 DEF WorkerStep
<1>5. CASE ScanCommit
  <2>1. ASSUME NEW s \in Schedules PROVE SchedMoves(s)
    <3>1. CASE s \in scan.locked
      <4>1. sched'[s] = Flush(sched[s], scan.read[s], scan.plan[s])
        BY <1>5, <3>1 DEF ScanCommit
      <4>2. /\ scan.read[s] = sched[s] /\ sched[s].status = "active"
            /\ scan.plan[s].status \in {"active", "disabled"}
        BY <3>1 DEF SchedInv, ScanLocks
      <4>3. sched'[s].of = sched[s].of /\ sched'[s].status = scan.plan[s].status
        BY <1>0, <4>1, <4>2 DEF Flush, Schedule
      <4> QED
        BY <4>2, <4>3 DEF SchedMoves, Exists
    <3> QED
      BY <1>5, <3>1 DEF ScanCommit, SchedMoves
  <2> QED
    BY <2>1
<1>6. CASE ScanBegin \/ ScanInsert \/ \E s \in Schedules : ScanCheck(s)
  BY <1>1, <1>6 DEF ScanBegin, ScanInsert, ScanCheck
<1>7. CASE Crash \/ Restart \/ Tick \/ UNCHANGED vars
  BY <1>1, <1>7 DEF Crash, Restart, Tick, vars
<1> QED
  BY <1>3, <1>4, <1>5, <1>6, <1>7 DEF Next, SchedulerStep

(* The schedules the worker has read stay in the table, if only as deleted.  *)
LEMMA SeenStep ==
  ASSUME TypeOK, SchedInv, SeenBorn, [Next]_vars
  PROVE  SeenBorn'
<1>0. /\ w \in Worker /\ w.seen \in [Schedules -> Schedule]
      /\ \A s \in Schedules : sched[s].status # "unborn" => sched'[s].status # "unborn"
  BY SchedMove DEF TypeOK, Worker, SchedMoves
<1>1. CASE w'.seen = w.seen
  BY <1>0, <1>1 DEF SeenBorn
<1>2. CASE w'.seen = Unread
  BY <1>2 DEF SeenBorn, Unread, Unborn
<1>3. ASSUME NEW i \in Item, w'.seen = Read(i), sched' = sched PROVE SeenBorn'
  BY <1>0, <1>3 DEF SeenBorn, Read
<1>4. Idle.seen = Unread
  BY DEF Idle
<1>5. CASE w' = w
  BY <1>1, <1>5
<1>6. CASE w' = Idle
  BY <1>2, <1>4, <1>6
<1>7. CASE RefuseCommit
  <2>1. \A s \in Schedules : Outcome(w.seen[s], w.verdict).status = "unborn"
                               <=> w.seen[s].status = "unborn"
    BY <1>0 DEF Outcome, Schedule
  <2>2. w'.seen = [s \in Schedules |-> IF s \in Touched(w.item)
                                       THEN Outcome(w.seen[s], w.verdict) ELSE w.seen[s]]
    BY <1>0, <1>7 DEF RefuseCommit, Worker
  <2> QED
    BY <1>0, <2>1, <2>2 DEF SeenBorn
<1>8. CASE \E i \in Item : ClaimWait(i) \/ ClaimStart(i) \/ ClaimVanished(i) \/ ClaimRefuse(i)
  <2>1. PICK i \in Item : ClaimWait(i) \/ ClaimStart(i) \/ ClaimVanished(i) \/ ClaimRefuse(i)
    BY <1>8
  <2>2. CASE ClaimWait(i)
    BY <1>0, <1>1, <2>2 DEF ClaimWait, Worker
  <2>3. CASE ClaimStart(i)
    BY <1>2, <2>3 DEF ClaimStart, Idle
  <2>4. CASE ClaimVanished(i)
    BY <1>6, <2>4 DEF ClaimVanished
  <2>5. CASE ClaimRefuse(i)
    BY <1>0, <1>3, <2>5 DEF ClaimRefuse, Worker
  <2> QED
    BY <2>1, <2>2, <2>3, <2>4, <2>5
<1>9. CASE ClaimAttempts \/ ClaimRuns \/ CreateJob \/ SkipJob
  BY <1>0, <1>1, <1>9 DEF ClaimAttempts, ClaimRuns, CreateJob, SkipJob, Worker
<1>10. CASE CreateJobFails \/ PollCancelled \/ PollResult \/ PollError
  BY <1>0, <1>1, <1>10 DEF CreateJobFails, PollCancelled, PollResult, PollError, ToFail, Worker
<1>11. CASE CompleteRead \/ FailRead
  <2>1. w.item \in Item /\ sched' = sched
    BY <1>11 DEF TypeOK, CompleteRead, FailRead
  <2>2. w'.seen = Read(w.item) \/ w'.seen = w.seen
    BY <1>0, <1>11 DEF CompleteRead, FailRead, Worker
  <2> QED
    BY <1>1, <1>3, <2>1, <2>2
<1>12. CASE CompleteCommit \/ CompleteRollback
  BY <1>0, <1>2, <1>12 DEF CompleteCommit, CompleteRollback, Worker
<1>13. CASE ClaimNothing \/ RefuseStale \/ Release \/ FailNothing \/ FailCommit \/ FailLost
            \/ Restart
  BY <1>6, <1>13 DEF ClaimNothing, RefuseStale, Release, FailNothing, FailCommit, FailLost,
                     Restart
<1>14. CASE Crash
  BY <1>2, <1>4, <1>14 DEF Crash, Idle
<1>15. CASE SchedulerStep \/ Tick \/ UNCHANGED vars
  BY <1>5, <1>15 DEF SchedulerStep, ScanBegin, ScanInsert, ScanCommit, ScanCheck,
                     ScanUnchanged, Tick, vars
<1>16. CASE Api
  BY <1>5, <1>16 DEF Api, CreateRun, CancelRun, CreateAttempt, RemoveExercise, DeleteNotebook,
                     DeleteNotebookDeadlock, StartSession, StopSession, CreateSchedule,
                     UpdateSchedule, PauseSchedule, ResumeSchedule, DeleteSchedule,
                     ScheduleUnchanged
<1> QED
  BY <1>7, <1>8, <1>9, <1>10, <1>11, <1>12, <1>13, <1>14, <1>15, <1>16 DEF Next, WorkerStep

(***************************************************************************)
(* Rows, owners and the scan's inserts.                                    *)
(***************************************************************************)

(* What the row of item i may become when the worker does not touch it: an   *)
(* insert is made, committed or rolled back, or an ended row is deleted.     *)
Unborns == {"absent", "inserting"}
Quiet(i) ==
    \/ row'[i] = row[i]
    \/ /\ row[i].status \in Unborns
       /\ row'[i].status \in Unborns \cup {"queued", "failed"}
       /\ i \in Attempts => row'[i].via = Null
    \/ /\ row[i].status \in Ended /\ i \notin w.locked
       /\ row'[i] = [row[i] EXCEPT !.status = "deleted"]

(* The steps that leave the worker, its Jobs and the usage rows alone. *)
QuietStep ==
    \/ \E n \in Notebooks, gpu \in BOOLEAN : CreateRun(n, gpu)
    \/ \E u \in Learners, gpu \in BOOLEAN : CreateAttempt(u, gpu)
    \/ \E n \in Notebooks : DeleteNotebook(n) \/ DeleteNotebookDeadlock(n)
    \/ \E u \in SessionUsers : StartSession(u) \/ StopSession(u)
    \/ \E s \in Schedules, n \in Notebooks, gpu \in BOOLEAN : CreateSchedule(s, n, gpu)
    \/ \E s \in Schedules, gpu \in BOOLEAN : UpdateSchedule(s, gpu)
    \/ \E s \in Schedules : PauseSchedule(s) \/ ResumeSchedule(s) \/ DeleteSchedule(s)
    \/ SchedulerStep \/ Tick \/ UNCHANGED vars

(* The remaining ones are these. *)
LEMMA StepKinds ==
  ASSUME [Next]_vars
  PROVE  \/ QuietStep
         \/ \E r \in Runs : CancelRun(r)
         \/ \E a \in Attempts : RemoveExercise(a)
         \/ WorkerStep \/ Crash \/ Restart
<1>1. Api => \/ QuietStep
             \/ \E r \in Runs : CancelRun(r)
             \/ \E a \in Attempts : RemoveExercise(a)
  BY Zenon DEF Api, QuietStep
<1> QED
  BY <1>1, Zenon DEF Next, QuietStep

(* Runs and attempts are different rows. *)
LEMMA KindsDiffer == Runs \cap Attempts = {} /\ Runs \subseteq Item /\ Attempts \subseteq Item
BY DEF Runs, Attempts, Item

(* Deleting a notebook deletes its ended rows and rolls back a scan's inserts. *)
LEMMA DeleteRows ==
  ASSUME TypeOK, NEW n \in Notebooks, DeleteNotebook(n) \/ DeleteNotebookDeadlock(n),
         NEW i \in Item
  PROVE  \/ row'[i] = row[i] /\ i \notin {r \in RunsOf(n) : row[r].status \in Ended}
         \/ /\ i \in RunsOf(n) /\ row[i].status \in Ended /\ i \notin w.locked
            /\ row'[i] = [row[i] EXCEPT !.status = "deleted"]
         \/ /\ row[i].status = "inserting" /\ scan' = NoScan
            /\ row'[i] = [row[i] EXCEPT !.status = "absent"]
<1>0. row \in [Item -> Row] /\ RunsOf(n) \cap w.locked = {}
  BY DEF TypeOK, DeleteNotebook, DeleteNotebookDeadlock
<1>1. CASE DeleteNotebook(n)
  <2>1. row' = RunsWithout(n)
    BY <1>1 DEF DeleteNotebook
  <2> QED
    BY <1>0, <2>1 DEF RunsWithout
<1>2. CASE DeleteNotebookDeadlock(n)
  <2>1. row' = [j \in Item |-> IF row[j].status = "inserting"
                              THEN [row[j] EXCEPT !.status = "absent"] ELSE RunsWithout(n)[j]]
    BY <1>2 DEF DeleteNotebookDeadlock
  <2>2. scan' = NoScan
    BY <1>2 DEF DeleteNotebookDeadlock
  <2>3. "inserting" \notin Ended
    BY DEF Ended
  <2> QED
    BY <1>0, <2>1, <2>2, <2>3 DEF RunsWithout
<1> QED
  BY <1>1, <1>2

(* A quiet step moves every row quietly. *)
LEMMA QuietRows ==
  ASSUME TypeOK, AttemptsUnscheduled, QuietStep
  PROVE  /\ w' = w /\ jobs' = jobs /\ open' = open
         /\ \A i \in Item : Quiet(i)
<1>0. row \in [Item -> Row]
  BY DEF TypeOK
<1>1. CASE row' = row /\ w' = w /\ jobs' = jobs /\ open' = open
  BY <1>1 DEF Quiet
<1>2. ASSUME NEW n \in Notebooks, NEW gpu \in BOOLEAN, CreateRun(n, gpu)
      PROVE  /\ w' = w /\ jobs' = jobs /\ open' = open
             /\ \A i \in Item : Quiet(i)
  <2>1. PICK r \in Runs :
          /\ row[r].status = "absent"
          /\ row' = [row EXCEPT ![r] = [status |-> "queued", gpu |-> gpu, of |-> n,
                                        via |-> Null, slot |-> 0]]
    BY <1>2 DEF CreateRun, Fresh
  <2>2. \A i \in Item : Quiet(i)
    BY <1>0, <2>1, KindsDiffer DEF Quiet, Unborns
  <2> QED
    BY <1>2, <2>2 DEF CreateRun
<1>3. ASSUME NEW u \in Learners, NEW gpu \in BOOLEAN, CreateAttempt(u, gpu)
      PROVE  /\ w' = w /\ jobs' = jobs /\ open' = open
             /\ \A i \in Item : Quiet(i)
  <2>1. PICK a \in Attempts :
          /\ row[a].status = "absent"
          /\ row' = [row EXCEPT ![a] = [status |-> "queued", gpu |-> gpu, of |-> u,
                                        via |-> Null, slot |-> 0]]
    BY <1>3 DEF CreateAttempt, Fresh
  <2>2. \A i \in Item : Quiet(i)
    BY <1>0, <2>1, KindsDiffer DEF Quiet, Unborns
  <2> QED
    BY <1>3, <2>2 DEF CreateAttempt
<1>4. ASSUME NEW n \in Notebooks, DeleteNotebook(n) \/ DeleteNotebookDeadlock(n)
      PROVE  /\ w' = w /\ jobs' = jobs /\ open' = open
             /\ \A i \in Item : Quiet(i)
  <2>1. ASSUME NEW i \in Item PROVE Quiet(i)
    <3>1. CASE row[i].status = "inserting" /\ row'[i] = [row[i] EXCEPT !.status = "absent"]
      BY <1>0, <3>1 DEF Row, Quiet, Unborns, AttemptsUnscheduled
    <3> QED
      BY <1>4, <3>1, DeleteRows DEF Quiet
  <2> QED
    BY <1>4, <2>1 DEF DeleteNotebook, DeleteNotebookDeadlock
<1>5. CASE ScanInsert
  <2>1. PICK r \in Runs :
          /\ row[r].status = "absent"
          /\ row' = [row EXCEPT ![r] = [status |-> "inserting", gpu |-> sched[scan.pick].gpu,
                                        of |-> sched[scan.pick].of, via |-> scan.pick,
                                        slot |-> scan.plan[scan.pick].next]]
    BY <1>5 DEF ScanInsert, Fresh
  <2>2. \A i \in Item : Quiet(i)
    BY <1>0, <2>1, KindsDiffer DEF Quiet, Unborns
  <2> QED
    BY <1>5, <2>2 DEF ScanInsert, ScanUnchanged
<1>6. CASE ScanCommit
  <2>1. ASSUME NEW i \in Item PROVE Quiet(i)
    <3>1. row'[i] = IF row[i].status # "inserting" THEN row[i]
                    ELSE [row[i] EXCEPT !.status = IF i \in scan.refused THEN "failed"
                                                   ELSE "queued"]
      BY <1>6 DEF ScanCommit
    <3> QED
      BY <1>0, <3>1 DEF Row, Quiet, Unborns, AttemptsUnscheduled
  <2> QED
    BY <1>6, <2>1 DEF ScanCommit, ScanUnchanged
<1>7. CASE \/ \E u \in SessionUsers : StartSession(u) \/ StopSession(u)
           \/ \E s \in Schedules, n \in Notebooks, gpu \in BOOLEAN : CreateSchedule(s, n, gpu)
           \/ \E s \in Schedules, gpu \in BOOLEAN : UpdateSchedule(s, gpu)
           \/ \E s \in Schedules : PauseSchedule(s) \/ ResumeSchedule(s) \/ DeleteSchedule(s)
  BY <1>1, <1>7 DEF StartSession, StopSession, CreateSchedule, UpdateSchedule, PauseSchedule,
                    ResumeSchedule, DeleteSchedule, ScheduleUnchanged
<1>8. CASE ScanBegin \/ (\E s \in Schedules : ScanCheck(s)) \/ Tick \/ UNCHANGED vars
  BY <1>1, <1>8 DEF ScanBegin, ScanCheck, ScanUnchanged, Tick, vars
<1> QED
  BY <1>2, <1>3, <1>4, <1>5, <1>6, <1>7, <1>8 DEF QuietStep, SchedulerStep

(* The rows a worker step writes: at most that of an item it has claimed or  *)
(* is about to, and never that of an item that is not in the table.          *)
LEMMA WorkerRows ==
  ASSUME TypeOK, ClaimRows, ItemRow, WorkerStep
  PROVE  /\ scan' = scan /\ notebooks' = notebooks
         /\ \/ row' = row
            \/ \E i \in Item, x \in {"running"} \cup Ended :
                  /\ row' = [row EXCEPT ![i].status = x]
                  /\ row[i].status \in {"queued", "cancelled", "running"}
                  /\ row[i].status = "cancelled" => i \in w.batch \ w.locked
<1>0. row \in [Item -> Row] /\ w \in Worker
  BY DEF TypeOK
<1>1. scan' = scan /\ notebooks' = notebooks
  BY DEF WorkerStep, WorkerUnchanged, ClaimAttempts, ClaimRuns, ClaimNothing, ClaimWait,
         ClaimStart, ClaimVanished, ClaimRefuse, RefuseCommit, RefuseStale, CreateJob, SkipJob,
         CreateJobFails, PollCancelled, PollResult, PollError, CompleteRead, CompleteCommit,
         CompleteRollback, Release, FailRead, FailNothing, FailCommit, FailLost
<1>2. ASSUME NEW i \in Item, ClaimStart(i)
      PROVE  /\ row' = [row EXCEPT ![i].status = "running"]
             /\ row[i].status \in {"queued", "cancelled", "running"}
             /\ row[i].status = "cancelled" => i \in w.batch \ w.locked
  BY <1>2 DEF ClaimStart, Candidate, ClaimRows
<1>3. CASE RefuseCommit \/ CompleteCommit \/ FailCommit
  <2>1. w.item \in Item /\ Finish(w.item)
    BY <1>3 DEF TypeOK, RefuseCommit, CompleteCommit, FailCommit
  <2>2. Verdict(w.item) \in Ended
    BY <1>0 DEF Verdict, Worker, Verdicts, Ended
  <2>3. /\ row[w.item].status \in {"queued", "cancelled", "running"}
        /\ row[w.item].status = "cancelled" => w.item \in w.batch \ w.locked
    <3>1. CASE RefuseCommit
      BY <2>1, <3>1 DEF RefuseCommit, ClaimRows, Finish, Finishable
    <3>2. CASE CompleteCommit \/ FailCommit
      BY <3>2 DEF CompleteCommit, FailCommit, ItemRow
    <3> QED
      BY <1>3, <3>1, <3>2
  <2> QED
    BY <1>1, <2>1, <2>2, <2>3 DEF Finish
<1>4. CASE \E i \in Item : ClaimWait(i) \/ ClaimVanished(i) \/ ClaimRefuse(i)
  BY <1>1, <1>4 DEF ClaimWait, ClaimVanished, ClaimRefuse
<1>5. CASE ClaimAttempts \/ ClaimRuns \/ ClaimNothing \/ RefuseStale \/ CreateJob \/ SkipJob
           \/ CreateJobFails
  BY <1>1, <1>5 DEF ClaimAttempts, ClaimRuns, ClaimNothing, RefuseStale, CreateJob, SkipJob,
                    CreateJobFails
<1>6. CASE PollCancelled \/ PollResult \/ PollError \/ CompleteRead \/ CompleteRollback
           \/ Release \/ FailRead \/ FailNothing \/ FailLost
  BY <1>1, <1>6 DEF PollCancelled, PollResult, PollError, CompleteRead, CompleteRollback,
                    Release, FailRead, FailNothing, FailLost
<1> QED
  BY <1>1, <1>2, <1>3, <1>4, <1>5, <1>6 DEF WorkerStep

(* Only the deletion of a notebook takes one away. *)
LEMMA NotebooksKept ==
  ASSUME [Next]_vars, ~\E n \in Notebooks : DeleteNotebook(n) \/ DeleteNotebookDeadlock(n)
  PROVE  notebooks' = notebooks
<1>1. CASE Api
  BY <1>1 DEF Api, CreateRun, CancelRun, CreateAttempt, RemoveExercise, StartSession,
              StopSession, CreateSchedule, UpdateSchedule, PauseSchedule, ResumeSchedule,
              DeleteSchedule, ScheduleUnchanged
<1>2. CASE WorkerStep
  BY <1>2 DEF WorkerStep, WorkerUnchanged, ClaimAttempts, ClaimRuns, ClaimNothing, ClaimWait,
         ClaimStart, ClaimVanished, ClaimRefuse, RefuseCommit, RefuseStale, CreateJob, SkipJob,
         CreateJobFails, PollCancelled, PollResult, PollError, CompleteRead, CompleteCommit,
         CompleteRollback, Release, FailRead, FailNothing, FailCommit, FailLost
<1>3. CASE SchedulerStep \/ Crash \/ Restart \/ Tick \/ UNCHANGED vars
  BY <1>3 DEF SchedulerStep, ScanBegin, ScanInsert, ScanCommit, ScanCheck, ScanUnchanged, Crash,
              Restart, Tick, vars
<1> QED
  BY <1>1, <1>2, <1>3 DEF Next

(* Schedules belong to notebooks: remove_work() deletes those of a notebook. *)
LEMMA SchedulesOwnedStep ==
  ASSUME TypeOK, SchedInv, SeenBorn, SchedulesOwned, [Next]_vars
  PROVE  SchedulesOwned'
<1>0. \A s \in Schedules : SchedMoves(s)
  BY SchedMove
<1>1. ASSUME NEW n \in Notebooks, DeleteNotebook(n) \/ DeleteNotebookDeadlock(n)
      PROVE  SchedulesOwned'
  <2>1. sched' = SchedulesWithout(n) /\ notebooks' = notebooks \ {n}
    BY <1>1 DEF DeleteNotebook, DeleteNotebookDeadlock
  <2>2. sched \in [Schedules -> Schedule]
    BY DEF TypeOK
  <2>3. ASSUME NEW s \in Schedules, Exists(sched'[s])
        PROVE  sched[s].of # n /\ sched'[s] = sched[s]
    BY <2>1, <2>2, <2>3 DEF SchedulesWithout, Exists, Schedule
  <2> QED
    BY <2>1, <2>3 DEF SchedulesOwned
<1>2. CASE notebooks' = notebooks
  BY <1>0, <1>2 DEF SchedMoves, SchedulesOwned, Exists
<1> QED
  BY <1>1, <1>2, NotebooksKept

(* A run that stays in the table keeps its notebook. *)
SameOwner(r) ==
    \/ row'[r].status \in {"absent", "deleted"}
    \/ row[r].status \notin {"absent", "deleted"} /\ row'[r].of = row[r].of

(* Runs belong to notebooks: remove_work() refuses a notebook with work that *)
(* is queued or running, waits for an insert, and deletes what has ended.    *)
LEMMA RunsOwnedStep ==
  ASSUME TypeOK, SchedInv, SchedulesOwned, ClaimRows, ItemRow, RunsOwned, [Next]_vars
  PROVE  RunsOwned'
<1>0. row \in [Item -> Row]
  BY DEF TypeOK
<1>1. ASSUME notebooks' = notebooks, \A r \in Runs : SameOwner(r) PROVE RunsOwned'
  BY <1>1 DEF RunsOwned, SameOwner
<1>2. ASSUME NEW n \in Notebooks, DeleteNotebook(n) \/ DeleteNotebookDeadlock(n)
      PROVE  RunsOwned'
  <2>1. notebooks' = notebooks \ {n} /\ ~Busy(n) /\ ~KeyShared(n)
    BY <1>2 DEF DeleteNotebook, DeleteNotebookDeadlock
  <2>2. ASSUME NEW r \in Runs, row'[r].status \notin {"absent", "deleted"}
        PROVE  row'[r].of \in notebooks'
    <3>1. row[r] \in Row
      BY <1>0, KindsDiffer
    <3>2. row'[r] = row[r] /\ ~(r \in RunsOf(n) /\ row[r].status \in Ended)
      <4>1. /\ [row[r] EXCEPT !.status = "deleted"].status = "deleted"
            /\ [row[r] EXCEPT !.status = "absent"].status = "absent"
        BY <3>1 DEF Row
      <4>2. r \in Item
        BY KindsDiffer
      <4> QED
        BY <1>2, <2>2, <4>1, <4>2, DeleteRows
    <3>3. r \notin RunsOf(n)
      BY <2>1, <2>2, <3>1, <3>2 DEF Busy, KeyShared, Row, Status
    <3> QED
      BY <2>1, <2>2, <3>2, <3>3 DEF RunsOf, RunsOwned
  <2> QED
    BY <2>2 DEF RunsOwned
<1>3. ASSUME NEW n \in Notebooks, NEW gpu \in BOOLEAN, CreateRun(n, gpu) PROVE RunsOwned'
  <2>1. PICK r \in Runs :
          row' = [row EXCEPT ![r] = [status |-> "queued", gpu |-> gpu, of |-> n,
                                     via |-> Null, slot |-> 0]]
    BY <1>3 DEF CreateRun, Fresh
  <2>2. n \in notebooks /\ notebooks' = notebooks
    BY <1>3 DEF CreateRun
  <2> QED
    BY <1>0, <2>1, <2>2, KindsDiffer DEF RunsOwned
<1>4. CASE ScanInsert
  <2>1. PICK r \in Runs :
          row' = [row EXCEPT ![r] = [status |-> "inserting", gpu |-> sched[scan.pick].gpu,
                                     of |-> sched[scan.pick].of, via |-> scan.pick,
                                     slot |-> scan.plan[scan.pick].next]]
    BY <1>4 DEF ScanInsert, Fresh
  <2>2. sched[scan.pick].of \in notebooks
    <3>1. scan.pick \in Schedules /\ scan.pick \in scan.locked
      BY <1>4 DEF ScanInsert, TypeOK, Scan, SchedInv, ScanLocks
    <3> QED
      BY <3>1 DEF SchedInv, ScanLocks, SchedulesOwned, Exists
  <2>3. notebooks' = notebooks
    BY <1>4 DEF ScanInsert, ScanUnchanged
  <2> QED
    BY <1>0, <2>1, <2>2, <2>3, KindsDiffer DEF RunsOwned
<1>5. CASE ScanCommit
  <2>1. \A r \in Runs : SameOwner(r)
    BY <1>0, <1>5, KindsDiffer DEF ScanCommit, SameOwner, Row
  <2> QED
    BY <1>1, <1>5, <2>1 DEF ScanCommit, ScanUnchanged
<1>6. CASE WorkerStep
  <2>1. \A r \in Runs : SameOwner(r)
    BY <1>0, <1>6, WorkerRows, KindsDiffer DEF SameOwner, Row
  <2> QED
    BY <1>1, <1>6, <2>1, WorkerRows
<1>7. CASE Crash \/ Restart
  <2>1. \A r \in Runs : SameOwner(r)
    BY <1>0, <1>7, KindsDiffer DEF Crash, Restart, SameOwner, Row
  <2> QED
    BY <1>1, <1>7, <2>1 DEF Crash, Restart
<1>8. CASE \E r \in Runs : CancelRun(r)
  <2>1. \A r \in Runs : SameOwner(r)
    BY <1>0, <1>8, KindsDiffer DEF CancelRun, SameOwner, Row, Active
  <2> QED
    BY <1>1, <1>8, <2>1 DEF CancelRun
<1>9. CASE \E a \in Attempts : RemoveExercise(a)
  <2>1. \A r \in Runs : row'[r] = row[r]
    BY <1>0, <1>9, KindsDiffer DEF RemoveExercise
  <2> QED
    BY <1>9, <2>1 DEF RemoveExercise, RunsOwned
<1>10. CASE \E u \in Learners, gpu \in BOOLEAN : CreateAttempt(u, gpu)
  <2>1. \A r \in Runs : row'[r] = row[r]
    <3>1. PICK a \in Attempts : \E x : row' = [row EXCEPT ![a] = x]
      BY <1>10 DEF CreateAttempt, Fresh
    <3> QED
      BY <1>0, <3>1, KindsDiffer
  <2> QED
    BY <1>10, <2>1 DEF CreateAttempt, RunsOwned
<1>11. CASE row' = row /\ notebooks' = notebooks
  BY <1>11 DEF RunsOwned
<1>12. CASE \/ \E u \in SessionUsers : StartSession(u) \/ StopSession(u)
            \/ \E s \in Schedules, n \in Notebooks, gpu \in BOOLEAN : CreateSchedule(s, n, gpu)
            \/ \E s \in Schedules, gpu \in BOOLEAN : UpdateSchedule(s, gpu)
            \/ \E s \in Schedules : PauseSchedule(s) \/ ResumeSchedule(s) \/ DeleteSchedule(s)
  BY <1>11, <1>12 DEF StartSession, StopSession, CreateSchedule, UpdateSchedule, PauseSchedule,
                      ResumeSchedule, DeleteSchedule, ScheduleUnchanged
<1>13. CASE ScanBegin \/ (\E s \in Schedules : ScanCheck(s)) \/ Tick \/ UNCHANGED vars
  BY <1>11, <1>13 DEF ScanBegin, ScanCheck, ScanUnchanged, Tick, vars
<1>14. CASE QuietStep
  BY <1>2, <1>3, <1>4, <1>5, <1>10, <1>12, <1>13, <1>14 DEF QuietStep, SchedulerStep
<1> QED
  BY <1>6, <1>7, <1>8, <1>9, <1>14, StepKinds

(* The scan's inserts: made for a schedule it has locked and a notebook for  *)
(* which it has made none, and gone when it commits or is rolled back.       *)
LEMMA InsertedStep ==
  ASSUME TypeOK, SchedInv, SeenBorn, ClaimRows, ItemRow, Inserted, [Next]_vars
  PROVE  Inserted'
<1>0. row \in [Item -> Row] /\ scan \in Scan
  BY DEF TypeOK
<1>1. ASSUME scan' = scan, \A r \in Runs : row'[r].status = "inserting" => row'[r] = row[r]
      PROVE  Inserted'
  <2>1. scan.pc = "insert" => sched'[scan.pick].of = sched[scan.pick].of
    <3>1. scan.pc = "insert" => scan.pick \in Schedules /\ sched[scan.pick].status = "active"
      BY DEF TypeOK, Scan, SchedInv, ScanLocks
    <3> QED
      BY <3>1, SchedMove DEF SchedMoves
  <2> QED
    BY <1>1, <2>1 DEF Inserted, KeyShared, RunsOf
<1>2. ASSUME scan' = NoScan, \A r \in Runs : row'[r].status # "inserting" PROVE Inserted'
  BY <1>2 DEF Inserted, NoScan
<1>3. CASE ScanBegin
  <2>1. row' = row /\ scan'.pc = "batch"
    BY <1>0, <1>3 DEF ScanBegin, Scan
  <2>2. \A r \in Runs : row[r].status # "inserting"
    BY <1>3 DEF ScanBegin, Inserted, SchedInv, ScanLocks
  <2> QED
    BY <2>1, <2>2 DEF Inserted
<1>4. ASSUME NEW s \in Schedules, ScanCheck(s) PROVE Inserted'
  <2>1. row' = row /\ sched' = sched /\ scan'.locked = scan.locked
    BY <1>0, <1>4 DEF ScanCheck, Scan
  <2>2. scan'.pc = "insert" => scan'.pick = s /\ ~Skipped(s)
    BY <1>0, <1>4 DEF ScanCheck, Scan
  <2>3. ~Skipped(s) => ~KeyShared(sched[s].of)
    BY DEF Skipped, KeyShared
  <2>4. scan'.pc = "insert" => ~KeyShared(sched[scan'.pick].of)
    BY <2>2, <2>3
  <2> QED
    BY <2>1, <2>4 DEF Inserted, KeyShared, RunsOf
<1>5. CASE ScanInsert
  <2>1. PICK r \in Runs :
          row' = [row EXCEPT ![r] = [status |-> "inserting", gpu |-> sched[scan.pick].gpu,
                                     of |-> sched[scan.pick].of, via |-> scan.pick,
                                     slot |-> scan.plan[scan.pick].next]]
    BY <1>5 DEF ScanInsert, Fresh
  <2>2. scan'.pc = "batch" /\ scan'.locked = scan.locked /\ scan.pick \in scan.locked
    BY <1>0, <1>5 DEF ScanInsert, Scan, TypeOK, SchedInv, ScanLocks
  <2>3. \A q \in Runs : row[q].status = "inserting" => row[q].of # sched[scan.pick].of
    BY <1>5 DEF ScanInsert, Inserted, KeyShared, RunsOf
  <2>4. /\ \A q \in Runs : q # r => row'[q] = row[q]
        /\ row'[r].via = scan.pick /\ row'[r].of = sched[scan.pick].of
    BY <1>0, <2>1, KindsDiffer
  <2> QED
    BY <2>2, <2>3, <2>4 DEF Inserted
<1>6. CASE ScanCommit
  <2>1. \A r \in Runs : row'[r].status # "inserting"
    BY <1>0, <1>6, KindsDiffer DEF ScanCommit, Row
  <2> QED
    BY <1>2, <1>6, <2>1 DEF ScanCommit
<1>7. CASE WorkerStep
  <2>1. \A r \in Runs : row'[r].status = "inserting" => row'[r] = row[r]
    BY <1>0, <1>7, WorkerRows, KindsDiffer DEF Row, Ended
  <2> QED
    BY <1>1, <1>7, <2>1, WorkerRows
<1>8. CASE Crash
  <2>1. \A r \in Runs : row'[r].status # "inserting"
    BY <1>0, <1>8, KindsDiffer DEF Crash, Row
  <2> QED
    BY <1>2, <1>8, <2>1 DEF Crash
<1>9. CASE Restart
  <2>1. \A r \in Runs : row'[r].status = "inserting" => row'[r] = row[r]
    BY <1>0, <1>9, KindsDiffer DEF Restart, Row
  <2> QED
    BY <1>1, <1>9, <2>1 DEF Restart
<1>10. CASE (\E r \in Runs : CancelRun(r)) \/ (\E a \in Attempts : RemoveExercise(a))
  <2>1. \A r \in Runs : row'[r].status = "inserting" => row'[r] = row[r]
    BY <1>0, <1>10, KindsDiffer DEF CancelRun, RemoveExercise, Row
  <2> QED
    BY <1>1, <1>10, <2>1 DEF CancelRun, RemoveExercise
<1>11. CASE \/ \E n \in Notebooks, gpu \in BOOLEAN : CreateRun(n, gpu)
            \/ \E u \in Learners, gpu \in BOOLEAN : CreateAttempt(u, gpu)
  <2>1. PICK i \in Item, gpu \in BOOLEAN, o \in Notebooks \cup Learners :
          row' = [row EXCEPT ![i] = [status |-> "queued", gpu |-> gpu, of |-> o,
                                     via |-> Null, slot |-> 0]]
    <3>1. CASE \E n \in Notebooks, gpu \in BOOLEAN : CreateRun(n, gpu)
      BY <3>1, KindsDiffer DEF CreateRun, Fresh
    <3>2. CASE \E u \in Learners, gpu \in BOOLEAN : CreateAttempt(u, gpu)
      BY <3>2, KindsDiffer DEF CreateAttempt, Fresh
    <3> QED
      BY <1>11, <3>1, <3>2
  <2>2. \A r \in Runs : row'[r].status = "inserting" => row'[r] = row[r]
    BY <1>0, <2>1, KindsDiffer
  <2> QED
    BY <1>1, <1>11, <2>2 DEF CreateRun, CreateAttempt
<1>12. ASSUME NEW n \in Notebooks, DeleteNotebook(n) \/ DeleteNotebookDeadlock(n)
       PROVE  Inserted'
  <2>1. \A r \in Runs : row'[r].status = "inserting" => row'[r] = row[r]
    BY <1>0, <1>12, DeleteRows, KindsDiffer DEF Row
  <2>2. CASE DeleteNotebook(n)
    BY <1>1, <2>1, <2>2 DEF DeleteNotebook
  <2>3. CASE DeleteNotebookDeadlock(n)
    <3>1. \A r \in Runs : row[r].status = "inserting" => row'[r].status = "absent"
      BY <1>0, <2>3, KindsDiffer DEF DeleteNotebookDeadlock, Row
    <3>2. \A r \in Runs : row'[r].status # "inserting"
      BY <2>1, <3>1
    <3> QED
      BY <1>2, <2>3, <3>2 DEF DeleteNotebookDeadlock
  <2> QED
    BY <1>12, <2>2, <2>3
<1>13. CASE \/ \E u \in SessionUsers : StartSession(u) \/ StopSession(u)
            \/ \E s \in Schedules, n \in Notebooks, gpu \in BOOLEAN : CreateSchedule(s, n, gpu)
            \/ \E s \in Schedules, gpu \in BOOLEAN : UpdateSchedule(s, gpu)
            \/ \E s \in Schedules : PauseSchedule(s) \/ ResumeSchedule(s) \/ DeleteSchedule(s)
            \/ Tick \/ UNCHANGED vars
  BY <1>1, <1>13 DEF StartSession, StopSession, CreateSchedule, UpdateSchedule, PauseSchedule,
                     ResumeSchedule, DeleteSchedule, ScheduleUnchanged, Tick, vars
<1>14. CASE QuietStep
  BY <1>3, <1>4, <1>5, <1>6, <1>11, <1>12, <1>13, <1>14 DEF QuietStep, SchedulerStep
<1> QED
  BY <1>7, <1>8, <1>9, <1>10, <1>14, StepKinds

(***************************************************************************)
(* The worker, its Job and the usage rows.                                 *)
(***************************************************************************)
WorkerInv == /\ ClaimRows /\ ItemRow /\ OneRunning /\ AttemptsUnscheduled
             /\ JobOfItem /\ UsageOfRows

(* A row the worker has left running stays excused. *)
LEMMA LeftStays ==
  ASSUME TypeOK, SchedInv, SeenBorn, [Next]_vars,
         NEW i \in Item, row'[i].via = row[i].via, Left(i)
  PROVE  Left(i)'
<1>1. row[i].via # Null => row[i].via \in Schedules
  BY DEF TypeOK, Row
<1> QED
  BY <1>1, SchedMove DEF Left, SchedMoves, Exists

(* Requests of owners and of the scheduler that do not touch the worker. *)
LEMMA QuietWorker ==
  ASSUME TypeOK, SchedInv, SeenBorn, WorkerInv, [Next]_vars, QuietStep
  PROVE  WorkerInv'
<1>0. /\ w' = w /\ jobs' = jobs /\ open' = open /\ row \in [Item -> Row] /\ w \in Worker
      /\ w.batch \subseteq Item /\ (w.pc \in Executing \cup {"releasing"} => w.item \in Item)
      /\ \A i \in Item : Quiet(i)
  BY QuietRows DEF WorkerInv, TypeOK, Worker, Executing
<1>1. ASSUME NEW i \in Item
      PROVE  \/ row'[i] = row[i]
             \/ row[i].status \in Unborns /\ row'[i].status \notin {"running", "deleted"}
             \/ /\ row[i].status \in Ended /\ i \notin w.locked
                /\ row'[i].status = "deleted" /\ row'[i].gpu = row[i].gpu
                /\ row'[i].via = row[i].via
  <2>1. row[i] \in Row
    BY <1>0
  <2>2. Quiet(i)
    BY <1>0
  <2> QED
    BY <2>1, <2>2 DEF Quiet, Row, Unborns
<1>2. ClaimRows'
  BY <1>0, <1>1 DEF WorkerInv, ClaimRows, Unborns, Ended
<1>3. ItemRow'
  BY <1>0, <1>1 DEF WorkerInv, ItemRow, Executing, Unborns, Ended
<1>4. OneRunning'
  <2>1. ASSUME NEW i \in Item, w.pc # "down", row'[i].status = "running"
        PROVE  Left(i)' \/ (w.item = i /\ w.pc \in Executing)
    <3>1. row'[i] = row[i]
      BY <1>1, <2>1
    <3> QED
      BY <2>1, <3>1, LeftStays DEF WorkerInv, OneRunning
  <2> QED
    BY <1>0, <2>1 DEF OneRunning
<1>5. AttemptsUnscheduled'
  <2>1. \A a \in Attempts : a \in Item /\ row[a] \in Row
    BY <1>0, KindsDiffer
  <2> QED
    BY <1>0, <2>1 DEF WorkerInv, AttemptsUnscheduled, Quiet, Row
<1>6. JobOfItem' /\ UsageOfRows'
  BY <1>0, <1>1 DEF WorkerInv, JobOfItem, UsageOfRows, Held, Unborns, Ended
<1> QED
  BY <1>2, <1>3, <1>4, <1>5, <1>6 DEF WorkerInv

(* A run is cancelled, an attempt removed: not while the worker has it locked. *)
LEMMA OwnerWorker ==
  ASSUME TypeOK, SchedInv, SeenBorn, WorkerInv, [Next]_vars,
         (\E r \in Runs : CancelRun(r)) \/ (\E a \in Attempts : RemoveExercise(a))
  PROVE  WorkerInv'
<1>0. /\ row \in [Item -> Row] /\ w \in Worker /\ open \subseteq Item
      /\ w.batch \subseteq Item /\ (w.pc \in Executing \cup {"releasing"} => w.item \in Item)
  BY DEF TypeOK, Worker, Executing
<1>1. w' = w /\ jobs' = jobs
  BY DEF CancelRun, RemoveExercise
<1>2. PICK i \in Item, x \in {"cancelled", "deleted"} :
        /\ row[i].status \in Active \cup Ended /\ i \notin w.locked
        /\ row' = [row EXCEPT ![i].status = x]
        /\ x = "cancelled" => row[i].status \in Active
        /\ x = "cancelled" => open' = open \ {i}
        /\ x = "deleted" => open' = open /\ i \in Attempts
  BY KindsDiffer DEF CancelRun, RemoveExercise
<1>3. /\ \A j \in Item : j # i => row'[j] = row[j]
      /\ row'[i].status = x /\ row'[i].gpu = row[i].gpu /\ row'[i].via = row[i].via
  BY <1>0, <1>2 DEF Row
<1>4. ClaimRows'
  BY <1>0, <1>1, <1>2, <1>3 DEF WorkerInv, ClaimRows, Active, Ended
<1>5. ItemRow'
  BY <1>0, <1>1, <1>2, <1>3 DEF WorkerInv, ItemRow, Executing, Active, Ended
<1>6. OneRunning'
  <2>1. ASSUME NEW j \in Item, w.pc # "down", row'[j].status = "running"
        PROVE  Left(j)' \/ (w.item = j /\ w.pc \in Executing)
    <3>1. j # i /\ row'[j] = row[j]
      BY <1>2, <1>3, <2>1
    <3> QED
      BY <2>1, <3>1, LeftStays DEF WorkerInv, OneRunning
  <2> QED
    BY <1>1, <2>1 DEF OneRunning
<1>7. AttemptsUnscheduled'
  BY <1>3, KindsDiffer DEF WorkerInv, AttemptsUnscheduled
<1>8. JobOfItem'
  BY <1>1 DEF WorkerInv, JobOfItem
<1>9. UsageOfRows'
  <2>1. CASE x = "cancelled"
    BY <1>1, <1>2, <1>3, <2>1 DEF WorkerInv, UsageOfRows, Held
  <2>2. CASE x = "deleted"
    <3>1. i \in open => row[i].gpu /\ row[i].status = "running"
      BY <1>2 DEF WorkerInv, UsageOfRows, Active, Ended
    <3>2. row[i].status = "running" => Held(i)
      BY <1>2, <2>2 DEF WorkerInv, OneRunning, Left, AttemptsUnscheduled, Held
    <3> QED
      BY <1>1, <1>2, <1>3, <2>2, <3>1, <3>2 DEF WorkerInv, UsageOfRows, Held
  <2> QED
    BY <1>2, <2>1, <2>2
<1> QED
  BY <1>4, <1>5, <1>6, <1>7, <1>8, <1>9 DEF WorkerInv

(* The process dies, and comes back: recover() leaves nothing running. *)
LEMMA ProcessWorker ==
  ASSUME TypeOK, WorkerInv, Crash \/ Restart
  PROVE  WorkerInv'
<1>0. row \in [Item -> Row]
  BY DEF TypeOK
<1>1. CASE Crash
  <2>1. w'.pc = "down" /\ w'.batch = {} /\ open' = open
    BY <1>1 DEF Crash, Idle
  <2>2. \A i \in Item : \/ row'[i] = row[i]
                        \/ /\ row[i].status = "inserting" /\ row'[i].status = "absent"
                           /\ row'[i].via = row[i].via
    BY <1>0, <1>1 DEF Crash, Row
  <2>3. AttemptsUnscheduled'
    BY <2>2, KindsDiffer DEF WorkerInv, AttemptsUnscheduled
  <2>4. UsageOfRows'
    BY <2>1, <2>2 DEF WorkerInv, UsageOfRows, Held
  <2>5. ClaimRows' /\ ItemRow' /\ OneRunning' /\ JobOfItem'
    BY <2>1 DEF ClaimRows, ItemRow, OneRunning, JobOfItem, Executing
  <2> QED
    BY <2>3, <2>4, <2>5 DEF WorkerInv
<1>2. CASE Restart
  <2>1. w' = Idle /\ open' = {} /\ jobs' = {}
    BY <1>2 DEF Restart
  <2>2. \A i \in Item : row'[i].status # "running" /\ row'[i].via = row[i].via
    BY <1>0, <1>2 DEF Restart, Row
  <2>3. AttemptsUnscheduled'
    BY <2>2, KindsDiffer DEF WorkerInv, AttemptsUnscheduled
  <2>4. UsageOfRows' /\ OneRunning'
    BY <2>1, <2>2 DEF UsageOfRows, OneRunning
  <2>5. ClaimRows' /\ ItemRow' /\ JobOfItem'
    BY <2>1 DEF ClaimRows, ItemRow, JobOfItem, Idle, Executing
  <2> QED
    BY <2>3, <2>4, <2>5 DEF WorkerInv
<1> QED
  BY <1>1, <1>2

(* A batch is what is queued. *)
LEMMA QueueQueued ==
  ASSUME NEW set, NEW i \in Queue(set)
  PROVE  row[i].status = "queued"
BY DEF Queue, Queued

(* claim() until it commits: rows, Jobs and usage are as they were. *)
LEMMA ClaimWorker ==
  ASSUME TypeOK, SchedInv, SeenBorn, WorkerInv, [Next]_vars,
         \/ ClaimAttempts \/ ClaimRuns \/ ClaimNothing \/ RefuseStale
         \/ \E i \in Item : ClaimWait(i) \/ ClaimVanished(i) \/ ClaimRefuse(i)
  PROVE  WorkerInv'
<1>0. w \in Worker /\ row' = row /\ sched' = sched /\ open' = open /\ jobs' = jobs
  BY DEF TypeOK, ClaimAttempts, ClaimRuns, ClaimNothing, RefuseStale, ClaimWait, ClaimVanished,
         ClaimRefuse
<1>1. w.pc \in {"idle", "scan", "refusing"} /\ w'.pc \in {"idle", "scan", "refusing"}
  <2>1. Idle.pc = "idle"
    BY DEF Idle
  <2>2. CASE ClaimAttempts \/ ClaimRuns \/ ClaimNothing \/ RefuseStale
    BY <1>0, <2>1, <2>2 DEF ClaimAttempts, ClaimRuns, ClaimNothing, RefuseStale, Worker
  <2>3. ASSUME NEW i \in Item, ClaimWait(i) \/ ClaimVanished(i) \/ ClaimRefuse(i)
        PROVE  w.pc = "scan" /\ w'.pc \in {"idle", "scan", "refusing"}
    BY <1>0, <2>1, <2>3 DEF ClaimWait, ClaimVanished, ClaimRefuse, Candidate, Worker
  <2> QED
    BY <2>2, <2>3
<1>2. AttemptsUnscheduled' /\ ItemRow' /\ OneRunning' /\ JobOfItem' /\ UsageOfRows'
  <2>1. ItemRow' /\ JobOfItem' /\ AttemptsUnscheduled'
    BY <1>0, <1>1 DEF WorkerInv, AttemptsUnscheduled, ItemRow, JobOfItem, Executing
  <2>2. OneRunning'
    BY <1>0, <1>1 DEF WorkerInv, OneRunning, Executing, Left
  <2>3. UsageOfRows'
    BY <1>0, <1>1 DEF WorkerInv, UsageOfRows, Held, Executing
  <2> QED
    BY <2>1, <2>2, <2>3
<1>3. ClaimRows'
  <2>1. CASE ClaimAttempts
    <3>1. w'.pc = "scan" /\ w'.batch = Queue(Attempts)
      BY <1>0, <2>1 DEF ClaimAttempts, Worker
    <3> QED
      BY <1>0, <3>1, QueueQueued DEF ClaimRows
  <2>2. CASE ClaimRuns
    <3>1. w'.pc = "scan" /\ w'.batch = Queue(Runs)
      BY <1>0, <2>2 DEF ClaimRuns, Worker
    <3> QED
      BY <1>0, <3>1, QueueQueued DEF ClaimRows
  <2>3. CASE w' = Idle
    BY <2>3 DEF ClaimRows, Idle
  <2>4. ASSUME NEW i \in Item, ClaimWait(i) PROVE ClaimRows'
    BY <1>0, <2>4 DEF ClaimWait, Candidate, WorkerInv, ClaimRows, Worker
  <2>5. ASSUME NEW i \in Item, ClaimRefuse(i) PROVE ClaimRows'
    <3>1. /\ w'.pc = "refusing" /\ w'.item = i /\ i \in w.batch
          /\ w'.batch = w.batch /\ w'.locked = w.locked
      BY <1>0, <2>5 DEF ClaimRefuse, Candidate, Worker
    <3> QED
      BY <1>0, <3>1 DEF WorkerInv, ClaimRows
  <2> QED
    BY <2>1, <2>2, <2>3, <2>4, <2>5 DEF ClaimNothing, RefuseStale, ClaimVanished
<1> QED
  BY <1>2, <1>3 DEF WorkerInv

(* The commit of a claim: the one row the worker sets running, with its usage. *)
LEMMA StartWorker ==
  ASSUME TypeOK, SchedInv, SeenBorn, WorkerInv, [Next]_vars, NEW i \in Item, ClaimStart(i)
  PROVE  WorkerInv'
<1>0. /\ row \in [Item -> Row] /\ w.pc = "scan" /\ jobs' = jobs /\ sched' = sched
      /\ row' = [row EXCEPT ![i].status = "running"]
      /\ open' = IF row[i].gpu THEN open \cup {i} ELSE open
      /\ row[i].status \in {"queued", "cancelled"}
  BY DEF TypeOK, ClaimStart, Candidate, WorkerInv, ClaimRows
<1>1. w'.pc = "claimed" /\ w'.item = i /\ w'.batch = {}
  BY DEF ClaimStart, Idle
<1>2. /\ \A j \in Item : j # i => row'[j] = row[j]
      /\ row'[i].status = "running" /\ row'[i].gpu = row[i].gpu /\ row'[i].via = row[i].via
  BY <1>0 DEF Row
<1>3. ClaimRows' /\ ItemRow'
  BY <1>1, <1>2 DEF ClaimRows, ItemRow
<1>4. OneRunning'
  BY <1>0, <1>1, <1>2 DEF WorkerInv, OneRunning, Left, Executing
<1>5. AttemptsUnscheduled'
  BY <1>2, KindsDiffer DEF WorkerInv, AttemptsUnscheduled
<1>6. JobOfItem'
  BY <1>0, <1>1 DEF WorkerInv, JobOfItem
<1>7. UsageOfRows'
  BY <1>0, <1>1, <1>2 DEF WorkerInv, UsageOfRows, Held, Executing
<1> QED
  BY <1>3, <1>4, <1>5, <1>6, <1>7 DEF WorkerInv

(* finish_run() and finish_attempt() take the row out of "running" and close *)
(* its usage.                                                                *)
LEMMA FinishWorker ==
  ASSUME TypeOK, SchedInv, SeenBorn, WorkerInv, [Next]_vars,
         RefuseCommit \/ CompleteCommit \/ FailCommit
  PROVE  WorkerInv'
<1>0. /\ row \in [Item -> Row] /\ w \in Worker /\ w.item \in Item /\ Finish(w.item)
      /\ jobs' = jobs
  BY DEF TypeOK, RefuseCommit, CompleteCommit, FailCommit
<1>1. /\ Verdict(w.item) \in Ended
      /\ row' = [row EXCEPT ![w.item].status = Verdict(w.item)] /\ open' = open \ {w.item}
  BY <1>0 DEF Finish, Verdict, Worker, Verdicts, Ended
<1>2. /\ \A j \in Item : j # w.item => row'[j] = row[j]
      /\ row'[w.item].status \in Ended /\ row'[w.item].via = row[w.item].via
  BY <1>0, <1>1 DEF Row
<1>3. /\ w.pc \in {"refusing", "completing", "recording"}
      /\ w'.pc \in {"scan", "releasing", "idle"}
      /\ w'.batch = w.batch \ {w.item} /\ w'.locked = {}
      /\ w'.pc \in {"idle", "releasing"} => w'.batch = {}
      /\ w'.pc = "releasing" => w'.item = w.item
  <2>1. CASE RefuseCommit
    BY <1>0, <2>1 DEF RefuseCommit, Worker
  <2>2. CASE CompleteCommit
    BY <1>0, <2>2 DEF CompleteCommit, Worker, WorkerInv, ClaimRows
  <2>3. CASE FailCommit
    BY <1>0, <2>3 DEF FailCommit, Idle, WorkerInv, ClaimRows
  <2> QED
    BY <2>1, <2>2, <2>3
<1>4. ClaimRows'
  <2>1. \A j \in w'.batch : j \in Item /\ j \in w.batch /\ row'[j] = row[j]
    BY <1>0, <1>2, <1>3 DEF Worker
  <2>2. w'.batch # {} => w'.pc = "scan"
    BY <1>3
  <2> QED
    BY <1>3, <2>1, <2>2 DEF WorkerInv, ClaimRows
<1>5. ItemRow'
  BY <1>2, <1>3 DEF ItemRow, Executing, Ended
<1>6. OneRunning'
  <2>1. ASSUME NEW j \in Item, row'[j].status = "running" PROVE Left(j)'
    <3>1. j # w.item /\ row'[j] = row[j]
      BY <1>2, <2>1 DEF Ended
    <3> QED
      BY <1>3, <2>1, <3>1, LeftStays DEF WorkerInv, OneRunning
  <2> QED
    BY <2>1 DEF OneRunning
<1>7. AttemptsUnscheduled'
  BY <1>2, KindsDiffer DEF WorkerInv, AttemptsUnscheduled
<1>8. JobOfItem'
  BY <1>0, <1>3 DEF WorkerInv, JobOfItem
<1>9. UsageOfRows'
  BY <1>1, <1>2, <1>3 DEF WorkerInv, UsageOfRows, Held, Ended
<1> QED
  BY <1>4, <1>5, <1>6, <1>7, <1>8, <1>9 DEF WorkerInv

(* The steps of an execution that write no row and close no usage: what they *)
(* move is the worker's place and its Job.                                   *)
LEMMA ExecuteWorker ==
  ASSUME TypeOK, SchedInv, SeenBorn, WorkerInv, [Next]_vars,
         row' = row, sched' = sched, open' = open, w.pc \in Executing,
         w'.item = w.item, w'.batch = w.batch,
         w'.pc \in Executing \cup {"releasing"},
         w'.pc \in {"completing", "recording"} =>
            w.item \in w'.locked /\ row[w.item].status = "running",
         w'.pc = "releasing" => row[w.item].status # "running",
         JobOfItem'
  PROVE  WorkerInv'
<1>0. w.batch = {} /\ w.item \in Item
  BY DEF TypeOK, WorkerInv, ClaimRows, Executing
<1>1. ClaimRows' /\ ItemRow'
  BY <1>0 DEF WorkerInv, ClaimRows, ItemRow, Executing
<1>2. OneRunning'
  BY DEF WorkerInv, OneRunning, Left, Executing
<1>3. AttemptsUnscheduled' /\ UsageOfRows'
  BY DEF WorkerInv, AttemptsUnscheduled, UsageOfRows, Held, Executing
<1> QED
  BY <1>1, <1>2, <1>3 DEF WorkerInv

(* Every one of them is of that kind. *)
LEMMA ExecuteSteps ==
  ASSUME TypeOK, SchedInv, SeenBorn, WorkerInv, [Next]_vars,
         \/ CreateJob \/ SkipJob \/ CreateJobFails
         \/ PollCancelled \/ PollResult \/ PollError
         \/ CompleteRead \/ CompleteRollback \/ FailRead
  PROVE  WorkerInv'
<1>0. /\ row' = row /\ sched' = sched /\ open' = open /\ w \in Worker
  BY DEF TypeOK, CreateJob, SkipJob, CreateJobFails, PollCancelled, PollResult, PollError,
         CompleteRead, CompleteRollback, FailRead
<1>1. CASE CreateJob
  <2>1. /\ w.pc = "claimed" /\ w'.pc = "polling" /\ w'.item = w.item /\ w'.batch = w.batch
        /\ jobs' = jobs \cup {w.item}
    BY <1>0, <1>1 DEF CreateJob, Worker
  <2>2. JobOfItem'
    BY <2>1 DEF WorkerInv, JobOfItem
  <2> QED
    BY <1>0, <2>1, <2>2, ExecuteWorker DEF Executing
<1>2. CASE SkipJob
  <2>1. /\ w.pc = "claimed" /\ w'.pc = "releasing" /\ w'.item = w.item /\ w'.batch = w.batch
        /\ jobs' = jobs /\ row[w.item].status # "running"
    BY <1>0, <1>2 DEF SkipJob, Worker
  <2>2. JobOfItem'
    BY <2>1 DEF WorkerInv, JobOfItem
  <2> QED
    BY <1>0, <2>1, <2>2, ExecuteWorker DEF Executing
<1>3. \A verdict : /\ ToFail(verdict).pc = "failing" /\ ToFail(verdict).item = w.item
                   /\ ToFail(verdict).batch = w.batch
  BY <1>0 DEF ToFail, Worker
<1>4. CASE CreateJobFails
  <2>1. /\ w.pc = "claimed" /\ w'.pc = "failing" /\ w'.item = w.item /\ w'.batch = w.batch
        /\ jobs' = jobs \/ "leak" \in Faults
    BY <1>3, <1>4 DEF CreateJobFails
  <2>2. JobOfItem'
    BY <2>1 DEF WorkerInv, JobOfItem
  <2> QED
    BY <1>0, <2>1, <2>2, ExecuteWorker DEF Executing
<1>5. CASE PollCancelled \/ PollResult \/ PollError
  <2>1. /\ w.pc = "polling" /\ w'.item = w.item /\ w'.batch = w.batch
        /\ w'.pc \in {"failing", "answered"}
    BY <1>0, <1>3, <1>5 DEF PollCancelled, PollResult, PollError, Worker
  <2>2. jobs' = jobs \ {w.item} \/ "leak" \in Faults
    BY <1>5 DEF PollCancelled, PollResult, PollError, DeleteJob
  <2>3. JobOfItem'
    BY <2>1, <2>2 DEF WorkerInv, JobOfItem
  <2> QED
    BY <1>0, <2>1, <2>3, ExecuteWorker DEF Executing
<1>6. CASE CompleteRead
  <2>1. /\ w.pc = "answered" /\ w'.item = w.item /\ w'.batch = w.batch /\ jobs' = jobs
        /\ \/ /\ w'.pc = "completing" /\ w'.locked = {w.item}
              /\ row[w.item].status = "running"
           \/ w'.pc = "releasing" /\ row[w.item].status # "running"
    BY <1>0, <1>6 DEF CompleteRead, Worker
  <2>2. JobOfItem'
    BY <2>1 DEF WorkerInv, JobOfItem
  <2> QED
    BY <1>0, <2>1, <2>2, ExecuteWorker DEF Executing
<1>7. CASE CompleteRollback
  <2>1. /\ w.pc = "completing" /\ w'.item = w.item /\ w'.batch = w.batch /\ jobs' = jobs
        /\ w'.pc = "failing"
    BY <1>0, <1>7 DEF CompleteRollback, Worker
  <2>2. JobOfItem'
    BY <2>1 DEF WorkerInv, JobOfItem
  <2> QED
    BY <1>0, <2>1, <2>2, ExecuteWorker DEF Executing
<1>8. CASE FailRead
  <2>1. /\ w.pc = "failing" /\ w'.item = w.item /\ w'.batch = w.batch /\ jobs' = jobs
        /\ w'.pc = "recording" /\ w'.locked = {w.item} /\ row[w.item].status = "running"
    BY <1>0, <1>8 DEF FailRead, Worker
  <2>2. JobOfItem'
    BY <2>1 DEF WorkerInv, JobOfItem
  <2> QED
    BY <1>0, <2>1, <2>2, ExecuteWorker DEF Executing
<1> QED
  BY <1>1, <1>2, <1>4, <1>5, <1>6, <1>7, <1>8

(* The end of an execution: the usage is closed, or fail() could not record  *)
(* the failure and the row stays as it is.                                   *)
LEMMA LetGo ==
  ASSUME TypeOK, SchedInv, SeenBorn, WorkerInv, [Next]_vars,
         Release \/ FailNothing \/ FailLost
  PROVE  WorkerInv'
<1>0. /\ row' = row /\ sched' = sched /\ jobs' = jobs /\ w' = Idle /\ w.item \in Item
      /\ w.pc \in {"releasing", "failing", "recording"}
  BY DEF TypeOK, Release, FailNothing, FailLost
<1>1. ClaimRows' /\ ItemRow' /\ AttemptsUnscheduled' /\ JobOfItem'
  BY <1>0 DEF WorkerInv, ClaimRows, ItemRow, AttemptsUnscheduled, JobOfItem, Idle, Executing
<1>2. row[w.item].status = "running" => Left(w.item)
  <2>1. CASE Release \/ FailNothing
    BY <2>1 DEF Release, FailNothing, WorkerInv, ItemRow
  <2>2. CASE FailLost
    <3>1. row[w.item].status = "running" /\ (StaleFlush(w.item) \/ "db" \in Faults)
      BY <2>2 DEF FailLost, WorkerInv, ItemRow
    <3>2. Null \notin Schedules
      BY RunsAssumption
    <3> QED
      BY <3>1, <3>2 DEF StaleFlush, Touched, Left
  <2> QED
    BY <2>1, <2>2
<1>3. OneRunning'
  BY <1>0, <1>2 DEF WorkerInv, OneRunning, Left, Executing
<1>4. UsageOfRows'
  <2>1. CASE open' = open \ {w.item} /\ row[w.item].status # "running"
    BY <1>0, <2>1 DEF WorkerInv, UsageOfRows, Held, Executing
  <2>2. CASE FailLost
    <3>1. open' = open /\ row[w.item].status = "running"
      BY <2>2 DEF FailLost, WorkerInv, ItemRow
    <3> QED
      BY <1>0, <3>1 DEF WorkerInv, UsageOfRows, Held, Executing
  <2> QED
    BY <2>1, <2>2 DEF Release, FailNothing, WorkerInv, ItemRow
<1> QED
  BY <1>1, <1>3, <1>4 DEF WorkerInv

(* So the worker's invariant is kept by every step. *)
LEMMA WorkerInvStep ==
  ASSUME TypeOK, SchedInv, SeenBorn, WorkerInv, [Next]_vars
  PROVE  WorkerInv'
<1>1. CASE WorkerStep
  <2>1. CASE \E i \in Item : ClaimWait(i) \/ ClaimVanished(i) \/ ClaimRefuse(i)
    BY <2>1, ClaimWorker
  <2>2. CASE \E i \in Item : ClaimStart(i)
    BY <2>2, StartWorker
  <2>3. CASE ClaimAttempts \/ ClaimRuns \/ ClaimNothing \/ RefuseStale
    BY <2>3, ClaimWorker
  <2>4. CASE RefuseCommit \/ CompleteCommit \/ FailCommit
    BY <2>4, FinishWorker
  <2>5. CASE \/ CreateJob \/ SkipJob \/ CreateJobFails
             \/ PollCancelled \/ PollResult \/ PollError
             \/ CompleteRead \/ CompleteRollback \/ FailRead
    BY <2>5, ExecuteSteps
  <2>6. CASE Release \/ FailNothing \/ FailLost
    BY <2>6, LetGo
  <2> QED
    BY <1>1, <2>1, <2>2, <2>3, <2>4, <2>5, <2>6 DEF WorkerStep
<1> QED
  BY <1>1, StepKinds, QuietWorker, OwnerWorker, ProcessWorker

(***************************************************************************)
(* The theorems.                                                           *)
(***************************************************************************)
RowsInv == /\ SchedInv /\ SeenBorn /\ Inserted /\ RunsOwned /\ SchedulesOwned /\ WorkerInv

(* The invariant holds at the start ... *)
LEMMA RowsInit == Init => RowsInv
<1> SUFFICES ASSUME Init PROVE RowsInv
  OBVIOUS
<1>1. SchedInv
  BY DEF Init, SchedInv, ActiveScheduleFires, ScanLocks, NoScan, Unborn
<1>2. SeenBorn
  BY DEF Init, SeenBorn, Idle, Unread, Unborn
<1>3. \A i \in Item : row[i].status = "absent" /\ row[i].via = Null
  BY DEF Init
<1>4. Inserted /\ RunsOwned
  BY <1>3, KindsDiffer DEF Init, Inserted, RunsOwned, NoScan
<1>5. SchedulesOwned
  BY DEF Init, SchedulesOwned, Unborn, Exists
<1>6. WorkerInv
  BY <1>3, KindsDiffer DEF Init, WorkerInv, ClaimRows, ItemRow, OneRunning,
         AttemptsUnscheduled, JobOfItem, UsageOfRows, Idle, Executing
<1> QED
  BY <1>1, <1>2, <1>4, <1>5, <1>6 DEF RowsInv

(* ... and every step keeps it. *)
LEMMA RowsStep ==
  ASSUME TypeOK, RowsInv, [Next]_vars
  PROVE  RowsInv'
<1>0. SchedInv /\ SeenBorn /\ Inserted /\ RunsOwned /\ SchedulesOwned /\ WorkerInv
  BY DEF RowsInv
<1>1. SchedInv'
  <2>1. CASE Api
    <3>1. CASE sched' = sched /\ scan' = scan
      BY <1>0, <3>1 DEF SchedInv, ActiveScheduleFires, ScanLocks
    <3>2. CASE \/ \E n \in Notebooks, gpu \in BOOLEAN : CreateRun(n, gpu)
               \/ \E r \in Runs : CancelRun(r)
               \/ \E u \in Learners, gpu \in BOOLEAN : CreateAttempt(u, gpu)
               \/ \E a \in Attempts : RemoveExercise(a)
               \/ \E u \in SessionUsers : StartSession(u) \/ StopSession(u)
      BY <3>1, <3>2 DEF CreateRun, CancelRun, CreateAttempt, RemoveExercise, StartSession,
                        StopSession
    <3>3. CASE \E n \in Notebooks : DeleteNotebook(n) \/ DeleteNotebookDeadlock(n)
      BY <1>0, <3>3, DeleteSched
    <3>4. CASE \/ \E s \in Schedules, n \in Notebooks, gpu \in BOOLEAN : CreateSchedule(s, n, gpu)
               \/ \E s \in Schedules, gpu \in BOOLEAN : UpdateSchedule(s, gpu)
               \/ \E s \in Schedules : PauseSchedule(s) \/ ResumeSchedule(s) \/ DeleteSchedule(s)
      BY <1>0, <3>4, OwnerSched
    <3> QED
      BY <2>1, <3>2, <3>3, <3>4 DEF Api
  <2>2. CASE WorkerStep
    BY <1>0, <2>2, WorkerSched
  <2>3. CASE SchedulerStep
    BY <1>0, <2>3, ScanSched
  <2>4. CASE Crash
    BY <1>0, <2>4 DEF Crash, SchedInv, ActiveScheduleFires, ScanLocks, NoScan
  <2>5. CASE Restart \/ Tick \/ UNCHANGED vars
    BY <1>0, <2>5 DEF Restart, Tick, vars, SchedInv, ActiveScheduleFires, ScanLocks
  <2> QED
    BY <2>1, <2>2, <2>3, <2>4, <2>5 DEF Next
<1>2. SeenBorn' /\ SchedulesOwned'
  BY <1>0, SeenStep, SchedulesOwnedStep
<1>3. Inserted' /\ RunsOwned'
  BY <1>0, InsertedStep, RunsOwnedStep DEF WorkerInv
<1>4. WorkerInv'
  BY <1>0, WorkerInvStep
<1> QED
  BY <1>1, <1>2, <1>3, <1>4 DEF RowsInv

(* It holds in every reachable state. *)
LEMMA RowsAlways == Spec => []RowsInv
<1>1. TypeOK /\ RowsInv /\ [Next]_vars => RowsInv'
  BY RowsStep
<1> QED
  BY RowsInit, <1>1, TypeCorrect, PTL DEF Spec

(* An active schedule always has a next run and a paused one never, whatever *)
(* the order of owner requests, finished runs and scans.                     *)
THEOREM SchedulesFire == Spec => []ActiveScheduleFires
<1>1. RowsInv => ActiveScheduleFires
  BY DEF RowsInv, SchedInv
<1> QED
  BY <1>1, RowsAlways, PTL

(* Rows, notebooks, the worker and its Jobs agree: no orphaned work, one     *)
(* consumer, and no Job with a GPU that nothing accounts for.                *)
THEOREM RowsAgree == Spec => []RowsConsistent
<1>1. TypeOK /\ RowsInv => RowsConsistent
  <2> SUFFICES ASSUME TypeOK, RowsInv PROVE RowsConsistent
    OBVIOUS
  <2>0. WorkerInv
    BY DEF RowsInv
  <2>1. NoOrphans
    BY DEF RowsInv, RunsOwned, SchedulesOwned, NoOrphans, Active
  <2>2. SerialConsumer
    BY <2>0 DEF WorkerInv, OneRunning, JobOfItem, Left, SerialConsumer
  <2>3. ASSUME NEW i \in jobs, row[i].gpu, w.pc # "down", "leak" \notin Faults
        PROVE  i \in open \/ (row[i].status \in {"cancelled", "deleted"} /\ w.item = i)
    <3>1. w.pc = "polling" /\ w.item = i /\ i \in Item
      BY <2>0, <2>3 DEF WorkerInv, JobOfItem, TypeOK
    <3> QED
      BY <2>0, <2>3, <3>1 DEF WorkerInv, ItemRow, UsageOfRows, Executing
  <2>4. JobsHoldGpus
    BY <2>3 DEF JobsHoldGpus
  <2> QED
    BY <2>1, <2>2, <2>4 DEF RowsConsistent
<1> QED
  BY <1>1, RowsAlways, TypeCorrect, PTL

(* A GPU row holds GPUs exactly while it runs. *)
THEOREM UsageFollowsRows == Spec => []UsageMatchesRows
<1>1. RowsInv => UsageMatchesRows
  BY DEF RowsInv, WorkerInv, UsageOfRows, Held, UsageMatchesRows
<1> QED
  BY <1>1, RowsAlways, PTL

(* What has ended stays ended, except for the cancelled run of a batch that  *)
(* a refusal has unlocked.                                                   *)
THEOREM EndsAreFinal == Spec => EndedStaysEnded
<1> DEFINE Stays == \A i \in Item : row[i].status \in Ended =>
                       \/ row'[i].status \in {row[i].status, "deleted"}
                       \/ /\ row[i].status = "cancelled"
                          /\ i \in w.batch \ w.locked
<1>1. TypeOK /\ RowsInv /\ [Next]_vars => Stays
  <2> SUFFICES ASSUME TypeOK, RowsInv, [Next]_vars, NEW i \in Item, row[i].status \in Ended
               PROVE  \/ row'[i].status \in {row[i].status, "deleted"}
                      \/ row[i].status = "cancelled" /\ i \in w.batch \ w.locked
    OBVIOUS
  <2>0. row \in [Item -> Row] /\ row[i] \in Row /\ WorkerInv
    BY DEF TypeOK, RowsInv
  <2>1. CASE QuietStep
    <3>1. Quiet(i)
      BY <2>0, <2>1, QuietRows DEF WorkerInv
    <3> QED
      BY <2>0, <3>1 DEF Quiet, Unborns, Ended, Row
  <2>2. CASE (\E r \in Runs : CancelRun(r)) \/ (\E a \in Attempts : RemoveExercise(a))
    BY <2>0, <2>2, KindsDiffer DEF CancelRun, RemoveExercise, Active, Ended, Row
  <2>3. CASE WorkerStep
    <3>1. \/ row' = row
          \/ \E j \in Item, x \in {"running"} \cup Ended :
                /\ row' = [row EXCEPT ![j].status = x]
                /\ row[j].status \in {"queued", "cancelled", "running"}
                /\ row[j].status = "cancelled" => j \in w.batch \ w.locked
      BY <2>0, <2>3, WorkerRows DEF WorkerInv
    <3> QED
      BY <2>0, <3>1 DEF Ended
  <2>4. CASE Crash \/ Restart
    BY <2>0, <2>4 DEF Crash, Restart, Ended, Row
  <2> QED
    BY <2>1, <2>2, <2>3, <2>4, StepKinds
<1>2. TypeOK /\ RowsInv /\ [Next]_vars => [Stays]_vars
  BY <1>1
<1> QED
  BY <1>2, RowsAlways, TypeCorrect, PTL DEF Spec, EndedStaysEnded

(* What a scan queues belongs to a schedule that is active when the scan     *)
(* commits, and to a notebook for which it queues nothing else.              *)
THEOREM ScansObey == Spec => ScanObeys
<1> DEFINE Pauses == \A r \in Runs : row[r].status = "inserting" /\ row'[r].status = "queued"
                                        => sched[row[r].via].status = "active"
           Once == \A r, q \in Runs :
                      /\ row[r].status = "inserting" /\ row'[r].status = "queued"
                      /\ row[q].status = "inserting" /\ row'[q].status = "queued"
                      /\ row[r].of = row[q].of
                      => r = q
<1>1. RowsInv => Pauses /\ Once
  BY DEF RowsInv, SchedInv, ScanLocks, Inserted
<1>2. RowsInv => [Pauses]_vars /\ [Once]_vars
  BY <1>1
<1>3. Spec => [][Pauses]_vars /\ [][Once]_vars
  BY <1>2, RowsAlways, PTL DEF Spec
<1> QED
  BY <1>3 DEF ScanObeys, PauseStopsRuns, OneRunPerScan
===============================================================================
