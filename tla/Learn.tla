------------------------------- MODULE Learn -------------------------------
(***************************************************************************)
(* One course, its author and one learner: authoring, attempts and their   *)
(* verdicts, hints, lesson progress and the certificate (learn.py,         *)
(* finish_attempt() as compute_worker.py calls it).  The author's handlers *)
(* lock the course row and are one step each; the transactions of the      *)
(* worker, of a hint and of a visit are split where they read.             *)
(***************************************************************************)
EXTENDS Naturals, Sequences, FiniteSets

CONSTANTS
    Lessons,      \* ids of lessons
    Exercises,    \* ids of exercises
    MaxAttempts,  \* bound on the learner's attempts
    MaxHints,     \* hints of an exercise
    None

ASSUME LearnAssumption ==
    /\ IsFiniteSet(Exercises)
    /\ MaxAttempts \in Nat /\ MaxHints \in Nat
    /\ None \notin Lessons \cup Exercises
    /\ None \notin [attempts : Nat, hints : Nat, passed : BOOLEAN]
    /\ {"unused", "gone"} \cap Lessons = {}

VARIABLES
    course,       \* courses.status, or "gone"
    lessons,      \* course_lessons
    exercises,    \* course_exercises: the lesson of each
    completed,    \* lesson_progress
    progress,     \* exercise_progress
    attempts,     \* exercise_attempts, oldest first
    certificate,  \* there is a certificate
    worker,       \* where the worker's transaction is
    hint,         \* where the transaction of reveal_hint() is
    visit         \* get_course() found that a certificate is due

vars == <<course, lessons, exercises, completed, progress, attempts, certificate, worker, hint, visit>>

Verdicts == {"passed", "failed", "timeout", "infrastructure"}

NoWork == [pc |-> "idle", row |-> 0, verdict |-> "passed", fresh |-> FALSE, issue |-> FALSE]

NoHint == [exercise |-> None, fresh |-> FALSE]

Row == [exercise : Exercises, status : {"queued", "running", "passed", "failed", "removed"},
        counted : BOOLEAN]

TypeOK ==
    /\ course \in {"draft", "published", "gone"}
    /\ lessons \in [Lessons -> {"unused", "live", "gone"}]
    /\ exercises \in [Exercises -> Lessons \cup {"unused", "gone"}]
    /\ completed \subseteq Lessons
    /\ progress \in [Exercises -> [attempts : 0 .. MaxAttempts, hints : 0 .. MaxHints,
                                   passed : BOOLEAN] \cup {None}]
    /\ Len(attempts) <= MaxAttempts /\ \A k \in DOMAIN attempts : attempts[k] \in Row
    /\ certificate \in BOOLEAN
    /\ worker \in [pc : {"idle", "run", "read", "commit"}, row : 0 .. MaxAttempts,
                   verdict : Verdicts, fresh : BOOLEAN, issue : BOOLEAN]
    /\ hint \in [exercise : Exercises \cup {None}, fresh : BOOLEAN]
    /\ visit \in BOOLEAN

Init ==
    /\ course = "draft"
    /\ lessons = [l \in Lessons |-> "unused"]
    /\ exercises = [e \in Exercises |-> "unused"]
    /\ completed = {}
    /\ progress = [e \in Exercises |-> None]
    /\ attempts = <<>>
    /\ certificate = FALSE
    /\ worker = NoWork
    /\ hint = NoHint
    /\ visit = FALSE

-----------------------------------------------------------------------------
LiveLessons == {l \in Lessons : lessons[l] = "live"}

LiveExercises == {e \in Exercises : exercises[e] \in Lessons}

\* course_for(): the learner sees a published course; an author who learns sees drafts.
Open == course # "gone"

Active(k) == attempts[k].status \in {"queued", "running"}

PassedIn(p) == {e \in LiveExercises : p[e] # None /\ p[e].passed}

\* Mutant: exercises that were removed still count.
DueOfAll(p) ==
    /\ course = "published"
    /\ ~certificate
    /\ LiveExercises # {}
    /\ Cardinality(PassedIn(p)) >= Cardinality({e \in Exercises : exercises[e] # "unused"})

\* maybe_issue_certificate() of the learner with progress p
Due(p) ==
    /\ course = "published"
    /\ ~certificate
    /\ LiveExercises # {}
    /\ Cardinality(PassedIn(p)) >= Cardinality(LiveExercises)

WorkedOn == IF worker.pc \in {"read", "commit"} THEN {attempts[worker.row].exercise} ELSE {}

-----------------------------------------------------------------------------
(* Authoring, under the lock of the course row.                            *)

CreateLesson(l) ==
    /\ Open
    /\ lessons[l] = "unused"
    /\ lessons' = [lessons EXCEPT ![l] = "live"]
    /\ UNCHANGED <<course, exercises, completed, progress, attempts, certificate, worker, hint, visit>>

CreateExercise(e, l) ==
    /\ Open
    /\ l \in LiveLessons
    /\ exercises[e] = "unused"
    /\ exercises' = [exercises EXCEPT ![e] = l]
    /\ UNCHANGED <<course, lessons, completed, progress, attempts, certificate, worker, hint, visit>>

PublishCourse ==
    /\ course = "draft"
    /\ LiveLessons # {}
    /\ course' = "published"
    /\ UNCHANGED <<lessons, exercises, completed, progress, attempts, certificate, worker, hint, visit>>

UnpublishCourse ==
    /\ course = "published"
    /\ course' = "draft"
    /\ UNCHANGED <<lessons, exercises, completed, progress, attempts, certificate, worker, hint, visit>>

\* remove_exercises() waits for the attempt that the worker has locked.
RemoveExercises(gone) ==
    /\ gone \cap WorkedOn = {}
    /\ exercises' = [e \in Exercises |-> IF e \in gone THEN "gone" ELSE exercises[e]]
    /\ progress' = [e \in Exercises |-> IF e \in gone THEN None ELSE progress[e]]
    /\ attempts' = [k \in DOMAIN attempts |->
           IF attempts[k].exercise \in gone THEN [attempts[k] EXCEPT !.status = "removed"]
           ELSE attempts[k]]

\* remove_lessons()
RemoveLessons(gone) ==
    /\ RemoveExercises({e \in LiveExercises : exercises[e] \in gone})
    /\ completed' = completed \ gone
    /\ lessons' = [l \in Lessons |-> IF l \in gone THEN "gone" ELSE lessons[l]]

DeleteExercise(e) ==
    /\ e \in LiveExercises
    /\ RemoveExercises({e})
    /\ UNCHANGED <<course, lessons, completed, certificate, worker, hint, visit>>

DeleteLesson(l) ==
    /\ l \in LiveLessons
    /\ course = "published" => LiveLessons # {l}
    /\ RemoveLessons({l})
    /\ UNCHANGED <<course, certificate, worker, hint, visit>>

DeleteCourse ==
    /\ course = "draft"
    /\ ~certificate
    /\ RemoveLessons(LiveLessons)
    /\ course' = "gone"
    /\ UNCHANGED <<certificate, worker, hint, visit>>

-----------------------------------------------------------------------------
(* The learner.                                                            *)

\* mark_complete()
CompleteLesson(l) ==
    /\ l \in LiveLessons
    /\ completed' = completed \cup {l}
    /\ UNCHANGED <<course, lessons, exercises, progress, attempts, certificate, worker, hint, visit>>

\* create_attempt() and reveal_hint() lock the user row.
CreateAttempt(e) ==
    /\ e \in LiveExercises
    /\ hint = NoHint
    /\ Len(attempts) < MaxAttempts
    /\ \A k \in DOMAIN attempts : ~Active(k)
    /\ attempts' = Append(attempts, [exercise |-> e, status |-> "queued", counted |-> FALSE])
    /\ UNCHANGED <<course, lessons, exercises, completed, progress, certificate, worker, hint, visit>>

HintRead(e) ==
    /\ e \in LiveExercises
    /\ hint = NoHint
    /\ IF progress[e] = None THEN MaxHints > 0 ELSE progress[e].hints < MaxHints
    /\ hint' = [exercise |-> e, fresh |-> progress[e] = None]
    /\ UNCHANGED <<course, lessons, exercises, completed, progress, attempts, certificate, worker, visit>>

\* The first row of the exercise may have been inserted since, or the exercise may be
\* gone: then the request fails.
HintCommit ==
    LET e == hint.exercise IN
    /\ e # None
    /\ ~(worker.pc = "commit" /\ e \in WorkedOn)
    /\ hint' = NoHint
    /\ progress' = [progress EXCEPT
           ![e] = IF e \notin LiveExercises THEN @
                  ELSE IF @ = None THEN [attempts |-> 0, hints |-> 1, passed |-> FALSE]
                  ELSE IF hint.fresh THEN @
                  ELSE [@ EXCEPT !.hints = progress[e].hints + 1]]
    /\ UNCHANGED <<course, lessons, exercises, completed, attempts, certificate, worker, visit>>

\* get_course(): learners who passed everything before publication.
VisitRead ==
    /\ ~visit
    /\ Due(progress)
    /\ visit' = TRUE
    /\ UNCHANGED <<course, lessons, exercises, completed, progress, attempts, certificate, worker, hint>>

\* The insert; another certificate, or a deleted course, makes it fail quietly.
VisitCommit ==
    /\ visit
    /\ visit' = FALSE
    /\ certificate' = (certificate \/ course # "gone")
    /\ UNCHANGED <<course, lessons, exercises, completed, progress, attempts, worker, hint>>

-----------------------------------------------------------------------------
(* The worker.                                                             *)

Claim ==
    \E k \in DOMAIN attempts :
        /\ worker = NoWork
        /\ attempts[k].status = "queued"
        /\ attempts' = [attempts EXCEPT ![k].status = "running"]
        /\ worker' = [NoWork EXCEPT !.pc = "run", !.row = k]
        /\ UNCHANGED <<course, lessons, exercises, completed, progress, certificate, hint, visit>>

\* The attempt was deleted with its exercise.
FinishNothing ==
    /\ worker.pc = "run"
    /\ attempts[worker.row].status = "removed"
    /\ worker' = NoWork
    /\ UNCHANGED <<course, lessons, exercises, completed, progress, attempts, certificate, hint, visit>>

\* The attempt is locked, and progress_row() looks for its row.
FinishRead(verdict) ==
    LET e == attempts[worker.row].exercise IN
    /\ worker.pc = "run"
    /\ attempts[worker.row].status = "running"
    /\ worker' = [worker EXCEPT !.pc = "read", !.verdict = verdict, !.fresh = progress[e] = None]
    /\ UNCHANGED <<course, lessons, exercises, completed, progress, attempts, certificate, hint, visit>>

Conflict ==
    LET e == attempts[worker.row].exercise IN
    worker.verdict # "infrastructure" /\ worker.fresh /\ progress[e] # None

\* The row of progress, with this verdict
Counted ==
    LET p == progress[attempts[worker.row].exercise] IN
    [attempts |-> IF p = None THEN 1 ELSE p.attempts + 1,
     hints |-> IF p = None THEN 0 ELSE p.hints,
     passed |-> worker.verdict = "passed" \/ (p # None /\ p.passed)]

\* finish_attempt() flushes the progress, and looks whether a certificate is due.
FinishFlush ==
    LET e == attempts[worker.row].exercise IN
    /\ worker.pc = "read"
    /\ ~Conflict
    /\ worker' = [worker EXCEPT !.pc = "commit",
           !.issue = worker.verdict = "passed" /\ Due([progress EXCEPT ![e] = Counted])]
    /\ UNCHANGED <<course, lessons, exercises, completed, progress, attempts, certificate, hint, visit>>

\* Mutant: infrastructure failures count too.
FinishCommitFailures ==
    LET k == worker.row  e == attempts[worker.row].exercise IN
    /\ worker.pc = "commit"
    /\ ~(worker.issue /\ certificate)
    /\ attempts' = [attempts EXCEPT
           ![k].status = IF worker.verdict = "passed" THEN "passed" ELSE "failed",
           ![k].counted = worker.verdict # "infrastructure"]
    /\ progress' = [progress EXCEPT ![e] = Counted]
    /\ certificate' = (certificate \/ worker.issue)
    /\ worker' = NoWork
    /\ UNCHANGED <<course, lessons, exercises, completed, hint, visit>>

\* Its commit.  Infrastructure failures do not count.
FinishCommit ==
    LET k == worker.row  e == attempts[worker.row].exercise IN
    /\ worker.pc = "commit"
    /\ ~(worker.issue /\ certificate)
    /\ attempts' = [attempts EXCEPT
           ![k].status = IF worker.verdict = "passed" THEN "passed" ELSE "failed",
           ![k].counted = worker.verdict # "infrastructure"]
    /\ progress' = IF worker.verdict = "infrastructure" THEN progress
                   ELSE [progress EXCEPT ![e] = Counted]
    /\ certificate' = (certificate \/ worker.issue)
    /\ worker' = NoWork
    /\ UNCHANGED <<course, lessons, exercises, completed, hint, visit>>

\* A hint inserted the row of the exercise, or a visit the certificate: the transaction
\* is undone, and fail() records that the check could not run.  A timeout was already
\* being recorded by fail(): that attempt stays "running" until a restart.
FinishConflict ==
    LET k == worker.row IN
    /\ \/ worker.pc = "read" /\ Conflict
       \/ worker.pc = "commit" /\ worker.issue /\ certificate
    /\ attempts' = IF worker.verdict = "timeout" THEN attempts
                   ELSE [attempts EXCEPT ![k].status = "failed"]
    /\ worker' = NoWork
    /\ UNCHANGED <<course, lessons, exercises, completed, progress, certificate, hint, visit>>

\* The worker starts again: interrupted attempts have failed, and do not count.
Restart ==
    /\ \E k \in DOMAIN attempts : attempts[k].status = "running"
    /\ attempts' = [k \in DOMAIN attempts |->
           IF attempts[k].status = "running" THEN [attempts[k] EXCEPT !.status = "failed"]
           ELSE attempts[k]]
    /\ worker' = NoWork
    /\ UNCHANGED <<course, lessons, exercises, completed, progress, certificate, hint, visit>>

-----------------------------------------------------------------------------
Authoring ==
    \/ PublishCourse \/ UnpublishCourse \/ DeleteCourse
    \/ \E l \in Lessons : CreateLesson(l) \/ DeleteLesson(l)
    \/ \E e \in Exercises : DeleteExercise(e) \/ \E l \in Lessons : CreateExercise(e, l)

Next ==
    \/ Authoring
    \/ \E l \in Lessons : CompleteLesson(l)
    \/ \E e \in Exercises : CreateAttempt(e) \/ HintRead(e)
    \/ HintCommit \/ VisitRead \/ VisitCommit
    \/ Claim \/ FinishNothing \/ FinishFlush \/ FinishCommit \/ FinishConflict
    \/ \E verdict \in Verdicts : FinishRead(verdict)
    \/ Restart

Spec == Init /\ [][Next]_vars

\* A learner keeps visiting the course, and requests end.
FairSpec == Spec /\ WF_vars(VisitRead) /\ WF_vars(VisitCommit)

-----------------------------------------------------------------------------
(* Properties                                                              *)

\* The counter that unlocks the solution is the number of checker verdicts and
\* timeouts, whatever hints, restarts, repeated writes and deletions happened: none is
\* counted twice, and no infrastructure failure is.
AttemptsCounted ==
    \A e \in LiveExercises :
        Cardinality({k \in DOMAIN attempts : attempts[k].exercise = e /\ attempts[k].counted}) =
            IF progress[e] = None THEN 0 ELSE progress[e].attempts

EverythingPassed ==
    course = "published" /\ LiveExercises # {} /\ PassedIn(progress) = LiveExercises

\* A learner who has passed everything in a published course gets the certificate, also
\* when the last step was the author's: publication, or the removal of an exercise.
CertificateComes == <>[]EverythingPassed => <>certificate

\* One queued or running attempt, and no rows of what was deleted.
NoOrphans ==
    /\ Cardinality({k \in DOMAIN attempts : Active(k)}) <= 1
    /\ \A e \in Exercises : progress[e] # None => e \in LiveExercises
    /\ \A k \in DOMAIN attempts : Active(k) => attempts[k].exercise \in LiveExercises
    /\ completed \subseteq LiveLessons
    /\ certificate => course # "gone"

\* Attempts, progress rows and certificates agree with each other and with the course.
ProgressKept == TypeOK /\ NoOrphans /\ AttemptsCounted
=============================================================================
