---------------------------- MODULE MCNotebookRuns ----------------------------
EXTENDS NotebookRuns, TLC

Symmetric == Permutations(Notebooks) \cup Permutations(Learners)
             \cup Permutations(SessionUsers) \cup Permutations(Schedules)

-------------------------------------------------------------------------------
(* The queue of attempts is longer than one batch of claim(), with a learner  *)
(* of its own for each.  To keep the instance small, attempts and runs do not *)
(* meet in one behaviour, and time stands still for attempts.                 *)
Learner(a) ==
    (CHOOSE f \in [1 .. MaxAttempts -> Learners] :
        \A i, j \in 1 .. MaxAttempts : f[i] = f[j] => i = j)[a[2]]

OneQueue ==
    LET Inserted == {i \in Item : row'[i].status # "absent"} IN
    \/ Inserted \cap Attempts = {}
    \/ /\ Inserted \subseteq Attempts
       /\ \A a \in Inserted : row'[a].of = Learner(a)
       /\ \A s \in Schedules : sched'[s].status = "unborn"
       /\ clock' = 1 /\ crashes' = 0

MCNext == Next /\ OneQueue

MCFairSpec ==
    Init /\ [][MCNext]_vars
         /\ WF_vars(WorkerStep) /\ WF_vars(SchedulerStep) /\ WF_vars(Restart)
===============================================================================
