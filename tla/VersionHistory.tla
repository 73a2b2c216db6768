--------------------------- MODULE VersionHistory ---------------------------
(***************************************************************************)
(* What a dataset promises about its numbered versions                     *)
(* (docs/datasets.md: "a set of files with immutable, numbered versions"): *)
(* numbers are given out in order and never again, the files behind a      *)
(* number do not change, a withdrawn number stays withdrawn, and while the *)
(* dataset exists it does not lose its last version.                       *)
(***************************************************************************)
EXTENDS Integers

CONSTANTS MaxNumber,  \* numbers are drawn from 1 .. MaxNumber
          FileSets,   \* what a version may contain
          NoFiles     \* the content of a version that has none

VARIABLES history,  \* for each number, its state and its files
          removed   \* the dataset was deleted

Numbers == 1 .. MaxNumber

TypeOK ==
    /\ history \in [Numbers -> [state : {"unused", "published", "deleted"}, files : FileSets]]
    /\ removed \in BOOLEAN

Unused == [state |-> "unused", files |-> NoFiles]

Published(fs) == [state |-> "published", files |-> fs]

Init ==
    /\ \/ history = [n \in Numbers |-> Unused]
       \/ \E fs \in FileSets \ {NoFiles} :
             history = [n \in Numbers |-> IF n = 1 THEN Published(fs) ELSE Unused]
    /\ removed = FALSE

\* The next number, for files that stay as they are.  (That history'[n] is
\* used follows from the last conjunct; said first, it spares TLC a search.)
Publish(n) ==
    /\ ~removed
    /\ history[n] = Unused /\ history'[n] # Unused
    /\ \A m \in 1 .. n - 1 : history[m] # Unused
    /\ \E fs \in FileSets \ {NoFiles} : history' = [history EXCEPT ![n] = Published(fs)]
    /\ UNCHANGED removed

\* A version goes; another one stays, and the number is not free again.
Withdraw(n) ==
    /\ history[n].state = "published"
    /\ \E m \in Numbers \ {n} : history[m].state = "published"
    /\ history' = [history EXCEPT ![n] = [state |-> "deleted", files |-> NoFiles]]
    /\ UNCHANGED removed

\* The dataset goes with everything in it.
RemoveAll ==
    /\ ~removed
    /\ removed' = TRUE
    /\ history' = [n \in Numbers |-> Unused]

Next ==
    \/ \E n \in Numbers : Publish(n) \/ Withdraw(n)
    \/ RemoveAll

Spec == Init /\ [][Next]_<<history, removed>>

=============================================================================
