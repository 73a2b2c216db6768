--------------------------- MODULE MCCompetitions ---------------------------
EXTENDS Competitions, TLC

(* One competition of a day, which a host may extend by a day. *)
MCTimelines == {[starts |-> 0, entry |-> 1, merger |-> 1, ends |-> 1],
                [starts |-> 0, entry |-> 1, merger |-> 2, ends |-> 2]}

(* Limits that a host raises, and lowers below what was used or selected. *)
MCLow == [daily |-> 1, final |-> 1]
MCLimits == {MCLow, [daily |-> 2, final |-> 2]}

(* The private order need not be the public one. *)
MCScores == {[public |-> 1, private |-> 2], [public |-> 2, private |-> 1]}

(* New answers that exchange the two. *)
MCRescorings == {[s \in MCScores |-> [public |-> s.private, private |-> s.public]]}

(* To keep the instance small, nobody is disqualified while an entry waits   *)
(* for new rules; the higher limits belong to the first day, and nobody is   *)
(* disqualified, asked to accept new rules or uploads a large file while     *)
(* they are in force or once an entry has used them.  What leads out of      *)
(* these bounds is checked, and not followed.                                *)
Bounded ==
    LET accepted == \A u \in Users : entry[u] # "outdated"
        high == limits # MCLow
        used == \E i, j \in DOMAIN subs :
                    i < j /\ Of(subs[i]) = Of(subs[j]) /\ subs[i].day = subs[j].day
    IN  /\ dq = {} \/ accepted
        /\ high => times.ends = 2 /\ (clock = 1 \/ used)
        /\ high \/ used => dq = {} /\ accepted /\ ~upload.large

Symmetric == Permutations(Users)
===============================================================================
