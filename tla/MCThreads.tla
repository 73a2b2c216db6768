------------------------------ MODULE MCThreads ------------------------------
(***************************************************************************)
(* Three parts of one behaviour, each with all that posts and deletes: two *)
(* requests that change texts, two that report and resolve, and one at a   *)
(* time with a moderator who hides and closes and a watcher.               *)
(***************************************************************************)
EXTENDS Threads, TLC

VARIABLE focus

MCOwner == Topic :> "alice" @@ Comment :> "bob" @@ Reply :> "alice"

\* One text mentions bob, who is told of the topic that way, and alice, who is not of hers.
MCMentions == [t \in Texts |-> IF t = "asks" THEN {"alice", "bob"} ELSE {}]

Symmetry == Permutations(Requests)

MCInit ==
    /\ Init
    /\ focus \in {"texts", "reports", "moderation"}
    /\ focus = "reports" => text[Topic] = "plain"

Of(request) ==
    CASE focus = "texts" -> /\ request.op \notin {"report", "resolve"}
                            /\ request.op = "delete" => request.item = Comment
      [] focus = "reports" -> /\ request.op # "edit"
                              /\ request.op = "post" => request.text = "plain"
      [] OTHER -> request.op \notin {"edit", "report", "resolve"}

MCNext ==
    /\ Next
    /\ \A q \in Requests : Of(req'[q])
    /\ IF focus = "moderation"
       THEN \A p, q \in Requests : req'[p] = Idle \/ req'[q] = Idle \/ p = q
       ELSE hidden' = {} /\ ~closed' /\ watchers' \subseteq watchers
    /\ UNCHANGED focus

MCSpec == MCInit /\ [][MCNext]_<<vars, focus>>
=============================================================================
