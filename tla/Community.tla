----------------------------- MODULE Community ------------------------------
(***************************************************************************)
(* A thread of public content and the progression cache of its authors: a  *)
(* dataset, a topic on it, a comment on the topic and a reply to the       *)
(* comment, with votes, author deletion, moderation and privacy            *)
(* (discussion_feed.py, engagement.py, votes.py, moderation.py,            *)
(* community.py, progression.py).  Rows of user_progression exist.         *)
(*                                                                         *)
(* A transaction marks the users it concerns, computes their rows when it  *)
(* is about to commit, and commits.  Each runs without interruption, or    *)
(* as one of Slow, which others overtake between these steps.              *)
(***************************************************************************)
EXTENDS Naturals, FiniteSets

CONSTANTS
    Users,
    Owner,     \* the author of every item
    Bronze,    \* votes that an item needs for a medal: 5 for a dataset, else 1
    Slow,      \* transactions that others may overtake
    MaxHidden  \* a bound on the items hidden at a time

Dataset == 1
Topic == 2
Comment == 3
Reply == 4

Items == {Dataset, Topic, Comment, Reply}

CommunityAssumption ==
    /\ Owner \in [Items -> Users]
    /\ Bronze \in [Items -> Nat \ {0}]
    /\ MaxHidden \in Nat

VARIABLES
    content,     \* the source rows: state, withheld (hidden or private), votes
    cache,       \* user_progression
    tx,          \* the transactions under way
    overlapped   \* users whose last transactions overlapped (not in the code)

vars == <<content, cache, tx, overlapped>>

Categories == {"datasets", "discussions"}
Progress == [Categories -> [ranked : BOOLEAN, medals : 0 .. Cardinality(Items)]]
Votes == Items \X Users
Withheld == {"hidden", "private"} \X Items

\* What a transaction writes: of the item, or deep: also of what hangs on it.
Changes ==
    [item : Items, deep : BOOLEAN, late : BOOLEAN,
     rows : UNION {[S -> {"live", "placeholder", "gone"}] : S \in SUBSET Items},
     withholds : SUBSET Withheld, restores : SUBSET Withheld,
     adds : SUBSET Votes, drops : SUBSET Votes]

Idle == [pc |-> "idle", locks |-> {}]

TypeOK ==
    /\ content \in [state : [Items -> {"none", "live", "placeholder", "gone"}],
                    withheld : SUBSET Withheld, votes : SUBSET Votes]
    /\ cache \in [Users -> Progress]
    /\ \A r \in Slow :
           tx[r] # Idle =>
               /\ tx[r].pc \in {"marked", "computed"} /\ tx[r].change \in Changes
               /\ tx[r].marks \subseteq Users /\ tx[r].alone \in BOOLEAN
               /\ tx[r].pc = "computed" =>
                      {tx[r].read, tx[r].computed} \subseteq [tx[r].marks -> Progress]
    /\ overlapped \subseteq Users

-----------------------------------------------------------------------------
(* What is visible, and what it earns.                                     *)

Exists(c, i) == c.state[i] \in {"live", "placeholder"}

\* target_row(): an item is visible with everything above it, or to its owner.
Visible(c, i, user) ==
    \A j \in 1 .. i : Exists(c, j) /\ (user = Owner[j] \/ \A w \in c.withheld : w[2] # j)

\* visible to None, an anonymous reader
Public(c, i) ==
    c.state[i] = "live" /\ \A j \in 1 .. i : Exists(c, j) /\ \A w \in c.withheld : w[2] # j

OfCategory(category) == IF category = "datasets" THEN {Dataset} ELSE Items \ {Dataset}

VoteCount(c, i) == Cardinality({v \in c.votes : v[1] = i})

\* compute()
Compute(c, user) ==
    [category \in Categories |->
        LET counted == {i \in OfCategory(category) : Owner[i] = user /\ Public(c, i)} IN
        [ranked |-> counted # {},
         medals |-> Cardinality({i \in counted : VoteCount(c, i) >= Bronze[i]})]]

\* Mutant: only the owner of the item is marked.
RelatedOwner(c, i) == {Owner[j] : j \in {k \in {i} : Exists(c, k)}}

\* mark_related(): the owner, and the owners of what hangs on the item
Related(c, i) == {Owner[j] : j \in {k \in Items : k >= i /\ Exists(c, k)}}

-----------------------------------------------------------------------------
(* What transactions write.                                                *)

Change(i, deep) ==
    [item |-> i, deep |-> deep, late |-> FALSE, rows |-> [j \in {} |-> "gone"],
     withholds |-> {}, restores |-> {}, adds |-> {}, drops |-> {}]

Creation(i) == [Change(i, FALSE) EXCEPT !.rows = [j \in {i} |-> "live"]]

\* With comments or replies an item stays as a placeholder.
Deletion(c, i) ==
    LET answered == i < Reply /\ Exists(c, i + 1) IN
    [Change(i, TRUE) EXCEPT !.rows = [j \in {i} |-> IF answered THEN "placeholder" ELSE "gone"],
                            !.drops = {i} \X Users]

\* With everything below.  What hangs on a topic, comment or reply is looked for when its
\* row is locked; the votes on a reply to a comment stay when only the reply is deleted.
Removal(c, i) ==
    LET below == {j \in Items : j >= i /\ Exists(c, j)} IN
    [Change(i, TRUE) EXCEPT !.late = (i # Dataset),
                            !.rows = [j \in below |-> "gone"],
                            !.drops = IF i = Reply THEN {} ELSE below \X Users]

Withholding(i, reason, on) ==
    [Change(i, TRUE) EXCEPT !.withholds = IF on THEN {<<reason, i>>} ELSE {},
                            !.restores = IF on THEN {} ELSE {<<reason, i>>}]

Voting(i, user, adds) ==
    [Change(i, FALSE) EXCEPT !.adds = IF adds THEN {<<i, user>>} ELSE {},
                             !.drops = IF adds THEN {} ELSE {<<i, user>>}]

Applied(t, c) ==
    [state |-> [j \in Items |-> IF j \in DOMAIN t.rows THEN t.rows[j] ELSE c.state[j]],
     withheld |-> (c.withheld \cup t.withholds) \ t.restores,
     votes |-> (c.votes \cup t.adds) \ t.drops]

\* The owners of what a transaction works on, or may work on by the time it ends.
Reach(t) == {Owner[j] : j \in {k \in Items : k = t.item \/ (t.deep /\ k > t.item)}}

-----------------------------------------------------------------------------
(* Transactions.                                                           *)

Init ==
    /\ content = [state |-> [i \in Items |-> IF i = Dataset THEN "live" ELSE "none"],
                  withheld |-> {}, votes |-> {}]
    /\ cache = [u \in Users |-> Compute(content, u)]
    /\ tx = [r \in Slow |-> Idle]
    /\ overlapped = {}

Row(items) == {<<"item", i>> : i \in items}
Free(locks, others) == \A q \in others : locks \cap tx[q].locks = {}
UnderWay(others) == {q \in others : tx[q] # Idle}

\* A commit, of a transaction beside others.
Commit(t, marks, values, clears, others) ==
    /\ content' = Applied(t, content)
    /\ cache' = [u \in Users |-> IF u \in marks THEN values[u] ELSE cache[u]]
    /\ overlapped' = (overlapped \ clears) \cup
           {u \in Users : \E q \in UnderWay(others) :
               u \in (marks \cup tx[q].marks) \cap Reach(t) \cap Reach(tx[q].change)}
    /\ tx' = [q \in Slow |-> IF q \notin others THEN Idle
                             ELSE IF tx[q] = Idle THEN Idle ELSE [tx[q] EXCEPT !.alone = FALSE]]

\* Nobody overtakes it.
Run(t, marks, locks) ==
    /\ Free(locks \cup Row(DOMAIN t.rows), Slow)
    /\ Commit(t, marks, [u \in marks |-> Compute(Applied(t, content), u)], marks, Slow)

\* It has marked users, and holds the rows it locks first.
Start(r, t, marks, locks) ==
    /\ tx[r] = Idle /\ Free(locks, Slow)
    /\ tx' = [tx EXCEPT ![r] = [pc |-> "marked", change |-> t, marks |-> marks, locks |-> locks,
                                alone |-> TRUE]]
    /\ UNCHANGED <<content, cache, overlapped>>

Transaction(t, marks, locks) == Run(t, marks, locks) \/ \E r \in Slow : Start(r, t, marks, locks)

\* The rows are written, and _refresh_dirty() computes; a placeholder needs its row.
Refresh(r) ==
    /\ tx[r] # Idle /\ tx[r].pc = "marked"
    /\ LET old == tx[r].change
           t == IF old.late THEN Removal(content, old.item) ELSE old
           locks == tx[r].locks \cup Row({old.item}) \cup Row(DOMAIN t.rows)
       IN  /\ \E j \in DOMAIN t.rows : t.rows[j] = "placeholder" => Exists(content, j)
           /\ Free(locks, Slow \ {r})
           /\ tx' = [tx EXCEPT ![r] =
                  [pc |-> "computed", change |-> t, marks |-> tx[r].marks, locks |-> locks,
                   alone |-> tx[r].alone, read |-> [u \in tx[r].marks |-> cache[u]],
                   computed |-> [u \in tx[r].marks |-> Compute(Applied(t, content), u)]]]
    /\ UNCHANGED <<content, cache, overlapped>>

\* Only columns that differ from what was read are written.
Written(now, read, computed) ==
    [category \in Categories |->
        [ranked |-> IF read[category].ranked = computed[category].ranked
                    THEN now[category].ranked ELSE computed[category].ranked,
         medals |-> IF read[category].medals = computed[category].medals
                    THEN now[category].medals ELSE computed[category].medals]]

Finish(r) ==
    /\ tx[r] # Idle /\ tx[r].pc = "computed"
    /\ Commit(tx[r].change, tx[r].marks,
              [u \in tx[r].marks |-> Written(cache[u], tx[r].read[u], tx[r].computed[u])],
              IF tx[r].alone THEN tx[r].marks ELSE {}, Slow \ {r})

Abort(r) ==
    /\ tx[r] # Idle
    /\ tx' = [tx EXCEPT ![r] = Idle]
    /\ UNCHANGED <<content, cache, overlapped>>

-----------------------------------------------------------------------------
(* Authors.                                                                *)

\* create_topic(), and reply() under the locks of what it answers.  A topic that its host
\* has locked refuses replies: here nobody replies.
Create(i) ==
    /\ content.state[i] = "none"
    /\ content.state[i - 1] = "live"
    /\ Visible(content, i - 1, Owner[i])
    /\ i > Topic => content.state[Topic] = "live"
    /\ Transaction(Creation(i), {Owner[i]}, Row(Topic .. i))

\* delete_topic(), and remove_reply() under the same locks
Delete(i) ==
    /\ Visible(content, i, Owner[i])
    /\ Transaction(Deletion(content, i), Related(content, i), Row(Topic .. i - 1))

\* change_access()
ChangeAccess(private) ==
    /\ Exists(content, Dataset)
    /\ Transaction(Withholding(Dataset, "private", private), Related(content, Dataset),
                   Row({Dataset}))

-----------------------------------------------------------------------------
(* Moderators.                                                             *)

Moderate(i, hidden) ==
    /\ Exists(content, i)
    /\ hidden => Cardinality({w \in content.withheld : w[1] = "hidden"}) < MaxHidden
    /\ Transaction(Withholding(i, "hidden", hidden), Related(content, i), Row({i}))

\* delete_target() marks before it locks; remove_work() has locked the dataset.
Remove(i) ==
    /\ Exists(content, i)
    /\ Transaction(Removal(content, i), Related(content, i), Row({i} \cap {Dataset}))

\* recalculate_all() deletes every row first: who has to write one waits for it.
Recalculate ==
    /\ cache' = [u \in Users |-> Compute(content, u)]
    /\ overlapped' = overlapped \cap UNION {Reach(tx[q].change) : q \in UnderWay(Slow)}
    /\ tx' = [q \in Slow |-> IF tx[q] = Idle THEN Idle ELSE [tx[q] EXCEPT !.alone = FALSE]]
    /\ UNCHANGED content

-----------------------------------------------------------------------------
(* Votes lock neither the item nor its owner.                              *)

\* upvote() locks the voter.
Upvote(i, user) ==
    /\ content.state[i] = "live" /\ Owner[i] # user /\ Visible(content, i, user)
    /\ <<i, user>> \notin content.votes
    /\ Transaction(Voting(i, user, TRUE), {Owner[i]}, {<<"voter", user>>})

\* remove_upvote() locks the vote it deletes, also under a placeholder.
RemoveUpvote(i, user) ==
    /\ Visible(content, i, user)
    /\ <<i, user>> \in content.votes
    /\ Transaction(Voting(i, user, FALSE), {Owner[i]}, {<<"vote", i, user>>})

-----------------------------------------------------------------------------
Next ==
    \/ \E i \in Items \ {Dataset} : Create(i) \/ Delete(i)
    \/ \E private \in BOOLEAN : ChangeAccess(private)
    \/ \E i \in Items, hidden \in BOOLEAN : Moderate(i, hidden)
    \/ \E i \in Items : Remove(i)
    \/ Recalculate
    \/ \E i \in Items, user \in Users : Upvote(i, user) \/ RemoveUpvote(i, user)
    \/ \E r \in Slow : Refresh(r) \/ Finish(r) \/ Abort(r)

Spec == Init /\ [][Next]_vars

-----------------------------------------------------------------------------
(* Properties                                                              *)

\* Medals and ranks are those of the source rows: whatever changes what a user has
\* earned, by deletion, privacy or moderation anywhere above it, marks that user.  Only
\* those are left behind who own something that two overlapping transactions reach, and
\* whom at least one of them has marked: also the author of a reply that is posted while
\* its topic is removed or its dataset hidden, whom the other transaction has not seen.
\* The next transaction that marks them, and is not overtaken, brings them back.
CacheFollows == \A u \in Users \ overlapped : cache[u] = Compute(content, u)

\* docs/community.md:229-232: rows "are recomputed just before the transaction commits",
\* and recalculating "gives the same result".
CacheCurrent ==
    UnderWay(Slow) = {} => \A u \in Users : cache[u] = Compute(content, u)
=============================================================================
