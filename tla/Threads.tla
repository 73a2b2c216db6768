------------------------------ MODULE Threads -------------------------------
(***************************************************************************)
(* A topic with a comment and a reply to it, worked on by overlapping      *)
(* requests: posting, editing with the mentions it announces, deletion by  *)
(* the author and by a moderator, and reports (discussion_feed.py,         *)
(* engagement.py, moderation.py, admin.py, notifications.py).  A request   *)
(* is a transaction: it reads and locks when it begins, and what it writes *)
(* is there when it commits.  A lock is a row <<kind, id>>.                *)
(***************************************************************************)
EXTENDS Naturals, Sequences, FiniteSets

CONSTANTS
    Requests,     \* requests in progress
    Users, Admins,
    Watchers,     \* users that start and stop watching the topic (a bound)
    Owner,        \* the author of each item
    Texts,
    Mentions,     \* the users that a text mentions
    MaxRevisions, \* a bound on the edits of the thread
    MaxReports,
    None

Topic == 1
Comment == 2
Reply == 3

Items == {Topic, Comment, Reply}

ASSUME ThreadsAssumption ==
    /\ Admins \subseteq Users /\ Watchers \subseteq Users
    /\ Owner \in [Items -> Users]
    /\ Mentions \in [Texts -> SUBSET Users]

VARIABLES
    state,     \* of each item
    text,      \* body: None when deleted
    revisions, \* content_revisions: the earlier texts of each item
    hidden,    \* the items that a moderator has hidden
    closed,    \* topic_settings.locked, or the forum is archived
    watchers,  \* topic_watches
    notices,   \* how often each user was told of each item
    reports,   \* content_reports, and how often its reporter was told of the outcome
    req        \* the transaction of each request

thread == <<state, text, revisions, hidden, closed, watchers, notices>>
vars == <<thread, reports, req>>

Idle == [op |-> "idle", holds |-> {}]

TypeOK ==
    /\ state \in [Items -> {"none", "live", "placeholder", "gone"}]
    /\ text \in [Items -> Texts \cup {None}]
    /\ revisions \in [Items -> SUBSET Texts]
    /\ hidden \subseteq Items /\ closed \in BOOLEAN /\ watchers \subseteq Users
    /\ notices \in [Users \X Items -> Nat]
    /\ \A r \in DOMAIN reports :
        reports[r] \in [by : Users, item : Items, open : BOOLEAN, told : Nat]
    /\ \A q \in Requests :
        req[q].holds \subseteq ({"item"} \X Items) \cup ({"user"} \X Users)
                               \cup ({"report"} \X DOMAIN reports)

Init ==
    /\ \E t \in Texts : text = [i \in Items |-> IF i = Topic THEN t ELSE None]
    /\ state = [i \in Items |-> IF i = Topic THEN "live" ELSE "none"]
    /\ revisions = [i \in Items |-> {}]
    /\ hidden = {} /\ closed = FALSE /\ watchers = {Owner[Topic]}
    /\ notices = [n \in Users \X Items |-> 0]
    /\ reports = <<>>
    /\ req = [q \in Requests |-> Idle]

-----------------------------------------------------------------------------
Exists(i) == state[i] \in {"live", "placeholder"}

\* can_manage()
Manages(u, i) == u = Owner[i] \/ u \in Admins

\* target_row(): with everything above it
Visible(i, u) == \A j \in 1 .. i : Exists(j) /\ (j \in hidden => Manages(u, j))

Row(kind, ids) == {kind} \X ids

Above(i) == Row("item", 1 .. i - 1)

Free(rows) == \A q \in Requests : req[q].holds \cap rows = {}

Begin(q, request) ==
    /\ req[q] = Idle
    /\ Free(request.holds)
    /\ req' = [req EXCEPT ![q] = request]
    /\ UNCHANGED <<thread, reports>>

Commits(q, op) == req[q].op = op /\ req' = [req EXCEPT ![q] = Idle]

\* notify(): once to each of the candidates that sees the item, and never to the actor
Told(i, candidates, actor) ==
    LET told == {u \in candidates \ {actor} : \A j \in (1 .. i) \cap hidden : Manages(u, j)} IN
    [n \in Users \X Items |-> notices[n] + IF n[2] = i /\ n[1] \in told THEN 1 ELSE 0]

-----------------------------------------------------------------------------
(* Authors.                                                                *)

\* reply(): under the locks of what it hangs on (require_target, require_writable)
Post(q, i, t) ==
    /\ i # Topic
    /\ state[i] = "none"
    /\ Visible(i - 1, Owner[i])
    /\ state[i - 1] = "live" /\ state[Topic] = "live"
    /\ ~closed
    /\ Begin(q, [op |-> "post", item |-> i, text |-> t, holds |-> Above(i)])

\* content_created(): the mentioned, the author that is answered, and the watchers
PostCommit(q) ==
    LET i == req[q].item   t == req[q].text IN
    /\ Commits(q, "post")
    /\ state' = [state EXCEPT ![i] = "live"]
    /\ text' = [text EXCEPT ![i] = t]
    /\ notices' = Told(i, Mentions[t] \cup {Owner[i - 1]} \cup watchers, Owner[i])
    /\ UNCHANGED <<revisions, hidden, closed, watchers, reports>>

Edits(u, i, t) ==
    /\ Manages(u, i)
    /\ Visible(IF i = Topic THEN Topic ELSE i - 1, u)
    /\ state[i] = "live"
    /\ t # text[i]
    /\ Cardinality(UNION {Row(j, revisions[j]) : j \in Items}) < MaxRevisions

Editing(u, i, t, rows) ==
    [op |-> "edit", user |-> u, item |-> i, old |-> text[i], text |-> t, holds |-> rows]

\* Mutant: comments are edited without the lock, as topics are.
EditUnlocked(q, u, i, t) == Edits(u, i, t) /\ Begin(q, Editing(u, i, t, {}))

\* edit_reply() locks what the reply hangs on, edit_topic() nothing.
Edit(q, u, i, t) == Edits(u, i, t) /\ Begin(q, Editing(u, i, t, Above(i)))

\* save_revision() and content_edited(): only those that are newly mentioned are told.  A row
\* that is deleted in the meantime cannot be updated.
EditCommit(q) ==
    LET i == req[q].item   t == req[q].text   old == req[q].old IN
    /\ Commits(q, "edit")
    /\ IF state[i] = "gone"
       THEN UNCHANGED <<text, revisions, notices>>
       ELSE /\ text' = [text EXCEPT ![i] = t]
            /\ revisions' = [revisions EXCEPT ![i] = @ \cup {old}]
            /\ notices' = Told(i, Mentions[t] \ Mentions[old], req[q].user)
    /\ UNCHANGED <<state, hidden, closed, watchers, reports>>

Removes(u, i) == i # Topic /\ Manages(u, i) /\ Visible(i - 1, u) /\ Exists(i)

Removing(i, rows) ==
    [op |-> IF i = Comment /\ Exists(Reply) THEN "bury" ELSE "remove",
     item |-> i, old |-> text[i], items |-> {i}, holds |-> rows]

\* Mutant: the removal does not lock the topic.
RemoveUnlocked(q, u, i) == Removes(u, i) /\ Begin(q, Removing(i, {}))

\* remove_reply(): a comment with replies stays as a placeholder.
Remove(q, u, i) == Removes(u, i) /\ Begin(q, Removing(i, Above(i)))

\* delete_topic(): it looks for comments, and locks nothing.
DeleteTopic(q, u) ==
    /\ Manages(u, Topic)
    /\ Visible(Topic, u)
    /\ Begin(q, [op |-> IF Exists(Comment) THEN "bury" ELSE "clear",
                 item |-> Topic, old |-> text[Topic], holds |-> {}])

\* remove_engagement() of a topic that had no comments when it looked
Clear(q) ==
    LET below == {i \in Items \ {Topic} : Exists(i)} IN
    /\ req[q].op = "clear"
    /\ Free(Row("item", below))
    /\ req' = [req EXCEPT ![q] = [op |-> "remove", item |-> Topic, items |-> below \cup {Topic},
                                  holds |-> Row("item", below)]]
    /\ UNCHANGED <<thread, reports>>

\* The placeholder: a second deletion leaves it as it is.
BuryCommit(q) ==
    LET i == req[q].item IN
    /\ Commits(q, "bury")
    /\ Free(Row("item", {i}))
    /\ IF state[i] = "live"
       THEN /\ state' = [state EXCEPT ![i] = "placeholder"]
            /\ text' = [text EXCEPT ![i] = None]
            /\ revisions' = [revisions EXCEPT ![i] = @ \cup {req[q].old}]
       ELSE UNCHANGED <<state, text, revisions>>
    /\ UNCHANGED <<hidden, closed, watchers, notices, reports>>

Gone(items) ==
    /\ state' = [i \in Items |-> IF i \in items THEN "gone" ELSE state[i]]
    /\ text' = [i \in Items |-> IF i \in items THEN None ELSE text[i]]
    /\ hidden' = hidden \ items
    /\ watchers' = IF Topic \in items THEN {} ELSE watchers
    /\ UNCHANGED <<revisions, closed, notices>>

RemoveCommit(q) ==
    /\ Commits(q, "remove")
    /\ Free(Row("item", req[q].items) \ req[q].holds)
    /\ Gone(req[q].items)
    /\ UNCHANGED reports

-----------------------------------------------------------------------------
(* Watchers and moderators.                                                *)

\* watch()
Watch(u) ==
    /\ Visible(Topic, u)
    /\ watchers' = IF u \in watchers THEN watchers \ {u} ELSE watchers \cup {u}
    /\ UNCHANGED <<state, text, revisions, hidden, closed, notices, reports, req>>

\* lock(), or update_forum() of the forum
Lock ==
    /\ Exists(Topic)
    /\ closed' = ~closed
    /\ UNCHANGED <<state, text, revisions, hidden, watchers, notices, reports, req>>

\* moderate(): one item at a time is hidden here
Moderate(i) ==
    /\ Exists(i)
    /\ Free(Row("item", {i}))
    /\ hidden \subseteq {i}
    /\ hidden' = {i} \ hidden
    /\ UNCHANGED <<state, text, revisions, closed, watchers, notices, reports, req>>

OpenReports(i) == {r \in DOMAIN reports : reports[r].open /\ reports[r].item = i}

Reportable(u, i) ==
    /\ u # Owner[i]
    /\ Visible(i, u)
    /\ \A r \in OpenReports(i) : reports[r].by # u
    /\ Len(reports) < MaxReports

\* Mutant: the reporter is not locked.
ReportUnlocked(q, u, i) ==
    Reportable(u, i) /\ Begin(q, [op |-> "report", user |-> u, item |-> i, holds |-> {}])

\* report(): under the lock of the reporter
Report(q, u, i) ==
    /\ Reportable(u, i)
    /\ Begin(q, [op |-> "report", user |-> u, item |-> i, holds |-> Row("user", {u})])

ReportCommit(q) ==
    /\ Commits(q, "report")
    /\ reports' = Append(reports, [by |-> req[q].user, item |-> req[q].item,
                                   open |-> TRUE, told |-> 0])
    /\ UNCHANGED thread

\* notify_reporter(): also when the item is gone
Resolved(those) ==
    [r \in DOMAIN reports |->
        IF r \in those THEN [reports[r] EXCEPT !.open = FALSE, !.told = @ + 1] ELSE reports[r]]

\* resolve_report(): under the lock of the report
Resolve(q, r) ==
    /\ reports[r].open
    /\ Begin(q, [op |-> "resolve", report |-> r, holds |-> Row("report", {r})])

ResolveCommit(q) ==
    /\ Commits(q, "resolve")
    /\ reports' = Resolved({req[q].report})
    /\ UNCHANGED thread

\* delete_target(): it reads the open reports before it locks the item.
DeleteTarget(q, i) ==
    /\ Exists(i)
    /\ Begin(q, [op |-> "delete", item |-> i, open |-> OpenReports(i), holds |-> {}])

\* The replies go with it.  An item that is gone by now is an error, and nothing changes.
DeleteCommit(q) ==
    LET i == req[q].item IN
    /\ Commits(q, "delete")
    /\ Free(Row("report", req[q].open) \cup Row("item", {i}))
    /\ IF Exists(i)
       THEN Gone(i .. Reply) /\ reports' = Resolved(req[q].open)
       ELSE UNCHANGED <<thread, reports>>

-----------------------------------------------------------------------------
Next ==
    \/ \E q \in Requests :
        \/ \E i \in Items, t \in Texts : Post(q, i, t)
        \/ \E u \in Users, i \in Items, t \in Texts : Edit(q, u, i, t)
        \/ \E u \in Users, i \in Items : Remove(q, u, i)
        \/ \E u \in Users : DeleteTopic(q, u)
        \/ \E u \in Users, i \in Items : Report(q, u, i)
        \/ \E r \in DOMAIN reports : Resolve(q, r)
        \/ \E i \in Items : DeleteTarget(q, i)
        \/ PostCommit(q) \/ EditCommit(q) \/ Clear(q) \/ BuryCommit(q) \/ RemoveCommit(q)
        \/ ReportCommit(q) \/ ResolveCommit(q) \/ DeleteCommit(q)
    \/ \E u \in Watchers : Watch(u)
    \/ Lock
    \/ \E i \in Items : Moderate(i)

Spec == Init /\ [][Next]_vars

-----------------------------------------------------------------------------
\* While its topic is there, no reply is left without the comment that it answers,
\* whatever overlaps: replying and removing lock the topic (engagement.py require_target).
RepliesAnswer == Exists(Topic) /\ Exists(Reply) => Exists(Comment)

\* A topic, its comment and a reply stand together (engagement.py remove_reply).
ThreadHolds == TypeOK /\ RepliesAnswer

\* A member has at most one open report of an item, also when it is submitted twice at
\* once (moderation.py report).
OneOpenReport ==
    \A r, s \in DOMAIN reports :
        reports[r].open /\ reports[s].open /\ reports[r].by = reports[s].by
            /\ reports[r].item = reports[s].item => r = s

\* A change of a text keeps the text it replaces, and tells only those that the replaced
\* text did not mention.
ChangeKept(i) ==
    Exists(i) /\ state'[i] # "gone" /\ text'[i] # text[i] =>
        /\ text[i] \in revisions'[i]
        /\ \A u \in Users : notices'[<<u, i>>] > notices[<<u, i>>] => u \notin Mentions[text[i]]

\* So it is for comments and replies, whoever edits or deletes them at the same time
\* (engagement.py edit_reply, remove_reply).
EditsKept == [][ChangeKept(Comment) /\ ChangeKept(Reply)]_vars

\* docs/community.md: the previous text of an edited topic is stored.  The program
\* violates it: overlapping edits of a topic both store the text that they read.
TopicEditsKept == [][ChangeKept(Topic)]_vars

\* docs/community.md: a topic with comments becomes a placeholder when its author deletes
\* it.  The program violates it: a comment may be posted after delete_topic() has looked.
CommentsHaveTopic == Exists(Comment) => Exists(Topic)

\* docs/administration.md: resolving a report notifies the reporter.  The program may do so
\* twice, for resolve_report() and for a deletion that had read the report as open.
ToldOnce == \A r \in DOMAIN reports : reports[r].told <= 1
=============================================================================
