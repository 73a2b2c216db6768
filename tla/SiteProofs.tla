----------------------------- MODULE SiteProofs -----------------------------
(***************************************************************************)
(* Proofs about a topic, its comment and a reply, for every number of      *)
(* overlapping requests, users, texts and reports; about the tiers that    *)
(* votes give, for any authors, voters, thresholds and number of           *)
(* overlapping transactions; and about the pipeline, for any sources.      *)
(***************************************************************************)
EXTENDS MCSite, SequenceTheorems, FiniteSetTheorems, TLAPS

(***************************************************************************)
(* What a request in progress has read still holds when it commits, as far *)
(* as the rows it has locked make sure of it.                              *)
(***************************************************************************)

\* Nobody takes the place of a comment that is being written, and what it hangs on stays.
PostHolds(x) ==
    x.op = "post" =>
        /\ x.item \in {Comment, Reply} /\ x.text \in Texts /\ x.holds = Above(x.item)
        /\ state[x.item] = "none"
        /\ x.item = Reply => Exists(Comment)

\* The text of a comment or reply that is being edited is the one that was read.
EditHolds(x) ==
    x.op = "edit" =>
        /\ x.item \in Items /\ x.user \in Users /\ x.text \in Texts /\ x.old \in Texts
        /\ x.item # Topic => x.holds = Above(x.item)
                             /\ (Exists(x.item) => text[x.item] = x.old)

\* So is that of a comment that becomes a placeholder.
BuryHolds(x) ==
    x.op = "bury" =>
        /\ x.item \in {Topic, Comment} /\ state[x.item] # "none"
        /\ state[x.item] = "live" => x.old \in Texts
        /\ x.item # Topic => x.holds = Above(x.item)
                             /\ (state[x.item] = "live" => text[x.item] = x.old)

\* A comment that is being removed has no reply, and gets none.
RemoveHolds(x) ==
    x.op = "remove" =>
        /\ x.items \subseteq Items
        /\ \/ Topic \in x.items
           \/ \E i \in {Comment, Reply} : /\ x.items = {i} /\ x.holds = Above(i)
                                          /\ i = Comment => ~Exists(Reply)

\* A member who reports an item has no open report of it.
ReportHolds(x) ==
    x.op = "report" =>
        /\ x.user \in Users /\ x.item \in Items /\ x.holds = Row("user", {x.user})
        /\ \A r \in OpenReports(x.item) : reports[r].by # x.user

\* Reports are never taken away.
ModeratorHolds(x) ==
    /\ x.op = "resolve" => x.report \in DOMAIN reports
    /\ x.op = "delete" => x.item \in Items /\ x.open \subseteq DOMAIN reports

TextHolds(x) == PostHolds(x) /\ EditHolds(x) /\ BuryHolds(x) /\ RemoveHolds(x)
ReadHolds(x) == ReportHolds(x) /\ ModeratorHolds(x)

\* No row is locked twice.
LocksExclude == \A p, q \in Requests : p # q => req[p].holds \cap req[q].holds = {}

Record == [by : Users, item : Items, open : BOOLEAN, told : Nat]

\* The types that TypeOK leaves open, and the text of what can be read.
Shapes ==
    /\ req = [q \in Requests |-> req[q]]
    /\ reports \in Seq(Record)
    /\ \A i \in Items : state[i] = "live" => text[i] \in Texts

ThreadInv ==
    /\ TypeOK /\ Shapes /\ LocksExclude
    /\ \A q \in Requests : TextHolds(req[q]) /\ ReadHolds(req[q])
    /\ RepliesAnswer /\ OneOpenReport

-----------------------------------------------------------------------------
\* Items are numbers, and what a comment or reply hangs on includes the topic.
LEMMA Hanging ==
  /\ Items = {1, 2, 3} /\ Topic = 1 /\ Comment = 2 /\ Reply = 3
  /\ \A i \in {2, 3} : <<"item", 1>> \in Above(i)
  /\ <<"item", 2>> \in Above(3)
  /\ \A i \in Items : Above(i) \subseteq Row("item", Items)
  /\ \A i, j \in Items : j < i => <<"item", j>> \in Above(i)
BY DEF Items, Topic, Comment, Reply, Above, Row

\* Two requests do not hold the same row.
LEMMA Conflict ==
  ASSUME LocksExclude, NEW p \in Requests, NEW q \in Requests, p # q,
         NEW x, x \in req[p].holds, x \in req[q].holds
  PROVE  FALSE
BY DEF LocksExclude

\* Rows that are free are held by nobody.
LEMMA FreeRow ==
  ASSUME NEW rows, Free(rows), NEW p \in Requests, NEW x \in rows
  PROVE  x \notin req[p].holds
BY DEF Free

\* An idle request holds nothing and has read nothing.
LEMMA IdleHolds == TextHolds(Idle) /\ ReadHolds(Idle) /\ Idle.holds = {}
BY DEF TextHolds, ReadHolds, PostHolds, EditHolds, BuryHolds, RemoveHolds, ReportHolds,
       ModeratorHolds, Idle

\* What the end of a request does to the others.
LEMMA Ends ==
  ASSUME ThreadInv, NEW q \in Requests, NEW op, Commits(q, op)
  PROVE  /\ req[q].op = op /\ req'[q] = Idle /\ req' = [p \in Requests |-> req'[p]]
         /\ \A p \in Requests : p # q => req'[p] = req[p]
         /\ LocksExclude'
         /\ \A p \in Requests : req'[p].holds \subseteq req[p].holds
<1>1. /\ req[q].op = op /\ req'[q] = Idle /\ req' = [p \in Requests |-> req'[p]]
      /\ \A p \in Requests : p # q => req'[p] = req[p]
  BY DEF ThreadInv, Shapes, Commits
<1>2. \A p \in Requests : req'[p].holds \subseteq req[p].holds
  BY <1>1, IdleHolds
<1>3. LocksExclude'
  BY <1>2 DEF ThreadInv, LocksExclude
<1> QED
  BY <1>1, <1>2, <1>3

\* What the thread and the reports have to keep for the requests that go on.
Kept(p) == TextHolds(req[p])' /\ ReadHolds(req[p])'

\* The invariant is put together again.
LEMMA Together ==
  ASSUME ThreadInv, NEW q \in Requests, NEW op, Commits(q, op),
         TypeOK', reports' \in Seq(Record),
         \A i \in Items : state'[i] = "live" => text'[i] \in Texts,
         \A p \in Requests : p # q => Kept(p), RepliesAnswer', OneOpenReport'
  PROVE  ThreadInv'
<1>1. Kept(q)
  <2>1. req'[q] = Idle
    BY Ends
  <2> QED
    BY <2>1 DEF Kept, TextHolds, ReadHolds, PostHolds, EditHolds, BuryHolds, RemoveHolds,
                ReportHolds, ModeratorHolds, Idle
<1>2. \A p \in Requests : Kept(p)
  BY <1>1
<1>3. Shapes' /\ LocksExclude'
  BY Ends DEF Shapes
<1> QED
  BY <1>2, <1>3 DEF ThreadInv, Kept

\* A request that begins.
LEMMA Begins ==
  ASSUME ThreadInv, NEW q \in Requests, NEW x, Begin(q, x), TextHolds(x), ReadHolds(x),
         x.holds \subseteq Row("item", Items) \cup Row("user", Users)
                             \cup Row("report", DOMAIN reports)
  PROVE  ThreadInv'
<1>1. /\ req' = [req EXCEPT ![q] = x] /\ Free(x.holds)
      /\ state' = state /\ text' = text /\ revisions' = revisions /\ hidden' = hidden
      /\ closed' = closed /\ watchers' = watchers /\ notices' = notices /\ reports' = reports
  BY DEF Begin, thread
<1>2. /\ req'[q] = x /\ req' = [p \in Requests |-> req'[p]]
      /\ \A p \in Requests : p # q => req'[p] = req[p]
  BY <1>1 DEF ThreadInv, Shapes
<1>3. TypeOK'
  BY <1>1, <1>2 DEF ThreadInv, TypeOK, Row
<1>4. Shapes'
  BY <1>1, <1>2 DEF ThreadInv, Shapes
<1>5. LocksExclude'
  BY <1>1, <1>2 DEF ThreadInv, LocksExclude, Free
<1>6. \A p \in Requests : TextHolds(req'[p]) /\ ReadHolds(req'[p])
  BY <1>2 DEF ThreadInv
<1>7. \A p \in Requests : TextHolds(req[p])'
  BY <1>1, <1>6 DEF TextHolds, PostHolds, EditHolds, BuryHolds, RemoveHolds, Exists, Above, Row
<1>8. \A p \in Requests : ReadHolds(req[p])'
  BY <1>1, <1>6 DEF ReadHolds, ReportHolds, ModeratorHolds, OpenReports, Row
<1>9. RepliesAnswer' /\ OneOpenReport'
  BY <1>1 DEF ThreadInv, RepliesAnswer, OneOpenReport, Exists
<1> QED
  BY <1>3, <1>4, <1>5, <1>7, <1>8, <1>9 DEF ThreadInv

-----------------------------------------------------------------------------
\* Requests that begin.
LEMMA BeginSteps ==
  ASSUME ThreadInv, NEW q \in Requests,
         \/ \E i \in Items, t \in Texts : Post(q, i, t)
         \/ \E u \in Users, i \in Items, t \in Texts : Edit(q, u, i, t)
         \/ \E u \in Users, i \in Items : Remove(q, u, i)
         \/ \E u \in Users : DeleteTopic(q, u)
         \/ \E u \in Users, i \in Items : Report(q, u, i)
         \/ \E r \in DOMAIN reports : Resolve(q, r)
         \/ \E i \in Items : DeleteTarget(q, i)
  PROVE  ThreadInv'
<1> USE DEF ThreadInv
<1>1. ASSUME NEW i \in Items, NEW t \in Texts, Post(q, i, t) PROVE ThreadInv'
  <2> DEFINE x == [op |-> "post", item |-> i, text |-> t, holds |-> Above(i)]
  <2>1. Begin(q, x)
    BY <1>1 DEF Post
  <2>2. PostHolds(x)
    BY <1>1, Hanging DEF Post, PostHolds, Exists
  <2>3. TextHolds(x) /\ ReadHolds(x)
    BY <2>2 DEF TextHolds, ReadHolds, EditHolds, BuryHolds, RemoveHolds, ReportHolds,
                ModeratorHolds
  <2> QED
    BY <2>1, <2>3, Begins, Hanging
<1>2. ASSUME NEW u \in Users, NEW i \in Items, NEW t \in Texts, Edit(q, u, i, t)
      PROVE  ThreadInv'
  <2> DEFINE x == Editing(u, i, t, Above(i))
  <2>1. Begin(q, x) /\ state[i] = "live" /\ text[i] \in Texts
    BY <1>2 DEF Edit, Edits, Shapes
  <2>2. EditHolds(x) /\ x.op = "edit" /\ x.holds = Above(i)
    BY <2>1 DEF EditHolds, Editing
  <2>3. TextHolds(x) /\ ReadHolds(x)
    BY <2>2 DEF TextHolds, ReadHolds, PostHolds, BuryHolds, RemoveHolds, ReportHolds,
                ModeratorHolds
  <2> QED
    BY <2>1, <2>2, <2>3, Begins, Hanging
<1>3. ASSUME NEW u \in Users, NEW i \in Items, Remove(q, u, i) PROVE ThreadInv'
  <2> DEFINE x == Removing(i, Above(i))
  <2>1. Begin(q, x) /\ i \in {Comment, Reply} /\ Exists(i)
    BY <1>3, Hanging DEF Remove, Removes
  <2>2. /\ x.op = IF i = Comment /\ Exists(Reply) THEN "bury" ELSE "remove"
        /\ x.item = i /\ x.old = text[i] /\ x.items = {i} /\ x.holds = Above(i)
    BY DEF Removing
  <2>3. BuryHolds(x)
    BY <2>1, <2>2, Hanging DEF BuryHolds, Exists, Shapes
  <2>4. RemoveHolds(x)
    BY <2>1, <2>2, Hanging DEF RemoveHolds
  <2>5. TextHolds(x) /\ ReadHolds(x)
    BY <2>2, <2>3, <2>4 DEF TextHolds, ReadHolds, PostHolds, EditHolds, ReportHolds,
                            ModeratorHolds
  <2> QED
    BY <2>1, <2>2, <2>5, Begins, Hanging
<1>4. ASSUME NEW u \in Users, DeleteTopic(q, u) PROVE ThreadInv'
  <2> DEFINE x == [op |-> IF Exists(Comment) THEN "bury" ELSE "clear",
                   item |-> Topic, old |-> text[Topic], holds |-> {}]
  <2>1. Begin(q, x) /\ Exists(Topic)
    BY <1>4, Hanging DEF DeleteTopic, Visible
  <2>2. BuryHolds(x)
    BY <2>1, Hanging DEF BuryHolds, Exists, Shapes
  <2>3. TextHolds(x) /\ ReadHolds(x)
    BY <2>2 DEF TextHolds, ReadHolds, PostHolds, EditHolds, RemoveHolds, ReportHolds,
                ModeratorHolds
  <2> QED
    BY <2>1, <2>3, Begins
<1>5. ASSUME NEW u \in Users, NEW i \in Items, Report(q, u, i) PROVE ThreadInv'
  <2> DEFINE x == [op |-> "report", user |-> u, item |-> i, holds |-> Row("user", {u})]
  <2>1. Begin(q, x) /\ ReportHolds(x)
    BY <1>5 DEF Report, Reportable, ReportHolds
  <2>2. TextHolds(x) /\ ReadHolds(x)
    BY <2>1 DEF TextHolds, ReadHolds, PostHolds, EditHolds, BuryHolds, RemoveHolds,
                ModeratorHolds
  <2>3. x.holds \subseteq Row("user", Users)
    BY DEF Row
  <2> QED
    BY <2>1, <2>2, <2>3, Begins
<1>6. ASSUME NEW r \in DOMAIN reports, Resolve(q, r) PROVE ThreadInv'
  <2> DEFINE x == [op |-> "resolve", report |-> r, holds |-> Row("report", {r})]
  <2>1. Begin(q, x)
    BY <1>6 DEF Resolve
  <2>2. TextHolds(x) /\ ReadHolds(x)
    BY DEF TextHolds, ReadHolds, PostHolds, EditHolds, BuryHolds, RemoveHolds, ReportHolds,
           ModeratorHolds
  <2>3. x.holds \subseteq Row("report", DOMAIN reports)
    BY DEF Row
  <2> QED
    BY <2>1, <2>2, <2>3, Begins
<1>7. ASSUME NEW i \in Items, DeleteTarget(q, i) PROVE ThreadInv'
  <2> DEFINE x == [op |-> "delete", item |-> i, open |-> OpenReports(i), holds |-> {}]
  <2>1. Begin(q, x)
    BY <1>7 DEF DeleteTarget
  <2>2. TextHolds(x) /\ ReadHolds(x)
    BY DEF TextHolds, ReadHolds, PostHolds, EditHolds, BuryHolds, RemoveHolds, ReportHolds,
           ModeratorHolds, OpenReports
  <2> QED
    BY <2>1, <2>2, Begins
<1> QED
  BY <1>1, <1>2, <1>3, <1>4, <1>5, <1>6, <1>7

\* delete_topic() locks the comments it has found.
LEMMA ClearStep ==
  ASSUME ThreadInv, NEW q \in Requests, Clear(q)
  PROVE  ThreadInv'
<1> DEFINE below == {i \in Items \ {Topic} : Exists(i)}
           x == [op |-> "remove", item |-> Topic, items |-> below \cup {Topic},
                 holds |-> Row("item", below)]
<1>1. /\ req' = [req EXCEPT ![q] = x] /\ Free(x.holds)
      /\ state' = state /\ text' = text /\ revisions' = revisions /\ hidden' = hidden
      /\ closed' = closed /\ watchers' = watchers /\ notices' = notices /\ reports' = reports
  BY DEF Clear, thread
<1>2. /\ req'[q] = x /\ req' = [p \in Requests |-> req'[p]]
      /\ \A p \in Requests : p # q => req'[p] = req[p]
  BY <1>1 DEF ThreadInv, Shapes
<1>3. TypeOK'
  <2>1. x.holds \subseteq Row("item", Items)
    BY DEF Row
  <2>2. \A p \in Requests :
          req'[p].holds \subseteq ({"item"} \X Items) \cup ({"user"} \X Users)
                                    \cup ({"report"} \X DOMAIN reports)
    BY <1>2, <2>1 DEF ThreadInv, TypeOK, Row
  <2> QED
    BY <1>1, <2>2 DEF ThreadInv, TypeOK
<1>4. Shapes'
  BY <1>1, <1>2 DEF ThreadInv, Shapes
<1>5. LocksExclude'
  BY <1>1, <1>2 DEF ThreadInv, LocksExclude, Free
<1>6. TextHolds(x) /\ ReadHolds(x)
  BY Hanging DEF TextHolds, ReadHolds, PostHolds, EditHolds, BuryHolds, RemoveHolds, ReportHolds,
     ModeratorHolds
<1>7. \A p \in Requests : TextHolds(req'[p]) /\ ReadHolds(req'[p])
  BY <1>2, <1>6 DEF ThreadInv
<1>8. \A p \in Requests : TextHolds(req[p])'
  BY <1>1, <1>7 DEF TextHolds, PostHolds, EditHolds, BuryHolds, RemoveHolds, Exists, Above, Row
<1>9. \A p \in Requests : ReadHolds(req[p])'
  BY <1>1, <1>7 DEF ReadHolds, ReportHolds, ModeratorHolds, OpenReports, Row
<1>10. RepliesAnswer' /\ OneOpenReport'
  BY <1>1 DEF ThreadInv, RepliesAnswer, OneOpenReport, Exists
<1> QED
  BY <1>3, <1>4, <1>5, <1>8, <1>9, <1>10 DEF ThreadInv

-----------------------------------------------------------------------------
\* Requests that commit.  The reports are as they were for most of them.
LEMMA SameReports ==
  ASSUME ThreadInv, reports' = reports
  PROVE  reports' \in Seq(Record) /\ OneOpenReport'
<1>1. reports' \in Seq(Record)
  BY DEF ThreadInv, Shapes
<1>2. OneOpenReport'
  BY DEF ThreadInv, OneOpenReport
<1> QED
  BY <1>1, <1>2

\* For a request that goes on, the thread has changed as it allows.
TextKept(p) == /\ req'[p] = req[p]
               /\ PostHolds(req[p])' /\ EditHolds(req[p])'
               /\ BuryHolds(req[p])' /\ RemoveHolds(req[p])'

\* Nothing else to show where the reports stay.
LEMMA KeptBy ==
  ASSUME ThreadInv, reports' = reports, NEW p \in Requests, TextKept(p)
  PROVE  Kept(p)
<1>1. ReadHolds(req[p])'
  BY DEF ThreadInv, TextKept, ReadHolds, ReportHolds, ModeratorHolds, OpenReports, Row
<1> QED
  BY <1>1 DEF TextKept, Kept, TextHolds

\* reply()
LEMMA PostCommits ==
  ASSUME ThreadInv, NEW q \in Requests, PostCommit(q)
  PROVE  ThreadInv'
<1> DEFINE i == req[q].item
           t == req[q].text
<1>0. /\ i \in {2, 3} /\ t \in Texts /\ req[q].holds = Above(i) /\ state[i] = "none"
      /\ i = 3 => Exists(2)
      /\ LocksExclude /\ state \in [Items -> {"none", "live", "placeholder", "gone"}]
  BY Hanging DEF PostCommit, Commits, ThreadInv, TextHolds, PostHolds, TypeOK
<1>1. /\ Commits(q, "post") /\ reports' = reports
      /\ state' = [state EXCEPT ![i] = "live"] /\ text' = [text EXCEPT ![i] = t]
      /\ UNCHANGED <<revisions, hidden, closed, watchers>>
      /\ notices' = Told(i, Mentions[t] \cup {Owner[i - 1]} \cup watchers, Owner[i])
  BY DEF PostCommit
<1>2. TypeOK'
  <2>1. notices' \in [Users \X Items -> Nat]
    BY <1>1 DEF Told, ThreadInv, TypeOK
  <2>2. state' \in [Items -> {"none", "live", "placeholder", "gone"}]
        /\ text' \in [Items -> Texts \cup {None}]
    BY <1>0, <1>1, Hanging DEF ThreadInv, TypeOK
  <2>3. \A p \in Requests : req'[p].holds \subseteq req[p].holds
    BY <1>1, Ends
  <2> QED
    BY <1>1, <2>1, <2>2, <2>3 DEF ThreadInv, TypeOK
<1>3. ASSUME NEW p \in Requests, p # q PROVE Kept(p)
  <2>0. /\ req'[p] = req[p] /\ TextHolds(req[p])
        /\ \A j \in {2, 3} : req[p].holds # Above(j)
    BY <1>0, <1>1, <1>3, Ends, Hanging, Conflict DEF ThreadInv
  <2>1. req[p].op # "post" /\ (req[p].op \in {"edit", "bury"} => req[p].item = Topic)
    BY <2>0, Hanging DEF TextHolds, PostHolds, EditHolds, BuryHolds
  <2>2. req[p].op = "remove" => req[p].items \subseteq Items /\ Topic \in req[p].items
    BY <2>0, Hanging DEF TextHolds, RemoveHolds
  <2>3. state'[1] = state[1]
    BY <1>0, <1>1, Hanging
  <2>4. PostHolds(req[p])' /\ EditHolds(req[p])' /\ RemoveHolds(req[p])'
    BY <2>0, <2>1, <2>2, Hanging DEF TextHolds, PostHolds, EditHolds, RemoveHolds
  <2>5. BuryHolds(req[p])'
    BY <2>0, <2>1, <2>3, Hanging DEF TextHolds, BuryHolds
  <2> QED
    BY <1>1, <2>0, <2>4, <2>5, KeptBy DEF TextKept
<1>4. \A j \in Items : state'[j] = "live" => text'[j] \in Texts
  BY <1>0, <1>1 DEF ThreadInv, TypeOK, Shapes
<1>5. RepliesAnswer'
  BY <1>0, <1>1, Hanging DEF ThreadInv, RepliesAnswer, Exists
<1> QED
  BY <1>1, <1>2, <1>3, <1>4, <1>5, SameReports, Together

\* edit_reply() and edit_topic()
LEMMA EditCommits ==
  ASSUME ThreadInv, NEW q \in Requests, EditCommit(q)
  PROVE  ThreadInv'
<1> DEFINE i == req[q].item
           t == req[q].text
           old == req[q].old
<1>0. /\ i \in Items /\ t \in Texts /\ old \in Texts
      /\ i # 1 => req[q].holds = Above(i)
      /\ LocksExclude /\ text \in [Items -> Texts \cup {None}]
  BY Hanging DEF EditCommit, Commits, ThreadInv, TextHolds, EditHolds, TypeOK
<1>1. /\ Commits(q, "edit") /\ reports' = reports /\ state' = state
      /\ UNCHANGED <<hidden, closed, watchers>>
      /\ IF state[i] = "gone"
         THEN UNCHANGED <<text, revisions, notices>>
         ELSE /\ text' = [text EXCEPT ![i] = t]
              /\ revisions' = [revisions EXCEPT ![i] = @ \cup {old}]
              /\ notices' = Told(i, Mentions[t] \ Mentions[old], req[q].user)
  BY DEF EditCommit
<1>2. TypeOK'
  <2>1. notices' \in [Users \X Items -> Nat]
    BY <1>1 DEF Told, ThreadInv, TypeOK
  <2>2. text' \in [Items -> Texts \cup {None}] /\ revisions' \in [Items -> SUBSET Texts]
    BY <1>0, <1>1 DEF ThreadInv, TypeOK
  <2>3. \A p \in Requests : req'[p].holds \subseteq req[p].holds
    BY <1>1, Ends
  <2> QED
    BY <1>1, <2>1, <2>2, <2>3 DEF ThreadInv, TypeOK
<1>a. \A j \in Items : text'[j] = text[j] \/ (j = i /\ text'[j] = t)
  BY <1>0, <1>1
<1>3. ASSUME NEW p \in Requests, p # q PROVE Kept(p)
  <2>0. /\ req'[p] = req[p] /\ TextHolds(req[p])
        /\ i # 1 => \A j \in {2, 3} : req[p].holds # Above(j)
    BY <1>0, <1>1, <1>3, Ends, Hanging, Conflict DEF ThreadInv
  <2>1. req[p].op \in {"edit", "bury"} => req[p].item = Topic \/ i = 1
    BY <2>0, Hanging DEF TextHolds, EditHolds, BuryHolds
  <2>2. PostHolds(req[p])' /\ RemoveHolds(req[p])'
    BY <1>1, <2>0 DEF TextHolds, PostHolds, RemoveHolds, Exists, Above, Row
  <2>3. EditHolds(req[p])' /\ BuryHolds(req[p])'
    BY <1>1, <1>a, <2>0, <2>1, Hanging DEF TextHolds, EditHolds, BuryHolds, Exists, Above, Row
  <2> QED
    BY <1>1, <2>0, <2>2, <2>3, KeptBy DEF TextKept
<1>4. \A j \in Items : state'[j] = "live" => text'[j] \in Texts
  BY <1>0, <1>1, <1>a DEF ThreadInv, Shapes
<1>5. RepliesAnswer'
  BY <1>1 DEF ThreadInv, RepliesAnswer, Exists
<1> QED
  BY <1>1, <1>2, <1>3, <1>4, <1>5, SameReports, Together

\* delete_topic() and remove_reply() leave a placeholder.
LEMMA BuryCommits ==
  ASSUME ThreadInv, NEW q \in Requests, BuryCommit(q)
  PROVE  ThreadInv'
<1> DEFINE i == req[q].item
<1>0. /\ i \in {1, 2} /\ (state[i] = "live" => req[q].old \in Texts)
      /\ Free(Row("item", {i}))
      /\ i # 1 => req[q].holds = Above(i)
      /\ LocksExclude /\ text \in [Items -> Texts \cup {None}]
      /\ state \in [Items -> {"none", "live", "placeholder", "gone"}]
  BY Hanging DEF BuryCommit, Commits, ThreadInv, TextHolds, BuryHolds, TypeOK
<1>1. /\ Commits(q, "bury") /\ reports' = reports
      /\ UNCHANGED <<hidden, closed, watchers, notices>>
      /\ IF state[i] = "live"
         THEN /\ state' = [state EXCEPT ![i] = "placeholder"]
              /\ text' = [text EXCEPT ![i] = None]
              /\ revisions' = [revisions EXCEPT ![i] = @ \cup {req[q].old}]
         ELSE UNCHANGED <<state, text, revisions>>
  BY DEF BuryCommit
<1>2. TypeOK'
  <2>1. /\ state' \in [Items -> {"none", "live", "placeholder", "gone"}]
        /\ text' \in [Items -> Texts \cup {None}] /\ revisions' \in [Items -> SUBSET Texts]
    BY <1>0, <1>1, Hanging DEF ThreadInv, TypeOK
  <2>2. \A p \in Requests : req'[p].holds \subseteq req[p].holds
    BY <1>1, Ends
  <2> QED
    BY <1>1, <2>1, <2>2 DEF ThreadInv, TypeOK
<1>a. \A j \in Items : \/ state'[j] = state[j] /\ text'[j] = text[j]
                       \/ /\ j = i /\ state[j] = "live"
                          /\ state'[j] = "placeholder" /\ text'[j] = None
  BY <1>0, <1>1, Hanging
<1>b. \A j \in Items : Exists(j)' = Exists(j)
  BY <1>a DEF Exists
<1>3. ASSUME NEW p \in Requests, p # q PROVE Kept(p)
  <2>0. /\ req'[p] = req[p] /\ TextHolds(req[p])
        /\ i = 2 => \A j \in {2, 3} : req[p].holds # Above(j)
        /\ i = 1 => \A j \in {2, 3} : req[p].holds # Above(j)
    <3>1. <<"item", i>> \in Row("item", {i})
      BY DEF Row
    <3>2. <<"item", i>> \notin req[p].holds
      BY <1>0, <3>1, FreeRow
    <3> QED
      BY <1>0, <1>1, <1>3, <3>2, Ends, Hanging, Conflict DEF ThreadInv
  <2>1. /\ req[p].op # "post"
        /\ req[p].op \in {"edit", "bury"} => req[p].item = Topic
    BY <1>0, <2>0, Hanging DEF TextHolds, PostHolds, EditHolds, BuryHolds
  <2>2. PostHolds(req[p])' /\ EditHolds(req[p])'
    BY <2>0, <2>1 DEF TextHolds, PostHolds, EditHolds
  <2>3. RemoveHolds(req[p])'
    BY <1>b, <2>0, Hanging DEF TextHolds, RemoveHolds, Above, Row
  <2>4. BuryHolds(req[p])'
    BY <1>a, <2>0, <2>1, Hanging DEF TextHolds, BuryHolds
  <2> QED
    BY <1>1, <2>0, <2>2, <2>3, <2>4, KeptBy DEF TextKept
<1>4. \A j \in Items : state'[j] = "live" => text'[j] \in Texts
  BY <1>a DEF ThreadInv, Shapes
<1>5. RepliesAnswer'
  BY <1>b, Hanging DEF ThreadInv, RepliesAnswer
<1> QED
  BY <1>1, <1>2, <1>3, <1>4, <1>5, SameReports, Together

\* Items that are gone: nothing else of the thread changes its state or text.
LEMMA GoneItems ==
  ASSUME ThreadInv, NEW items \in SUBSET Items, Gone(items)
  PROVE  /\ \A j \in Items : IF j \in items THEN state'[j] = "gone" /\ text'[j] = None
                             ELSE state'[j] = state[j] /\ text'[j] = text[j]
         /\ state' \in [Items -> {"none", "live", "placeholder", "gone"}]
         /\ text' \in [Items -> Texts \cup {None}]
         /\ hidden' \subseteq Items /\ watchers' \subseteq Users
         /\ UNCHANGED <<revisions, closed, notices>>
BY DEF Gone, ThreadInv, TypeOK

\* A request that goes on while items are removed: a comment that is being written is
\* not among them, and neither is what it hangs on.
LEMMA KeptFromGone ==
  ASSUME ThreadInv, NEW p \in Requests, req'[p] = req[p], NEW items \in SUBSET Items,
         Gone(items),
         \A j \in items : req[p].op = "post" => <<"item", j>> \notin req[p].holds,
         \A i \in {2, 3} : req[p].op = "post" /\ req[p].item = i => i \notin items
  PROVE  TextKept(p)
<1>0. /\ TextHolds(req[p])
      /\ \A j \in Items : IF j \in items THEN state'[j] = "gone" /\ text'[j] = None
                          ELSE state'[j] = state[j] /\ text'[j] = text[j]
  BY GoneItems DEF ThreadInv
<1>1. PostHolds(req[p])'
  <2>1. req[p].op = "post" /\ req[p].item = 3 => 2 \notin items
    BY <1>0, Hanging DEF TextHolds, PostHolds
  <2> QED
    BY <1>0, <2>1, Hanging DEF TextHolds, PostHolds, Exists, Above, Row
<1>2. EditHolds(req[p])'
  BY <1>0, Hanging DEF TextHolds, EditHolds, Exists, Above, Row
<1>3. BuryHolds(req[p])'
  BY <1>0, Hanging DEF TextHolds, BuryHolds, Exists, Above, Row
<1>4. RemoveHolds(req[p])'
  BY <1>0, Hanging DEF TextHolds, RemoveHolds, Exists, Above, Row
<1> QED
  BY <1>1, <1>2, <1>3, <1>4 DEF TextKept

\* remove_reply() and delete_topic() without what could answer
LEMMA RemoveCommits ==
  ASSUME ThreadInv, NEW q \in Requests, RemoveCommit(q)
  PROVE  ThreadInv'
<1> DEFINE items == req[q].items
<1>0. /\ items \in SUBSET Items /\ LocksExclude
      /\ \/ 1 \in items
         \/ \E i \in {2, 3} : items = {i} /\ req[q].holds = Above(i) /\ (i = 2 => ~Exists(3))
  BY Hanging DEF RemoveCommit, Commits, ThreadInv, TextHolds, RemoveHolds
<1>1. /\ Commits(q, "remove") /\ reports' = reports /\ Gone(items)
      /\ Free(Row("item", items) \ req[q].holds)
  BY DEF RemoveCommit
<1>2. TypeOK'
  <2>1. \A p \in Requests : req'[p].holds \subseteq req[p].holds
    BY <1>1, Ends
  <2> QED
    BY <1>0, <1>1, <2>1, GoneItems DEF ThreadInv, TypeOK
<1>3. ASSUME NEW p \in Requests, p # q PROVE Kept(p)
  <2>1. req'[p] = req[p]
    BY <1>1, <1>3, Ends
  <2>2. \A j \in items : <<"item", j>> \notin req[p].holds
    <3>1. ASSUME NEW j \in items, <<"item", j>> \in req[p].holds PROVE FALSE
      <4>1. <<"item", j>> \in Row("item", items)
        BY DEF Row
      <4>2. <<"item", j>> \in req[q].holds
        BY <1>1, <3>1, <4>1, FreeRow
      <4> QED
        BY <1>0, <1>3, <3>1, <4>2, Conflict
    <3> QED
      BY <3>1
  <2>3. \A i \in {2, 3} : ~(req[p].op = "post" /\ req[p].item = i /\ i \in items)
    <3>1. ASSUME NEW i \in {2, 3}, req[p].op = "post", req[p].item = i, i \in items PROVE FALSE
      <4>1. req[p].holds = Above(i)
        BY <3>1 DEF ThreadInv, TextHolds, PostHolds
      <4>2. CASE 1 \in items
        BY <2>2, <4>1, <4>2, Hanging
      <4>3. CASE \E k \in {2, 3} : req[q].holds = Above(k)
        BY <1>0, <1>3, <4>1, <4>3, Hanging, Conflict
      <4> QED
        BY <1>0, <4>2, <4>3
    <3> QED
      BY <3>1
  <2> QED
    BY <1>0, <1>1, <2>1, <2>2, <2>3, KeptFromGone, KeptBy
<1>4. \A j \in Items : state'[j] = "live" => text'[j] \in Texts
  BY <1>0, <1>1, GoneItems DEF ThreadInv, Shapes
<1>5. RepliesAnswer'
  <2>1. \A j \in Items : IF j \in items THEN ~Exists(j)' ELSE Exists(j)' = Exists(j)
    BY <1>0, <1>1, GoneItems DEF Exists
  <2> QED
    BY <1>0, <2>1, Hanging DEF ThreadInv, RepliesAnswer
<1> QED
  BY <1>1, <1>2, <1>3, <1>4, <1>5, SameReports, Together

\* A report that is closed stays the report of the same item by the same member.
LEMMA Closing ==
  ASSUME NEW x \in Record
  PROVE  LET y == [x EXCEPT !.open = FALSE, !.told = @ + 1] IN
         y \in Record /\ y.by = x.by /\ y.item = x.item /\ ~y.open
<1> DEFINE z == [x EXCEPT !.open = FALSE]
           y == [z EXCEPT !.told = z.told + 1]
<1>1. z \in Record /\ z.by = x.by /\ z.item = x.item /\ z.open = FALSE /\ z.told = x.told
  BY DEF Record
<1> HIDE DEF z
<1>2. y \in Record /\ y.by = z.by /\ y.item = z.item /\ y.open = z.open
  BY <1>1 DEF Record
<1>3. [x EXCEPT !.open = FALSE, !.told = @ + 1] = y
  BY DEF z, Record
<1> QED
  BY <1>1, <1>2, <1>3, Zenon

\* Reports that are resolved.
LEMMA ResolvedReports ==
  ASSUME ThreadInv, NEW those, reports' = Resolved(those)
  PROVE  /\ reports' \in Seq(Record) /\ OneOpenReport' /\ DOMAIN reports' = DOMAIN reports
         /\ \A p \in Requests : req'[p] = req[p] => ReadHolds(req[p])'
<1>0. reports \in Seq(Record)
  BY DEF ThreadInv, Shapes
<1>1. /\ DOMAIN reports' = DOMAIN reports /\ DOMAIN reports = 1 .. Len(reports)
      /\ Len(reports) \in Nat
  <2>1. DOMAIN reports' = DOMAIN reports
    BY Zenon DEF Resolved
  <2> QED
    BY <1>0, <2>1
<1>2. \A r \in DOMAIN reports :
        /\ reports'[r] \in Record
        /\ reports'[r].by = reports[r].by /\ reports'[r].item = reports[r].item
        /\ reports'[r].open => reports[r].open
  <2>1. ASSUME NEW r \in DOMAIN reports
        PROVE  /\ reports'[r] \in Record
               /\ reports'[r].by = reports[r].by /\ reports'[r].item = reports[r].item
               /\ reports'[r].open => reports[r].open
    <3>1. reports[r] \in Record
      BY <1>0, <2>1
    <3>2. reports'[r] = IF r \in those
                        THEN [reports[r] EXCEPT !.open = FALSE, !.told = @ + 1] ELSE reports[r]
      BY <2>1, Zenon DEF Resolved
    <3> QED
      BY <3>1, <3>2, Closing
  <2> QED
    BY <2>1
<1>3. reports' \in Seq(Record)
  <2>1. reports' = [r \in 1 .. Len(reports) |-> reports'[r]]
    BY <1>1 DEF Resolved
  <2> QED
    BY <1>1, <1>2, <2>1
<1>4. OneOpenReport'
  BY <1>1, <1>2 DEF ThreadInv, OneOpenReport
<1>5. ASSUME NEW p \in Requests, req'[p] = req[p] PROVE ReadHolds(req[p])'
  <2>1. ReadHolds(req[p])
    BY DEF ThreadInv
  <2>2. \A i : OpenReports(i)' \subseteq OpenReports(i)
    BY <1>1, <1>2 DEF OpenReports
  <2>3. ReportHolds(req[p])'
    BY <1>1, <1>2, <1>5, <2>1, <2>2 DEF ReadHolds, ReportHolds, OpenReports, Row
  <2>4. ModeratorHolds(req[p])'
    BY <1>1, <1>5, <2>1 DEF ReadHolds, ModeratorHolds
  <2> QED
    BY <2>3, <2>4 DEF ReadHolds
<1> QED
  BY <1>1, <1>3, <1>4, <1>5

\* The type of the reports that a request may hold.
LEMMA ReportTypes ==
  ASSUME reports' \in Seq(Record)
  PROVE  \A r \in DOMAIN reports' :
           reports'[r] \in [by : Users, item : Items, open : BOOLEAN, told : Nat]
<1>1. \A r \in DOMAIN reports' : reports'[r] \in Record
  OBVIOUS
<1> QED
  BY <1>1, Zenon DEF Record

\* delete_target()
LEMMA DeleteCommits ==
  ASSUME ThreadInv, NEW q \in Requests, DeleteCommit(q)
  PROVE  ThreadInv'
<1> DEFINE i == req[q].item
           items == i .. 3
<1>0. i \in {1, 2, 3} /\ items \in SUBSET Items
  BY Hanging DEF DeleteCommit, Commits, ThreadInv, ReadHolds, ModeratorHolds
<1>1. /\ Commits(q, "delete")
      /\ Free(Row("report", req[q].open) \cup Row("item", {i}))
      /\ IF Exists(i)
         THEN Gone(items) /\ reports' = Resolved(req[q].open)
         ELSE UNCHANGED <<thread, reports>>
  BY Hanging DEF DeleteCommit
<1>2. CASE ~Exists(i)
  <2>1. UNCHANGED thread /\ reports' = reports
    BY <1>1, <1>2
  <2> QED
    <3>1. /\ state' = state /\ text' = text /\ revisions' = revisions /\ hidden' = hidden
          /\ closed' = closed /\ watchers' = watchers /\ notices' = notices
      BY <2>1 DEF thread
    <3>2. TypeOK'
      <4>1. \A p \in Requests : req'[p].holds \subseteq req[p].holds
        BY <1>1, Ends
      <4> QED
        BY <2>1, <3>1, <4>1 DEF ThreadInv, TypeOK
    <3>3. ASSUME NEW p \in Requests, p # q PROVE Kept(p)
      <4>1. req'[p] = req[p] /\ TextHolds(req[p])
        BY <1>1, <3>3, Ends DEF ThreadInv
      <4>2. PostHolds(req[p])' /\ EditHolds(req[p])'
        BY <3>1, <4>1 DEF TextHolds, PostHolds, EditHolds, Exists, Above, Row
      <4>3. BuryHolds(req[p])' /\ RemoveHolds(req[p])'
        BY <3>1, <4>1 DEF TextHolds, BuryHolds, RemoveHolds, Exists, Above, Row
      <4> QED
        BY <2>1, <4>1, <4>2, <4>3, KeptBy DEF TextKept
    <3>4. \A j \in Items : state'[j] = "live" => text'[j] \in Texts
      BY <3>1 DEF ThreadInv, Shapes
    <3>5. RepliesAnswer'
      BY <3>1 DEF ThreadInv, RepliesAnswer, Exists
    <3> QED
      BY <1>1, <2>1, <3>2, <3>3, <3>4, <3>5, SameReports, Together
<1>3. CASE Exists(i)
  <2>1. Gone(items) /\ reports' = Resolved(req[q].open)
    BY <1>1, <1>3
  <2>2. TypeOK'
    <3>1. \A p \in Requests : req'[p].holds \subseteq req[p].holds
      BY <1>1, Ends
    <3>2. DOMAIN reports' = DOMAIN reports /\ reports' \in Seq(Record)
      BY <2>1, ResolvedReports
    <3>3. \A p \in Requests :
            req'[p].holds \subseteq ({"item"} \X Items) \cup ({"user"} \X Users)
                                      \cup ({"report"} \X DOMAIN reports')
      BY <3>1, <3>2 DEF ThreadInv, TypeOK
    <3>4. \A r \in DOMAIN reports' :
            reports'[r] \in [by : Users, item : Items, open : BOOLEAN, told : Nat]
      BY <3>2, ReportTypes
    <3> QED
      BY <1>0, <2>1, <3>3, <3>4, GoneItems DEF ThreadInv, TypeOK
  <2>3. ASSUME NEW p \in Requests, p # q PROVE Kept(p)
    <3>1. req'[p] = req[p]
      BY <1>1, <2>3, Ends
    <3>2. ASSUME req[p].op = "post" PROVE i > req[p].item /\ req[p].holds = Above(req[p].item)
                                          /\ req[p].item \in {2, 3}
      <4>1. req[p].item \in {2, 3} /\ req[p].holds = Above(req[p].item)
            /\ state[req[p].item] = "none"
        BY <3>2, Hanging DEF ThreadInv, TextHolds, PostHolds
      <4>2. <<"item", i>> \in Row("item", {i})
        BY DEF Row
      <4>3. <<"item", i>> \notin req[p].holds
        BY <1>1, <4>2, FreeRow
      <4>4. i # req[p].item
        BY <1>3, <4>1 DEF Exists
      <4> QED
        BY <1>0, <4>1, <4>3, <4>4, Hanging
    <3>3. \A j \in items : req[p].op = "post" => <<"item", j>> \notin req[p].holds
      BY <1>0, <3>2 DEF Above, Row
    <3>4. \A k \in {2, 3} : req[p].op = "post" /\ req[p].item = k => k \notin items
      BY <1>0, <3>2
    <3>5. TextKept(p)
      BY <1>0, <2>1, <3>1, <3>3, <3>4, KeptFromGone
    <3>6. ReadHolds(req[p])'
      BY <2>1, <3>1, ResolvedReports
    <3> QED
      BY <3>5, <3>6 DEF TextKept, Kept, TextHolds
  <2>4. \A j \in Items : state'[j] = "live" => text'[j] \in Texts
    BY <1>0, <2>1, GoneItems DEF ThreadInv, Shapes
  <2>5. RepliesAnswer'
    <3>1. \A j \in Items : IF j \in items THEN ~Exists(j)' ELSE Exists(j)' = Exists(j)
      BY <1>0, <2>1, GoneItems DEF Exists
    <3> QED
      BY <1>0, <3>1, Hanging DEF ThreadInv, RepliesAnswer
  <2> QED
    BY <1>1, <2>1, <2>2, <2>3, <2>4, <2>5, ResolvedReports, Together
<1> QED
  BY <1>2, <1>3

\* The thread is as it was for what a request has read of it.
LEMMA SameThread ==
  ASSUME ThreadInv, UNCHANGED thread, NEW p \in Requests, req'[p] = req[p]
  PROVE  TextHolds(req[p])'
<1>1. state' = state /\ text' = text /\ TextHolds(req[p])
  BY DEF ThreadInv, thread
<1>2. PostHolds(req[p])' /\ EditHolds(req[p])'
  BY <1>1 DEF TextHolds, PostHolds, EditHolds, Exists, Above, Row
<1>3. BuryHolds(req[p])' /\ RemoveHolds(req[p])'
  BY <1>1 DEF TextHolds, BuryHolds, RemoveHolds, Exists, Above, Row
<1> QED
  BY <1>2, <1>3 DEF TextHolds

\* resolve_report()
LEMMA ResolveCommits ==
  ASSUME ThreadInv, NEW q \in Requests, ResolveCommit(q)
  PROVE  ThreadInv'
<1>1. /\ Commits(q, "resolve") /\ reports' = Resolved({req[q].report}) /\ UNCHANGED thread
      /\ state' = state /\ text' = text /\ revisions' = revisions /\ hidden' = hidden
      /\ closed' = closed /\ watchers' = watchers /\ notices' = notices
  BY DEF ResolveCommit, thread
<1>2. DOMAIN reports' = DOMAIN reports /\ reports' \in Seq(Record) /\ OneOpenReport'
  BY <1>1, ResolvedReports
<1>3. TypeOK'
  <2>1. \A p \in Requests : req'[p].holds \subseteq req[p].holds
    BY <1>1, Ends
  <2>2. \A p \in Requests :
          req'[p].holds \subseteq ({"item"} \X Items) \cup ({"user"} \X Users)
                                    \cup ({"report"} \X DOMAIN reports')
    BY <1>2, <2>1 DEF ThreadInv, TypeOK
  <2>3. \A r \in DOMAIN reports' :
          reports'[r] \in [by : Users, item : Items, open : BOOLEAN, told : Nat]
    BY <1>2, ReportTypes
  <2> QED
    BY <1>1, <2>2, <2>3 DEF ThreadInv, TypeOK
<1>4. ASSUME NEW p \in Requests, p # q PROVE Kept(p)
  <2>1. req'[p] = req[p]
    BY <1>1, <1>4, Ends
  <2> QED
    BY <1>1, <2>1, SameThread, ResolvedReports DEF Kept
<1>5. \A j \in Items : state'[j] = "live" => text'[j] \in Texts
  BY <1>1 DEF ThreadInv, Shapes
<1>6. RepliesAnswer'
  BY <1>1 DEF ThreadInv, RepliesAnswer, Exists
<1> QED
  BY <1>1, <1>2, <1>3, <1>4, <1>5, <1>6, Together

\* report(): the lock of the reporter keeps another report of the same member away.
LEMMA ReportCommits ==
  ASSUME ThreadInv, NEW q \in Requests, ReportCommit(q)
  PROVE  ThreadInv'
<1> DEFINE u == req[q].user
           i == req[q].item
           new == [by |-> u, item |-> i, open |-> TRUE, told |-> 0]
<1>0. /\ u \in Users /\ i \in Items /\ req[q].holds = Row("user", {u})
      /\ \A r \in OpenReports(i) : reports[r].by # u
      /\ reports \in Seq(Record) /\ LocksExclude
  BY DEF ReportCommit, Commits, ThreadInv, ReadHolds, ReportHolds, Shapes
<1>1. /\ Commits(q, "report") /\ reports' = Append(reports, new) /\ UNCHANGED thread
      /\ state' = state /\ text' = text /\ revisions' = revisions /\ hidden' = hidden
      /\ closed' = closed /\ watchers' = watchers /\ notices' = notices
  BY DEF ReportCommit, thread
<1>2. new \in Record /\ reports' \in Seq(Record)
  BY <1>0, <1>1 DEF Record
<1>3. /\ DOMAIN reports = 1 .. Len(reports) /\ Len(reports) \in Nat
      /\ DOMAIN reports' = 1 .. Len(reports) + 1
      /\ \A r \in DOMAIN reports : reports'[r] = reports[r]
      /\ reports'[Len(reports) + 1] = new
  BY <1>0, <1>1, <1>2
<1>4. TypeOK'
  <2>1. \A p \in Requests : req'[p].holds \subseteq req[p].holds
    BY <1>1, Ends
  <2>2. DOMAIN reports \subseteq DOMAIN reports'
    BY <1>3
  <2>3. \A p \in Requests :
          req'[p].holds \subseteq ({"item"} \X Items) \cup ({"user"} \X Users)
                                    \cup ({"report"} \X DOMAIN reports')
    BY <2>1, <2>2 DEF ThreadInv, TypeOK
  <2>4. \A r \in DOMAIN reports' :
          reports'[r] \in [by : Users, item : Items, open : BOOLEAN, told : Nat]
    BY <1>2, ReportTypes
  <2> QED
    BY <1>1, <2>3, <2>4 DEF ThreadInv, TypeOK
<1>5. \A r \in DOMAIN reports' : r \in DOMAIN reports \/ r = Len(reports) + 1
  BY <1>3
<1>6. ASSUME NEW p \in Requests, p # q PROVE Kept(p)
  <2>1. req'[p] = req[p] /\ ReadHolds(req[p])
    BY <1>1, <1>6, Ends DEF ThreadInv
  <2>2. ASSUME req[p].op = "report" PROVE req[p].user # u
    <3>1. req[p].holds = Row("user", {req[p].user})
      BY <2>1, <2>2 DEF ReadHolds, ReportHolds
    <3>2. <<"user", u>> \in req[q].holds
      BY <1>0 DEF Row
    <3> QED
      BY <1>0, <1>6, <3>1, <3>2, Conflict DEF Row
  <2>3. \A j : \A r \in OpenReports(j)' :
          (r \in OpenReports(j) /\ reports'[r].by = reports[r].by) \/ reports'[r].by = u
    BY <1>3, <1>5 DEF OpenReports
  <2>4. ReportHolds(req[p])'
    BY <2>1, <2>2, <2>3 DEF ReadHolds, ReportHolds, Row
  <2>5. ModeratorHolds(req[p])'
    BY <1>3, <2>1 DEF ReadHolds, ModeratorHolds
  <2> QED
    BY <1>1, <2>1, <2>4, <2>5, SameThread DEF Kept, ReadHolds
<1>7. OneOpenReport'
  <2>1. \A r \in DOMAIN reports : reports[r].open /\ reports[r].item = i => reports[r].by # u
    BY <1>0 DEF OpenReports
  <2> QED
    BY <1>3, <1>5, <2>1 DEF ThreadInv, OneOpenReport
<1>8. \A j \in Items : state'[j] = "live" => text'[j] \in Texts
  BY <1>1 DEF ThreadInv, Shapes
<1>9. RepliesAnswer'
  BY <1>1 DEF ThreadInv, RepliesAnswer, Exists
<1> QED
  BY <1>1, <1>2, <1>4, <1>6, <1>7, <1>8, <1>9, Together

-----------------------------------------------------------------------------
\* Watching, locking and hiding touch nothing that a request relies on.
LEMMA QuietSteps ==
  ASSUME ThreadInv, \/ \E u \in Watchers : Watch(u)
                    \/ Lock
                    \/ \E i \in Items : Moderate(i),
         Watchers \subseteq Users
  PROVE  ThreadInv'
<1>1. /\ state' = state /\ text' = text /\ revisions' = revisions /\ notices' = notices
      /\ reports' = reports /\ req' = req
  BY DEF Watch, Lock, Moderate
<1>2. hidden' \subseteq Items /\ closed' \in BOOLEAN /\ watchers' \subseteq Users
  BY DEF Watch, Lock, Moderate, ThreadInv, TypeOK
<1>3. TypeOK'
  BY <1>1, <1>2 DEF ThreadInv, TypeOK
<1>4. Shapes' /\ LocksExclude'
  BY <1>1 DEF ThreadInv, Shapes, LocksExclude
<1>5. \A p \in Requests : TextHolds(req[p]) /\ ReadHolds(req[p])
  BY DEF ThreadInv
<1>6. \A p \in Requests : TextHolds(req[p])'
  BY <1>1, <1>5 DEF TextHolds, PostHolds, EditHolds, BuryHolds, RemoveHolds, Exists, Above, Row
<1>7. \A p \in Requests : ReadHolds(req[p])'
  BY <1>1, <1>5 DEF ReadHolds, ReportHolds, ModeratorHolds, OpenReports, Row
<1>8. RepliesAnswer' /\ OneOpenReport'
  BY <1>1 DEF ThreadInv, RepliesAnswer, OneOpenReport, Exists
<1> QED
  BY <1>3, <1>4, <1>6, <1>7, <1>8 DEF ThreadInv

\* It holds of a topic that has just been posted.
LEMMA ThreadStarts ==
  ASSUME Init PROVE ThreadInv
<1> USE DEF Init
<1>1. TypeOK
  <2>1. /\ state \in [Items -> {"none", "live", "placeholder", "gone"}]
        /\ text \in [Items -> Texts \cup {None}]
    OBVIOUS
  <2>2. /\ revisions \in [Items -> SUBSET Texts] /\ notices \in [Users \X Items -> Nat]
        /\ hidden \subseteq Items /\ closed \in BOOLEAN
    OBVIOUS
  <2>3. watchers \subseteq Users
    BY ThreadsAssumption, Hanging
  <2>4. \A q \in Requests : req[q].holds = {}
    BY IdleHolds
  <2> QED
    BY <2>1, <2>2, <2>3, <2>4 DEF TypeOK
<1>2. Shapes
  BY Hanging DEF Shapes, Record
<1>3. LocksExclude
  BY IdleHolds DEF LocksExclude
<1>4. \A q \in Requests : TextHolds(req[q]) /\ ReadHolds(req[q])
  BY IdleHolds
<1>5. RepliesAnswer /\ OneOpenReport
  BY Hanging DEF RepliesAnswer, OneOpenReport, Exists
<1> QED
  BY <1>1, <1>2, <1>3, <1>4, <1>5 DEF ThreadInv

\* A step of the thread, by the requests that begin, those that commit, and the rest.
LEMMA ThreadStep ==
  ASSUME ThreadInv, [Next]_vars, Watchers \subseteq Users
  PROVE  ThreadInv'
<1>1. CASE UNCHANGED vars
  <2>1. /\ state' = state /\ text' = text /\ revisions' = revisions /\ hidden' = hidden
        /\ closed' = closed /\ watchers' = watchers /\ notices' = notices
        /\ reports' = reports /\ req' = req
    BY <1>1 DEF vars, thread
  <2>2. TypeOK' /\ Shapes' /\ LocksExclude' /\ RepliesAnswer' /\ OneOpenReport'
    BY <2>1 DEF ThreadInv, TypeOK, Shapes, LocksExclude, RepliesAnswer, OneOpenReport, Exists
  <2>3. \A p \in Requests : TextHolds(req[p]) /\ ReadHolds(req[p])
    BY DEF ThreadInv
  <2>4. \A p \in Requests : TextHolds(req[p])'
    BY <2>1, <2>3 DEF TextHolds, PostHolds, EditHolds, BuryHolds, RemoveHolds, Exists, Above, Row
  <2>5. \A p \in Requests : ReadHolds(req[p])'
    BY <2>1, <2>3 DEF ReadHolds, ReportHolds, ModeratorHolds, OpenReports, Row
  <2> QED
    BY <2>2, <2>4, <2>5 DEF ThreadInv
<1>2. ASSUME NEW q \in Requests,
             \/ \E i \in Items, t \in Texts : Post(q, i, t)
             \/ \E u \in Users, i \in Items, t \in Texts : Edit(q, u, i, t)
             \/ \E u \in Users, i \in Items : Remove(q, u, i)
             \/ \E u \in Users : DeleteTopic(q, u)
             \/ \E u \in Users, i \in Items : Report(q, u, i)
             \/ \E r \in DOMAIN reports : Resolve(q, r)
             \/ \E i \in Items : DeleteTarget(q, i)
      PROVE  ThreadInv'
  BY <1>2, BeginSteps, Zenon
<1>3. ASSUME NEW q \in Requests,
             \/ PostCommit(q) \/ EditCommit(q) \/ Clear(q) \/ BuryCommit(q) \/ RemoveCommit(q)
             \/ ReportCommit(q) \/ ResolveCommit(q) \/ DeleteCommit(q)
      PROVE  ThreadInv'
  BY <1>3, PostCommits, EditCommits, ClearStep, BuryCommits, RemoveCommits, ReportCommits,
     ResolveCommits, DeleteCommits, Zenon
<1>4. ASSUME \/ \E u \in Watchers : Watch(u)
             \/ Lock
             \/ \E i \in Items : Moderate(i)
      PROVE  ThreadInv'
  BY <1>4, QuietSteps, Zenon
<1> QED
  BY <1>1, <1>2, <1>3, <1>4, Zenon DEF Next

\* What every request relies on holds at all times.
LEMMA ThreadInvariant == Spec => []ThreadInv
<1>1. Init => ThreadInv
  BY ThreadStarts
<1>2. ThreadInv /\ [Next]_vars => ThreadInv'
  BY ThreadStep, ThreadsAssumption
<1> QED
  BY <1>1, <1>2, PTL DEF Spec

-----------------------------------------------------------------------------
\* A topic, its comment and a reply stand together, however many requests post, edit and
\* remove them at once (engagement.py reply, remove_reply; discussion_feed.py).
THEOREM RepliesStayAnswered == Spec => []ThreadHolds
<1>1. ThreadInv => ThreadHolds
  BY DEF ThreadInv, ThreadHolds
<1> QED
  BY <1>1, ThreadInvariant, PTL

\* A member never has two open reports of an item, however often the report is submitted
\* at once and whoever resolves or deletes in between (moderation.py report).
THEOREM ReportsAreSingle == Spec => []OneOpenReport
<1>1. ThreadInv => OneOpenReport
  BY DEF ThreadInv
<1> QED
  BY <1>1, ThreadInvariant, PTL

\* What a commit changes of the text of a comment or reply.
LEMMA ChangesKept ==
  ASSUME ThreadInv, [Next]_vars, NEW i \in {2, 3}
  PROVE  ChangeKept(i)
<1>0. i \in Items
  BY Hanging
<1>1. ASSUME text' = text PROVE ChangeKept(i)
  BY <1>1 DEF ChangeKept
<1>2. ASSUME NEW q \in Requests, PostCommit(q) PROVE ChangeKept(i)
  <2>1. state[req[q].item] = "none" /\ text' = [text EXCEPT ![req[q].item] = req[q].text]
    BY <1>2 DEF PostCommit, Commits, ThreadInv, TextHolds, PostHolds
  <2>2. Exists(i) => text'[i] = text[i]
    BY <1>0, <2>1 DEF Exists, ThreadInv, TypeOK
  <2> QED
    BY <2>2 DEF ChangeKept
<1>3. ASSUME NEW q \in Requests, EditCommit(q) PROVE ChangeKept(i)
  <2> DEFINE t == req[q].text
             old == req[q].old
             told == {u \in (Mentions[t] \ Mentions[old]) \ {req[q].user} :
                        \A j \in (1 .. i) \cap hidden : Manages(u, j)}
  <2> SUFFICES ASSUME Exists(i), text'[i] # text[i] PROVE ChangeKept(i)
    BY DEF ChangeKept
  <2>1. EditHolds(req[q]) /\ req[q].op = "edit"
    BY <1>3 DEF EditCommit, Commits, ThreadInv, TextHolds
  <2>2. /\ state[req[q].item] # "gone" /\ text' = [text EXCEPT ![req[q].item] = t]
        /\ revisions' = [revisions EXCEPT ![req[q].item] = @ \cup {old}]
        /\ notices' = Told(req[q].item, Mentions[t] \ Mentions[old], req[q].user)
    BY <1>3 DEF EditCommit
  <2>3. i = req[q].item
    BY <1>0, <2>2 DEF ThreadInv, TypeOK
  <2>4. text[i] = old /\ text[i] \in revisions'[i]
    BY <1>0, <2>1, <2>2, <2>3, Hanging DEF EditHolds, ThreadInv, TypeOK
  <2>5. ASSUME NEW u \in Users, notices'[<<u, i>>] > notices[<<u, i>>]
        PROVE  u \notin Mentions[text[i]]
    <3>1. notices'[<<u, i>>] = notices[<<u, i>>] + IF u \in told THEN 1 ELSE 0
      BY <1>0, <2>2, <2>3 DEF Told
    <3>2. u \in told
      BY <1>0, <2>5, <3>1 DEF ThreadInv, TypeOK
    <3> QED
      BY <2>4, <3>2
  <2> QED
    BY <2>4, <2>5 DEF ChangeKept
<1>4. ASSUME NEW q \in Requests, BuryCommit(q) PROVE ChangeKept(i)
  <2> SUFFICES ASSUME Exists(i), text'[i] # text[i] PROVE ChangeKept(i)
    BY DEF ChangeKept
  <2>1. BuryHolds(req[q]) /\ req[q].op = "bury" /\ notices' = notices
    BY <1>4 DEF BuryCommit, Commits, ThreadInv, TextHolds
  <2>2. /\ state[req[q].item] = "live" /\ text' = [text EXCEPT ![req[q].item] = None]
        /\ revisions' = [revisions EXCEPT ![req[q].item] = @ \cup {req[q].old}]
    BY <1>4 DEF BuryCommit
  <2>3. i = req[q].item
    BY <1>0, <2>2 DEF ThreadInv, TypeOK
  <2>4. text[i] = req[q].old /\ text[i] \in revisions'[i]
    BY <1>0, <2>1, <2>2, <2>3, Hanging DEF BuryHolds, ThreadInv, TypeOK
  <2>5. \A u \in Users : ~(notices'[<<u, i>>] > notices[<<u, i>>])
    BY <1>0, <2>1 DEF ThreadInv, TypeOK
  <2> QED
    BY <2>4, <2>5 DEF ChangeKept
<1>5. ASSUME NEW items, Gone(items) PROVE ChangeKept(i)
  <2>1. state'[i] = "gone" \/ text'[i] = text[i]
    BY <1>0, <1>5 DEF Gone
  <2> QED
    BY <2>1 DEF ChangeKept
<1>6. ASSUME NEW q \in Requests, RemoveCommit(q) \/ DeleteCommit(q) PROVE ChangeKept(i)
  <2>1. (\E items : Gone(items)) \/ text' = text
    BY <1>6 DEF RemoveCommit, DeleteCommit, thread
  <2> QED
    BY <1>1, <1>5, <2>1
<1>7. ASSUME NEW q \in Requests,
             \/ \E j \in Items, t \in Texts : Post(q, j, t)
             \/ \E u \in Users, j \in Items, t \in Texts : Edit(q, u, j, t)
             \/ \E u \in Users, j \in Items : Remove(q, u, j)
             \/ \E u \in Users : DeleteTopic(q, u)
             \/ \E u \in Users, j \in Items : Report(q, u, j)
             \/ \E r \in DOMAIN reports : Resolve(q, r)
             \/ \E j \in Items : DeleteTarget(q, j)
             \/ Clear(q) \/ ReportCommit(q) \/ ResolveCommit(q)
      PROVE  ChangeKept(i)
  BY <1>1, <1>7 DEF Post, Edit, Remove, DeleteTopic, Report, Resolve, DeleteTarget, Clear,
                    ReportCommit, ResolveCommit, Begin, thread
<1>8. ASSUME \/ \E u \in Watchers : Watch(u)
             \/ Lock
             \/ \E j \in Items : Moderate(j)
             \/ UNCHANGED vars
      PROVE  ChangeKept(i)
  BY <1>1, <1>8 DEF Watch, Lock, Moderate, vars, thread
<1> QED
  BY <1>2, <1>3, <1>4, <1>6, <1>7, <1>8, Zenon DEF Next

\* A change of a comment or reply keeps the text that it replaces, and tells only those
\* that this text did not mention (engagement.py edit_reply, remove_reply).
THEOREM EditsAreKept == Spec => EditsKept
<1>1. ThreadInv /\ [Next]_vars => [ChangeKept(Comment) /\ ChangeKept(Reply)]_vars
  BY ChangesKept, Hanging
<1> QED
  BY <1>1, ThreadInvariant, PTL DEF Spec, EditsKept

-----------------------------------------------------------------------------
(***************************************************************************)
(* Community: what the cache of a user depends on, for every number of     *)
(* transactions that others overtake.                                      *)
(***************************************************************************)
ContentRows ==
    [state : [C!Items -> {"none", "live", "placeholder", "gone"}],
     withheld : SUBSET C!Withheld, votes : SUBSET C!Votes]

Locks == ({"item"} \X C!Items) \cup ({"voter"} \X Members) \cup ({"vote"} \X C!Items \X Members)

Tables == UNION {[S -> C!Progress] : S \in SUBSET Members}

MarkedRows ==
    [pc : {"marked"}, change : C!Changes, marks : SUBSET Members, locks : SUBSET Locks,
     alone : BOOLEAN]

ComputedRows ==
    [pc : {"computed"}, change : C!Changes, marks : SUBSET Members, locks : SUBSET Locks,
     alone : BOOLEAN, read : Tables, computed : Tables]

VotesOf(c, i) == {v \in c.votes : v[1] = i}

\* Nothing is there before what it hangs on was.
RowsHang(c) ==
    \A i, j \in C!Items : i < j /\ c.state[i] = "none" => c.state[j] = "none"

\* The items that a change is about
Scope(t) == {k \in C!Items : k = t.item \/ (t.deep /\ k > t.item)}

\* What a change can be while the source rows are c: a deep one may take away and hide, any
\* other one posts an item or changes its votes.
Fits(c, t) ==
    /\ t \in C!Changes /\ DOMAIN t.rows \subseteq Scope(t)
    /\ \A w \in t.withholds \cup t.restores : w[2] \in Scope(t)
    /\ \A v \in t.adds \cup t.drops : v[1] \in Scope(t)
    /\ ~t.deep => t.withholds = {} /\ t.restores = {} /\ ~t.late
    /\ \A j \in DOMAIN t.rows :
          /\ t.rows[j] = "live" <=> ~t.deep
          /\ t.rows[j] = "live" <=> c.state[j] = "none"
          /\ t.rows[j] = "live" => \A i \in C!Items : i < j => c.state[i] # "none"

\* Whoever is not marked has nothing there.
NothingOf(c, t, user) == \A k \in Scope(t) : Author[k] = user => ~C!Exists(c, k)

\* A transaction under way, while the source rows are c, the cache h, and o the users whose
\* transactions overlapped
UnderWayHolds(c, h, o, x) ==
    /\ Fits(c, x.change) /\ x.marks \subseteq C!Reach(x.change)
    /\ \A j \in DOMAIN x.change.rows :
          /\ x.change.rows[j] # "gone" => Author[j] \in x.marks
          /\ x.change.rows[j] = "live" \/ x.pc = "computed" => <<"item", j>> \in x.locks
    /\ \A user \in Members \ (o \cup x.marks) : NothingOf(c, x.change, user)
    /\ x.pc = "computed" =>
          /\ DOMAIN x.read = x.marks /\ DOMAIN x.computed = x.marks
          /\ \A user \in x.marks : x.alone \/ user \notin o =>
                /\ x.read[user] = h[user]
                /\ x.computed[user] = C!Compute(C!Applied(x.change, c), user)

\* The source rows c and d give the user the same.
Same(c, d, user) ==
    \A i \in C!Items : Author[i] = user =>
        /\ C!Public(c, i) <=> C!Public(d, i)
        /\ C!Public(c, i) => VotesOf(c, i) = VotesOf(d, i)

RowsExclude == \A q, r \in Slow : q # r => tx[q].locks \cap tx[r].locks = {}

CommunityTypes ==
    /\ content \in ContentRows /\ RowsHang(content)
    /\ cache \in [Members -> C!Progress]
    /\ DOMAIN tx = Slow /\ \A q \in Slow : tx[q] = C!Idle \/ tx[q] \in MarkedRows \cup ComputedRows
    /\ overlapped \subseteq Members

\* The cache of a user is current, and so is what transactions under way have read and
\* computed for them, unless two of them overlapped.
CommunityInv ==
    /\ CommunityTypes /\ RowsExclude
    /\ \A user \in Members \ overlapped : cache[user] = C!Compute(content, user)
    /\ \A q \in Slow : tx[q] # C!Idle => UnderWayHolds(content, cache, overlapped, tx[q])

-----------------------------------------------------------------------------
LEMMA CommunityBounds ==
  /\ Author \in [C!Items -> Members] /\ Bronze \in [C!Items -> Nat \ {0}]
  /\ MaxHidden \in Nat
BY SiteAssumption DEF C!CommunityAssumption

LEMMA CommunityCounts == \A S : C!Cardinality(S) = Cardinality(S)
BY DEF C!Cardinality, Cardinality

LEMMA ItemsFinite ==
  IsFiniteSet(C!Items) /\ \A T \in SUBSET C!Items : C!Cardinality(T) \in 0 .. C!Cardinality(C!Items)
<1>1. IsFiniteSet({}) /\ C!Items = ((({} \cup {C!Dataset}) \cup {C!Topic}) \cup {C!Comment}) \cup {C!Reply}
  BY FS_EmptySet DEF C!Items
<1>2. IsFiniteSet(C!Items)
  BY <1>1, FS_AddElement
<1>3. \A T \in SUBSET C!Items : IsFiniteSet(T) /\ C!Cardinality(T) <= C!Cardinality(C!Items)
  BY <1>2, FS_Subset, CommunityCounts
<1> QED
  BY <1>2, <1>3, FS_CardinalityType, CommunityCounts

LEMMA Numbers == C!Items = {1, 2, 3, 4} /\ C!Dataset = 1 /\ C!Topic = 2 /\ C!Comment = 3 /\ C!Reply = 4
BY DEF C!Items, C!Dataset, C!Topic, C!Comment, C!Reply

LEMMA NotIdle ==
  \A x \in MarkedRows \cup ComputedRows :
      /\ x # C!Idle /\ x.change \in C!Changes /\ x.marks \subseteq Members
      /\ x.locks \subseteq Locks /\ x.alone \in BOOLEAN /\ x.pc \in {"marked", "computed"}
      /\ x \in MarkedRows => x.pc = "marked"
      /\ x \in ComputedRows => x.pc = "computed"
BY DEF MarkedRows, ComputedRows, C!Idle

\* What a transaction knows when another one has committed meanwhile
LEMMA Overtaken ==
  ASSUME NEW x \in MarkedRows \cup ComputedRows
  PROVE  LET y == [x EXCEPT !.alone = FALSE] IN
         /\ y \in MarkedRows \cup ComputedRows /\ y.pc = x.pc /\ y.change = x.change /\ y.marks = x.marks
         /\ y.locks = x.locks /\ y.alone = FALSE
         /\ x.pc = "computed" => y.read = x.read /\ y.computed = x.computed
<1>1. CASE x \in MarkedRows
  BY <1>1 DEF MarkedRows
<1>2. CASE x \in ComputedRows
  BY <1>2 DEF ComputedRows
<1> QED
  BY <1>1, <1>2

LEMMA ChangeFields ==
  ASSUME NEW t \in C!Changes
  PROVE  /\ t.item \in C!Items /\ t.deep \in BOOLEAN /\ t.late \in BOOLEAN
         /\ DOMAIN t.rows \subseteq C!Items
         /\ \A j \in DOMAIN t.rows : t.rows[j] \in {"live", "placeholder", "gone"}
         /\ t.withholds \subseteq C!Withheld /\ t.restores \subseteq C!Withheld
         /\ t.adds \subseteq C!Votes /\ t.drops \subseteq C!Votes
<1>1. t.rows \in UNION {[S -> {"live", "placeholder", "gone"}] : S \in SUBSET C!Items}
  BY DEF C!Changes
<1>2. PICK S \in SUBSET C!Items : t.rows \in [S -> {"live", "placeholder", "gone"}]
  BY <1>1
<1> QED
  BY <1>2 DEF C!Changes

-----------------------------------------------------------------------------
(* What is public, and what a change does to it.                           *)

LEMMA ReachScope ==
  ASSUME NEW t
  PROVE  /\ C!Reach(t) = {Author[k] : k \in Scope(t)}
         /\ Scope(t) \subseteq C!Items
         /\ C!Reach(t) \subseteq Members
BY CommunityBounds DEF C!Reach, Scope

\* The row of item j, and what withholds it, are the same.
Alike(c, d, j) ==
    /\ d.state[j] = c.state[j]
    /\ {w \in d.withheld : w[2] = j} = {w \in c.withheld : w[2] = j}

LEMMA PublicAlike ==
  ASSUME NEW c, NEW d, NEW k \in C!Items, \A j \in C!Items : j <= k => Alike(c, d, j)
  PROVE  C!Public(c, k) <=> C!Public(d, k)
<1>1. \A j \in 1 .. k : j \in C!Items /\ j <= k
  BY Numbers
<1>2. \A j \in 1 .. k : /\ C!Exists(c, j) <=> C!Exists(d, j)
                        /\ (\A w \in c.withheld : w[2] # j) <=> (\A w \in d.withheld : w[2] # j)
  BY <1>1 DEF Alike, C!Exists
<1>3. c.state[k] = d.state[k] /\ k <= k
  BY Numbers DEF Alike
<1> QED
  BY <1>2, <1>3 DEF C!Public

LEMMA AppliedRows ==
  ASSUME NEW c \in ContentRows, NEW t \in C!Changes, NEW d, d = C!Applied(t, c)
  PROVE  /\ d \in ContentRows
         /\ \A j \in C!Items : d.state[j] = IF j \in DOMAIN t.rows THEN t.rows[j] ELSE c.state[j]
         /\ d.withheld = (c.withheld \cup t.withholds) \ t.restores
         /\ d.votes = (c.votes \cup t.adds) \ t.drops
<1>1. PICK states : states = [j \in C!Items |-> IF j \in DOMAIN t.rows THEN t.rows[j] ELSE c.state[j]]
  OBVIOUS
<1>2. states \in [C!Items -> {"none", "live", "placeholder", "gone"}]
  BY <1>1, ChangeFields DEF ContentRows
<1>3. /\ ((c.withheld \cup t.withholds) \ t.restores) \in SUBSET C!Withheld
      /\ ((c.votes \cup t.adds) \ t.drops) \in SUBSET C!Votes
  BY ChangeFields DEF ContentRows
<1>4. d = [state |-> states, withheld |-> (c.withheld \cup t.withholds) \ t.restores,
           votes |-> (c.votes \cup t.adds) \ t.drops]
  BY <1>1 DEF C!Applied
<1> QED
  BY <1>1, <1>2, <1>3, <1>4 DEF ContentRows

\* Outside its scope a change leaves everything as it is,
LEMMA OutOfScope ==
  ASSUME NEW c \in ContentRows, NEW t, Fits(c, t), NEW j \in C!Items, j \notin Scope(t)
  PROVE  Alike(c, C!Applied(t, c), j) /\ VotesOf(C!Applied(t, c), j) = VotesOf(c, j)
<1>1. PICK d : d = C!Applied(t, c)
  OBVIOUS
<1>2. t \in C!Changes
  BY DEF Fits
<1>3. /\ d.state[j] = IF j \in DOMAIN t.rows THEN t.rows[j] ELSE c.state[j]
      /\ d.withheld = (c.withheld \cup t.withholds) \ t.restores
      /\ d.votes = (c.votes \cup t.adds) \ t.drops
  BY <1>1, <1>2, AppliedRows
<1>4. /\ j \notin DOMAIN t.rows
      /\ \A w \in t.withholds \cup t.restores : w[2] # j
      /\ \A v \in t.adds \cup t.drops : v[1] # j
  BY DEF Fits
<1>5. {w \in d.withheld : w[2] = j} = {w \in c.withheld : w[2] = j}
  BY <1>3, <1>4
<1>6. VotesOf(d, j) = VotesOf(c, j)
  BY <1>3, <1>4 DEF VotesOf
<1> QED
  BY <1>1, <1>3, <1>4, <1>5, <1>6 DEF Alike

\* and what was the same is so when the change has been applied to both.
LEMMA AlikeApplied ==
  ASSUME NEW c \in ContentRows, NEW d \in ContentRows, NEW t \in C!Changes, NEW j \in C!Items
  PROVE  /\ Alike(c, d, j) => Alike(C!Applied(t, c), C!Applied(t, d), j)
         /\ VotesOf(c, j) = VotesOf(d, j) => VotesOf(C!Applied(t, c), j) = VotesOf(C!Applied(t, d), j)
<1>1. PICK e, f : e = C!Applied(t, c) /\ f = C!Applied(t, d)
  OBVIOUS
<1>2. /\ e.state[j] = IF j \in DOMAIN t.rows THEN t.rows[j] ELSE c.state[j]
      /\ e.withheld = (c.withheld \cup t.withholds) \ t.restores
      /\ e.votes = (c.votes \cup t.adds) \ t.drops
  BY <1>1, AppliedRows
<1>3. /\ f.state[j] = IF j \in DOMAIN t.rows THEN t.rows[j] ELSE d.state[j]
      /\ f.withheld = (d.withheld \cup t.withholds) \ t.restores
      /\ f.votes = (d.votes \cup t.adds) \ t.drops
  BY <1>1, AppliedRows
<1>4. ASSUME Alike(c, d, j)
      PROVE  Alike(e, f, j)
  <2>1. {w \in f.withheld : w[2] = j} = {w \in e.withheld : w[2] = j}
    BY <1>2, <1>3, <1>4 DEF Alike
  <2> QED
    BY <1>2, <1>3, <1>4, <2>1 DEF Alike
<1>5. ASSUME VotesOf(c, j) = VotesOf(d, j)
      PROVE  VotesOf(e, j) = VotesOf(f, j)
  BY <1>2, <1>3, <1>5 DEF VotesOf
<1> QED
  BY <1>1, <1>4, <1>5

LEMMA StillHangs ==
  ASSUME NEW c \in ContentRows, RowsHang(c), NEW t, Fits(c, t)
  PROVE  RowsHang(C!Applied(t, c))
<1>1. PICK d : d = C!Applied(t, c)
  OBVIOUS
<1>2. t \in C!Changes
  BY DEF Fits
<1>3. \A j \in C!Items : d.state[j] = IF j \in DOMAIN t.rows THEN t.rows[j] ELSE c.state[j]
  BY <1>1, <1>2, AppliedRows
<1>4. \A j \in DOMAIN t.rows : t.rows[j] # "none"
  BY <1>2, ChangeFields
<1>5. ASSUME NEW i \in C!Items, NEW j \in C!Items, i < j, d.state[i] = "none"
      PROVE  d.state[j] = "none"
  <2>1. c.state[i] = "none"
    BY <1>3, <1>4, <1>5
  <2>2. c.state[j] = "none"
    BY <1>5, <2>1 DEF RowsHang
  <2>3. j \notin DOMAIN t.rows
    BY <1>5, <2>1, <2>2 DEF Fits
  <2> QED
    BY <1>3, <2>2, <2>3
<1> QED
  BY <1>1, <1>5 DEF RowsHang

\* A change gives the same to users who have nothing where it is made, and of whom it
\* brings nothing.
LEMMA Untouched ==
  ASSUME NEW c \in ContentRows, RowsHang(c), NEW t, Fits(c, t), NEW user,
         NothingOf(c, t, user),
         \A j \in DOMAIN t.rows : Author[j] = user => t.rows[j] = "gone"
  PROVE  Same(c, C!Applied(t, c), user)
<1>1. PICK d : d = C!Applied(t, c)
  OBVIOUS
<1>2. t \in C!Changes
  BY DEF Fits
<1>3. \A j \in C!Items : d.state[j] = IF j \in DOMAIN t.rows THEN t.rows[j] ELSE c.state[j]
  BY <1>1, <1>2, AppliedRows
<1>4. SUFFICES ASSUME NEW k \in C!Items, Author[k] = user
               PROVE  /\ C!Public(c, k) <=> C!Public(d, k)
                      /\ C!Public(c, k) => VotesOf(c, k) = VotesOf(d, k)
  BY <1>1 DEF Same
<1>5. CASE k \in Scope(t)
  <2>1. ~C!Exists(c, k)
    BY <1>4, <1>5 DEF NothingOf
  <2>2. d.state[k] # "live"
    BY <1>3, <1>4, <2>1 DEF C!Exists
  <2> QED
    BY <2>1, <2>2 DEF C!Public, C!Exists
<1>6. CASE k \notin Scope(t) /\ \A j \in C!Items : j <= k => j \notin Scope(t)
  <2>1. \A j \in C!Items : j <= k => Alike(c, d, j)
    BY <1>1, <1>6, OutOfScope
  <2>2. VotesOf(d, k) = VotesOf(c, k)
    BY <1>1, <1>6, OutOfScope
  <2> QED
    BY <2>1, <2>2, PublicAlike
<1>7. CASE k \notin Scope(t) /\ \E j \in C!Items : j <= k /\ j \in Scope(t)
  <2>1. PICK j \in C!Items : j <= k /\ j \in Scope(t)
    BY <1>7
  <2>2. ~t.deep /\ j = t.item /\ j < k /\ Scope(t) = {j}
    BY <1>7, <2>1, <1>2, ChangeFields, Numbers DEF Scope
  <2>3. CASE j \in DOMAIN t.rows
    <3>1. c.state[j] = "none" /\ DOMAIN t.rows \subseteq {j}
      BY <2>2, <2>3 DEF Fits
    <3>2. c.state[k] = "none"
      BY <2>2, <3>1 DEF RowsHang
    <3>3. d.state[k] = "none"
      BY <1>3, <2>2, <3>1, <3>2, Numbers
    <3> QED
      BY <3>2, <3>3 DEF C!Public
  <2>4. CASE j \notin DOMAIN t.rows
    <3>1. DOMAIN t.rows = {} /\ t.withholds = {} /\ t.restores = {}
      BY <2>2, <2>4 DEF Fits
    <3>2. d.withheld = (c.withheld \cup t.withholds) \ t.restores
      BY <1>1, <1>2, AppliedRows
    <3>3. \A i \in C!Items : Alike(c, d, i)
      BY <1>3, <3>1, <3>2 DEF Alike
    <3>4. VotesOf(d, k) = VotesOf(c, k)
      BY <1>1, <1>7, OutOfScope
    <3> QED
      BY <3>3, <3>4, PublicAlike
  <2> QED
    BY <2>3, <2>4
<1> QED
  BY <1>5, <1>6, <1>7

\* What one change gives a user does not depend on another that does not reach them.
LEMMA Apart ==
  ASSUME NEW c \in ContentRows, RowsHang(c), NEW t, Fits(c, t), NEW s, Fits(c, s), NEW user,
         user \notin C!Reach(t)
  PROVE  Same(C!Applied(s, c), C!Applied(s, C!Applied(t, c)), user)
<1>1. PICK d : d = C!Applied(t, c)
  OBVIOUS
<1>2. t \in C!Changes /\ s \in C!Changes
  BY DEF Fits
<1>3. d \in ContentRows
  BY <1>1, <1>2, AppliedRows
<1>4. PICK e, f : e = C!Applied(s, c) /\ f = C!Applied(s, d)
  OBVIOUS
<1>5. SUFFICES ASSUME NEW k \in C!Items, Author[k] = user
               PROVE  /\ C!Public(e, k) <=> C!Public(f, k)
                      /\ C!Public(e, k) => VotesOf(e, k) = VotesOf(f, k)
  BY <1>1, <1>4 DEF Same
<1>6. k \notin Scope(t)
  BY <1>5, ReachScope
<1>7. VotesOf(e, k) = VotesOf(f, k)
  BY <1>1, <1>2, <1>3, <1>4, <1>6, OutOfScope, AlikeApplied
<1>8. CASE \A j \in C!Items : j <= k => Alike(c, d, j)
  <2>1. \A j \in C!Items : j <= k => Alike(e, f, j)
    BY <1>2, <1>3, <1>4, <1>8, AlikeApplied
  <2> QED
    BY <1>7, <2>1, PublicAlike
<1>9. CASE \E j \in C!Items : j <= k /\ ~Alike(c, d, j)
  <2>1. PICK j \in C!Items : j <= k /\ ~Alike(c, d, j)
    BY <1>9
  <2>2. j \in Scope(t)
    BY <1>1, <2>1, OutOfScope
  <2>3. ~t.deep /\ j = t.item /\ j < k /\ Scope(t) = {j}
    BY <1>2, <1>6, <2>1, <2>2, ChangeFields, Numbers DEF Scope
  <2>4. t.withholds = {} /\ t.restores = {}
    BY <2>3 DEF Fits
  <2>5. d.withheld = c.withheld /\ d.state[j] = IF j \in DOMAIN t.rows THEN t.rows[j] ELSE c.state[j]
    <3>1. d.withheld = (c.withheld \cup t.withholds) \ t.restores
      BY <1>1, <1>2, AppliedRows
    <3>2. d.state[j] = IF j \in DOMAIN t.rows THEN t.rows[j] ELSE c.state[j]
      BY <1>1, <1>2, AppliedRows
    <3> QED
      BY <2>4, <3>1, <3>2
  <2>6. j \in DOMAIN t.rows
    BY <2>1, <2>5 DEF Alike
  <2>7. c.state[j] = "none"
    BY <2>3, <2>6 DEF Fits
  <2>8. c.state[k] = "none"
    BY <2>3, <2>7 DEF RowsHang
  <2>9. k \notin DOMAIN s.rows
    BY <2>3, <2>7, <2>8 DEF Fits
  <2>10. d.state[k] = "none"
    BY <1>1, <1>2, <1>6, <2>8, AppliedRows DEF Fits
  <2>11. e.state[k] = "none" /\ f.state[k] = "none"
    BY <1>2, <1>3, <1>4, <2>8, <2>9, <2>10, AppliedRows
  <2> QED
    BY <2>11 DEF C!Public
<1> QED
  BY <1>8, <1>9

LEMMA ComputeTyped ==
  ASSUME NEW c, NEW user
  PROVE  C!Compute(c, user) \in C!Progress
<1> DEFINE counted(category) ==
             {i \in C!OfCategory(category) : Author[i] = user /\ C!Public(c, i)}
           row(category) ==
             [ranked |-> counted(category) # {},
              medals |-> C!Cardinality({i \in counted(category) : C!VoteCount(c, i) >= Bronze[i]})]
<1>1. ASSUME NEW category \in C!Categories
      PROVE  row(category) \in [ranked : BOOLEAN, medals : 0 .. C!Cardinality(C!Items)]
  <2>1. {i \in counted(category) : C!VoteCount(c, i) >= Bronze[i]} \in SUBSET C!Items
    BY DEF C!OfCategory, C!Items
  <2>2. C!Cardinality({i \in counted(category) : C!VoteCount(c, i) >= Bronze[i]}) \in 0 .. C!Cardinality(C!Items)
    BY <2>1, ItemsFinite
  <2>3. (counted(category) # {}) \in BOOLEAN
    BY Zenon
  <2> HIDE DEF counted
  <2> QED
    BY <2>2, <2>3
<1>2. C!Compute(c, user) = [category \in C!Categories |-> row(category)]
  BY DEF C!Compute, C!Categories
<1> HIDE DEF row
<1> QED
  BY <1>1, <1>2 DEF C!Progress, C!Categories

\* What gives the user the same leaves what is computed as it is.
LEMMA SameCompute ==
  ASSUME NEW c, NEW d, NEW user, Same(c, d, user)
  PROVE  C!Compute(c, user) = C!Compute(d, user)
<1> DEFINE counted(e, category) ==
             {i \in C!OfCategory(category) : Author[i] = user /\ C!Public(e, i)}
           medals(e, category) == {i \in counted(e, category) : C!VoteCount(e, i) >= Bronze[i]}
           row(e, category) ==
             [ranked |-> counted(e, category) # {}, medals |-> C!Cardinality(medals(e, category))]
<1>1. ASSUME NEW category \in C!Categories
      PROVE  row(c, category) = row(d, category)
  <2>1. C!OfCategory(category) \subseteq C!Items
    BY DEF C!OfCategory, C!Items
  <2>2. counted(c, category) = counted(d, category)
    BY <2>1 DEF Same
  <2>3. ASSUME NEW i \in counted(c, category)
        PROVE  C!VoteCount(c, i) = C!VoteCount(d, i)
    <3>1. VotesOf(c, i) = VotesOf(d, i)
      BY <2>1 DEF Same
    <3> QED
      BY <3>1 DEF C!VoteCount, VotesOf
  <2>4. medals(c, category) = medals(d, category)
    <3> HIDE DEF counted
    <3> QED
      BY <2>2, <2>3
  <2> HIDE DEF medals, counted
  <2> QED
    BY <2>2, <2>4
<1>2. /\ C!Compute(c, user) = [category \in C!Categories |-> row(c, category)]
      /\ C!Compute(d, user) = [category \in C!Categories |-> row(d, category)]
  BY DEF C!Compute, C!Categories
<1> HIDE DEF row
<1> QED
  BY <1>1, <1>2

\* What is written, when nothing has changed since it was read, is what was computed.
LEMMA WritesComputed ==
  ASSUME NEW now \in C!Progress, NEW computed \in C!Progress
  PROVE  C!Written(now, now, computed) = computed
<1>1. ASSUME NEW category \in C!Categories
      PROVE  [ranked |-> IF now[category].ranked = computed[category].ranked
                         THEN now[category].ranked ELSE computed[category].ranked,
              medals |-> IF now[category].medals = computed[category].medals
                         THEN now[category].medals ELSE computed[category].medals]
                = computed[category]
  <2>1. computed[category] \in [ranked : BOOLEAN, medals : 0 .. C!Cardinality(C!Items)]
    BY DEF C!Progress, C!Categories
  <2>2. computed[category] = [ranked |-> computed[category].ranked,
                              medals |-> computed[category].medals]
    BY <2>1
  <2> QED
    BY <2>2
<1> QED
  BY <1>1 DEF C!Written, C!Progress, C!Categories

LEMMA WrittenTyped ==
  ASSUME NEW now \in C!Progress, NEW read \in C!Progress, NEW computed \in C!Progress
  PROVE  C!Written(now, read, computed) \in C!Progress
<1> DEFINE row(category) ==
       [ranked |-> IF read[category].ranked = computed[category].ranked
                   THEN now[category].ranked ELSE computed[category].ranked,
        medals |-> IF read[category].medals = computed[category].medals
                   THEN now[category].medals ELSE computed[category].medals]
<1>1. ASSUME NEW category \in C!Categories
      PROVE  row(category) \in [ranked : BOOLEAN, medals : 0 .. C!Cardinality(C!Items)]
  <2>1. /\ now[category].ranked \in BOOLEAN /\ now[category].medals \in 0 .. C!Cardinality(C!Items)
        /\ computed[category].ranked \in BOOLEAN
        /\ computed[category].medals \in 0 .. C!Cardinality(C!Items)
    BY DEF C!Progress, C!Categories
  <2> QED
    BY <2>1
<1>2. C!Written(now, read, computed) = [category \in C!Categories |-> row(category)]
  BY DEF C!Written, C!Categories
<1> HIDE DEF row
<1> QED
  BY <1>1, <1>2 DEF C!Progress, C!Categories

-----------------------------------------------------------------------------
(* A commit.                                                               *)

\* A change that fits does so after another one of other rows.
LEMMA FitsStill ==
  ASSUME NEW c \in ContentRows, NEW t, Fits(c, t), NEW s, Fits(c, s),
         \A j \in DOMAIN s.rows : s.rows[j] = "live" => j \notin DOMAIN t.rows
  PROVE  Fits(C!Applied(t, c), s)
<1>1. PICK d : d = C!Applied(t, c)
  OBVIOUS
<1>2. t \in C!Changes /\ s \in C!Changes
  BY DEF Fits
<1>3. \A j \in C!Items : d.state[j] = IF j \in DOMAIN t.rows THEN t.rows[j] ELSE c.state[j]
  BY <1>1, <1>2, AppliedRows
<1>4. \A j \in DOMAIN t.rows : t.rows[j] # "none"
  BY <1>2, ChangeFields
<1>5. \A j \in C!Items : c.state[j] # "none" => d.state[j] # "none"
  BY <1>3, <1>4
<1>6. \A j \in DOMAIN s.rows : j \in C!Items
  BY <1>2, ChangeFields
<1>7. \A j \in DOMAIN s.rows : s.rows[j] = "live" <=> d.state[j] = "none"
  BY <1>3, <1>5, <1>6 DEF Fits
<1>8. \A j \in DOMAIN s.rows : s.rows[j] = "live" => \A i \in C!Items : i < j => d.state[i] # "none"
  BY <1>5 DEF Fits
<1> QED
  BY <1>1, <1>7, <1>8 DEF Fits

\* Nothing comes to a user who is not reached, or of whom only rows go.
LEMMA NothingStill ==
  ASSUME NEW c \in ContentRows, NEW t, Fits(c, t), NEW s, NEW user, NothingOf(c, s, user),
         \A j \in DOMAIN t.rows : Author[j] = user => t.rows[j] = "gone"
  PROVE  NothingOf(C!Applied(t, c), s, user)
<1>1. PICK d : d = C!Applied(t, c)
  OBVIOUS
<1>2. t \in C!Changes
  BY DEF Fits
<1>3. \A j \in C!Items : d.state[j] = IF j \in DOMAIN t.rows THEN t.rows[j] ELSE c.state[j]
  BY <1>1, <1>2, AppliedRows
<1>4. ASSUME NEW k \in Scope(s), Author[k] = user
      PROVE  ~C!Exists(d, k)
  <2>1. k \in C!Items /\ ~C!Exists(c, k)
    BY <1>4, ReachScope DEF NothingOf
  <2> QED
    BY <1>3, <1>4, <2>1 DEF C!Exists
<1> QED
  BY <1>1, <1>4 DEF NothingOf

\* What a transaction under way relies on stays when another one commits.
LEMMA CommitBeside ==
  ASSUME NEW c \in ContentRows, RowsHang(c), NEW h, NEW g, NEW o \in SUBSET Members, NEW p,
         NEW t, Fits(c, t), NEW marks, marks \subseteq C!Reach(t),
         NEW x \in MarkedRows \cup ComputedRows, UnderWayHolds(c, h, o, x),
         NEW y \in MarkedRows \cup ComputedRows, y.pc = x.pc, y.change = x.change, y.marks = x.marks,
         y.locks = x.locks, y.alone = FALSE,
         x.pc = "computed" => y.read = x.read /\ y.computed = x.computed,
         \A j \in DOMAIN t.rows : t.rows[j] # "gone" => Author[j] \in marks,
         \A j \in DOMAIN t.rows : <<"item", j>> \notin x.locks,
         \A user \in Members : user \notin marks => g[user] = h[user],
         \A user \in Members \ p : user \in o => user \in marks,
         \A user \in Members \ p :
             user \in marks \cup x.marks => user \notin C!Reach(t) \cap C!Reach(x.change)
  PROVE  UnderWayHolds(C!Applied(t, c), g, p, y)
<1>1. PICK d : d = C!Applied(t, c)
  OBVIOUS
<1>2. PICK s : s = x.change
  OBVIOUS
<1>3. /\ Fits(c, s) /\ x.marks \subseteq C!Reach(s) /\ x.marks \subseteq Members
      /\ y.change = s
  BY <1>2, NotIdle DEF UnderWayHolds
<1>4. Fits(d, s)
  <2>1. \A j \in DOMAIN s.rows : s.rows[j] = "live" => j \notin DOMAIN t.rows
    BY <1>2 DEF UnderWayHolds
  <2> QED
    BY <1>1, <1>3, <2>1, FitsStill
<1>5. ASSUME NEW user \in Members \ (p \cup y.marks)
      PROVE  NothingOf(d, s, user)
  <2>1. CASE user \in C!Reach(s)
    <3>1. user \notin marks
      BY <1>2, <1>5, <2>1
    <3>2. NothingOf(c, s, user)
      BY <1>2, <1>5, <3>1 DEF UnderWayHolds
    <3> QED
      BY <1>1, <3>1, <3>2, NothingStill
  <2>2. CASE user \notin C!Reach(s)
    BY <2>2, ReachScope DEF NothingOf
  <2> QED
    BY <2>1, <2>2
<1>6. ASSUME x.pc = "computed", NEW user \in x.marks, user \notin p
      PROVE  x.read[user] = g[user] /\ x.computed[user] = C!Compute(C!Applied(s, d), user)
  <2>1. user \in Members /\ user \notin C!Reach(t) /\ user \notin marks
    BY <1>2, <1>3, <1>6
  <2>2. user \notin o
    BY <1>6, <2>1
  <2>3. x.read[user] = h[user] /\ x.computed[user] = C!Compute(C!Applied(s, c), user)
    BY <1>2, <1>6, <2>2 DEF UnderWayHolds
  <2>4. Same(C!Applied(s, c), C!Applied(s, d), user)
    BY <1>1, <1>3, <2>1, Apart
  <2> QED
    BY <2>1, <2>3, <2>4, SameCompute
<1>7. \A j \in DOMAIN s.rows :
          /\ s.rows[j] # "gone" => Author[j] \in y.marks
          /\ s.rows[j] = "live" \/ y.pc = "computed" => <<"item", j>> \in y.locks
  BY <1>2 DEF UnderWayHolds
<1>8. y.pc = "computed" => DOMAIN y.read = y.marks /\ DOMAIN y.computed = y.marks
  BY DEF UnderWayHolds
<1> QED
  BY <1>1, <1>3, <1>4, <1>5, <1>6, <1>7, <1>8 DEF UnderWayHolds

LEMMA CacheCommits ==
  ASSUME CommunityInv, NEW t, NEW marks \in SUBSET Members, NEW values,
         NEW clears \in SUBSET marks, NEW others \in SUBSET Slow,
         C!Commit(t, marks, values, clears, others),
         Fits(content, t), marks \subseteq C!Reach(t),
         \A user \in marks : values[user] \in C!Progress,
         \A user \in marks : user \in clears \/ user \notin overlapped =>
             values[user] = C!Compute(C!Applied(t, content), user),
         \A j \in DOMAIN t.rows : t.rows[j] # "gone" => Author[j] \in marks,
         \A user \in Members \ (overlapped \cup marks) : NothingOf(content, t, user),
         \A q \in others, j \in DOMAIN t.rows : <<"item", j>> \notin tx[q].locks
  PROVE  CommunityInv'
<1>0. PICK c \in ContentRows, h \in [Members -> C!Progress], o \in SUBSET Members :
         c = content /\ h = cache /\ o = overlapped
  BY DEF CommunityInv, CommunityTypes
<1>1. PICK d : c = content /\ h = cache /\ o = overlapped /\ d = C!Applied(t, c)
  BY <1>0
<1>2. /\ content' = d
      /\ cache' = [u \in Members |-> IF u \in marks THEN values[u] ELSE h[u]]
      /\ overlapped' = (o \ clears) \cup
             {u \in Members : \E q \in C!UnderWay(others) :
                 u \in (marks \cup tx[q].marks) \cap C!Reach(t) \cap C!Reach(tx[q].change)}
      /\ tx' = [q \in Slow |-> IF q \notin others THEN C!Idle
                               ELSE IF tx[q] = C!Idle THEN C!Idle
                               ELSE [tx[q] EXCEPT !.alone = FALSE]]
  BY <1>1 DEF C!Commit
<1>3. RowsHang(c) /\ t \in C!Changes /\ Fits(c, t)
  BY <1>1 DEF CommunityInv, CommunityTypes, Fits
<1>4. d \in ContentRows /\ RowsHang(d)
  BY <1>1, <1>3, AppliedRows, StillHangs
<1>5. PICK g, p : g = cache' /\ p = overlapped'
  OBVIOUS
<1>6. /\ g \in [Members -> C!Progress] /\ p \in SUBSET Members
      /\ \A u \in Members : g[u] = IF u \in marks THEN values[u] ELSE h[u]
  BY <1>2, <1>5
<1>7. ASSUME NEW user \in Members \ p
      PROVE  /\ user \in o => user \in clears
             /\ \A q \in others : tx[q] # C!Idle /\ user \in marks \cup tx[q].marks =>
                    user \notin C!Reach(t) \cap C!Reach(tx[q].change)
  BY <1>2, <1>5, <1>7 DEF C!UnderWay
<1>8. ASSUME NEW user \in Members \ p
      PROVE  g[user] = C!Compute(d, user)
  <2>1. CASE user \in marks
    BY <1>1, <1>6, <1>7, <1>8, <2>1
  <2>2. CASE user \notin marks
    <3>1. user \notin o /\ g[user] = h[user] /\ h[user] = C!Compute(c, user)
      BY <1>1, <1>6, <1>7, <1>8, <2>2 DEF CommunityInv
    <3>2. NothingOf(c, t, user) /\ \A j \in DOMAIN t.rows : Author[j] = user => t.rows[j] = "gone"
      BY <1>1, <2>2, <3>1
    <3>3. Same(c, d, user)
      BY <1>1, <1>3, <3>2, Untouched
    <3> QED
      BY <3>1, <3>3, SameCompute
  <2> QED
    BY <2>1, <2>2
<1>9. ASSUME NEW q \in Slow
      PROVE  /\ tx'[q] = C!Idle \/ tx'[q] \in MarkedRows \cup ComputedRows
             /\ tx'[q] # C!Idle => UnderWayHolds(d, g, p, tx'[q])
             /\ tx'[q].locks \subseteq tx[q].locks
  <2>1. CASE q \notin others \/ tx[q] = C!Idle
    <3>1. tx'[q] = C!Idle
      BY <1>2, <2>1
    <3> QED
      BY <3>1 DEF C!Idle
  <2>2. CASE q \in others /\ tx[q] # C!Idle
    <3>1. PICK x \in MarkedRows \cup ComputedRows : x = tx[q]
      BY <2>2 DEF CommunityInv, CommunityTypes
    <3>2. PICK y : y = [x EXCEPT !.alone = FALSE]
      OBVIOUS
    <3>3. tx'[q] = y
      BY <1>2, <2>2, <3>1, <3>2
    <3>4. /\ y \in MarkedRows \cup ComputedRows /\ y.pc = x.pc /\ y.change = x.change /\ y.marks = x.marks
          /\ y.locks = x.locks /\ y.alone = FALSE
          /\ x.pc = "computed" => y.read = x.read /\ y.computed = x.computed
      BY <3>2, Overtaken
    <3>5. UnderWayHolds(c, h, o, x)
      BY <1>1, <2>2, <3>1 DEF CommunityInv
    <3>6. \A j \in DOMAIN t.rows : <<"item", j>> \notin x.locks
      BY <2>2, <3>1
    <3>7. /\ \A user \in Members : user \notin marks => g[user] = h[user]
          /\ \A user \in Members \ p : user \in o => user \in marks
          /\ \A user \in Members \ p :
                user \in marks \cup x.marks => user \notin C!Reach(t) \cap C!Reach(x.change)
      BY <1>6, <1>7, <2>2, <3>1
    <3>8. UnderWayHolds(C!Applied(t, c), g, p, y)
      BY <1>3, <3>4, <3>5, <3>6, <3>7, CommitBeside
    <3>9. UnderWayHolds(d, g, p, y)
      BY <1>1, <3>8
    <3> QED
      BY <3>1, <3>3, <3>4, <3>9
  <2> QED
    BY <2>1, <2>2
<1>10. DOMAIN tx' = Slow
  BY <1>2
<1>11. RowsExclude'
  BY <1>9 DEF CommunityInv, RowsExclude
<1> QED
  BY <1>2, <1>4, <1>5, <1>6, <1>8, <1>9, <1>10, <1>11 DEF CommunityInv, CommunityTypes

-----------------------------------------------------------------------------
(* Transactions.                                                           *)

\* One transaction goes on, or ends, and nothing else happens.
LEMMA OneMoves ==
  ASSUME CommunityInv, UNCHANGED <<content, cache, overlapped>>, NEW r \in Slow, NEW x,
         tx' = [tx EXCEPT ![r] = x],
         x = C!Idle \/ (x \in MarkedRows \cup ComputedRows
                        /\ UnderWayHolds(content, cache, overlapped, x)),
         \A q \in Slow \ {r} : x.locks \cap tx[q].locks = {}
  PROVE  CommunityInv'
<1>1. DOMAIN tx = Slow
  BY DEF CommunityInv, CommunityTypes
<1>2. DOMAIN tx' = Slow /\ tx'[r] = x /\ \A q \in Slow \ {r} : tx'[q] = tx[q]
  BY <1>1
<1>3. CommunityTypes'
  BY <1>2 DEF CommunityInv, CommunityTypes
<1>4. RowsExclude'
  BY <1>2 DEF CommunityInv, RowsExclude
<1>5. ASSUME NEW q \in Slow, tx'[q] # C!Idle
      PROVE  UnderWayHolds(content, cache, overlapped, tx'[q])
  BY <1>2, <1>5 DEF CommunityInv
<1>6. \A user \in Members \ overlapped' : cache'[user] = C!Compute(content', user)
  BY DEF CommunityInv
<1> QED
  BY <1>3, <1>4, <1>5, <1>6 DEF CommunityInv

LEMMA Transactions ==
  ASSUME CommunityInv, NEW t, NEW marks \in SUBSET Members, NEW locks \in SUBSET Locks,
         C!Transaction(t, marks, locks),
         Fits(content, t), marks \subseteq C!Reach(t),
         \A j \in DOMAIN t.rows : /\ t.rows[j] # "gone" => Author[j] \in marks
                                  /\ t.rows[j] = "live" => <<"item", j>> \in locks,
         \A user \in Members \ marks : NothingOf(content, t, user)
  PROVE  CommunityInv'
<1>1. CASE C!Run(t, marks, locks)
  <2>1. PICK values : values = [u \in marks |-> C!Compute(C!Applied(t, content), u)]
    OBVIOUS
  <2>2. C!Commit(t, marks, values, marks, Slow) /\ C!Free(locks \cup C!Row(DOMAIN t.rows), Slow)
    BY <1>1, <2>1 DEF C!Run
  <2>3. \A user \in marks : /\ values[user] = C!Compute(C!Applied(t, content), user)
                            /\ values[user] \in C!Progress
    BY <2>1, ComputeTyped
  <2>4. \A q \in Slow, j \in DOMAIN t.rows : <<"item", j>> \notin tx[q].locks
    BY <2>2 DEF C!Free, C!Row
  <2>5. \A user \in Members \ (overlapped \cup marks) : NothingOf(content, t, user)
    OBVIOUS
  <2>6. \A j \in DOMAIN t.rows : t.rows[j] # "gone" => Author[j] \in marks
    OBVIOUS
  <2> QED
    BY <2>2, <2>3, <2>4, <2>5, <2>6, CacheCommits
<1>2. ASSUME NEW r \in Slow, C!Start(r, t, marks, locks)
      PROVE  CommunityInv'
  <2>1. PICK x : x = [pc |-> "marked", change |-> t, marks |-> marks, locks |-> locks,
                      alone |-> TRUE]
    OBVIOUS
  <2>2. /\ tx' = [tx EXCEPT ![r] = x] /\ C!Free(locks, Slow)
        /\ UNCHANGED <<content, cache, overlapped>>
    BY <1>2, <2>1 DEF C!Start
  <2>3. t \in C!Changes
    BY DEF Fits
  <2>4. /\ x \in MarkedRows /\ x.pc = "marked" /\ x.change = t /\ x.marks = marks
        /\ x.locks = locks
    BY <2>1, <2>3 DEF MarkedRows
  <2>5. UnderWayHolds(content, cache, overlapped, x)
    BY <2>4 DEF UnderWayHolds
  <2>6. \A q \in Slow \ {r} : x.locks \cap tx[q].locks = {}
    BY <2>2, <2>4 DEF C!Free
  <2> QED
    BY <2>2, <2>4, <2>5, <2>6, OneMoves
<1> QED
  BY <1>1, <1>2 DEF C!Transaction

\* What a removal finds when it locks: it fits, and concerns what it did.
LEMMA RemovalFits ==
  ASSUME NEW c \in ContentRows, RowsHang(c), NEW i \in C!Items
  PROVE  /\ Fits(c, C!Removal(c, i)) /\ C!Removal(c, i).item = i /\ C!Removal(c, i).deep = TRUE
         /\ \A j \in DOMAIN C!Removal(c, i).rows : C!Removal(c, i).rows[j] = "gone"
<1>0. PICK t : t = C!Removal(c, i)
  OBVIOUS
<1>1. PICK below : below = {j \in C!Items : j >= i /\ C!Exists(c, j)}
  OBVIOUS
<1>2. PICK drops : drops = IF i = C!Reply THEN {} ELSE below \X Members
  OBVIOUS
<1>3. t = [item |-> i, deep |-> TRUE, late |-> (i # C!Dataset), rows |-> [j \in below |-> "gone"],
           withholds |-> {}, restores |-> {}, adds |-> {}, drops |-> drops]
  BY <1>0, <1>1, <1>2 DEF C!Removal, C!Change
<1>4. below \subseteq C!Items /\ drops \subseteq C!Votes
  BY <1>1, <1>2 DEF C!Votes
<1>5. [j \in below |-> "gone"] \in UNION {[S -> {"live", "placeholder", "gone"}] : S \in SUBSET C!Items}
  BY <1>4
<1>6. /\ t \in C!Changes /\ t.item = i /\ t.deep = TRUE /\ t.withholds = {} /\ t.restores = {}
      /\ t.adds = {} /\ t.drops = drops /\ DOMAIN t.rows = below
      /\ \A j \in below : t.rows[j] = "gone"
  BY <1>3, <1>4, <1>5 DEF C!Changes
<1>7. below \subseteq Scope(t) /\ \A v \in drops : v[1] \in below
  BY <1>1, <1>2, <1>6, Numbers DEF Scope
<1>8. \A j \in below : C!Exists(c, j) /\ c.state[j] # "none"
  BY <1>1 DEF C!Exists
<1>9. Fits(c, t)
  BY <1>6, <1>7, <1>8 DEF Fits
<1> QED
  BY <1>0, <1>6, <1>9

LEMMA Refreshes == ASSUME CommunityInv, NEW r \in Slow, C!Refresh(r) PROVE CommunityInv'
<1>1. PICK x \in MarkedRows : x = tx[r]
  BY NotIdle DEF CommunityInv, CommunityTypes, C!Refresh
<1>2. /\ x.change \in C!Changes /\ x.marks \subseteq Members /\ x.locks \subseteq Locks
      /\ x.alone \in BOOLEAN /\ x # C!Idle
  BY NotIdle
<1>3. UnderWayHolds(content, cache, overlapped, x) /\ content \in ContentRows /\ RowsHang(content)
  BY <1>1, <1>2 DEF CommunityInv, CommunityTypes
<1>4. PICK old, t, locks :
         /\ old = x.change /\ t = IF old.late THEN C!Removal(content, old.item) ELSE old
         /\ locks = x.locks \cup C!Row({old.item}) \cup C!Row(DOMAIN t.rows)
  OBVIOUS
<1>5. PICK read, computed :
         /\ read = [u \in x.marks |-> cache[u]]
         /\ computed = [u \in x.marks |-> C!Compute(C!Applied(t, content), u)]
  OBVIOUS
<1>6. PICK y : y = [pc |-> "computed", change |-> t, marks |-> x.marks, locks |-> locks,
                    alone |-> x.alone, read |-> read, computed |-> computed]
  OBVIOUS
<1>7. /\ tx' = [tx EXCEPT ![r] = y] /\ C!Free(locks, Slow \ {r})
      /\ UNCHANGED <<content, cache, overlapped>>
  BY <1>1, <1>4, <1>5, <1>6 DEF C!Refresh
<1>8. Fits(content, old) /\ old.item \in C!Items
  BY <1>2, <1>3, <1>4, ChangeFields DEF UnderWayHolds
<1>9. /\ Fits(content, t) /\ Scope(t) = Scope(old)
      /\ \A j \in DOMAIN t.rows : t.rows[j] # "gone" => Author[j] \in x.marks
  <2>1. CASE old.late
    <3>1. t = C!Removal(content, old.item) /\ old.deep
      BY <1>4, <1>8, <2>1 DEF Fits
    <3>2. PICK c \in ContentRows, i \in C!Items : c = content /\ i = old.item
      BY <1>3, <1>8
    <3>2a. RowsHang(c) /\ t = C!Removal(c, i)
      BY <1>3, <3>1, <3>2
    <3>3. /\ Fits(c, t) /\ t.item = i /\ t.deep = TRUE
          /\ \A j \in DOMAIN t.rows : t.rows[j] = "gone"
      BY <3>2a, RemovalFits
    <3> QED
      BY <3>1, <3>2, <3>3 DEF Scope
  <2>2. CASE ~old.late
    BY <1>3, <1>4, <1>8, <2>2 DEF UnderWayHolds
  <2> QED
    BY <2>1, <2>2
<1>10. t \in C!Changes /\ DOMAIN t.rows \subseteq C!Items
  BY <1>9, ChangeFields DEF Fits
<1>11. locks \subseteq Locks /\ \A j \in DOMAIN t.rows : <<"item", j>> \in locks
  BY <1>2, <1>4, <1>8, <1>10 DEF C!Row, Locks
<1>12. read \in Tables /\ computed \in Tables /\ DOMAIN read = x.marks /\ DOMAIN computed = x.marks
  <2>1. \A u \in x.marks : cache[u] \in C!Progress
    BY <1>2 DEF CommunityInv, CommunityTypes
  <2>2. \A u \in x.marks : C!Compute(C!Applied(t, content), u) \in C!Progress
    BY ComputeTyped
  <2>3. read \in [x.marks -> C!Progress] /\ computed \in [x.marks -> C!Progress]
    BY <1>5, <2>1, <2>2
  <2> QED
    BY <1>2, <2>3 DEF Tables
<1>13. /\ y \in ComputedRows /\ y.pc = "computed" /\ y.change = t /\ y.marks = x.marks
       /\ y.locks = locks /\ y.alone = x.alone /\ y.read = read /\ y.computed = computed
  BY <1>2, <1>6, <1>10, <1>11, <1>12 DEF ComputedRows
<1>14. \A user \in Members \ (overlapped \cup x.marks) : NothingOf(content, t, user)
  BY <1>3, <1>4, <1>9 DEF UnderWayHolds, NothingOf
<1>15. x.marks \subseteq C!Reach(t)
  BY <1>3, <1>4, <1>9, ReachScope DEF UnderWayHolds
<1>16. UnderWayHolds(content, cache, overlapped, y)
  BY <1>5, <1>9, <1>11, <1>12, <1>13, <1>14, <1>15 DEF UnderWayHolds
<1>17. \A q \in Slow \ {r} : y.locks \cap tx[q].locks = {}
  BY <1>7, <1>13 DEF C!Free
<1> QED
  BY <1>7, <1>13, <1>16, <1>17, OneMoves

LEMMA TransactionsEnd == ASSUME CommunityInv, NEW r \in Slow, C!Finish(r) PROVE CommunityInv'
<1>1. PICK x \in ComputedRows : x = tx[r]
  BY NotIdle DEF CommunityInv, CommunityTypes, C!Finish
<1>2. PICK t, marks, values, clears :
         /\ t = x.change /\ marks = x.marks
         /\ values = [u \in marks |-> C!Written(cache[u], x.read[u], x.computed[u])]
         /\ clears = IF x.alone THEN marks ELSE {}
  OBVIOUS
<1>3. C!Commit(t, marks, values, clears, Slow \ {r})
  BY <1>1, <1>2 DEF C!Finish
<1>4. /\ marks \in SUBSET Members /\ clears \in SUBSET marks /\ x.pc = "computed"
      /\ x # C!Idle /\ x.alone \in BOOLEAN
  BY <1>2, NotIdle
<1>5. UnderWayHolds(content, cache, overlapped, x)
  BY <1>1, <1>4 DEF CommunityInv
<1>6. /\ Fits(content, t) /\ marks \subseteq C!Reach(t)
      /\ \A j \in DOMAIN t.rows : /\ t.rows[j] # "gone" => Author[j] \in marks
                                  /\ <<"item", j>> \in x.locks
  BY <1>2, <1>4, <1>5 DEF UnderWayHolds
<1>6a. \A user \in Members \ (overlapped \cup marks) : NothingOf(content, t, user)
  BY <1>2, <1>5 DEF UnderWayHolds
<1>6b. Fits(content, t) /\ marks \subseteq C!Reach(t)
  BY <1>6
<1>7. \A user \in marks : /\ cache[user] \in C!Progress /\ x.read[user] \in C!Progress
                          /\ x.computed[user] \in C!Progress
  <2>1. x.read \in Tables /\ x.computed \in Tables /\ cache \in [Members -> C!Progress]
    BY DEF ComputedRows, CommunityInv, CommunityTypes
  <2>2. DOMAIN x.read = marks /\ DOMAIN x.computed = marks
    BY <1>2, <1>4, <1>5 DEF UnderWayHolds
  <2>3. PICK S \in SUBSET Members : x.read \in [S -> C!Progress]
    BY <2>1 DEF Tables
  <2>4. PICK T \in SUBSET Members : x.computed \in [T -> C!Progress]
    BY <2>1 DEF Tables
  <2> QED
    BY <1>4, <2>1, <2>2, <2>3, <2>4
<1>8. \A user \in marks : values[user] \in C!Progress
  BY <1>2, <1>7, WrittenTyped
<1>9. ASSUME NEW user \in marks, user \in clears \/ user \notin overlapped
      PROVE  values[user] = C!Compute(C!Applied(t, content), user)
  <2>1. x.alone \/ user \notin overlapped
    BY <1>2, <1>9
  <2>2. x.read[user] = cache[user] /\ x.computed[user] = C!Compute(C!Applied(t, content), user)
    BY <1>2, <1>4, <1>5, <2>1 DEF UnderWayHolds
  <2>3. C!Written(cache[user], cache[user], x.computed[user]) = x.computed[user]
    BY <1>7, WritesComputed
  <2> QED
    BY <1>2, <2>2, <2>3
<1>10. \A q \in Slow \ {r}, j \in DOMAIN t.rows : <<"item", j>> \notin tx[q].locks
  BY <1>1, <1>6 DEF CommunityInv, RowsExclude
<1>11. \A j \in DOMAIN t.rows : t.rows[j] # "gone" => Author[j] \in marks
  BY <1>6
<1>12. PICK others \in SUBSET Slow : others = Slow \ {r}
  OBVIOUS
<1>13. C!Commit(t, marks, values, clears, others)
  BY <1>3, <1>12
<1>14. \A q \in others, j \in DOMAIN t.rows : <<"item", j>> \notin tx[q].locks
  BY <1>10, <1>12
<1>15. \A user \in marks : user \in clears \/ user \notin overlapped =>
          values[user] = C!Compute(C!Applied(t, content), user)
  BY <1>9
<1> QED
  BY <1>4, <1>6a, <1>6b, <1>8, <1>11, <1>13, <1>14, <1>15, CacheCommits

LEMMA Aborts == ASSUME CommunityInv, NEW r \in Slow, C!Abort(r) PROVE CommunityInv'
<1>1. PICK x : x = C!Idle
  OBVIOUS
<1>2. tx' = [tx EXCEPT ![r] = x] /\ UNCHANGED <<content, cache, overlapped>>
  BY <1>1 DEF C!Abort
<1>3. \A q \in Slow \ {r} : x.locks \cap tx[q].locks = {}
  BY <1>1 DEF C!Idle
<1> QED
  BY <1>1, <1>2, <1>3, OneMoves

LEMMA Recalculates == ASSUME CommunityInv, C!Recalculate PROVE CommunityInv'
<1>1. /\ content' = content /\ cache' = [u \in Members |-> C!Compute(content, u)]
      /\ overlapped' = overlapped \cap UNION {C!Reach(tx[q].change) : q \in C!UnderWay(Slow)}
      /\ tx' = [q \in Slow |-> IF tx[q] = C!Idle THEN C!Idle ELSE [tx[q] EXCEPT !.alone = FALSE]]
  BY DEF C!Recalculate
<1>2. \A u \in Members : cache'[u] = C!Compute(content, u) /\ C!Compute(content, u) \in C!Progress
  BY <1>1, ComputeTyped
<1>3. cache' \in [Members -> C!Progress] /\ overlapped' \subseteq overlapped
  BY <1>1, <1>2
<1>4. PICK h, p : h = cache' /\ p = overlapped'
  OBVIOUS
<1>5. ASSUME NEW q \in Slow
      PROVE  /\ tx'[q] = C!Idle \/ tx'[q] \in MarkedRows \cup ComputedRows
             /\ tx'[q] # C!Idle => UnderWayHolds(content, h, p, tx'[q])
             /\ tx'[q].locks = tx[q].locks
  <2>1. CASE tx[q] = C!Idle
    BY <1>1, <2>1
  <2>2. CASE tx[q] # C!Idle
    <3>1. PICK x \in MarkedRows \cup ComputedRows : x = tx[q]
      BY <2>2 DEF CommunityInv, CommunityTypes
    <3>2. PICK y : y = [x EXCEPT !.alone = FALSE]
      OBVIOUS
    <3>3. tx'[q] = y
      BY <1>1, <2>2, <3>1, <3>2
    <3>4. /\ y \in MarkedRows \cup ComputedRows /\ y.pc = x.pc /\ y.change = x.change /\ y.marks = x.marks
          /\ y.locks = x.locks /\ y.alone = FALSE
          /\ x.pc = "computed" => y.read = x.read /\ y.computed = x.computed
      BY <3>2, Overtaken
    <3>5. UnderWayHolds(content, cache, overlapped, x) /\ x.marks \subseteq Members
      BY <2>2, <3>1, NotIdle DEF CommunityInv
    <3>6. \A user \in Members : user \in C!Reach(x.change) /\ user \notin p => user \notin overlapped
      BY <1>1, <1>4, <2>2, <3>1 DEF C!UnderWay
    <3>7. ASSUME NEW user \in Members \ (p \cup y.marks)
          PROVE  NothingOf(content, y.change, user)
      <4>1. CASE user \in C!Reach(x.change)
        BY <3>4, <3>5, <3>6, <3>7, <4>1 DEF UnderWayHolds
      <4>2. CASE user \notin C!Reach(x.change)
        BY <3>4, <4>2, ReachScope DEF NothingOf
      <4> QED
        BY <4>1, <4>2
    <3>8. ASSUME y.pc = "computed", NEW user \in y.marks, user \notin p
          PROVE  y.read[user] = h[user] /\ y.computed[user] = C!Compute(C!Applied(y.change, content), user)
      <4>1. user \in x.marks /\ user \in Members /\ user \notin overlapped
        BY <3>4, <3>5, <3>6, <3>8 DEF UnderWayHolds
      <4>2. x.read[user] = cache[user] /\ x.computed[user] = C!Compute(C!Applied(x.change, content), user)
        BY <3>4, <3>5, <3>8, <4>1 DEF UnderWayHolds
      <4>3. cache[user] = C!Compute(content, user) /\ h[user] = C!Compute(content, user)
        BY <1>2, <1>4, <4>1 DEF CommunityInv
      <4> QED
        BY <3>4, <3>8, <4>2, <4>3
    <3>9. UnderWayHolds(content, h, p, y)
      BY <3>4, <3>5, <3>7, <3>8 DEF UnderWayHolds
    <3> QED
      BY <3>1, <3>3, <3>4, <3>9
  <2> QED
    BY <2>1, <2>2
<1>6. DOMAIN tx' = Slow
  BY <1>1
<1>7. RowsExclude'
  BY <1>5 DEF CommunityInv, RowsExclude
<1> QED
  BY <1>1, <1>2, <1>3, <1>4, <1>5, <1>6, <1>7 DEF CommunityInv, CommunityTypes

-----------------------------------------------------------------------------
(* What each transaction does.                                             *)

\* The owners of what hangs on i are marked: the others have nothing there.
LEMMA RelatedOthers ==
  ASSUME NEW c, NEW i \in C!Items, NEW t, t.item = i, t.deep = TRUE
  PROVE  /\ C!Related(c, i) \subseteq C!Reach(t) /\ C!Related(c, i) \subseteq Members
         /\ \A user \in Members \ C!Related(c, i) : NothingOf(c, t, user)
<1>1. \A k \in C!Items : k >= i <=> k = i \/ k > i
  BY Numbers
<1> QED
  BY <1>1, CommunityBounds DEF C!Related, C!Reach, Scope, NothingOf

LEMMA EmptyRows ==
  [j \in {} |-> "gone"] \in UNION {[S -> {"live", "placeholder", "gone"}] : S \in SUBSET C!Items}
  /\ DOMAIN [j \in {} |-> "gone"] = {}
<1>1. {} \in SUBSET C!Items /\ [j \in {} |-> "gone"] \in [{} -> {"live", "placeholder", "gone"}]
  OBVIOUS
<1> QED
  BY <1>1

LEMMA Creates ==
  ASSUME CommunityInv, NEW i \in C!Items \ {C!Dataset}, C!Create(i)
  PROVE  CommunityInv'
<1>1. content \in ContentRows /\ RowsHang(content) /\ Author[i] \in Members
  BY CommunityBounds DEF CommunityInv, CommunityTypes
<1>2. PICK t, rows : t = C!Creation(i) /\ rows = [j \in {i} |-> "live"]
  OBVIOUS
<1>3. t = [item |-> i, deep |-> FALSE, late |-> FALSE, rows |-> rows,
           withholds |-> {}, restores |-> {}, adds |-> {}, drops |-> {}]
  BY <1>2 DEF C!Creation, C!Change
<1>4. {i} \in SUBSET C!Items /\ rows \in [{i} -> {"live", "placeholder", "gone"}]
  BY <1>2
<1>5. rows \in UNION {[S -> {"live", "placeholder", "gone"}] : S \in SUBSET C!Items}
  BY <1>4
<1>6. /\ t \in C!Changes /\ t.item = i /\ t.deep = FALSE /\ t.late = FALSE /\ t.withholds = {}
      /\ t.restores = {} /\ t.adds = {} /\ t.drops = {} /\ t.rows = rows /\ DOMAIN rows = {i}
      /\ rows[i] = "live"
  BY <1>2, <1>3, <1>5 DEF C!Changes
<1>7. /\ content.state[i] = "none" /\ content.state[i - 1] = "live"
      /\ C!Transaction(t, {Author[i]}, C!Row(C!Topic .. i))
  BY <1>2 DEF C!Create
<1>8. \A j \in C!Items : j < i => content.state[j] # "none"
  <2> SUFFICES ASSUME NEW j \in C!Items, j < i
               PROVE  content.state[j] # "none"
    OBVIOUS
  <2>1. i - 1 \in C!Items /\ (j = i - 1 \/ j < i - 1)
    BY Numbers
  <2> QED
    BY <1>1, <1>7, <2>1 DEF RowsHang
<1>9. Scope(t) = {i}
  BY <1>6 DEF Scope
<1>10. Fits(content, t)
  BY <1>6, <1>7, <1>8, <1>9 DEF Fits
<1>11. {Author[i]} \subseteq C!Reach(t) /\ \A user \in Members \ {Author[i]} : NothingOf(content, t, user)
  BY <1>9, ReachScope DEF NothingOf
<1>12. C!Row(C!Topic .. i) \in SUBSET Locks /\ <<"item", i>> \in C!Row(C!Topic .. i)
  <2>1. C!Topic .. i \subseteq C!Items /\ i \in C!Topic .. i
    BY Numbers
  <2> QED
    BY <2>1 DEF C!Row, Locks
<1>13. \A j \in DOMAIN t.rows : /\ t.rows[j] # "gone" => Author[j] \in {Author[i]}
                                /\ t.rows[j] = "live" => <<"item", j>> \in C!Row(C!Topic .. i)
  BY <1>6, <1>12
<1> QED
  BY <1>1, <1>7, <1>10, <1>11, <1>12, <1>13, Transactions

LEMMA Deletes ==
  ASSUME CommunityInv, NEW i \in C!Items \ {C!Dataset}, C!Delete(i)
  PROVE  CommunityInv'
<1>1. content \in ContentRows /\ RowsHang(content) /\ i \in 1 .. i
  BY Numbers DEF CommunityInv, CommunityTypes
<1>2. PICK t, status, rows :
         /\ t = C!Deletion(content, i)
         /\ status = IF i < C!Reply /\ C!Exists(content, i + 1) THEN "placeholder" ELSE "gone"
         /\ rows = [j \in {i} |-> status]
  OBVIOUS
<1>3. t = [item |-> i, deep |-> TRUE, late |-> FALSE, rows |-> rows,
           withholds |-> {}, restores |-> {}, adds |-> {}, drops |-> {i} \X Members]
  BY <1>2 DEF C!Deletion, C!Change
<1>4. /\ {i} \in SUBSET C!Items /\ rows \in [{i} -> {"live", "placeholder", "gone"}]
      /\ {i} \X Members \subseteq C!Votes
  BY <1>2 DEF C!Votes
<1>5. rows \in UNION {[S -> {"live", "placeholder", "gone"}] : S \in SUBSET C!Items}
  BY <1>4
<1>6. /\ t \in C!Changes /\ t.item = i /\ t.deep = TRUE /\ t.late = FALSE /\ t.withholds = {}
      /\ t.restores = {} /\ t.adds = {} /\ t.drops = {i} \X Members /\ t.rows = rows
      /\ DOMAIN rows = {i} /\ rows[i] \in {"placeholder", "gone"}
  BY <1>2, <1>3, <1>4, <1>5 DEF C!Changes
<1>7. /\ C!Exists(content, i)
      /\ C!Transaction(t, C!Related(content, i), C!Row(C!Topic .. i - 1))
  BY <1>1, <1>2 DEF C!Delete, C!Visible
<1>8. i \in Scope(t) /\ content.state[i] # "none" /\ Author[i] \in C!Related(content, i)
  BY <1>6, <1>7, Numbers DEF Scope, C!Exists, C!Related
<1>9. Fits(content, t)
  BY <1>6, <1>8 DEF Fits
<1>10. C!Row(C!Topic .. i - 1) \in SUBSET Locks
  <2>1. C!Topic .. i - 1 \subseteq C!Items
    BY Numbers
  <2> QED
    BY <2>1 DEF C!Row, Locks
<1>11. \A j \in DOMAIN t.rows : /\ t.rows[j] # "gone" => Author[j] \in C!Related(content, i)
                                /\ t.rows[j] = "live" => <<"item", j>> \in C!Row(C!Topic .. i - 1)
  BY <1>6, <1>8
<1>12. /\ C!Related(content, i) \subseteq C!Reach(t) /\ C!Related(content, i) \subseteq Members
       /\ \A user \in Members \ C!Related(content, i) : NothingOf(content, t, user)
  BY <1>6, RelatedOthers
<1> QED
  BY <1>1, <1>7, <1>9, <1>10, <1>11, <1>12, Transactions

LEMMA Withholds ==
  ASSUME CommunityInv, NEW i \in C!Items, NEW reason \in {"hidden", "private"}, NEW on \in BOOLEAN,
         C!Transaction(C!Withholding(i, reason, on), C!Related(content, i), C!Row({i}))
  PROVE  CommunityInv'
<1>1. PICK t, withholds, restores :
         /\ t = C!Withholding(i, reason, on)
         /\ withholds = IF on THEN {<<reason, i>>} ELSE {}
         /\ restores = IF on THEN {} ELSE {<<reason, i>>}
  OBVIOUS
<1>2. t = [item |-> i, deep |-> TRUE, late |-> FALSE, rows |-> [j \in {} |-> "gone"],
           withholds |-> withholds, restores |-> restores, adds |-> {}, drops |-> {}]
  BY <1>1 DEF C!Withholding, C!Change
<1>3. /\ withholds \subseteq C!Withheld /\ restores \subseteq C!Withheld
      /\ \A w \in withholds \cup restores : w[2] = i
  BY <1>1 DEF C!Withheld
<1>4. /\ t \in C!Changes /\ t.item = i /\ t.deep = TRUE /\ t.late = FALSE /\ DOMAIN t.rows = {}
      /\ t.withholds = withholds /\ t.restores = restores /\ t.adds = {} /\ t.drops = {}
  BY <1>2, <1>3, EmptyRows DEF C!Changes
<1>5. i \in Scope(t)
  BY <1>4 DEF Scope
<1>6. Fits(content, t)
  BY <1>3, <1>4, <1>5 DEF Fits
<1>7. C!Row({i}) \in SUBSET Locks
  BY DEF C!Row, Locks
<1>8. /\ C!Related(content, i) \subseteq C!Reach(t) /\ C!Related(content, i) \subseteq Members
      /\ \A user \in Members \ C!Related(content, i) : NothingOf(content, t, user)
  BY <1>4, RelatedOthers
<1>9. C!Transaction(t, C!Related(content, i), C!Row({i}))
  BY <1>1
<1> QED
  BY <1>4, <1>6, <1>7, <1>8, <1>9, Transactions

LEMMA ItemsGo ==
  ASSUME CommunityInv, NEW i \in C!Items, C!Remove(i)
  PROVE  CommunityInv'
<1>1. PICK c \in ContentRows : c = content /\ RowsHang(c)
  BY DEF CommunityInv, CommunityTypes
<1>2. PICK t : t = C!Removal(c, i)
  OBVIOUS
<1>3. /\ Fits(c, t) /\ t.item = i /\ t.deep = TRUE
      /\ \A j \in DOMAIN t.rows : t.rows[j] = "gone"
  BY <1>1, <1>2, RemovalFits
<1>4. C!Transaction(t, C!Related(c, i), C!Row({i} \cap {C!Dataset}))
  BY <1>1, <1>2 DEF C!Remove
<1>5. C!Row({i} \cap {C!Dataset}) \in SUBSET Locks
  BY DEF C!Row, Locks
<1>6. /\ C!Related(c, i) \subseteq C!Reach(t) /\ C!Related(c, i) \subseteq Members
      /\ \A user \in Members \ C!Related(c, i) : NothingOf(c, t, user)
  BY <1>3, RelatedOthers
<1>7. \A j \in DOMAIN t.rows :
          /\ t.rows[j] # "gone" => Author[j] \in C!Related(c, i)
          /\ t.rows[j] = "live" => <<"item", j>> \in C!Row({i} \cap {C!Dataset})
  BY <1>3
<1> QED
  BY <1>1, <1>3, <1>4, <1>5, <1>6, <1>7, Transactions

LEMMA VotesMove ==
  ASSUME CommunityInv, NEW i \in C!Items, NEW user \in Members, NEW adding \in BOOLEAN,
         NEW locks \in SUBSET Locks,
         C!Transaction(C!Voting(i, user, adding), {Author[i]}, locks)
  PROVE  CommunityInv'
<1>1. PICK t, adds, drops :
         /\ t = C!Voting(i, user, adding)
         /\ adds = IF adding THEN {<<i, user>>} ELSE {}
         /\ drops = IF adding THEN {} ELSE {<<i, user>>}
  OBVIOUS
<1>2. t = [item |-> i, deep |-> FALSE, late |-> FALSE, rows |-> [j \in {} |-> "gone"],
           withholds |-> {}, restores |-> {}, adds |-> adds, drops |-> drops]
  BY <1>1 DEF C!Voting, C!Change
<1>3. /\ adds \subseteq C!Votes /\ drops \subseteq C!Votes
      /\ \A v \in adds \cup drops : v[1] = i
  BY <1>1 DEF C!Votes
<1>4. /\ t \in C!Changes /\ t.item = i /\ t.deep = FALSE /\ t.late = FALSE /\ DOMAIN t.rows = {}
      /\ t.withholds = {} /\ t.restores = {} /\ t.adds = adds /\ t.drops = drops
  BY <1>2, <1>3, EmptyRows DEF C!Changes
<1>5. Scope(t) = {i} /\ Author[i] \in Members
  BY <1>4, CommunityBounds DEF Scope
<1>6. Fits(content, t)
  BY <1>3, <1>4, <1>5 DEF Fits
<1>7. {Author[i]} \subseteq C!Reach(t) /\ \A u \in Members \ {Author[i]} : NothingOf(content, t, u)
  BY <1>5, ReachScope DEF NothingOf
<1>8. C!Transaction(t, {Author[i]}, locks)
  BY <1>1
<1> QED
  BY <1>4, <1>5, <1>6, <1>7, <1>8, Transactions

-----------------------------------------------------------------------------
LEMMA CommunityInit == C!Init => CommunityInv
<1> SUFFICES ASSUME C!Init
             PROVE  CommunityInv
  OBVIOUS
<1>1. /\ content = [state |-> [i \in C!Items |-> IF i = C!Dataset THEN "live" ELSE "none"],
                    withheld |-> {}, votes |-> {}]
      /\ cache = [u \in Members |-> C!Compute(content, u)]
      /\ tx = [r \in Slow |-> C!Idle] /\ overlapped = {}
  BY DEF C!Init
<1>2. content \in ContentRows
  BY <1>1 DEF ContentRows
<1>3. RowsHang(content)
  BY <1>1, Numbers DEF RowsHang
<1>4. cache \in [Members -> C!Progress]
  <2>1. \A u \in Members : C!Compute(content, u) \in C!Progress
    BY ComputeTyped
  <2> QED
    BY <1>1, <2>1
<1>5. CommunityTypes
  BY <1>1, <1>2, <1>3, <1>4 DEF CommunityTypes
<1>6. RowsExclude
  BY <1>1 DEF RowsExclude, C!Idle
<1> QED
  BY <1>1, <1>5, <1>6 DEF CommunityInv

LEMMA CommunityStep == CommunityInv /\ [C!Next]_C!vars => CommunityInv'
<1> SUFFICES ASSUME CommunityInv, [C!Next]_C!vars
             PROVE  CommunityInv'
  OBVIOUS
<1>1. ASSUME NEW private \in BOOLEAN, C!ChangeAccess(private)
      PROVE  CommunityInv'
  <2>1. C!Dataset \in C!Items
    BY Numbers
  <2> QED
    BY <1>1, <2>1, Withholds DEF C!ChangeAccess
<1>2. ASSUME NEW i \in C!Items, NEW on \in BOOLEAN, C!Moderate(i, on)
      PROVE  CommunityInv'
  BY <1>2, Withholds DEF C!Moderate
<1>3. ASSUME NEW i \in C!Items, NEW user \in Members, C!Upvote(i, user)
      PROVE  CommunityInv'
  <2>1. {<<"voter", user>>} \in SUBSET Locks
    BY DEF Locks
  <2> QED
    BY <1>3, <2>1, VotesMove DEF C!Upvote
<1>4. ASSUME NEW i \in C!Items, NEW user \in Members, C!RemoveUpvote(i, user)
      PROVE  CommunityInv'
  <2>1. {<<"vote", i, user>>} \in SUBSET Locks
    BY DEF Locks
  <2> QED
    BY <1>4, <2>1, VotesMove DEF C!RemoveUpvote
<1>5. CASE C!Next
  BY <1>1, <1>2, <1>3, <1>4, <1>5, Creates, Deletes, ItemsGo, Recalculates, Refreshes, TransactionsEnd,
     Aborts DEF C!Next
<1>6. CASE UNCHANGED C!vars
  <2>1. UNCHANGED <<content, cache, tx, overlapped>>
    BY <1>6 DEF C!vars
  <2>2. CommunityTypes' /\ RowsExclude'
    BY <2>1 DEF CommunityInv, CommunityTypes, RowsExclude
  <2> QED
    BY <2>1, <2>2 DEF CommunityInv
<1> QED
  BY <1>5, <1>6

\* Tiers and medals are those of the source rows, however they are changed from above or
\* below, but for owners whom two overlapping transactions reach and one has marked, for
\* any number of transactions that overtake each other (progression.py).
THEOREM CacheIsCurrent == C!Spec => []CacheFollows
<1>1. CommunityInv => C!TypeOK
  <2> SUFFICES ASSUME CommunityInv
               PROVE  C!TypeOK
    OBVIOUS
  <2>1. ASSUME NEW r \in Slow, tx[r] # C!Idle
        PROVE  /\ tx[r].pc \in {"marked", "computed"} /\ tx[r].change \in C!Changes
               /\ tx[r].marks \subseteq Members /\ tx[r].alone \in BOOLEAN
               /\ tx[r].pc = "computed" =>
                      {tx[r].read, tx[r].computed} \subseteq [tx[r].marks -> C!Progress]
    <3>1. PICK x \in MarkedRows \cup ComputedRows : x = tx[r]
      BY <2>1 DEF CommunityInv, CommunityTypes
    <3>2. ASSUME x.pc = "computed"
          PROVE  {x.read, x.computed} \subseteq [x.marks -> C!Progress]
      <4>1. x \in ComputedRows
        BY <3>2, NotIdle
      <4>2. DOMAIN x.read = x.marks /\ DOMAIN x.computed = x.marks
        BY <2>1, <3>1, <3>2 DEF CommunityInv, UnderWayHolds
      <4>3. PICK S \in SUBSET Members : x.read \in [S -> C!Progress]
        BY <4>1 DEF ComputedRows, Tables
      <4>4. PICK T \in SUBSET Members : x.computed \in [T -> C!Progress]
        BY <4>1 DEF ComputedRows, Tables
      <4> QED
        BY <4>2, <4>3, <4>4
    <3> QED
      BY <3>1, <3>2, NotIdle
  <2> QED
    BY <2>1 DEF CommunityInv, CommunityTypes, ContentRows, C!TypeOK
<1>2. CommunityInv => C!CacheFollows
  BY DEF CommunityInv, C!CacheFollows
<1> QED
  BY <1>1, <1>2, CommunityInit, CommunityStep, PTL DEF C!Spec, CacheFollows

-----------------------------------------------------------------------------
(***************************************************************************)
(* Pipeline: what the command relies on, and what the current release is.  *)
(***************************************************************************)
ReleaseRows ==
    [images : P!Images, status : {"baseline", "deploying", "deployed", "failed", "cancelled"}]

CommandRows ==
    [pc : {"idle", "plan", "build", "record", "compare", "deploy", "apply", "verify", "finish"},
     mode : {"run", "undo", "rollback"}, keep : BOOLEAN,
     snapshot : DOMAIN Sources, images : P!Images, live : P!Images,
     previous : 0 .. MaxReleases, release : 0 .. MaxReleases]

\* An object names one image or two.
Named == (P!AllVersions \X P!AllVersions) \cup {<<v>> : v \in P!AllVersions}

PipelineTypes ==
    /\ tree \in DOMAIN Sources /\ head \in DOMAIN Sources
    /\ registry \in [P!Components -> [P!AllVersions -> P!AllVersions \cup {0}]]
    /\ cluster \in [P!Objects -> Named]
    /\ settled \in BOOLEAN
    /\ releases \in Seq(ReleaseRows) /\ Len(releases) <= MaxReleases
    /\ current \in 0 .. Len(releases)
    /\ command \in CommandRows

\* A release that went well, and may be deployed again
Served(k) == k \in DOMAIN releases /\ releases[k].status \in {"deployed", "baseline"}

\* Before the first run the cluster is as somebody made it by hand.
CurrentHolds ==
    /\ current = 0 =>
          releases = <<>> /\ cluster = P!Manifest(Sources[1]) /\ command.pc = "idle"
    /\ current # 0 =>
          Served(current) /\ (settled => cluster = P!Manifest(releases[current].images))

Preparing == {"plan", "build", "record"}

Deploying == {"deploy", "apply", "verify"}

\* The release of a run is being deployed until it is verified; what an undoing and a
\* rollback deploy went well before.
CommandHolds ==
    /\ command.pc \in Preparing => command.mode = "run" /\ Len(releases) + 1 <= MaxReleases
    /\ command.pc = "compare" =>
          command.mode = "run" /\ releases[command.release].images = command.images
    /\ command.pc # "idle" /\ command.mode = "run" => Served(command.previous)
    /\ command.pc \in Deploying \cup {"compare"} /\ command.mode = "run" =>
          command.release \in DOMAIN releases /\ releases[command.release].status = "deploying"
    /\ command.pc \in Deploying /\ command.mode # "run" => Served(command.release)
    /\ command.pc = "finish" => Served(command.release)
    /\ command.pc \in {"apply", "verify", "finish"} => ~settled
    /\ command.pc \in {"verify", "finish"} => cluster = P!Manifest(P!Target)

PipelineInv == PipelineTypes /\ CurrentHolds /\ CommandHolds

-----------------------------------------------------------------------------
LEMMA PipelineBounds ==
  /\ Sources \in Seq([P!Components -> Nat \ {0}]) /\ Sources # <<>>
  /\ MaxReleases \in Nat
BY SiteAssumption DEF P!PipelineAssumption

LEMMA SourceImages == \A k \in DOMAIN Sources : Sources[k] \in P!Images
<1> SUFFICES ASSUME NEW k \in DOMAIN Sources
             PROVE  Sources[k] \in P!Images
  OBVIOUS
<1>1. Sources[k] \in [P!Components -> Nat \ {0}]
  BY PipelineBounds
<1>2. ASSUME NEW c \in P!Components PROVE Sources[k][c] \in P!AllVersions
  BY DEF P!AllVersions, P!Versions
<1> QED
  BY <1>1, <1>2 DEF P!Images

LEMMA FirstSource == 1 \in DOMAIN Sources
BY PipelineBounds

LEMMA NamedFirst == \A s \in Named : s[1] \in P!AllVersions
BY DEF Named

LEMMA ManifestNamed ==
  ASSUME NEW images \in P!Images
  PROVE  /\ P!Manifest(images) \in [P!Objects -> Named]
         /\ P!Manifest(images)["api"][1] = images["api"]
         /\ P!Manifest(images)["jupyterhub"][1] = images["hub"]
         /\ P!Manifest(images)["web"][1] = images["web"]
         /\ P!Manifest(images)["config"][1] = images["runtime"]
<1>1. /\ images["api"] \in P!AllVersions /\ images["hub"] \in P!AllVersions
      /\ images["web"] \in P!AllVersions /\ images["runtime"] \in P!AllVersions
  BY DEF P!Images, P!Components
<1>2. \A o \in {"api", "evaluation-worker"} :
         P!Manifest(images)[o] = <<images["api"], images["runtime"]>>
  BY DEF P!Manifest, P!Objects
<1>3. P!Manifest(images)["jupyterhub"] = <<images["hub"], images["runtime"]>>
  BY DEF P!Manifest, P!Objects
<1>4. P!Manifest(images)["web"] = <<images["web"]>>
  BY DEF P!Manifest, P!Objects
<1>5. \A o \in {"config", "prepull"} : P!Manifest(images)[o] = <<images["runtime"]>>
  BY DEF P!Manifest, P!Objects
<1>6. \A o \in P!Objects : P!Manifest(images)[o] \in Named
  BY <1>1, <1>2, <1>3, <1>4, <1>5 DEF P!Objects, Named
<1>7. P!Manifest(images) = [o \in P!Objects |-> P!Manifest(images)[o]]
  <2> DEFINE object(o) ==
               CASE o \in {"api", "evaluation-worker"} -> <<images["api"], images["runtime"]>>
                 [] o = "jupyterhub" -> <<images["hub"], images["runtime"]>>
                 [] o = "web" -> <<images["web"]>>
                 [] o \in {"config", "prepull"} -> <<images["runtime"]>>
  <2>1. P!Manifest(images) = [o \in P!Objects |-> object(o)]
    BY DEF P!Manifest
  <2> HIDE DEF object
  <2> QED
    BY <2>1
<1>8. P!Manifest(images) \in [P!Objects -> Named]
  BY <1>6, <1>7
<1> QED
  BY <1>2, <1>3, <1>4, <1>5, <1>8

\* live_images() of some objects
LiveImage(objects, c) ==
    CASE c = "api" -> objects["api"][1]
      [] c = "hub" -> objects["jupyterhub"][1]
      [] c = "web" -> objects["web"][1]
      [] c = "runtime" -> objects["config"][1]

LEMMA LiveIs ==
  /\ P!Live = [c \in P!Components |-> LiveImage(cluster, c)]
  /\ P!Live' = [c \in P!Components |-> LiveImage(cluster', c)]
BY DEF P!Live, LiveImage

LEMMA LiveTyped ==
  ASSUME NEW objects \in [P!Objects -> Named]
  PROVE  [c \in P!Components |-> LiveImage(objects, c)] \in P!Images
<1>1. \A o \in P!Objects : objects[o][1] \in P!AllVersions
  BY NamedFirst
<1>2. \A c \in P!Components : LiveImage(objects, c) \in P!AllVersions
  BY <1>1 DEF LiveImage, P!Components, P!Objects
<1> QED
  BY <1>2 DEF P!Images

LEMMA LiveOf ==
  ASSUME NEW images \in P!Images, cluster = P!Manifest(images)
  PROVE  P!Live = images
<1>1. \A c \in P!Components : LiveImage(cluster, c) = images[c]
  BY ManifestNamed DEF LiveImage, P!Components
<1>2. images \in [P!Components -> P!AllVersions]
  BY DEF P!Images
<1> QED
  BY <1>1, <1>2, LiveIs

LEMMA IdleTyped == P!Idle \in CommandRows /\ P!Idle.pc = "idle" /\ P!Idle.mode = "run"
<1>1. 1 \in DOMAIN Sources /\ Sources[1] \in P!Images /\ 0 \in 0 .. MaxReleases
  BY FirstSource, SourceImages, PipelineBounds
<1>2. P!Idle = [pc |-> "idle", mode |-> "run", keep |-> FALSE, snapshot |-> 1,
              images |-> Sources[1], live |-> Sources[1], previous |-> 0, release |-> 0]
  BY DEF P!Idle
<1> QED
  BY <1>1, <1>2 DEF CommandRows

LEMMA ReleasesTyped ==
  ASSUME PipelineTypes
  PROVE  /\ Len(releases) \in Nat /\ DOMAIN releases = 1 .. Len(releases) /\ MaxReleases \in Nat
         /\ \A k \in DOMAIN releases : releases[k] \in ReleaseRows /\ releases[k].images \in P!Images
         /\ DOMAIN releases \subseteq 1 .. MaxReleases
<1>1. releases \in Seq(ReleaseRows) /\ Len(releases) <= MaxReleases /\ MaxReleases \in Nat
  BY PipelineBounds DEF PipelineTypes
<1>2. /\ Len(releases) \in Nat /\ DOMAIN releases = 1 .. Len(releases)
      /\ \A k \in DOMAIN releases : releases[k] \in ReleaseRows
  BY <1>1
<1>3. \A row \in ReleaseRows : row.images \in P!Images
  BY DEF ReleaseRows
<1> QED
  BY <1>1, <1>2, <1>3

\* A release is written at the end of the table,
LEMMA Appended ==
  ASSUME NEW table \in Seq(ReleaseRows), NEW row \in ReleaseRows
  PROVE  /\ Append(table, row) \in Seq(ReleaseRows) /\ Len(Append(table, row)) = Len(table) + 1
         /\ DOMAIN Append(table, row) = 1 .. Len(table) + 1
         /\ \A k \in 1 .. Len(table) : Append(table, row)[k] = table[k]
         /\ Append(table, row)[Len(table) + 1] = row
OBVIOUS

\* or gets another status.
LEMMA Marked ==
  ASSUME NEW table \in Seq(ReleaseRows), NEW r \in DOMAIN table, NEW row \in ReleaseRows,
         NEW new, new = [table EXCEPT ![r] = row]
  PROVE  /\ new \in Seq(ReleaseRows) /\ Len(new) = Len(table) /\ DOMAIN new = DOMAIN table
         /\ new[r] = row /\ \A k \in DOMAIN table \ {r} : new[k] = table[k]
OBVIOUS

LEMMA StatusRow ==
  ASSUME NEW row \in ReleaseRows,
         NEW status \in {"baseline", "deploying", "deployed", "failed", "cancelled"}
  PROVE  /\ [row EXCEPT !.status = status] \in ReleaseRows
         /\ [row EXCEPT !.status = status].status = status
         /\ [row EXCEPT !.status = status].images = row.images
BY DEF ReleaseRows

LEMMA ReleaseRow ==
  ASSUME NEW images \in P!Images,
         NEW status \in {"baseline", "deploying", "deployed", "failed", "cancelled"}
  PROVE  /\ P!Release(images, status) \in ReleaseRows
         /\ P!Release(images, status).images = images
         /\ P!Release(images, status).status = status
BY DEF P!Release, ReleaseRows

-----------------------------------------------------------------------------
\* People edit and commit.
LEMMA OthersMove ==
  ASSUME PipelineInv, P!Edit \/ P!CommitTree
  PROVE  PipelineInv'
<1>1. UNCHANGED <<registry, cluster, releases, current, command, settled>>
  BY DEF P!Edit, P!CommitTree
<1>2. PipelineTypes
  BY DEF PipelineInv
<1>3. tree' \in DOMAIN Sources /\ head' \in DOMAIN Sources
  <2>1. CASE P!Edit
    <3>1. /\ tree \in 1 .. Len(Sources) /\ Len(Sources) \in Nat /\ DOMAIN Sources = 1 .. Len(Sources)
          /\ head \in DOMAIN Sources
      BY <1>2, PipelineBounds DEF PipelineTypes
    <3>2. tree < Len(Sources) /\ tree' = tree + 1 /\ head' = head
      BY <2>1 DEF P!Edit
    <3> QED
      BY <3>1, <3>2
  <2>2. CASE P!CommitTree
    BY <1>2, <2>2 DEF P!CommitTree, PipelineTypes
  <2> QED
    BY <2>1, <2>2
<1>4. PipelineTypes'
  BY <1>1, <1>2, <1>3 DEF PipelineTypes
<1> QED
  BY <1>1, <1>4 DEF PipelineInv, CurrentHolds, CommandHolds, Served, P!Target

\* The command ends and leaves the cluster and the releases alone.
LEMMA Stops ==
  ASSUME PipelineInv, command' = P!Idle,
         UNCHANGED <<tree, head, cluster, releases, current, settled>>,
         registry' \in [P!Components -> [P!AllVersions -> P!AllVersions \cup {0}]]
  PROVE  PipelineInv'
<1>1. PipelineTypes'
  BY IdleTyped DEF PipelineInv, PipelineTypes
<1>2. CurrentHolds'
  BY IdleTyped DEF PipelineInv, CurrentHolds, Served
<1>3. CommandHolds'
  BY IdleTyped DEF CommandHolds, Preparing, Deploying
<1> QED
  BY <1>1, <1>2, <1>3 DEF PipelineInv

\* The command goes on, and neither releases nor the cluster change.
LEMMA GoesOn ==
  ASSUME PipelineInv, current # 0, command' \in CommandRows, CommandHolds',
         UNCHANGED <<tree, head, cluster, releases, current, settled>>,
         registry' \in [P!Components -> [P!AllVersions -> P!AllVersions \cup {0}]]
  PROVE  PipelineInv'
<1>1. PipelineTypes'
  BY DEF PipelineInv, PipelineTypes
<1>2. CurrentHolds'
  BY DEF PipelineInv, CurrentHolds, Served
<1> QED
  BY <1>1, <1>2 DEF PipelineInv

LEMMA Running == ASSUME PipelineInv, command.pc # "idle" PROVE current # 0
BY DEF PipelineInv, CurrentHolds

LEMMA Starts ==
  ASSUME PipelineInv, NEW keep \in BOOLEAN, P!StartRun(keep)
  PROVE  PipelineInv'
<1>1. /\ command.pc = "idle" /\ tree \in DOMAIN Sources
      /\ Len(releases) + (IF current = 0 THEN 2 ELSE 1) <= MaxReleases
      /\ UNCHANGED <<tree, head, registry, cluster, settled>>
      /\ command' = [P!Idle EXCEPT !.pc = "plan", !.keep = keep, !.snapshot = tree,
                                 !.previous = current']
  BY DEF P!StartRun, PipelineInv, PipelineTypes
<1>2. /\ PipelineTypes /\ CurrentHolds
      /\ Len(releases) \in Nat /\ DOMAIN releases = 1 .. Len(releases) /\ MaxReleases \in Nat
  BY ReleasesTyped DEF PipelineInv
<1>3. /\ releases' \in Seq(ReleaseRows) /\ Len(releases') + 1 <= MaxReleases
      /\ current' \in 1 .. Len(releases') /\ current' # 0 /\ Served(current)'
      /\ settled' => cluster' = P!Manifest(releases'[current'].images)
  <2>1. CASE current = 0
    <3>1. PICK row : row = P!Release(P!Live, "baseline")
      OBVIOUS
    <3>2. /\ releases' = Append(releases, row) /\ current' = Len(releases) + 1
          /\ releases = <<>> /\ cluster = P!Manifest(Sources[1])
      BY <1>2, <2>1, <3>1 DEF P!StartRun, CurrentHolds
    <3>3. P!Live = Sources[1] /\ P!Live \in P!Images
      BY <3>2, FirstSource, SourceImages, LiveOf
    <3>4. row \in ReleaseRows /\ row.images = P!Live /\ row.status = "baseline"
      BY <3>1, <3>3, ReleaseRow
    <3>5. releases \in Seq(ReleaseRows)
      BY <1>2 DEF PipelineTypes
    <3>6. /\ releases' \in Seq(ReleaseRows) /\ Len(releases') = Len(releases) + 1
          /\ DOMAIN releases' = 1 .. Len(releases) + 1 /\ releases'[Len(releases) + 1] = row
      BY <3>2, <3>4, <3>5, Appended
    <3>7. settled' => cluster' = P!Manifest(releases'[current'].images)
      BY <1>1, <3>2, <3>3, <3>4, <3>6
    <3>8. Served(current)'
      BY <1>2, <3>2, <3>4, <3>6 DEF Served
    <3>9. Len(releases) + 2 <= MaxReleases
      BY <1>1, <2>1
    <3> QED
      BY <1>2, <3>2, <3>6, <3>7, <3>8, <3>9
  <2>2. CASE current # 0
    <3>1. releases' = releases /\ current' = current
      BY <2>2 DEF P!StartRun
    <3>2. Len(releases) + 1 <= MaxReleases
      BY <1>1, <2>2
    <3> QED
      BY <1>1, <1>2, <2>2, <3>1, <3>2 DEF CurrentHolds, PipelineTypes, Served
  <2> QED
    BY <2>1, <2>2
<1>4. current' \in 0 .. MaxReleases /\ Len(releases') \in Nat
  BY <1>2, <1>3
<1>5. /\ command' \in CommandRows /\ command'.pc = "plan" /\ command'.mode = "run"
      /\ command'.previous = current'
  <2>1. P!Idle \in CommandRows /\ P!Idle.mode = "run"
    BY IdleTyped
  <2> QED
    BY <1>1, <1>4, <2>1 DEF CommandRows
<1>6. PipelineTypes'
  BY <1>1, <1>2, <1>3, <1>4, <1>5 DEF PipelineTypes
<1>7. CurrentHolds' /\ CommandHolds'
  BY <1>3, <1>5 DEF CurrentHolds, CommandHolds, Served, Preparing, Deploying
<1> QED
  BY <1>6, <1>7 DEF PipelineInv

LEMMA Prepares ==
  ASSUME PipelineInv, P!ComputePlan \/ P!Build
  PROVE  PipelineInv'
<1>1. PipelineTypes /\ CommandHolds /\ command \in CommandRows
  BY DEF PipelineInv, PipelineTypes
<1>2. UNCHANGED <<tree, head, cluster, releases, current, settled>> /\ current # 0
  BY Running DEF P!ComputePlan, P!Build
<1>3. CASE P!ComputePlan
  <2>1. /\ command.pc = "plan" /\ registry' = registry
        /\ command' = [command EXCEPT !.pc = "build", !.images = Sources[head], !.live = P!Live]
    BY <1>3 DEF P!ComputePlan, P!ImagesOf
  <2>2. Sources[head] \in P!Images /\ P!Live \in P!Images
    BY <1>1, SourceImages, LiveTyped, LiveIs DEF PipelineTypes
  <2>3. /\ command' \in CommandRows /\ command'.pc = "build" /\ command'.mode = command.mode
        /\ command'.previous = command.previous
    BY <1>1, <2>1, <2>2 DEF CommandRows
  <2>4. CommandHolds'
    BY <1>1, <1>2, <2>1, <2>3 DEF CommandHolds, Served, Preparing, Deploying
  <2> QED
    BY <1>1, <1>2, <2>1, <2>3, <2>4, GoesOn DEF PipelineTypes
<1>4. CASE P!Build
  <2>1. PICK built \in SUBSET P!ToBuild :
           /\ registry' = [c \in P!Components |->
                  IF c \in built
                  THEN [registry[c] EXCEPT ![command.images[c]] = Sources[command.snapshot][c]]
                  ELSE registry[c]]
           /\ command' = IF built = P!ToBuild THEN [command EXCEPT !.pc = "record"] ELSE P!Idle
    BY <1>4 DEF P!Build
  <2>2. registry' \in [P!Components -> [P!AllVersions -> P!AllVersions \cup {0}]]
    <3>1. Sources[command.snapshot] \in P!Images
      BY <1>1, SourceImages DEF CommandRows
    <3>2. registry \in [P!Components -> [P!AllVersions -> P!AllVersions \cup {0}]]
      BY <1>1 DEF PipelineTypes
    <3>3. ASSUME NEW c \in P!Components
          PROVE  registry'[c] \in [P!AllVersions -> P!AllVersions \cup {0}]
      <4>1. registry[c] \in [P!AllVersions -> P!AllVersions \cup {0}]
        BY <3>2
      <4>2. Sources[command.snapshot][c] \in P!AllVersions
        BY <3>1 DEF P!Images
      <4>3. \/ registry'[c] = registry[c]
            \/ registry'[c] = [registry[c] EXCEPT ![command.images[c]] = Sources[command.snapshot][c]]
        BY <2>1
      <4> QED
        BY <4>1, <4>2, <4>3
    <3> QED
      BY <2>1, <3>3
  <2>3. CASE command' = P!Idle
    BY <1>2, <2>2, <2>3, Stops
  <2>4. CASE command' = [command EXCEPT !.pc = "record"]
    <3>1. /\ command' \in CommandRows /\ command'.pc = "record" /\ command'.mode = command.mode
          /\ command'.previous = command.previous /\ command.pc = "build"
      BY <1>1, <1>4, <2>4 DEF CommandRows, P!Build
    <3>2. CommandHolds'
      BY <1>1, <1>2, <3>1 DEF CommandHolds, Served, Preparing, Deploying
    <3> QED
      BY <1>1, <1>2, <2>2, <3>1, <3>2, GoesOn DEF PipelineTypes
  <2> QED
    BY <2>1, <2>3, <2>4
<1> QED
  BY <1>3, <1>4

\* new_release()
LEMMA Records == ASSUME PipelineInv, P!Record PROVE PipelineInv'
<1>1. /\ PipelineTypes /\ CommandHolds /\ CurrentHolds /\ command \in CommandRows
      /\ releases \in Seq(ReleaseRows) /\ command.images \in P!Images /\ current # 0
  BY Running DEF PipelineInv, PipelineTypes, CommandRows, P!Record
<1>2. PICK row : row = P!Release(command.images, "deploying")
  OBVIOUS
<1>3. row \in ReleaseRows /\ row.status = "deploying" /\ row.images = command.images
  BY <1>1, <1>2, ReleaseRow
<1>4. /\ command.pc = "record" /\ releases' = Append(releases, row)
      /\ command' = [command EXCEPT !.pc = "compare", !.release = Len(releases) + 1]
      /\ UNCHANGED <<tree, head, registry, cluster, current, settled>>
  BY <1>2 DEF P!Record
<1>5. /\ releases' \in Seq(ReleaseRows) /\ Len(releases') = Len(releases) + 1
      /\ DOMAIN releases' = 1 .. Len(releases) + 1
      /\ \A k \in 1 .. Len(releases) : releases'[k] = releases[k]
      /\ releases'[Len(releases) + 1] = row
  BY <1>1, <1>3, <1>4, Appended
<1>6. /\ Len(releases) \in Nat /\ DOMAIN releases = 1 .. Len(releases) /\ MaxReleases \in Nat
      /\ Len(releases) + 1 <= MaxReleases /\ command.mode = "run"
  BY <1>1, <1>4, ReleasesTyped DEF CommandHolds, Preparing
<1>7. /\ command' \in CommandRows /\ command'.pc = "compare" /\ command'.mode = "run"
      /\ command'.previous = command.previous /\ command'.release = Len(releases) + 1
      /\ command'.images = command.images
  <2>1. Len(releases) + 1 \in 0 .. MaxReleases
    BY <1>6
  <2> QED
    BY <1>1, <1>4, <1>6, <2>1 DEF CommandRows
<1>8. \A k \in DOMAIN releases : Served(k) => Served(k)'
  BY <1>5, <1>6 DEF Served
<1>9. PipelineTypes'
  BY <1>1, <1>4, <1>5, <1>6, <1>7 DEF PipelineTypes
<1>10. CurrentHolds'
  BY <1>1, <1>4, <1>5, <1>6, <1>8 DEF CurrentHolds, Served
<1>11. CommandHolds'
  <2>1. Served(command.previous) /\ command.previous \in DOMAIN releases
    BY <1>1, <1>4, <1>6 DEF CommandHolds, Served
  <2>2. Served(command.previous)'
    BY <1>7, <1>8, <2>1 DEF Served
  <2> QED
    BY <1>3, <1>5, <1>6, <1>7, <2>2 DEF CommandHolds, Preparing, Deploying
<1> QED
  BY <1>9, <1>10, <1>11 DEF PipelineInv

\* The release that is deployed gets a status, and no other changes.
LEMMA Marks ==
  ASSUME PipelineTypes, NEW r \in DOMAIN releases,
         NEW status \in {"baseline", "deploying", "deployed", "failed", "cancelled"},
         releases' = [releases EXCEPT ![r].status = status]
  PROVE  /\ releases' \in Seq(ReleaseRows) /\ Len(releases') = Len(releases)
         /\ DOMAIN releases' = DOMAIN releases /\ releases'[r].status = status
         /\ \A k \in DOMAIN releases \ {r} : releases'[k] = releases[k]
         /\ \A k \in DOMAIN releases : releases'[k].images = releases[k].images
         /\ \A k \in DOMAIN releases : k # r \/ status \in {"deployed", "baseline"} =>
               (Served(k) => Served(k)')
<1>1. releases[r] \in ReleaseRows /\ releases[r].images \in P!Images /\ releases \in Seq(ReleaseRows)
  BY ReleasesTyped DEF PipelineTypes
<1>2. PICK row \in ReleaseRows :
         /\ row.status = status /\ row.images = releases[r].images
         /\ releases' = [releases EXCEPT ![r] = row]
  <2>1. releases' = [releases EXCEPT ![r] = [releases[r] EXCEPT !.status = status]]
    OBVIOUS
  <2> QED
    BY <1>1, <2>1, StatusRow
<1>3. /\ releases' \in Seq(ReleaseRows) /\ Len(releases') = Len(releases)
      /\ DOMAIN releases' = DOMAIN releases
      /\ releases'[r] = row /\ \A k \in DOMAIN releases \ {r} : releases'[k] = releases[k]
  BY <1>1, <1>2, Marked
<1> QED
  BY <1>2, <1>3 DEF Served

LEMMA Compares ==
  ASSUME PipelineInv, P!NothingToDeploy \/ P!Postpone \/ P!StartDeploy
  PROVE  PipelineInv'
<1>1. /\ PipelineTypes /\ CommandHolds /\ CurrentHolds /\ command \in CommandRows
      /\ command.pc = "compare" /\ command.mode = "run" /\ current # 0
      /\ Served(current) /\ Served(command.previous)
      /\ command.release \in DOMAIN releases /\ releases[command.release].status = "deploying"
  BY Running
     DEF PipelineInv, PipelineTypes, P!NothingToDeploy, P!Postpone, P!StartDeploy, CommandHolds,
         CurrentHolds, Deploying
<1>2. /\ Len(releases) \in Nat /\ DOMAIN releases = 1 .. Len(releases)
      /\ current \in DOMAIN releases /\ current # command.release
  BY <1>1, ReleasesTyped DEF Served
<1>3. CASE P!StartDeploy
  <2>1. /\ command' = [command EXCEPT !.pc = "deploy"]
        /\ UNCHANGED <<tree, head, registry, cluster, releases, current, settled>>
    BY <1>3 DEF P!StartDeploy
  <2>2. /\ command' \in CommandRows /\ command'.pc = "deploy" /\ command'.mode = "run"
        /\ command'.previous = command.previous /\ command'.release = command.release
    BY <1>1, <2>1 DEF CommandRows
  <2>3. CommandHolds'
    BY <1>1, <2>1, <2>2 DEF CommandHolds, Served, Preparing, Deploying
  <2> QED
    BY <1>1, <2>1, <2>2, <2>3, GoesOn DEF PipelineTypes
<1>4. ASSUME NEW status \in {"deployed", "cancelled"},
             releases' = [releases EXCEPT ![command.release].status = status],
             command' = P!Idle,
             UNCHANGED <<tree, head, registry, cluster>>,
             \/ /\ status = "deployed" /\ current' = command.release /\ settled' = TRUE
                /\ cluster = P!Manifest(releases[command.release].images)
             \/ current' = current /\ settled' = settled
      PROVE  PipelineInv'
  <2>1. /\ releases' \in Seq(ReleaseRows) /\ Len(releases') = Len(releases)
        /\ DOMAIN releases' = DOMAIN releases /\ releases'[command.release].status = status
        /\ \A k \in DOMAIN releases : releases'[k].images = releases[k].images
        /\ \A k \in DOMAIN releases : k # command.release => (Served(k) => Served(k)')
    BY <1>1, <1>4, Marks
  <2>2. PipelineTypes'
    <3>1. current' \in 0 .. Len(releases') /\ Len(releases') <= MaxReleases /\ settled' \in BOOLEAN
      <4>1. settled \in BOOLEAN /\ Len(releases) <= MaxReleases
        BY <1>1 DEF PipelineTypes
      <4>2. current' \in {current, command.release}
        BY <1>4
      <4>3. current' \in 1 .. Len(releases)
        BY <1>1, <1>2, <4>2
      <4>4. settled' \in BOOLEAN
        BY <1>4, <4>1
      <4> QED
        BY <1>2, <2>1, <4>1, <4>3, <4>4
    <3> QED
      BY <1>1, <1>4, <2>1, <3>1, IdleTyped DEF PipelineTypes
  <2>3. CurrentHolds'
    <3>1. CASE current' = command.release
      BY <1>1, <1>2, <1>4, <2>1, <3>1 DEF CurrentHolds, Served
    <3>2. CASE current' = current /\ settled' = settled
      BY <1>1, <1>2, <1>4, <2>1, <3>2 DEF CurrentHolds, Served
    <3> QED
      BY <1>4, <3>1, <3>2
  <2>4. CommandHolds'
    BY <1>4, IdleTyped DEF CommandHolds, Preparing, Deploying
  <2> QED
    BY <2>2, <2>3, <2>4 DEF PipelineInv
<1>5. CASE P!NothingToDeploy
  <2>1. cluster = P!Manifest(releases[command.release].images)
    BY <1>1, <1>5 DEF P!NothingToDeploy, CommandHolds
  <2> QED
    BY <1>4, <1>5, <2>1 DEF P!NothingToDeploy
<1>6. CASE P!Postpone
  BY <1>4, <1>6 DEF P!Postpone
<1> QED
  BY <1>3, <1>5, <1>6

-----------------------------------------------------------------------------
\* What a deploy works on, until it is verified
LEMMA Deploys ==
  ASSUME PipelineInv, command.pc \in Deploying
  PROVE  /\ PipelineTypes /\ CommandHolds /\ CurrentHolds /\ command \in CommandRows
         /\ current # 0 /\ Served(current) /\ command.release \in DOMAIN releases
         /\ P!Target \in P!Images
         /\ command.mode = "run" =>
               /\ Served(command.previous) /\ ~Served(command.release)
               /\ releases[command.release].status = "deploying"
         /\ command.mode # "run" => Served(command.release)
<1>1. /\ PipelineTypes /\ CommandHolds /\ CurrentHolds /\ command \in CommandRows
      /\ current # 0 /\ command.pc # "idle"
  BY Running DEF PipelineInv, PipelineTypes, Deploying
<1>2. /\ command.mode = "run" =>
            /\ Served(command.previous) /\ command.release \in DOMAIN releases
            /\ releases[command.release].status = "deploying"
      /\ command.mode # "run" => Served(command.release)
  BY <1>1 DEF CommandHolds
<1>3. command.release \in DOMAIN releases /\ Served(current)
  BY <1>1, <1>2 DEF Served, CurrentHolds
<1> QED
  BY <1>1, <1>2, <1>3, ReleasesTyped DEF P!Target, Served

\* A deploy goes on, with the cluster as it is between two releases.
LEMMA DeployMove ==
  ASSUME PipelineInv, command.pc \in Deploying, command' \in CommandRows,
         command'.pc \in Deploying, command'.mode = command.mode,
         command'.previous = command.previous, command'.release = command.release,
         UNCHANGED <<tree, head, registry, releases, current>>,
         settled' = FALSE,
         cluster' \in [P!Objects -> Named],
         command'.pc = "verify" => cluster' = P!Manifest(P!Target)
  PROVE  PipelineInv'
<1>1. /\ PipelineTypes /\ CommandHolds /\ CurrentHolds /\ current # 0 /\ settled' \in BOOLEAN
      /\ command.pc # "idle"
  BY Deploys DEF PipelineTypes, Deploying
<1>2. PipelineTypes'
  BY <1>1 DEF PipelineTypes
<1>3. CurrentHolds'
  BY <1>1 DEF CurrentHolds, Served
<1>4. CommandHolds'
  BY <1>1 DEF CommandHolds, Served, P!Target, Preparing, Deploying
<1> QED
  BY <1>2, <1>3, <1>4 DEF PipelineInv

LEMMA DeployGoesOn ==
  ASSUME PipelineInv, P!Prepull \/ P!Apply
  PROVE  PipelineInv'
<1>1. command.pc \in Deploying /\ settled' = FALSE
      /\ UNCHANGED <<tree, head, registry, releases, current>>
  BY DEF P!Prepull, P!Apply, Deploying, PipelineInv, CommandHolds, PipelineTypes
<1>2. /\ command \in CommandRows /\ P!Target \in P!Images /\ cluster \in [P!Objects -> Named]
  BY <1>1, Deploys DEF PipelineInv, PipelineTypes
<1>3. ASSUME NEW pc \in Deploying, command' = [command EXCEPT !.pc = pc]
      PROVE  /\ command' \in CommandRows /\ command'.pc = pc /\ command'.mode = command.mode
             /\ command'.previous = command.previous /\ command'.release = command.release
  BY <1>2, <1>3 DEF CommandRows, Deploying
<1>4. PICK v : v = P!Target["runtime"]
  OBVIOUS
<1>5. v \in P!AllVersions
  BY <1>2, <1>4 DEF P!Images, P!Components
<1>6. CASE P!Prepull
  <2>1. /\ cluster' = [cluster EXCEPT !["prepull"] = <<v>>] \/ cluster' = cluster
        /\ command' = [command EXCEPT !.pc = "apply"]
    BY <1>4, <1>6 DEF P!Prepull
  <2>2. cluster' \in [P!Objects -> Named]
    <3>1. <<v>> \in Named
      BY <1>5 DEF Named
    <3> QED
      BY <1>2, <2>1, <3>1
  <2>3. "apply" \in Deploying
    BY DEF Deploying
  <2> QED
    BY <1>1, <1>2, <1>3, <2>1, <2>2, <2>3, DeployMove
<1>7. CASE P!Apply
  <2>1. cluster' = P!Manifest(P!Target) /\ command' = [command EXCEPT !.pc = "verify"]
    BY <1>7 DEF P!Apply
  <2>2. "verify" \in Deploying
    BY DEF Deploying
  <2>3. cluster' \in [P!Objects -> Named]
    BY <1>2, <2>1, ManifestNamed
  <2> QED
    BY <1>1, <1>2, <1>3, <2>1, <2>2, <2>3, DeployMove
<1> QED
  BY <1>6, <1>7

\* The deploy went well: the release of a run is deployed, and becomes the current one.
LEMMA Verifies == ASSUME PipelineInv, P!Verify PROVE PipelineInv'
<1>1. /\ command.pc = "verify" /\ command.pc \in Deploying
      /\ command' = [command EXCEPT !.pc = "finish"]
      /\ UNCHANGED <<tree, head, registry, cluster, current, settled>>
  BY DEF P!Verify, Deploying
<1>2. /\ PipelineTypes /\ CommandHolds /\ CurrentHolds /\ command \in CommandRows
      /\ current # 0 /\ Served(current) /\ command.release \in DOMAIN releases
      /\ command.mode = "run" => Served(command.previous)
      /\ command.mode # "run" => Served(command.release)
      /\ ~settled /\ cluster = P!Manifest(P!Target)
  BY <1>1, Deploys DEF CommandHolds
<1>3. /\ command' \in CommandRows /\ command'.pc = "finish" /\ command'.mode = command.mode
      /\ command'.previous = command.previous /\ command'.release = command.release
  BY <1>1, <1>2 DEF CommandRows
<1>4. /\ releases' \in Seq(ReleaseRows) /\ Len(releases') = Len(releases)
      /\ DOMAIN releases' = DOMAIN releases
      /\ \A k \in DOMAIN releases : releases'[k].images = releases[k].images
      /\ \A k \in DOMAIN releases : Served(k) => Served(k)'
      /\ Served(command.release)'
  <2>1. CASE command.mode = "run"
    <3>1. releases' = [releases EXCEPT ![command.release].status = "deployed"]
      BY <2>1 DEF P!Verify
    <3>2. /\ releases' \in Seq(ReleaseRows) /\ Len(releases') = Len(releases)
          /\ DOMAIN releases' = DOMAIN releases /\ releases'[command.release].status = "deployed"
          /\ \A k \in DOMAIN releases : releases'[k].images = releases[k].images
          /\ \A k \in DOMAIN releases : Served(k) => Served(k)'
      BY <1>2, <3>1, Marks
    <3> QED
      BY <1>2, <1>3, <3>2 DEF Served
  <2>2. CASE command.mode # "run"
    BY <1>2, <1>3, <2>2 DEF P!Verify, Served, PipelineTypes
  <2> QED
    BY <2>1, <2>2
<1>5. PipelineTypes'
  BY <1>1, <1>2, <1>3, <1>4 DEF PipelineTypes
<1>6. CurrentHolds'
  BY <1>1, <1>2, <1>4 DEF CurrentHolds, Served
<1>7. CommandHolds'
  <2>1. P!Target' = P!Target
    BY <1>2, <1>3, <1>4 DEF P!Target
  <2>2. command.mode = "run" => Served(command.previous)'
    BY <1>2, <1>3, <1>4 DEF Served
  <2> QED
    BY <1>1, <1>2, <1>3, <1>4, <2>1, <2>2 DEF CommandHolds, Served, Preparing, Deploying
<1> QED
  BY <1>5, <1>6, <1>7 DEF PipelineInv

\* set_current()
LEMMA Finishes == ASSUME PipelineInv, P!Finish PROVE PipelineInv'
<1>1. /\ command.pc = "finish" /\ command' = P!Idle /\ current' = command.release /\ settled' = TRUE
      /\ UNCHANGED <<tree, head, registry, cluster, releases>>
  BY DEF P!Finish
<1>2. /\ PipelineTypes /\ Served(command.release) /\ cluster = P!Manifest(P!Target)
  BY <1>1 DEF PipelineInv, CommandHolds
<1>3. command.release \in 1 .. Len(releases) /\ Len(releases) \in Nat
  BY <1>2, ReleasesTyped DEF Served
<1>4. PipelineTypes'
  BY <1>1, <1>2, <1>3, IdleTyped DEF PipelineTypes
<1>5. CurrentHolds'
  BY <1>1, <1>2, <1>3 DEF CurrentHolds, Served, P!Target
<1>6. CommandHolds'
  BY <1>1, IdleTyped DEF CommandHolds, Preparing, Deploying
<1> QED
  BY <1>4, <1>5, <1>6 DEF PipelineInv

\* A deploy fails half-way; a run deploys the previous release again.
LEMMA DeployStops == ASSUME PipelineInv, P!DeployFails PROVE PipelineInv'
<1>1. /\ command.pc \in Deploying /\ settled' = FALSE
      /\ UNCHANGED <<tree, head, registry, current>>
  BY DEF P!DeployFails, Deploying
<1>2. /\ PipelineTypes /\ CommandHolds /\ CurrentHolds /\ command \in CommandRows
      /\ current # 0 /\ Served(current) /\ command.release \in DOMAIN releases
      /\ P!Target \in P!Images /\ cluster \in [P!Objects -> Named]
      /\ command.mode = "run" => Served(command.previous) /\ ~Served(command.release)
  BY <1>1, Deploys DEF PipelineTypes
<1>3. PICK applied \in SUBSET P!Objects :
         cluster' = [o \in P!Objects |-> IF o \in applied THEN P!Manifest(P!Target)[o] ELSE cluster[o]]
  BY DEF P!DeployFails
<1>4. cluster' \in [P!Objects -> Named]
  BY <1>2, <1>3, ManifestNamed
<1>5. CASE command.mode = "run"
  <2>1. /\ releases' = [releases EXCEPT ![command.release].status = "failed"]
        /\ \/ command' = P!Idle
           \/ command' = [command EXCEPT !.pc = "deploy", !.mode = "undo",
                                         !.release = command.previous, !.live = P!Live']
    BY <1>5 DEF P!DeployFails, P!Undo
  <2>2. /\ releases' \in Seq(ReleaseRows) /\ Len(releases') = Len(releases)
        /\ DOMAIN releases' = DOMAIN releases
        /\ \A k \in DOMAIN releases : releases'[k].images = releases[k].images
        /\ \A k \in DOMAIN releases : k # command.release => (Served(k) => Served(k)')
    BY <1>2, <2>1, Marks
  <2>3. current # command.release /\ command.previous # command.release
    BY <1>2, <1>5
  <2>4. Served(current)' /\ releases'[current].images = releases[current].images
    BY <1>1, <1>2, <2>2, <2>3 DEF Served
  <2>5. CurrentHolds'
    BY <1>1, <1>2, <2>4 DEF CurrentHolds
  <2>6. command' \in CommandRows /\ CommandHolds'
    <3>1. CASE command' = P!Idle
      BY <3>1, IdleTyped DEF CommandHolds, Preparing, Deploying
    <3>2. CASE command' = [command EXCEPT !.pc = "deploy", !.mode = "undo",
                                          !.release = command.previous, !.live = P!Live']
      <4>1. P!Live' \in P!Images
        BY <1>4, LiveTyped, LiveIs
      <4>2. /\ command' \in CommandRows /\ command'.pc = "deploy" /\ command'.mode = "undo"
            /\ command'.release = command.previous
        BY <1>2, <3>2, <4>1 DEF CommandRows
      <4>3. Served(command.release)'
        BY <1>2, <1>5, <2>2, <2>3, <4>2 DEF Served
      <4> QED
        BY <4>2, <4>3 DEF CommandHolds, Preparing, Deploying
    <3> QED
      BY <2>1, <3>1, <3>2
  <2>7. PipelineTypes'
    BY <1>1, <1>2, <1>4, <2>2, <2>6 DEF PipelineTypes
  <2> QED
    BY <2>5, <2>6, <2>7 DEF PipelineInv
<1>6. CASE command.mode # "run"
  <2>1. releases' = releases /\ command' = P!Idle
    BY <1>6 DEF P!DeployFails
  <2>2. PipelineTypes'
    BY <1>1, <1>2, <1>4, <2>1, IdleTyped DEF PipelineTypes
  <2>3. CurrentHolds'
    BY <1>1, <1>2, <2>1 DEF CurrentHolds, Served
  <2>4. CommandHolds'
    BY <2>1, IdleTyped DEF CommandHolds, Preparing, Deploying
  <2> QED
    BY <2>2, <2>3, <2>4 DEF PipelineInv
<1> QED
  BY <1>5, <1>6

LEMMA RollsBack == ASSUME PipelineInv, P!Rollback PROVE PipelineInv'
<1>1. PICK k \in DOMAIN releases :
         /\ releases[k].status \in {"deployed", "baseline"}
         /\ command' = [P!Idle EXCEPT !.pc = "deploy", !.mode = "rollback", !.release = k, !.live = P!Live]
  BY DEF P!Rollback
<1>2. UNCHANGED <<tree, head, registry, cluster, releases, current, settled>>
  BY DEF P!Rollback
<1>3. /\ PipelineTypes /\ CurrentHolds /\ P!Live \in P!Images /\ k \in 0 .. MaxReleases
      /\ registry \in [P!Components -> [P!AllVersions -> P!AllVersions \cup {0}]]
  BY LiveTyped, LiveIs, ReleasesTyped DEF PipelineInv, PipelineTypes
<1>4. current # 0
  BY <1>1, <1>3 DEF CurrentHolds
<1>5. command' \in CommandRows /\ command'.pc = "deploy" /\ command'.mode = "rollback"
      /\ command'.release = k
  <2>1. P!Idle \in CommandRows
    BY IdleTyped
  <2> QED
    BY <1>1, <1>3, <2>1 DEF CommandRows
<1>6. CommandHolds'
  BY <1>1, <1>2, <1>5 DEF CommandHolds, Served, Preparing, Deploying
<1> QED
  BY <1>2, <1>3, <1>4, <1>5, <1>6, GoesOn

LEMMA Dies == ASSUME PipelineInv, P!Killed PROVE PipelineInv'
<1>1. registry \in [P!Components -> [P!AllVersions -> P!AllVersions \cup {0}]]
  BY DEF PipelineInv, PipelineTypes
<1> QED
  BY <1>1, Stops DEF P!Killed

-----------------------------------------------------------------------------
LEMMA PipelineInit == P!Init => PipelineInv
<1> SUFFICES ASSUME P!Init
             PROVE  PipelineInv
  OBVIOUS
<1>1. /\ tree = 1 /\ head = 1 /\ cluster = P!Manifest(Sources[1]) /\ releases = <<>>
      /\ current = 0 /\ command = P!Idle /\ settled = TRUE
      /\ registry = [c \in P!Components |->
            [v \in P!AllVersions |-> IF v = Sources[1][c] THEN v ELSE 0]]
  BY DEF P!Init
<1>2. 1 \in DOMAIN Sources /\ Sources[1] \in P!Images /\ MaxReleases \in Nat
  BY FirstSource, SourceImages, PipelineBounds
<1>3. cluster \in [P!Objects -> Named]
  BY <1>1, <1>2, ManifestNamed
<1>4. registry \in [P!Components -> [P!AllVersions -> P!AllVersions \cup {0}]]
  BY <1>1
<1>5. /\ releases \in Seq(ReleaseRows) /\ Len(releases) <= MaxReleases
      /\ current \in 0 .. Len(releases) /\ settled \in BOOLEAN
  <2>1. releases \in Seq(ReleaseRows) /\ Len(releases) = 0
    BY <1>1
  <2>2. current = 0 /\ settled = TRUE
    BY <1>1
  <2>3. settled \in BOOLEAN
    BY <2>2, Zenon
  <2> QED
    BY <1>2, <2>1, <2>2, <2>3
<1>6. PipelineTypes
  BY <1>1, <1>2, <1>3, <1>4, <1>5, IdleTyped DEF PipelineTypes
<1>7. CurrentHolds /\ CommandHolds
  BY <1>1, IdleTyped DEF CurrentHolds, CommandHolds, Preparing, Deploying
<1> QED
  BY <1>6, <1>7 DEF PipelineInv

LEMMA PipelineStep == PipelineInv /\ [P!Next]_P!vars => PipelineInv'
<1> SUFFICES ASSUME PipelineInv, [P!Next]_P!vars
             PROVE  PipelineInv'
  OBVIOUS
<1>1. CASE P!Next
  BY <1>1, OthersMove, Starts, Prepares, Records, Compares, DeployGoesOn, Verifies, Finishes,
     DeployStops, RollsBack, Dies
     DEF P!Next
<1>2. CASE UNCHANGED P!vars
  BY <1>2 DEF P!vars, PipelineInv, PipelineTypes, CurrentHolds, CommandHolds, Served, P!Target
<1> QED
  BY <1>1, <1>2

\* Whatever fails, is killed or rolled back, the release that is called current is the one
\* the cluster serves once a deploy has ended well (deploy/pipeline.py).
THEOREM CurrentIsServed == P!Spec => []CurrentServes
<1>1. PipelineInv => P!TypeOK
  <2> SUFFICES ASSUME PipelineInv PROVE P!TypeOK
    OBVIOUS
  <2>1. PipelineTypes
    BY DEF PipelineInv
  <2>2. DOMAIN cluster = P!Objects
    BY <2>1 DEF PipelineTypes
  <2>3. \A k \in DOMAIN releases : releases[k] \in ReleaseRows
    BY <2>1, ReleasesTyped
  <2> QED
    BY <2>1, <2>2, <2>3 DEF PipelineTypes, P!TypeOK, ReleaseRows, CommandRows
<1>2. PipelineInv => P!CurrentServes
  BY DEF PipelineInv, CurrentHolds, P!CurrentServes, Served
<1> QED
  BY <1>1, <1>2, PipelineInit, PipelineStep, PTL DEF P!Spec, CurrentServes
=============================================================================
