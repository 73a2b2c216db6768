------------------------------ MODULE Startup -------------------------------
(***************************************************************************)
(* One API process that starts: the schema migrations, the seed, the       *)
(* one-time conversions and the practice packs, on a new database or on    *)
(* one of an earlier release, with crashes in between, and users who       *)
(* remove what was made for them (main.py lifespan, migrations.py,         *)
(* seed.py, learn_content.py, version_backfill.py,                         *)
(* practice_competitions.py).  A transaction is one step; SQLite commits   *)
(* the DDL that comes before the first row is written on its own.          *)
(***************************************************************************)
EXTENDS Naturals, Sequences, Functions

CONSTANTS
    Columns,    \* columns that migrations add to existing tables
    MaxCrashes  \* a bound: not every start is interrupted

StartupAssumption == MaxCrashes \in Nat

\* What a start makes once: a topic of the forum from a legacy discussion, a vote from a
\* like on it and its author's watch, lessons from the JSON of a course and the exercises
\* on them, the variation of a model card, and a practice pack.
Things == {"topic", "vote", "watch", "lessons", "exercises", "variation", "pack"}

VARIABLES
    backend,  \* sqlite or postgresql
    legacy,   \* whether the database is of an earlier release
    pc,       \* where the process is
    db,       \* what is committed
    removed,  \* the things that users have removed (not in the code)
    crashes

vars == <<backend, legacy, pc, db, removed, crashes>>

\* MIGRATIONS, without those that only add further columns or a settings row
Migrations == <<"columns", "community_columns", "discussions", "community", "versions">>

Receipts == {"lessons", "exercises", "pack"}

TypeOK ==
    /\ backend \in {"sqlite", "postgresql"} /\ legacy \in BOOLEAN
    /\ pc \in {"down", "migrate", "rebuild", "seed", "learn", "versions", "practice", "up"}
    /\ db \in [applied : SUBSET Range(Migrations), columns : SUBSET Columns,
               nullable : BOOLEAN, rebuild : BOOLEAN,
               arena : BOOLEAN, mapped : BOOLEAN,
               receipts : SUBSET Receipts, copies : [Things -> Nat]]
    /\ removed \subseteq Things
    /\ crashes \in 0 .. MaxCrashes

\* create_all() has made every table that was absent, with all its columns; a legacy
\* database has older tables.  Nothing is recorded as applied in either.
Init ==
    /\ backend \in {"sqlite", "postgresql"}
    /\ legacy \in BOOLEAN
    /\ pc = "down" /\ removed = {}
    /\ db = [applied |-> {}, columns |-> IF legacy THEN {} ELSE Columns,
             nullable |-> ~legacy, rebuild |-> FALSE,
             arena |-> legacy, mapped |-> FALSE,
             receipts |-> {}, copies |-> [t \in Things |-> 0]]
    /\ crashes = 0

-----------------------------------------------------------------------------
(* Migrations.                                                             *)

Copied(d, things) ==
    [d EXCEPT !.copies = [t \in Things |-> @[t] + IF t \in things THEN 1 ELSE 0]]

\* run_migrations(): those that are not recorded, in order
Migrating(m) ==
    /\ pc \in {"migrate", "rebuild"}
    /\ m \notin db.applied
    /\ \E k \in DOMAIN Migrations :
          Migrations[k] = m /\ \A j \in 1 .. k - 1 : Migrations[j] \in db.applied

\* legacy_discussions_to_forum(): with a map of what was copied; the likes move to the topic
CopyDiscussions(d) ==
    IF legacy /\ ~d.mapped THEN Copied([d EXCEPT !.mapped = TRUE], {"topic"}) ELSE d

\* community_backfill(): the likes of topics that exist
CopyLikes(d) == IF d.copies["topic"] > 0 THEN Copied(d, {"vote", "watch"}) ELSE d

\* backfill_resource_versions(): a model card without a variation gains one
Backfill(d) ==
    IF (legacy \/ d.arena) /\ d.copies["variation"] = 0 THEN Copied(d, {"variation"}) ELSE d

\* What the transaction of a migration writes
Migrated(m, d) ==
    CASE m = "columns" -> [d EXCEPT !.columns = Columns]
      [] m = "community_columns" -> [d EXCEPT !.nullable = TRUE, !.rebuild = FALSE]
      [] m = "discussions" -> CopyDiscussions(d)
      [] m = "community" -> CopyLikes(d)
      [] m = "versions" -> Backfill(d)

\* SQLite cannot alter a column: drop_not_null() makes a copy of the table.
Rebuilds(m) == m = "community_columns" /\ backend = "sqlite" /\ ~db.nullable

\* Mutant: columns are added without a look at the table.
FailsOnColumns(m) == (m = "columns" /\ db.columns # {}) \/ (Rebuilds(m) /\ db.rebuild)

\* The CREATE TABLE of the copy fails when the table is there.
Fails(m) == Rebuilds(m) /\ db.rebuild

MigrationFails ==
    /\ \E m \in Range(Migrations) : Migrating(m) /\ pc = "migrate" /\ Fails(m)
    /\ pc' = "down"
    /\ UNCHANGED <<backend, legacy, db, removed, crashes>>

Migrate(m) ==
    /\ Migrating(m)
    /\ IF pc = "rebuild" THEN TRUE ELSE ~Rebuilds(m) /\ ~Fails(m)
    /\ pc' = "migrate"
    /\ db' = [Migrated(m, db) EXCEPT !.applied = @ \cup {m}]
    /\ UNCHANGED <<backend, legacy, removed, crashes>>

\* add_columns() on SQLite: each ALTER TABLE is committed by itself.
AddColumn(c) ==
    /\ backend = "sqlite"
    /\ Migrating("columns") /\ ~Fails("columns")
    /\ c \notin db.columns
    /\ db' = [db EXCEPT !.columns = @ \cup {c}]
    /\ UNCHANGED <<backend, legacy, pc, removed, crashes>>

\* So is the CREATE TABLE of the copy.
CreateRebuild ==
    /\ pc = "migrate"
    /\ Migrating("community_columns")
    /\ Rebuilds("community_columns") /\ ~db.rebuild
    /\ db' = [db EXCEPT !.rebuild = TRUE]
    /\ pc' = "rebuild"
    /\ UNCHANGED <<backend, legacy, removed, crashes>>

MigrationsDone ==
    /\ pc = "migrate" /\ Range(Migrations) \subseteq db.applied
    /\ pc' = "seed"
    /\ UNCHANGED <<backend, legacy, db, removed, crashes>>

-----------------------------------------------------------------------------
(* What follows at every start.                                            *)

\* A step of lifespan(): it commits and the next one comes.
Then(here, new, next) ==
    /\ pc = here
    /\ db' = new
    /\ pc' = next
    /\ UNCHANGED <<backend, legacy, removed, crashes>>

\* seed(): the user arena with a course, a model card and the rest, unless arena is there
Seed == Then("seed", [db EXCEPT !.arena = TRUE], "learn")

\* Mutant: lessons are converted when the course has none.
LessonsDueUnrecorded(d) == d.copies["lessons"] = 0

\* convert_lessons(): unless there is a receipt, or there are lessons
LessonsDue(d) == "lessons" \notin d.receipts /\ d.copies["lessons"] = 0

\* add_seeded_exercises(): on the lessons that there are
ExercisesDue(d) == "exercises" \notin d.receipts /\ d.copies["lessons"] > 0

Converted(d) == IF LessonsDue(d) THEN Copied(d, {"lessons"}) ELSE d

\* ensure_learning_content()
Learn ==
    LET d == Converted(db) IN
    Then("learn",
         [IF ExercisesDue(d) THEN Copied(d, {"exercises"}) ELSE d
            EXCEPT !.receipts = @ \cup {"lessons", "exercises"}],
         "versions")

\* ensure_versions()
Versions == Then("versions", Backfill(db), "practice")

\* import_practice_competitions(): the rows and the receipt of a pack are one transaction
Import ==
    Then("practice",
         IF "pack" \in db.receipts THEN db
         ELSE [Copied(db, {"pack"}) EXCEPT !.receipts = @ \cup {"pack"}],
         "up")

\* A failed import is logged, and retried at the next start.
ImportFails == "pack" \notin db.receipts /\ Then("practice", db, "up")

-----------------------------------------------------------------------------
(* The process and its users.                                              *)

Start == Then("down", db, "migrate")

Crash ==
    /\ pc \notin {"down", "up"}
    /\ crashes < MaxCrashes
    /\ crashes' = crashes + 1
    /\ pc' = "down"
    /\ UNCHANGED <<backend, legacy, db, removed>>

Stop ==
    /\ pc = "up"
    /\ pc' = "down"
    /\ UNCHANGED <<backend, legacy, db, removed, crashes>>

\* What goes with a thing: a topic with its votes and watches, lessons with their exercises
With(t) ==
    CASE t = "topic" -> {"topic", "vote", "watch"}
      [] t = "lessons" -> {"lessons", "exercises"}
      [] OTHER -> {t}

\* Deleting, unvoting, unwatching
Remove(t) ==
    /\ pc = "up"
    /\ db.copies[t] > 0
    /\ db' = [db EXCEPT !.copies = [u \in Things |-> IF u \in With(t) THEN 0 ELSE @[u]]]
    /\ removed' = removed \cup With(t)
    /\ UNCHANGED <<backend, legacy, pc, crashes>>

StartStep ==
    \/ Start
    \/ \E m \in Range(Migrations) : Migrate(m)
    \/ \E c \in Columns : AddColumn(c)
    \/ CreateRebuild \/ MigrationFails \/ MigrationsDone
    \/ Seed \/ Learn \/ Versions \/ Import \/ ImportFails

Next == StartStep \/ Crash \/ Stop \/ \E t \in Things : Remove(t)

Spec == Init /\ [][Next]_vars

\* A process that is down is started again, and goes on.
FairSpec == Spec /\ WF_vars(StartStep)

-----------------------------------------------------------------------------
Legacy == {"topic", "vote", "watch", "lessons", "exercises", "variation"}

\* After an upgrade, however often it was interrupted, everything of the earlier release is
\* there once, but for what users removed since (migrations.py: "preserves its data").
UpgradeKeeps ==
    pc = "up" /\ legacy =>
        \A t \in Legacy \ removed : db.copies[t] = 1

\* What users removed does not come back at a later start, and nothing is made twice;
\* variations apart (learn_content.py, practice_competitions.py receipts).
NothingReturns ==
    \A t \in Things :
        /\ db.copies[t] <= 1
        /\ t \in removed \ {"variation"} => db.copies[t] = 0

\* Everything of an earlier release, and what a start makes, is there once.
MadeOnce == TypeOK /\ UpgradeKeeps /\ NothingReturns

\* The copy of a table that an interrupted rebuild has left on SQLite
Stuck == db.rebuild /\ Rebuilds("community_columns") /\ pc \in {"down", "migrate"}

\* A start that was interrupted is completed by a later one, unless it is stuck.
StartsEnd == pc = "down" ~> (pc = "up" \/ Stuck)

\* docs/administration.md: migrations are idempotent functions, and reruns are no-ops, on
\* SQLite too.  The program violates it: a crash in a rebuild leaves the copy behind, and
\* no later start gets past it.
AllStartsEnd == pc = "down" ~> pc = "up"

\* docs/models.md: the backfill of variations runs once.  The program violates it: it runs
\* at every start, and gives a model whose last variation was deleted a new one.
VariationStaysDeleted == "variation" \in removed => db.copies["variation"] = 0
=============================================================================
