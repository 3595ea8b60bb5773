------------------------------ MODULE Storage ------------------------------
(* The database over the life of an installation: its migrations            *)
(* (adapters/storage/migrations.py), the process that opens it              *)
(* (bootstrap.py, cli.py), the import of a database from before they were   *)
(* numbered (adapters/storage/legacy_import.py), and what a process leaves  *)
(* that ends in the middle.  What is in it is abstracted to the positions   *)
(* entered by hand, with their stop and plan, and to the fills of Dhan.     *)
(* SQLite is external: a transaction is one step, and what it commits gets  *)
(* from the log into the file some time later.                              *)
EXTENDS Integers, FiniteSets

CONSTANTS
    Processes,  \* commands of swingdash that are under way
    Releases,   \* releases of swingdash, by their LATEST_VERSION
    Ids,        \* bound: positions that the user enters
    Stops,      \* bound: stops that the user gives them
    Copies      \* bound: copies that are kept

StorageAssumption == Releases \subseteq 6 .. 8 /\ Stops \subseteq Nat \ {0} /\ Copies \in Nat

None == 0
Row(stop, initial, plan) == [stop |-> stop, initial |-> initial, plan |-> plan]
NoRow == Row(None, None, None)
NoBook == [i \in Ids |-> NoRow]

VARIABLES
    db,         \* what SQLite reads: file and log
    file,       \* the file alone
    backups,    \* the files it was copied to
    process,    \* process -> where it is, with the release it runs
    entered,    \* history: position -> the stop it was entered with
    fetched,    \* history: this release stored fills in this database
    partial     \* history: the file was copied while the log had more

history == <<entered, fetched, partial>>
vars == <<db, file, backups, process, history>>

Database(version, applied, book, fills, through) ==
    [version |-> version, applied |-> applied, book |-> book, fills |-> fills,
     through |-> through]

\* The legacy database: the tables of the first migration, and no number.
Legacy == Database(0, {1}, NoBook, "none", FALSE)
Empty == Database(0, {}, NoBook, "none", FALSE)
NoDatabase == Database(-1, {}, NoBook, "none", FALSE)
Out == [at |-> "out"]

Init ==
    /\ db = NoDatabase /\ file = NoDatabase /\ backups = {}
    /\ process = [p \in Processes |-> Out]
    /\ entered = [i \in Ids |-> None] /\ fetched = FALSE /\ partial = FALSE

-----------------------------------------------------------------------------
(* What the migrations do.                                                  *)

\* The plan of a row from before there were plans: the stop it has now (mutant),
\* or the first one.
PlanNow(row) == row.stop
Plan(row) == row.initial

MigrateBook(book) == [i \in Ids |-> IF book[i] = NoRow THEN NoRow
                                    ELSE Row(book[i].stop, book[i].initial, Plan(book[i]))]

\* The fills and the marker of what was read; or the marker only (mutant).
ForgetsMarker(d) == Database(d.version, d.applied, d.book, d.fills, FALSE)
Forgets(d) == Database(d.version, d.applied, d.book, "none", FALSE)

\* Number 7 rebuilds the table and brings the fills, 8 forgets them.
Migrated(d, number) ==
    LET done(book) == Database(number, d.applied \cup {number}, book, d.fills, d.through) IN
    CASE number = 7 -> done(MigrateBook(d.book))
      [] number = 8 -> Forgets(done(d.book))
      [] OTHER -> done(d.book)

\* A column is not added twice; every other migration runs a second time.
CanApply(d, number) == number = 5 => 5 \notin d.applied

-----------------------------------------------------------------------------
(* A process: it opens the database, migrates it and works on it.           *)

At(p, at) == process[p].at = at
Works(p, release) == process' = [process EXCEPT ![p] = [at |-> "open", release |-> release]]
Migrates(p, release, version, number) ==
    process' = [process EXCEPT ![p] = [at |-> "migrate", release |-> release,
                                       version |-> version, number |-> number]]
Ends(p) == process' = [process EXCEPT ![p] = Out]

\* Mutant: an older release opens what a newer one has made.
NeverTooNew(d, release) == FALSE
TooNew(d, release) == d.version > release

\* migrate() reads the version once.
Opens(p, release, d) ==
    IF TooNew(d, release) THEN Ends(p) ELSE Migrates(p, release, d.version, 1)

Start(p, release) ==
    /\ At(p, "out")
    /\ db' = IF db = NoDatabase THEN Empty ELSE db
    /\ Opens(p, release, db')
    /\ UNCHANGED <<file, backups, history>>

\* Mutants: the migration of this number is applied again; every one is.
SkippedBefore(number, version) == number < version
SkippedNone(number, version) == FALSE
Skipped(number, version) == number <= version

Apply(p) ==
    /\ At(p, "migrate") /\ process[p].number <= process[p].release
    /\ LET w == process[p]
           next == Migrates(p, w.release, w.version, w.number + 1)
       IN  \/ Skipped(w.number, w.version) /\ next /\ UNCHANGED db
           \/ /\ ~Skipped(w.number, w.version)
              /\ IF CanApply(db, w.number) THEN db' = Migrated(db, w.number) /\ next
                                           ELSE Ends(p) /\ UNCHANGED db
    /\ UNCHANGED <<file, backups, history>>

Ready(p) ==
    /\ At(p, "migrate") /\ process[p].number > process[p].release
    /\ Works(p, process[p].release)
    /\ UNCHANGED <<db, file, backups, history>>

SavesRow(i, row) ==
    db' = Database(db.version, db.applied, [db.book EXCEPT ![i] = row], db.fills, db.through)

\* A plan is stored from release 7 on.
Enter(p, i, stop) ==
    /\ At(p, "open") /\ entered[i] = None
    /\ SavesRow(i, Row(stop, stop, IF process[p].release >= 7 THEN stop ELSE None))
    /\ entered' = [entered EXCEPT ![i] = stop]
    /\ UNCHANGED <<file, backups, process, fetched, partial>>

Trail(p, i, stop) ==
    /\ At(p, "open") /\ db.book[i] # NoRow
    /\ SavesRow(i, Row(stop, db.book[i].initial, db.book[i].plan))
    /\ UNCHANGED <<file, backups, process, history>>

\* The fills are identified in the way of the release that stores them.
StoreFills(p) ==
    /\ At(p, "open") /\ process[p].release >= 7
    /\ db' = Database(db.version, db.applied, db.book,
                      IF db.fills # "none" THEN db.fills
                      ELSE IF process[p].release = 7 THEN "old" ELSE "new", TRUE)
    /\ fetched' = (fetched \/ process[p].release = 8)
    /\ UNCHANGED <<file, backups, process, entered, partial>>

Alone(p) == \A q \in Processes \ {p} : At(q, "out")

\* The last connection that is closed folds the log into the file.
Close(p) ==
    /\ At(p, "open") /\ Ends(p)
    /\ file' = IF Alone(p) THEN db ELSE file
    /\ UNCHANGED <<db, backups, history>>

Crash(p) ==
    /\ ~At(p, "out") /\ Ends(p)
    /\ UNCHANGED <<db, file, backups, history>>

Fold ==
    /\ \E p \in Processes : At(p, "open") \/ At(p, "migrate")
    /\ file # db /\ file' = db
    /\ UNCHANGED <<db, backups, process, history>>

-----------------------------------------------------------------------------
(* migrate-legacy.                                                          *)

\* Mutant: the file is not copied.
NoCopy == {}
Copied == {d \in {file} : d # NoDatabase}

Refuses(force) == db # NoDatabase /\ ~force

Import(p, release, force) ==
    /\ At(p, "out") /\ ~Refuses(force) /\ Cardinality(backups) < Copies
    /\ backups' = backups \cup Copied
    /\ partial' = (partial \/ file # db)
    /\ process' = [process EXCEPT ![p] = [at |-> "copy", release |-> release]]
    /\ UNCHANGED <<db, file, entered, fetched>>

\* The backup is one transaction, and the migrations follow.
Copy(p) ==
    /\ At(p, "copy")
    /\ db' = Legacy /\ file' = Legacy
    /\ Opens(p, process[p].release, Legacy)
    /\ fetched' = FALSE
    /\ UNCHANGED <<backups, entered, partial>>

Next ==
    \/ \E p \in Processes, r \in Releases :
          Start(p, r) \/ \E force \in BOOLEAN : Import(p, r, force)
    \/ \E p \in Processes :
          Apply(p) \/ Ready(p) \/ StoreFills(p) \/ Close(p) \/ Crash(p) \/ Copy(p)
    \/ \E p \in Processes, i \in Ids, s \in Stops : Enter(p, i, s) \/ Trail(p, i, s)
    \/ Fold

Spec == Init /\ [][Next]_vars

-----------------------------------------------------------------------------
Versions == 0 .. 8
Files == {d \in {db, file} \cup backups : d # NoDatabase}

TypeOK ==
    /\ \A d \in Files : d.version \in Versions /\ d.applied \subseteq Versions
    /\ \A p \in Processes : process[p].at \in {"out", "migrate", "open", "copy"}

\* "each atomically with its version bump": wherever a process ends, the number
\* says which migrations were applied, in the database, its file and its copies.
SchemaMatches ==
    \A d \in Files : d.applied \cup {1} = 1 .. d.version \cup {1}

\* "Existing rows are manual; their plan is what was entered", however the stop
\* was moved before there were plans, and whichever releases it went through.
PlansKept ==
    \A d \in Files, i \in Ids :
       d.book[i] # NoRow => /\ d.book[i].initial = entered[i]
                           /\ d.book[i].plan = IF d.version >= 7 THEN entered[i] ELSE None

\* Fills that are identified in the old way are not taken for the history that
\* was read: "the next sync reads them again with the new ids".
FillsCurrent == \A d \in Files : d.version = 8 => d.fills # "old"

\* ... and those that are identified in the new way are forgotten by no start.
FillsKept == fetched => db.fills = "new" /\ db.through

\* "the current file is backed up first": what was entered is in the database or
\* in a copy.  The copy is of the file without its log: left out is what a process
\* that ended in the middle had committed to the log.
Entered(i) == entered[i] # None
InCopy(i) == \E d \in Files : d.book[i] # NoRow
NothingLost == \A i \in Ids : Entered(i) => InCopy(i)
NothingReplaced == ~partial => NothingLost
=============================================================================
