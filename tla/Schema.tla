------------------------------- MODULE Schema -------------------------------
(***************************************************************************)
(* Database::open: the schema of compactphone.db is brought to the latest  *)
(* version, one transaction per version.  Nothing keeps the program from   *)
(* being started twice, so two openers may be at it at once; any statement *)
(* may fail and an opener may crash between any two.  SQLite in WAL mode,  *)
(* without a busy timeout, is modelled by the lock of its one writer and by *)
(* the snapshot a transaction reads.                                       *)
(***************************************************************************)
EXTENDS Naturals

CONSTANT Openers

VARIABLES
  disk,           \* the committed database: tables, provider column, version
  writer,         \* the opener that holds the write lock, or NoOpener
  opener,         \* per opener: where it is, the version it makes, its view
  excused         \* history: openers that met a fault or another opener

schemaVars == <<disk, writer, opener, excused>>

NoOpener == "none"

ASSUME OpenersAssumption == NoOpener \notin Openers

Latest == 2
Databases == [tables : BOOLEAN, provider : BOOLEAN, version : 0..Latest]
Empty == [tables |-> FALSE, provider |-> FALSE, version |-> 0]

\* kBaselineSchema: every table, the accounts with their provider column.
Baseline == [tables |-> TRUE, provider |-> TRUE, version |-> 0]

\* Databases the releases left behind: none yet, one from before the provider
\* column, one created at version 1 with it, a current one.
Shipped == {Empty,
            [tables |-> TRUE, provider |-> FALSE, version |-> 1],
            [Baseline EXCEPT !.version = 1],
            [Baseline EXCEPT !.version = 2]}

Closed == [at |-> "closed", v |-> 0, base |-> Empty, view |-> Empty]

SchemaInit ==
  /\ disk \in Shipped
  /\ writer = NoOpener
  /\ opener = [p \in Openers |-> Closed]
  /\ excused = {}

At(p, place) == opener[p].at = place
To(p, place) == opener' = [opener EXCEPT ![p].at = place]
MayWrite(p) == writer \in {NoOpener, p}
Release(p) == writer' = IF writer = p THEN NoOpener ELSE writer
Excuse(p) == excused' = excused \cup {p}
OthersAtWork(p) == {q \in Openers \ {p} : opener[q].at \notin {"closed", "open", "failed"}} # {}

\* A statement fails, or is refused by the lock: the transaction is rolled back
\* and open() returns false, with the database left open.
FailOpen(p) == To(p, "failed") /\ Release(p) /\ UNCHANGED disk

\* openWithPath, and schema_version created on its own.
OpenWithPath(p) ==
  /\ At(p, "closed")
  /\ \/ To(p, "read") /\ MayWrite(p) /\ UNCHANGED <<disk, writer>>
        /\ excused' = IF OthersAtWork(p) THEN excused \cup {p} \cup {q \in Openers : ~At(q, "closed")}
                      ELSE excused \ {p}
     \/ FailOpen(p) /\ Excuse(p)

\* readVersion, outside any transaction: MAX(version), 0 when there is none.
ReadVersion(p) ==
  /\ At(p, "read")
  /\ opener' = [opener EXCEPT ![p].v = disk.version + 1,
                              ![p].at = IF disk.version >= Latest THEN "open" ELSE "begin"]
  /\ UNCHANGED <<disk, writer, excused>>

Begin(p) ==
  /\ At(p, "begin")
  /\ \/ To(p, "migrate") /\ UNCHANGED <<disk, writer, excused>>
     \/ FailOpen(p) /\ Excuse(p)

\* Mutant: the column stays in the baseline alone, without a migration.
NoColumnMigration(db) == db

\* addProviderColumn, a no-op where columnExists.
AddProviderColumn(db) == [db EXCEPT !.provider = TRUE]

\* kMigrations[v - 1]: creating the tables fails where they exist.
Migrations(v, db) == IF v = 1 THEN [Baseline EXCEPT !.version = db.version] ELSE AddProviderColumn(db)
Fits(v, db) == v = 1 => ~db.tables

\* kMigrations[v - 1](m_db): the first statement takes the snapshot, a writing
\* one the lock.
Migrate(p) ==
  /\ At(p, "migrate")
  /\ LET done == Migrations(opener[p].v, disk) IN
     \/ /\ Fits(opener[p].v, disk) /\ (done # disk => MayWrite(p))
        /\ opener' = [opener EXCEPT ![p] = [at |-> "write", v |-> opener[p].v, base |-> disk, view |-> done]]
        /\ writer' = IF done = disk THEN writer ELSE p
        /\ UNCHANGED <<disk, excused>>
     \/ FailOpen(p) /\ (IF Fits(opener[p].v, disk) /\ MayWrite(p) THEN Excuse(p) ELSE UNCHANGED excused)

Larger(a, b) == IF a < b THEN b ELSE a

\* writeVersion inserts a row, of which readVersion takes the largest: refused when another writer has committed since the snapshot.
WriteVersion(p) ==
  /\ At(p, "write")
  /\ \/ /\ MayWrite(p) /\ opener[p].base = disk
        /\ opener' = [opener EXCEPT ![p].at = "commit", ![p].view.version = Larger(@, opener[p].v)]
        /\ writer' = p
        /\ UNCHANGED <<disk, excused>>
     \/ FailOpen(p) /\ (IF MayWrite(p) /\ opener[p].base = disk THEN Excuse(p) ELSE UNCHANGED excused)

\* COMMIT, and on to the next version.  When it fails, open() returns with the
\* transaction still open.
Commit(p) ==
  /\ At(p, "commit")
  /\ \/ /\ disk' = opener[p].view /\ Release(p)
        /\ opener' = [opener EXCEPT ![p].v = @ + 1,
                                    ![p].at = IF opener[p].v = Latest THEN "open" ELSE "begin"]
        /\ UNCHANGED excused
     \/ To(p, "failed") /\ Excuse(p) /\ UNCHANGED <<disk, writer>>

\* The program exits or crashes; SQLite forgets what was not committed.
CloseDatabase(p) ==
  /\ ~At(p, "closed")
  /\ opener' = [opener EXCEPT ![p] = Closed]
  /\ Release(p)
  /\ UNCHANGED <<disk, excused>>

SchemaNext ==
  \E p \in Openers : \/ OpenWithPath(p) \/ ReadVersion(p) \/ Begin(p) \/ Migrate(p)
                     \/ WriteVersion(p) \/ Commit(p) \/ CloseDatabase(p)

-----------------------------------------------------------------------------
\* Whatever release left the database behind, whatever failed or crashed and
\* however two starts overlap: the recorded version never promises a table or a
\* column that is not there, open() returns true only for the latest version, and
\* it returns false only to an opener that met a fault or another opener
\* (Database::runMigrations, addProviderColumn).
SchemaSound ==
  /\ disk.version >= 1 => disk.tables
  /\ disk.version >= 2 => disk.provider
  /\ \A p \in Openers : /\ At(p, "open") => disk = [Baseline EXCEPT !.version = Latest]
                        /\ At(p, "failed") => p \in excused
=============================================================================
