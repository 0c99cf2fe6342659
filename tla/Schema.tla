------------------------------- MODULE Schema -------------------------------
(***************************************************************************)
(* Opening the history database (Store::open, dashboard/store.rs): a new   *)
(* file gets its tables, an old one is migrated, and the outcome is        *)
(* validated and probed before the store is used.  Several threads, of one *)
(* process or of several, may open the same file; a process may be killed  *)
(* at any step and started again.                                          *)
(*                                                                         *)
(* A file is its user_version, the parts of the schema it has, and the     *)
(* rows recorded in it.  SQLite (external) gives one connection at a time  *)
(* the write lock, shows a transaction to the others when it is committed, *)
(* and forgets it when its process dies.  STORE_OPEN_LOCK is one mutex per *)
(* process.                                                                *)
(***************************************************************************)
EXTENDS Integers, FiniteSets

CONSTANTS
  Openers,       \* threads that call Store::open
  Processes,     \* the processes they belong to
  Process,       \* [Openers -> Processes]
  Files,         \* what the path may hold at first
  NoOpener,      \* mark of a lock that is free
  NoProcess,     \* mark of tables nobody has made yet
  MaxRestarts    \* bound: processes killed in a checked instance

\* What CREATE TABLE and CREATE INDEX make, and what they give these.
Objects == {"query_logs", "query_response_ips", "query_hourly_stats", "query_daily_stats",
            "indexes"}
Declared == {"columns", "primary_keys", "cascade"}
\* What the statements of validate_schema look at, and what only its probe
\* finds out: that id is an alias of the rowid.
Visible == Objects \cup Declared \cup {"upstream"}
Required == Visible \cup {"rowid_alias"}

SCHEMA_VERSION == 2
File == [version : Nat, parts : SUBSET Required, rows : SUBSET {"recorded", "probe"}]

ASSUME SchemaAssumption ==
  /\ Process \in [Openers -> Processes] /\ Files \subseteq File
  /\ \A f \in Files : "probe" \notin f.rows
  /\ NoOpener \notin Openers /\ NoProcess \notin Processes /\ MaxRestarts \in Nat

VARIABLES
  file,        \* the database, as committed
  found,       \* history: the file at first
  writer,      \* the opener with SQLite's write lock
  transaction, \* the file as its transaction would leave it
  open_lock,   \* the opener in each process with STORE_OPEN_LOCK
  opener,      \* how far each opener is
  version,     \* what it has read as user_version
  maker,       \* history: the process whose opener made the tables
  restarts     \* processes killed so far

schemaVars == <<file, found, writer, transaction, open_lock, opener, version, maker, restarts>>

Working == {"locked", "create", "migrate", "commit", "validate", "probe", "rollback"}
Outcomes == {"ok", "refused", "failed"}

SchemaTypeOK ==
  /\ file \in File /\ found \in File /\ transaction \in File
  /\ writer \in Openers \cup {NoOpener} /\ open_lock \in [Processes -> Openers \cup {NoOpener}]
  /\ opener \in [Openers -> {"out"} \cup Working \cup Outcomes]
  /\ version \in [Openers -> Nat]
  /\ maker \in Processes \cup {NoProcess} /\ restarts \in Nat

SchemaInit ==
  /\ file \in Files /\ found = file /\ transaction = file
  /\ writer = NoOpener /\ open_lock = [p \in Processes |-> NoOpener]
  /\ opener = [o \in Openers |-> "out"] /\ version = [o \in Openers |-> 0]
  /\ maker = NoProcess /\ restarts = 0
-----------------------------------------------------------------------------
Go(o, stage) == opener' = [opener EXCEPT ![o] = stage]
Unlock(o) == open_lock' = [open_lock EXCEPT ![Process[o]] = NoOpener]

\* Store::open returns; the guard is dropped.
Leave(o, outcome) == Go(o, outcome) /\ Unlock(o)

\* Mutant: no lock is taken.
EnterUnlocked(o) ==
  /\ opener[o] = "out"
  /\ Go(o, "locked")
  /\ UNCHANGED <<file, found, writer, transaction, open_lock, version, maker, restarts>>

\* The lock comes first.
Enter(o) ==
  /\ opener[o] = "out" /\ open_lock[Process[o]] = NoOpener
  /\ open_lock' = [open_lock EXCEPT ![Process[o]] = o]
  /\ Go(o, "locked")
  /\ UNCHANGED <<file, found, writer, transaction, version, maker, restarts>>

\* connect, journal_mode and user_version, which is read outside the
\* transaction that acts on it.
ReadVersion(o) ==
  /\ opener[o] = "locked"
  /\ version' = [version EXCEPT ![o] = file.version]
  /\ IF file.version > SCHEMA_VERSION THEN Leave(o, "refused")
     ELSE /\ Go(o, CASE file.version = 0 -> "create"
                     [] file.version = SCHEMA_VERSION -> "validate"
                     [] OTHER -> "migrate")
          /\ UNCHANGED open_lock
  /\ UNCHANGED <<file, found, writer, transaction, maker, restarts>>

\* The transaction t of an opener that has got the write lock.
Begin(o, t, stage) ==
  /\ writer = NoOpener /\ writer' = o
  /\ transaction' = t /\ Go(o, stage)
  /\ UNCHANGED <<file, found, open_lock, version, maker, restarts>>

Refuse(o) ==
  /\ Leave(o, "refused")
  /\ UNCHANGED <<file, found, writer, transaction, version, maker, restarts>>

Made(f) == [version |-> SCHEMA_VERSION, parts |-> Required, rows |-> f.rows]

\* Mutant: the tables are made outside the transaction that sets the version.
CreateUncommitted(o) ==
  /\ opener[o] = "create"
  /\ IF file.parts \cap Objects # {} THEN Refuse(o)
     ELSE /\ writer = NoOpener /\ writer' = o
          /\ file' = [file EXCEPT !.parts = Required]
          /\ transaction' = Made(file) /\ Go(o, "commit")
          /\ UNCHANGED <<found, open_lock, version, maker, restarts>>

\* CREATE TABLE fails if there is such a table.
Create(o) ==
  /\ opener[o] = "create"
  /\ IF file.parts \cap Objects # {} THEN Refuse(o) ELSE Begin(o, Made(file), "commit")

\* migrate_to_current: the column is added where it is missing and its table
\* is not; the version is set in any case.
Migrated(f) ==
  [version |-> SCHEMA_VERSION, rows |-> f.rows,
   parts |-> IF "query_logs" \in f.parts THEN f.parts \cup {"upstream"} ELSE f.parts]

Migrate(o) == opener[o] = "migrate" /\ Begin(o, Migrated(file), "commit")

Commit(o) ==
  /\ opener[o] = "commit" /\ writer = o
  /\ file' = transaction /\ writer' = NoOpener /\ Go(o, "validate")
  /\ maker' = IF version[o] = 0 THEN Process[o] ELSE maker
  /\ UNCHANGED <<found, transaction, open_lock, version, restarts>>

\* The statements of validate_schema.
Validate(o) ==
  /\ opener[o] = "validate"
  /\ IF Visible \subseteq file.parts THEN Go(o, "probe") /\ UNCHANGED open_lock
     ELSE Leave(o, "refused")
  /\ UNCHANGED <<file, found, writer, transaction, version, maker, restarts>>

\* validate_schema_behavior: rows are inserted under a savepoint ...
Probe(o) ==
  /\ opener[o] = "probe"
  /\ Begin(o, [file EXCEPT !.rows = @ \cup {"probe"}], "rollback")

\* ... and taken back, whatever became of them; then open returns.
Rollback(o) ==
  /\ opener[o] = "rollback" /\ writer = o
  /\ writer' = NoOpener
  /\ Leave(o, IF "rowid_alias" \in file.parts THEN "ok" ELSE "refused")
  /\ UNCHANGED <<file, found, transaction, version, maker, restarts>>

\* Any statement may fail: the disk, or the lock after busy_timeout.  An open
\* transaction is dropped.
Fail(o) ==
  /\ opener[o] \in Working
  /\ Leave(o, "failed")
  /\ writer' = IF writer = o THEN NoOpener ELSE writer
  /\ UNCHANGED <<file, found, transaction, version, maker, restarts>>

\* A process is killed, or ends, and is started again.
Restart(p) ==
  /\ restarts < MaxRestarts /\ restarts' = restarts + 1
  /\ opener' = [o \in Openers |-> IF Process[o] = p THEN "out" ELSE opener[o]]
  /\ writer' = IF writer \in Openers /\ Process[writer] = p THEN NoOpener ELSE writer
  /\ open_lock' = [open_lock EXCEPT ![p] = NoOpener]
  /\ UNCHANGED <<file, found, transaction, version, maker>>

OpenStep(o) ==
  \/ Enter(o) \/ ReadVersion(o) \/ Create(o) \/ Migrate(o) \/ Commit(o)
  \/ Validate(o) \/ Probe(o) \/ Rollback(o) \/ Fail(o)

SchemaNext == (\E o \in Openers : OpenStep(o)) \/ (\E p \in Processes : Restart(p))

SchemaSpec == SchemaInit /\ [][SchemaNext]_schemaVars
-----------------------------------------------------------------------------
(* Properties                                                              *)

\* A file that an open, with nobody in its way, accepts or brings up to date.
Openable(f) ==
  \/ f.version = 0 /\ f.parts \cap Objects = {}
  \/ f.version = 1 /\ Required \ {"upstream"} \subseteq f.parts
  \/ f.version = SCHEMA_VERSION /\ f.parts = Required

\* Whoever opens the file and dies over it, at any step: a file that could be
\* opened still can be, its rows are those recorded in it and no probe's, and
\* a store that was opened has the whole current schema (the transactions of
\* open and migrate_to_current, the savepoint of validate_schema_behavior).
FileSurvives ==
  /\ Openable(found) => Openable(file)
  /\ file.rows = found.rows
  /\ \A o \in Openers : opener[o] = "ok" => file.version = SCHEMA_VERSION /\ file.parts = Required

\* "concurrent open of same database succeeds" (store.rs:1848): an opener is
\* turned away only from a file that could not be opened at first, or because
\* another process made the tables after it had found none; the threads of one
\* process never get in each other's way (STORE_OPEN_LOCK).
RefusedForCause ==
  \A o \in Openers :
    opener[o] = "refused" =>
      ~Openable(found) \/ (version[o] = 0 /\ maker \notin {NoProcess, Process[o]})
=============================================================================
