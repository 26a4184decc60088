----------------------------- MODULE Migrations -----------------------------
(***************************************************************************)
(* Start-up of the service on a database file that earlier builds may have *)
(* used: reading schema_migrations, applying the versions that are missing *)
(* each in a transaction of its own, and listening.  A process may stop    *)
(* between any two statements and be started again, and a second process   *)
(* may be started on the file by hand.  The rows are those of an indexed   *)
(* table (memory_entries, topic_nodes), which requests write.              *)
(***************************************************************************)
EXTENDS Naturals

CONSTANTS
  Processes,   \* den-memories processes on one file
  Managed,     \* the ones systemd starts again when they fail
  NoProcess,   \* nobody holds the write lock
  NumVersions, \* embedded migrations, in the order of their names
  Rebuild,     \* 002, which drops and recreates the full-text tables
  AddColumn,   \* 003, whose ALTER TABLE cannot be repeated
  Rows,        \* rows of the indexed table
  MaxStops     \* bound on processes that stop

Versions == 1..NumVersions

ASSUME ProcessAssumption == NoProcess \notin Processes /\ Managed \subseteq Processes
ASSUME VersionAssumption ==
  NumVersions \in Nat /\ Rebuild \in Versions /\ AddColumn \in Versions \ {Rebuild}

VARIABLES
  file,    \* the committed database
  work,    \* the database as the open transaction sees it
  lock,    \* the process that holds SQLite's write lock
  stage,   \* where each process is
  known,   \* the versions it read when it started
  next,    \* the version it looks at
  touched, \* the rows requests of this build wrote (history)
  stops    \* how many processes stopped

vars == <<file, work, lock, stage, known, next, touched, stops>>
tables == <<file, work, lock>>

\* The versions recorded in schema_migrations and those whose statements the schema
\* shows, the rows of the table, and those the full-text table has.
Database == [recorded: SUBSET Versions, schema: SUBSET Versions,
             rows: SUBSET Rows, indexed: SUBSET Rows]
Stages == {"down", "starting", "executed", "recorded", "serving"}

\* A file that earlier builds left: with some of the versions, and rows once there
\* are tables, of which the index may miss any that were written before 002.
Init ==
  /\ file \in {f \in Database : \E n \in 0..NumVersions :
                 /\ f.recorded = 1..n /\ f.schema = 1..n
                 /\ n = 0 => f.rows = {}
                 /\ f.indexed \subseteq f.rows}
  /\ work = file
  /\ lock = NoProcess
  /\ stage = [p \in Processes |-> "down"]
  /\ known = [p \in Processes |-> {}]
  /\ next = [p \in Processes |-> 1]
  /\ touched = {}
  /\ stops = 0

-----------------------------------------------------------------------------
(* Migrations.                                                             *)

\* Mutant: rows.Next is never called.
NoVersions == {}

\* SELECT version FROM schema_migrations
RecordedVersions == file.recorded

\* store.Open, and the versions that are there.
Open(p) ==
  /\ stage[p] = "down"
  /\ stage' = [stage EXCEPT ![p] = "starting"]
  /\ known' = [known EXCEPT ![p] = RecordedVersions]
  /\ next' = [next EXCEPT ![p] = 1]
  /\ UNCHANGED <<tables, touched, stops>>

Skip(p) ==
  /\ stage[p] = "starting" /\ next[p] \in known[p]
  /\ next' = [next EXCEPT ![p] = @ + 1]
  /\ UNCHANGED <<tables, stage, known, touched, stops>>

Missing(p) == stage[p] = "starting" /\ next[p] \in Versions \ known[p]

\* The statements of version v: all but 003's say IF NOT EXISTS.
Repeatable(v) == v # AddColumn

Migrated(db, v) ==
  [db EXCEPT !.schema = @ \cup {v}, !.indexed = IF v = Rebuild THEN {} ELSE @]

\* BEGIN and the statements; the first of them takes the write lock.
Execute(p) ==
  /\ Missing(p) /\ lock = NoProcess
  /\ next[p] \in file.schema => Repeatable(next[p])
  /\ lock' = p
  /\ work' = Migrated(file, next[p])
  /\ stage' = [stage EXCEPT ![p] = "executed"]
  /\ UNCHANGED <<file, known, next, touched, stops>>

\* Mutant: INSERT OR IGNORE.
AnyRecordable(v) == TRUE

\* version is the PRIMARY KEY.
Recordable(v) == v \notin work.recorded

Record(p) ==
  /\ stage[p] = "executed" /\ Recordable(next[p])
  /\ work' = [work EXCEPT !.recorded = @ \cup {next[p]}]
  /\ stage' = [stage EXCEPT ![p] = "recorded"]
  /\ UNCHANGED <<file, lock, known, next, touched, stops>>

Commit(p) ==
  /\ stage[p] = "recorded"
  /\ file' = work
  /\ lock' = NoProcess
  /\ stage' = [stage EXCEPT ![p] = "starting"]
  /\ next' = [next EXCEPT ![p] = @ + 1]
  /\ UNCHANGED <<work, known, touched, stops>>

\* Mutant: what was executed so far stays.
HalfKept(p) ==
  IF lock = p THEN lock' = NoProcess /\ file' = work /\ UNCHANGED work
              ELSE UNCHANGED tables

\* Mutant: the transaction is left open.
LeftOpen(p) == UNCHANGED tables

\* tx.Rollback, or what SQLite makes of a transaction whose process stopped.
Rollback(p) ==
  IF lock = p THEN lock' = NoProcess /\ work' = file /\ UNCHANGED file
              ELSE UNCHANGED tables

\* log.Fatalf, which ends the process with a failure.
Exit(p) ==
  /\ stage' = [stage EXCEPT ![p] = "down"]
  /\ Rollback(p)
  /\ UNCHANGED <<known, next, touched, stops>>

\* The ALTER TABLE of a version another process applied meanwhile; the key of one
\* it recorded; a lock that is not free within busy_timeout.
ExecuteRefused(p) ==
  /\ Missing(p) /\ lock = NoProcess
  /\ next[p] \in file.schema /\ ~Repeatable(next[p])
  /\ Exit(p)

RecordRefused(p) ==
  /\ stage[p] = "executed" /\ ~Recordable(next[p])
  /\ Exit(p)

BusyTimeout(p) ==
  /\ Missing(p) /\ lock # NoProcess
  /\ Exit(p)

-----------------------------------------------------------------------------
(* Serving.                                                                *)

MayListen(p) == stage[p] = "starting" /\ next[p] > NumVersions

\* ListenAndServe, once everything is migrated; the address is taken by one
\* process at a time.
Listen(p) ==
  /\ MayListen(p)
  /\ \A q \in Processes : stage[q] # "serving"
  /\ stage' = [stage EXCEPT ![p] = "serving"]
  /\ UNCHANGED <<tables, known, next, touched, stops>>

ListenRefused(p) ==
  /\ MayListen(p)
  /\ \E q \in Processes : stage[q] = "serving"
  /\ Exit(p)

\* A handler that inserts or updates row n: row and index in one transaction.
WriteRow(p, n) ==
  /\ stage[p] = "serving" /\ lock = NoProcess
  /\ file' = [file EXCEPT !.rows = @ \cup {n}, !.indexed = @ \cup {n}]
  /\ work' = file'
  /\ touched' = touched \cup {n}
  /\ UNCHANGED <<lock, stage, known, next, stops>>

\* The process is killed, or a statement fails.
Stop(p) ==
  /\ stage[p] # "down" /\ stops < MaxStops
  /\ stops' = stops + 1
  /\ stage' = [stage EXCEPT ![p] = "down"]
  /\ Rollback(p)
  /\ UNCHANGED <<known, next, touched>>

-----------------------------------------------------------------------------

Run(p) ==
  \/ Skip(p) \/ Execute(p) \/ Record(p) \/ Commit(p) \/ Listen(p)
  \/ ExecuteRefused(p) \/ RecordRefused(p) \/ BusyTimeout(p) \/ ListenRefused(p)

Next ==
  \E p \in Processes :
    Open(p) \/ Run(p) \/ Stop(p) \/ \E n \in Rows : WriteRow(p, n)

Spec == Init /\ [][Next]_vars

\* A process that runs goes on, and systemd starts the managed ones again
\* (Restart=on-failure, at intervals its start limit does not forbid).
FairSpec ==
  /\ Spec
  /\ \A p \in Processes : WF_vars(Run(p))
  /\ \A p \in Managed : WF_vars(Open(p))

-----------------------------------------------------------------------------
(* Properties.                                                             *)

\* The variables have their types, and the lock is held by the one process that is
\* inside a transaction.
TypeOK ==
  /\ file \in Database /\ work \in Database
  /\ stage \in [Processes -> Stages]
  /\ known \in [Processes -> SUBSET Versions]
  /\ next \in [Processes -> 1..NumVersions + 1]
  /\ touched \subseteq Rows
  /\ stops \in Nat
  /\ lock \in Processes \cup {NoProcess}
  /\ \A p \in Processes : lock = p <=> stage[p] \in {"executed", "recorded"}

\* However starts, stops and second processes interleave, the file has the versions
\* up to some one, each with its statements and its record or with neither: no
\* start finds a version half applied (store.go:82-100).
SchemaIsPrefix ==
  \E n \in 0..NumVersions : file.recorded = 1..n /\ file.schema = 1..n

\* 002 empties the index for good only before anything is served: whatever row a
\* request of this build wrote stays indexed, also when a process that read
\* schema_migrations too early runs 002 again (002_candidate_fts.sql:1).
TouchedIndexed == touched \subseteq file.indexed

\* In the end the service serves and keeps serving: no stop or second process
\* leaves a file on which every start fails.
EventuallyServing == <>[](\E p \in Processes : stage[p] = "serving")

=============================================================================
