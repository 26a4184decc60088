-------------------------- MODULE MigrationsProofs --------------------------
(***************************************************************************)
(* Proofs about Migrations, for any processes, versions and rows: the      *)
(* schema is a prefix of the migrations, and no row that a request wrote   *)
(* is lost from the index.                                                 *)
(***************************************************************************)
EXTENDS Migrations, TLAPS

\* What the open transaction holds: the version of its process on top of the file,
\* and its record only if the file did not have it.
WorkOK ==
  \A p \in Processes :
    /\ stage[p] = "executed" =>
         next[p] \in Versions /\ work = Migrated(file, next[p])
    /\ stage[p] = "recorded" =>
         /\ next[p] \in Versions /\ next[p] \notin file.recorded
         /\ work = [Migrated(file, next[p]) EXCEPT !.recorded = @ \cup {next[p]}]

\* What a process read or passed is recorded: versions are never unrecorded.
PassedRecorded ==
  \A p \in Processes :
    known[p] \subseteq file.recorded /\ 1..(next[p] - 1) \subseteq file.recorded

\* A process serves, and rows are written, only once every version is recorded.
ServedMigrated ==
  /\ \A p \in Processes : stage[p] = "serving" => Versions \subseteq file.recorded
  /\ touched # {} => Versions \subseteq file.recorded

Inv == TypeOK /\ SchemaIsPrefix /\ WorkOK /\ PassedRecorded /\ ServedMigrated /\ TouchedIndexed

\* Every file an earlier build left satisfies the invariant.
LEMMA InitInv == Init => Inv
<1> SUFFICES ASSUME Init PROVE Inv
  OBVIOUS
<1> USE ProcessAssumption, VersionAssumption DEF Init
<1>1. TypeOK
  BY DEF TypeOK, Stages, Versions
<1>2. SchemaIsPrefix
  BY DEF SchemaIsPrefix
<1>3. WorkOK /\ ServedMigrated /\ TouchedIndexed
  BY DEF WorkOK, ServedMigrated, TouchedIndexed
<1>4. PassedRecorded
  <2>1. \A p \in Processes : known[p] = {} /\ next[p] = 1
    OBVIOUS
  <2>2. 1..(1 - 1) = {}
    OBVIOUS
  <2> QED
    BY <2>1, <2>2 DEF PassedRecorded
<1> QED
  BY <1>1, <1>2, <1>3, <1>4 DEF Inv

\* Applying a version gives a database.
LEMMA MigratedType ==
  ASSUME NEW db \in Database, NEW v \in Versions
  PROVE /\ Migrated(db, v) \in Database
        /\ Migrated(db, v).recorded = db.recorded
        /\ Migrated(db, v).schema = db.schema \cup {v}
        /\ v # Rebuild => Migrated(db, v).indexed = db.indexed
<1> DEFINE applied == [db EXCEPT !.schema = @ \cup {v}]
           m == [applied EXCEPT !.indexed = IF v = Rebuild THEN {} ELSE @]
<1>1. /\ applied \in Database
      /\ applied.recorded = db.recorded /\ applied.indexed = db.indexed
      /\ applied.schema = db.schema \cup {v}
  BY DEF Database
<1> HIDE DEF applied
<1>2. /\ m \in Database
      /\ m.recorded = applied.recorded /\ m.schema = applied.schema
      /\ v # Rebuild => m.indexed = applied.indexed
  BY <1>1 DEF Database
<1>3. Migrated(db, v) = m
  BY DEF Migrated, applied
<1> HIDE DEF m
<1> QED
  BY <1>1, <1>2, <1>3

\* The steps of a process that change only where it is.
LEMMA WaitingStep ==
  ASSUME Inv, NEW p \in Processes, Open(p) \/ Skip(p) \/ Listen(p)
  PROVE Inv'
<1> USE DEF Inv, tables
<1>1. UNCHANGED <<file, work, lock, touched, stops>>
  BY DEF Open, Skip, Listen
<1>2. stage[p] \notin {"executed", "recorded"} /\ stage'[p] \in {"starting", "serving"}
  BY DEF Open, Skip, Listen, MayListen, TypeOK, Stages
<1>3. \A q \in Processes : q # p =>
        stage'[q] = stage[q] /\ known'[q] = known[q] /\ next'[q] = next[q]
  BY DEF Open, Skip, Listen, TypeOK
<1>4. TypeOK'
  <2>1. stage' \in [Processes -> Stages]
    BY DEF Open, Skip, Listen, TypeOK, Stages
  <2>2. known' \in [Processes -> SUBSET Versions]
    BY DEF Open, Skip, Listen, TypeOK, Database, RecordedVersions
  <2>3. next' \in [Processes -> 1..NumVersions + 1]
    BY VersionAssumption DEF Open, Skip, Listen, TypeOK, Versions
  <2> QED
    BY <1>1, <1>2, <1>3, <2>1, <2>2, <2>3 DEF TypeOK
<1>5. WorkOK'
  BY <1>1, <1>2, <1>3 DEF WorkOK
<1>6. PassedRecorded'
  <2>1. known'[p] \subseteq file.recorded
    BY DEF Open, Skip, Listen, PassedRecorded, RecordedVersions, TypeOK
  <2>2. 1..(next'[p] - 1) \subseteq file.recorded
    <3>1. CASE Open(p)
      BY <3>1 DEF Open, TypeOK
    <3>2. CASE Skip(p)
      BY <3>2, VersionAssumption DEF Skip, PassedRecorded, TypeOK
    <3>3. CASE Listen(p)
      BY <3>3 DEF Listen, PassedRecorded
    <3> QED
      BY <3>1, <3>2, <3>3
  <2> QED
    BY <1>1, <1>3, <2>1, <2>2 DEF PassedRecorded
<1>7. ServedMigrated'
  <2>1. Listen(p) => Versions \subseteq file.recorded
    BY VersionAssumption DEF Listen, MayListen, PassedRecorded, TypeOK, Versions
  <2> QED
    BY <1>1, <1>3, <2>1 DEF ServedMigrated, Open, Skip, Listen, TypeOK
<1> QED
  BY <1>1, <1>4, <1>5, <1>6, <1>7 DEF SchemaIsPrefix, TouchedIndexed

\* A process that exits or is stopped takes its transaction with it.
LEMMA EndStep ==
  ASSUME Inv, NEW p \in Processes, Rollback(p),
         stage' = [stage EXCEPT ![p] = "down"], UNCHANGED <<known, next, touched>>,
         stops' \in Nat
  PROVE Inv'
<1> USE DEF Inv
<1>1. /\ file' = file
      /\ work' = work \/ (lock = p /\ work' = file)
      /\ lock' = IF lock = p THEN NoProcess ELSE lock
  BY DEF Rollback, tables
<1>2. \A q \in Processes : stage'[q] = IF q = p THEN "down" ELSE stage[q]
  BY DEF TypeOK
<1>3. TypeOK'
  BY <1>1, <1>2, ProcessAssumption DEF TypeOK, Stages
<1>4. WorkOK'
  BY <1>1, <1>2 DEF WorkOK, TypeOK
<1> QED
  BY <1>1, <1>2, <1>3, <1>4
     DEF SchemaIsPrefix, PassedRecorded, ServedMigrated, TouchedIndexed

\* A version is executed and recorded without the file changing.
LEMMA TransactionStep ==
  ASSUME Inv, NEW p \in Processes, Execute(p) \/ Record(p)
  PROVE Inv'
<1> USE DEF Inv
<1>1. /\ UNCHANGED <<file, known, next, touched, stops>> /\ lock' = p
      /\ lock \in {NoProcess, p}
      /\ next[p] \in Versions
  BY DEF Execute, Record, Missing, TypeOK, WorkOK
<1>2. \A q \in Processes : q # p => /\ stage'[q] = stage[q]
                                    /\ stage[q] \notin {"executed", "recorded"}
  BY <1>1, ProcessAssumption DEF Execute, Record, TypeOK
<1>3. /\ Execute(p) => stage'[p] = "executed" /\ work' = Migrated(file, next[p])
      /\ Record(p) => /\ stage'[p] = "recorded" /\ next[p] \notin file.recorded
                      /\ work' = [Migrated(file, next[p]) EXCEPT
                                    !.recorded = @ \cup {next[p]}]
  <2>1. Migrated(file, next[p]).recorded = file.recorded
    BY <1>1, MigratedType DEF TypeOK
  <2> QED
    BY <2>1 DEF Execute, Record, Recordable, WorkOK, TypeOK
<1>4. TypeOK'
  <2>1. work' \in Database
    BY <1>1, <1>3, MigratedType DEF TypeOK, Database
  <2>2. stage' \in [Processes -> Stages]
    BY DEF Execute, Record, TypeOK, Stages
  <2> QED
    BY <1>1, <1>2, <1>3, <2>1, <2>2 DEF TypeOK
<1>5. WorkOK'
  BY <1>1, <1>2, <1>3 DEF WorkOK
<1>6. ServedMigrated'
  BY <1>1, <1>2, <1>3 DEF ServedMigrated
<1> QED
  BY <1>1, <1>4, <1>5, <1>6 DEF SchemaIsPrefix, PassedRecorded, TouchedIndexed

\* A commit adds the version that follows those of the file: the ones before it were
\* recorded when the process passed them, and the file did not have it.
LEMMA CommitStep ==
  ASSUME Inv, NEW p \in Processes, Commit(p)
  PROVE Inv'
<1> USE DEF Inv
<1> DEFINE v == next[p]
<1>1. /\ v \in Versions /\ v \notin file.recorded
      /\ file' \in Database
      /\ file'.recorded = file.recorded \cup {v}
      /\ file'.schema = file.schema \cup {v}
      /\ v # Rebuild => file'.indexed = file.indexed
  <2>1. /\ v \in Versions /\ v \notin file.recorded
        /\ file' = [Migrated(file, v) EXCEPT !.recorded = @ \cup {v}]
    BY DEF Commit, WorkOK
  <2>2. Migrated(file, v) \in Database
    BY <2>1, MigratedType DEF TypeOK
  <2> QED
    BY <2>1, <2>2, MigratedType DEF TypeOK, Database
<1>2. /\ lock = p /\ lock' = NoProcess /\ UNCHANGED <<work, known, touched, stops>>
      /\ stage'[p] = "starting" /\ next'[p] = v + 1
      /\ \A q \in Processes : q # p => /\ stage'[q] = stage[q] /\ next'[q] = next[q]
                                       /\ stage[q] \notin {"executed", "recorded"}
  BY DEF Commit, TypeOK
<1>3. TypeOK'
  <2>1. next' \in [Processes -> 1..NumVersions + 1] /\ stage' \in [Processes -> Stages]
    BY <1>1, VersionAssumption DEF Commit, TypeOK, Versions, Stages
  <2> QED
    BY <1>1, <1>2, <2>1, ProcessAssumption DEF TypeOK
<1>4. SchemaIsPrefix'
  <2>1. PICK n \in 0..NumVersions : file.recorded = 1..n /\ file.schema = 1..n
    BY DEF SchemaIsPrefix
  <2>2. v = n + 1
    BY <1>1, <2>1, VersionAssumption DEF PassedRecorded, Versions
  <2>3. n + 1 \in 0..NumVersions /\ (1..n) \cup {n + 1} = 1..(n + 1)
    BY <1>1, <2>2, VersionAssumption DEF Versions
  <2> QED
    BY <1>1, <2>1, <2>2, <2>3 DEF SchemaIsPrefix
<1>5. WorkOK'
  BY <1>2 DEF WorkOK
<1>6. PassedRecorded'
  <2>1. 1..v \subseteq file'.recorded
    BY <1>1, VersionAssumption DEF PassedRecorded, Versions
  <2> QED
    BY <1>1, <1>2, <2>1, VersionAssumption DEF PassedRecorded, Versions
<1>7. ServedMigrated'
  BY <1>1, <1>2 DEF ServedMigrated
<1>8. TouchedIndexed'
  <2>1. touched = {}
    BY <1>1 DEF ServedMigrated
  <2> QED
    BY <1>2, <2>1 DEF TouchedIndexed
<1> QED
  BY <1>3, <1>4, <1>5, <1>6, <1>7, <1>8

\* A request writes a row and its index entry while no transaction is open.
LEMMA WriteStep ==
  ASSUME Inv, NEW p \in Processes, NEW n \in Rows, WriteRow(p, n)
  PROVE Inv'
<1> USE DEF Inv
<1>1. /\ lock = NoProcess /\ UNCHANGED <<lock, stage, known, next, stops>>
      /\ file' \in Database /\ work' = file'
      /\ file'.recorded = file.recorded /\ file'.schema = file.schema
      /\ file'.indexed = file.indexed \cup {n} /\ touched' = touched \cup {n}
  BY DEF WriteRow, TypeOK, Database
<1>2. TypeOK'
  BY <1>1 DEF TypeOK
<1>3. WorkOK'
  BY <1>1, ProcessAssumption DEF WorkOK, TypeOK
<1>4. ServedMigrated'
  BY <1>1 DEF WriteRow, ServedMigrated
<1> QED
  BY <1>1, <1>2, <1>3, <1>4 DEF SchemaIsPrefix, PassedRecorded, TouchedIndexed

\* Every step preserves the invariant.
LEMMA NextInv == Inv /\ [Next]_vars => Inv'
<1> SUFFICES ASSUME Inv, [Next]_vars PROVE Inv'
  OBVIOUS
<1>1. ASSUME NEW p \in Processes, Open(p) \/ Run(p) \/ Stop(p) PROVE Inv'
  <2>1. CASE Open(p) \/ Skip(p) \/ Listen(p)
    BY <2>1, WaitingStep
  <2>2. CASE Execute(p) \/ Record(p)
    BY <2>2, TransactionStep
  <2>3. CASE Commit(p)
    BY <2>3, CommitStep
  <2>4. CASE \/ ExecuteRefused(p) \/ RecordRefused(p) \/ BusyTimeout(p)
             \/ ListenRefused(p) \/ Stop(p)
    <3>1. /\ Rollback(p) /\ stage' = [stage EXCEPT ![p] = "down"]
          /\ UNCHANGED <<known, next, touched>> /\ stops' \in Nat
      BY <2>4 DEF ExecuteRefused, RecordRefused, BusyTimeout, ListenRefused, Stop, Exit,
                  Inv, TypeOK
    <3> QED
      BY <3>1, EndStep
  <2> QED
    BY <1>1, <2>1, <2>2, <2>3, <2>4 DEF Run
<1>2. ASSUME NEW p \in Processes, NEW n \in Rows, WriteRow(p, n) PROVE Inv'
  BY <1>2, WriteStep
<1>3. CASE UNCHANGED vars
  BY <1>3 DEF vars, Inv, TypeOK, SchemaIsPrefix, WorkOK, PassedRecorded, ServedMigrated,
              TouchedIndexed
<1> QED
  BY <1>1, <1>2, <1>3 DEF Next

\* The invariant holds in every reachable state.
LEMMA SpecInv == Spec => []Inv
BY InitInv, NextInv, PTL DEF Spec

\* The variables keep their types, and the lock its one holder.
THEOREM TypeCorrect == Spec => []TypeOK
<1>1. Inv => TypeOK
  BY DEF Inv
<1> QED
  BY <1>1, SpecInv, PTL

\* Whatever stops and second processes come between, a version is in the file with
\* its statements and its record or with neither, and none before it is missing.
THEOREM SchemaPrefix == Spec => []SchemaIsPrefix
<1>1. Inv => SchemaIsPrefix
  BY DEF Inv
<1> QED
  BY <1>1, SpecInv, PTL

\* No migration takes a row that a request wrote out of the index.
THEOREM WrittenRowsIndexed == Spec => []TouchedIndexed
<1>1. Inv => TouchedIndexed
  BY DEF Inv
<1> QED
  BY <1>1, SpecInv, PTL

=============================================================================
