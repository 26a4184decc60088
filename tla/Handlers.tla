------------------------------ MODULE Handlers ------------------------------
(***************************************************************************)
(* The handlers statement by statement.  One goroutine serves each request *)
(* over a pool of a single connection (store.go:35): a statement given the *)
(* database handle waits until the connection is free, one given the       *)
(* transaction runs on the connection the transaction holds from BEGIN to  *)
(* COMMIT or ROLLBACK.  Callers go away, statements fail and the process   *)
(* stops between any two statements; a caller without an answer tries      *)
(* again.                                                                  *)
(*                                                                         *)
(* The handlers are a create, a claim and a promotion of a candidate, as   *)
(* Curation describes them in one step each, the creation and the update   *)
(* of a topic view and the audit export, which have no transaction.        *)
(***************************************************************************)
EXTENDS Naturals, Sequences, FiniteSets

CONSTANTS
  Creators,   \* callers of POST /api/candidates
  Claimers,   \* callers of POST /api/curation/candidates/1/claim
  Promoters,  \* callers of POST /api/curation/candidates/1/promote
  Openers,    \* callers of POST /api/topic/views
  Updaters,   \* callers of PUT /api/topic/views/{slug}
  Auditors,   \* callers of GET /api/audit/export
  Payloads,   \* the columns an update of a view may give
  NoOne,      \* no caller
  MaxRequests, \* bound on all requests
  MaxInFlight \* bound on the requests served at a time

Callers == Creators \cup Claimers \cup Promoters \cup Openers \cup Updaters \cup Auditors

\* A caller stands for the requests one client makes of one handler.
ASSUME CallersAssumption ==
  /\ NoOne \notin Callers
  /\ Creators \cap (Claimers \cup Promoters \cup Openers \cup Updaters \cup Auditors) = {}
  /\ Claimers \cap (Promoters \cup Openers \cup Updaters \cup Auditors) = {}
  /\ Promoters \cap (Openers \cup Updaters \cup Auditors) = {}
  /\ Openers \cap (Updaters \cup Auditors) = {} /\ Updaters \cap Auditors = {}
ASSUME BoundsAssumption == MaxRequests \in Nat /\ MaxInFlight \in Nat

\* The columns of topic_views that updateView writes; two stand for them all.
Columns == {"title", "status"}
ASSUME PayloadsAssumption == Payloads \subseteq SUBSET Columns
Tables == {"captures", "candidates", "entries", "events"}

VARIABLES
  db,     \* the tables, committed
  work,   \* the tables as the open transaction sees them
  conn,   \* the caller whose transaction holds the connection
  at,     \* the next statement of each request, 0 for none
  row,    \* the id of the row a request inserted
  answered, \* the callers whose request was answered with success
  tries,  \* the requests each caller made
  requests, \* the requests all of them made
  given,  \* the columns an update gives
  copy,   \* the view an update read
  basis,  \* how many writes of the view preceded that read (history)
  writes, \* the writes of the view so far (history)
  export  \* the tables an export read

vars == <<db, work, conn, at, row, answered, tries, requests, given, copy, basis, writes, export>>
viewVars == <<given, copy, basis, writes>>

NoView == [c \in {} |-> NoOne]
Empty == [captures |-> <<>>, candidates |-> <<>>, candidateFts |-> <<>>, entries |-> <<>>,
          entryFts |-> <<>>, events |-> <<>>, view |-> NoView]
NoExport == [t \in Tables |-> <<>>]

Init ==
  /\ db = Empty /\ work = Empty
  /\ conn = NoOne
  /\ at = [r \in Callers |-> 0]
  /\ row = [r \in Callers |-> 0]
  /\ answered = {}
  /\ tries = [r \in Callers |-> 0]
  /\ requests = 0
  /\ given = [r \in Callers |-> {}]
  /\ copy = [r \in Callers |-> NoView]
  /\ basis = [r \in Callers |-> 0]
  /\ writes = <<>>
  /\ export = [r \in Callers |-> NoExport]

-----------------------------------------------------------------------------
(* The statements of each handler, in order, and what they run on.         *)

\* Mutant: the log is read before what it explains.
EventsFirst == <<"events", "captures", "candidates", "entries">>

\* auditSnapshot: counts, doctor and two more tables are left out.
ExportOrder == <<"captures", "candidates", "entries", "events">>

\* Mutant: the row is inserted once more.
InsertedTwice == <<"begin", "insertCandidate", "refreshCandidateFTS", "insertCandidate",
                   "refreshCandidateFTS", "logCapture", "commit", "getCandidateRecord">>

CreateProgram == <<"begin", "insertCandidate", "refreshCandidateFTS", "logCapture", "commit",
                   "getCandidateRecord">>

ClaimProgram == <<"begin", "selectCandidate", "updateCandidate", "logCuration", "commit">>

PromoteProgram == <<"begin", "selectCandidate", "insertEntry", "refreshEntryFTS",
                    "updateCandidate", "logCuration", "commit">>

Program(r) ==
  CASE r \in Creators -> CreateProgram
    [] r \in Claimers -> ClaimProgram
    [] r \in Promoters -> PromoteProgram
    [] r \in Openers -> <<"insertView", "getViewRecord">>
    [] r \in Updaters -> <<"readView", "writeView", "getViewRecord">>
    [] r \in Auditors -> ExportOrder

RowStatements == {"insertCandidate", "refreshCandidateFTS", "logCapture", "selectCandidate",
                  "updateCandidate", "insertEntry", "refreshEntryFTS"}

\* Mutant: the curation event is written through the handle.
LogOnHandle == RowStatements \cup {"commit"}

\* The statements given the transaction; the others are given the handle.
OnTransaction == RowStatements \cup {"logCuration", "commit"}

Statement(r) == IF at[r] \in DOMAIN Program(r) THEN Program(r)[at[r]] ELSE "none"

\* A statement can run: its transaction holds the connection, or nobody does.
MayRun(r, statement) ==
  /\ Statement(r) = statement
  /\ conn = IF statement \in OnTransaction THEN r ELSE NoOne

Done(r) == at' = [at EXCEPT ![r] = @ + 1]

-----------------------------------------------------------------------------
(* Rows.  A candidate is titled by who made it; it proposes no slug and has *)
(* no references.  Claims and promotions are about candidate 1.             *)

NewCandidate(r) == [status |-> "pending", slug |-> NoOne, title |-> r,
                    strength |-> "observation", refs |-> {}]
NewEntry(w) == [slug |-> <<"candidate", 1>>, title |-> w.candidates[1].title,
                status |-> "active"]
NewStatus(r) == IF r \in Promoters THEN "promoted" ELSE "claimed"
CurationEvent(r) ==
  [action |-> IF r \in Promoters THEN "promote" ELSE "claim",
   candidate |-> 1, entry |-> row[r], after |-> {<<1, NewStatus(r)>>},
   entryStatus |-> IF r \in Promoters THEN "active" ELSE "none"]

Refreshed(fts, rows, id) ==
  [i \in 1..Len(rows) |-> IF i = id THEN rows[i].title ELSE fts[i]]

\* The early returns: no such candidate, candidate_not_promotable, and the
\* UNIQUE slugs of memory_entries and topic_views.
Refused(r, statement) ==
  CASE statement = "selectCandidate" ->
         work.candidates # <<>> =>
           r \in Promoters /\ work.candidates[1].status \notin {"pending", "claimed"}
    [] statement = "insertEntry" ->
         \E i \in DOMAIN work.entries : work.entries[i].slug = NewEntry(work).slug
    [] statement = "insertView" -> db.view # NoView
    [] statement \in {"readView", "getViewRecord"} -> db.view = NoView
    [] OTHER -> FALSE

\* The tables after a statement of request r, w before it.  updateCandidate indexes
\* the row again under the title it has.
Written(r, statement, w) ==
  CASE statement = "insertCandidate" ->
         [w EXCEPT !.candidates = Append(@, NewCandidate(r))]
    [] statement = "refreshCandidateFTS" ->
         [w EXCEPT !.candidateFts = Refreshed(@, w.candidates, row[r])]
    [] statement = "logCapture" ->
         [w EXCEPT !.captures = Append(@, [decision |-> "captured", candidate |-> row[r],
                                           eligible |-> FALSE])]
    [] statement = "updateCandidate" ->
         [w EXCEPT !.candidates[1].status = NewStatus(r)]
    [] statement = "insertEntry" ->
         [w EXCEPT !.entries = Append(@, NewEntry(w))]
    [] statement = "refreshEntryFTS" ->
         [w EXCEPT !.entryFts = Refreshed(@, w.entries, row[r])]
    [] statement = "logCuration" ->
         [w EXCEPT !.events = Append(@, CurationEvent(r))]
    [] OTHER -> w

\* LastInsertId
InsertedId(r, statement, w) ==
  CASE statement = "insertCandidate" -> Len(w.candidates) + 1
    [] statement = "insertEntry" -> Len(w.entries) + 1
    [] OTHER -> row[r]

-----------------------------------------------------------------------------
(* Transactions.                                                           *)

\* A request arrives; after an error or no answer the caller sends it again.
Receive(r) ==
  /\ at[r] = 0 /\ r \notin answered
  /\ requests < MaxRequests
  /\ Cardinality({q \in Callers : at[q] # 0}) < MaxInFlight
  /\ at' = [at EXCEPT ![r] = 1]
  /\ tries' = [tries EXCEPT ![r] = @ + 1]
  /\ requests' = requests + 1
  /\ IF r \in Updaters
     THEN \E columns \in Payloads : given' = [given EXCEPT ![r] = columns]
     ELSE UNCHANGED given
  /\ UNCHANGED <<db, work, conn, row, answered, copy, basis, writes, export>>

Begin(r) ==
  /\ MayRun(r, "begin")
  /\ conn' = r
  /\ work' = db
  /\ Done(r)
  /\ UNCHANGED <<db, row, answered, tries, requests, viewVars, export>>

Execute(r, statement) ==
  /\ statement # "commit"
  /\ MayRun(r, statement) /\ ~Refused(r, statement)
  /\ work' = Written(r, statement, work)
  /\ row' = [row EXCEPT ![r] = InsertedId(r, statement, work)]
  /\ Done(r)
  /\ UNCHANGED <<db, conn, answered, tries, requests, viewVars, export>>

Commit(r) ==
  /\ MayRun(r, "commit")
  /\ db' = work
  /\ work' = Empty
  /\ conn' = NoOne
  /\ Done(r)
  /\ UNCHANGED <<row, answered, tries, requests, viewVars, export>>

\* createCandidate reads its row again, after the commit.
GetCandidateRecord(r) ==
  /\ MayRun(r, "getCandidateRecord")
  /\ Done(r)
  /\ UNCHANGED <<db, work, conn, row, answered, tries, requests, viewVars, export>>

-----------------------------------------------------------------------------
(* Views and the export.                                                   *)

InsertView(r) ==
  /\ MayRun(r, "insertView") /\ ~Refused(r, "insertView")
  /\ db' = [db EXCEPT !.view = [c \in Columns |-> NoOne]]
  /\ Done(r)
  /\ UNCHANGED <<work, conn, row, answered, tries, requests, viewVars, export>>

GetViewRecord(r) ==
  /\ MayRun(r, "getViewRecord") /\ ~Refused(r, "getViewRecord")
  /\ Done(r)
  /\ UNCHANGED <<db, work, conn, row, answered, tries, requests, viewVars, export>>

ReadView(r) ==
  /\ MayRun(r, "readView") /\ ~Refused(r, "readView")
  /\ copy' = [copy EXCEPT ![r] = db.view]
  /\ basis' = [basis EXCEPT ![r] = Len(writes)]
  /\ Done(r)
  /\ UNCHANGED <<db, work, conn, row, answered, tries, requests, given, writes, export>>

\* Mutant: a column the payload omits is reset.
PayloadOnly(r) == [c \in Columns |-> IF c \in given[r] THEN r ELSE NoOne]

\* mergeRecord: the payload over the row that was read.
Merged(r) == [c \in Columns |-> IF c \in given[r] THEN r ELSE copy[r][c]]

WriteView(r) ==
  /\ MayRun(r, "writeView")
  /\ db' = [db EXCEPT !.view = Merged(r)]
  /\ writes' = Append(writes, [by |-> r, columns |-> given[r], basis |-> basis[r]])
  /\ Done(r)
  /\ UNCHANGED <<work, conn, row, answered, tries, requests, given, copy, basis, export>>

ReadTable(r, table) ==
  /\ MayRun(r, table)
  /\ export' = [export EXCEPT ![r][table] = db[table]]
  /\ Done(r)
  /\ UNCHANGED <<db, work, conn, row, answered, tries, requests, viewVars>>

-----------------------------------------------------------------------------
(* How requests end.                                                       *)

\* Mutant: the handler has no deferred Rollback.
NotRolledBack(r) == UNCHANGED <<conn, db, work>>

\* Mutant: what the transaction wrote so far is kept.
PartlyCommitted(r) ==
  IF conn = r THEN conn' = NoOne /\ db' = work /\ work' = Empty
              ELSE UNCHANGED <<conn, db, work>>

\* defer tx.Rollback(): what an open transaction wrote is gone.
Rollback(r) ==
  IF conn = r THEN conn' = NoOne /\ work' = Empty /\ UNCHANGED db
              ELSE UNCHANGED <<conn, db, work>>

End(r) ==
  /\ at' = [at EXCEPT ![r] = 0]
  /\ Rollback(r)
  /\ given' = [given EXCEPT ![r] = {}]
  /\ copy' = [copy EXCEPT ![r] = NoView]
  /\ basis' = [basis EXCEPT ![r] = 0]
  /\ export' = [export EXCEPT ![r] = NoExport]
  /\ UNCHANGED <<tries, requests, writes>>

Answer(r) ==
  /\ at[r] = Len(Program(r)) + 1
  /\ End(r)
  /\ answered' = answered \cup {r}
  /\ UNCHANGED row

\* The request ends without success: what was committed stays, and the caller
\* does not know of it.
EndUnanswered(r) ==
  /\ End(r)
  /\ row' = [row EXCEPT ![r] = 0]
  /\ UNCHANGED answered

\* The code's own early returns.
Refuse(r) ==
  /\ \E i \in DOMAIN Program(r) :
       MayRun(r, Program(r)[i]) /\ Refused(r, Program(r)[i])
  /\ EndUnanswered(r)

\* A statement fails, or the caller goes away, the context is cancelled and the
\* transaction rolled back; the answer itself may be lost.
Fail(r) == at[r] # 0 /\ EndUnanswered(r)

\* The process stops: every request in flight is lost, the tables are not.
Crash ==
  /\ at' = [r \in Callers |-> 0]
  /\ row' = [r \in Callers |-> IF at[r] # 0 THEN 0 ELSE row[r]]
  /\ conn' = NoOne /\ work' = Empty
  /\ given' = [r \in Callers |-> {}]
  /\ copy' = [r \in Callers |-> NoView]
  /\ basis' = [r \in Callers |-> 0]
  /\ export' = [r \in Callers |-> NoExport]
  /\ UNCHANGED <<db, answered, tries, requests, writes>>

-----------------------------------------------------------------------------

Serve(r) ==
  \/ Begin(r) \/ Commit(r) \/ GetCandidateRecord(r)
  \/ \E statement \in OnTransaction : Execute(r, statement)
  \/ InsertView(r) \/ GetViewRecord(r)
  \/ r \in Updaters /\ (ReadView(r) \/ WriteView(r))
  \/ \E table \in Tables : ReadTable(r, table)
  \/ Answer(r) \/ Refuse(r)

Next ==
  \/ \E r \in Callers : Receive(r) \/ Serve(r) \/ Fail(r)
  \/ Crash

Spec == Init /\ [][Next]_vars

\* Some request in flight is served: each has a goroutine of its own, and the pool
\* hands a free connection to a request that waits for it.
FairSpec == Spec /\ WF_vars(\E r \in Callers : Serve(r))

-----------------------------------------------------------------------------
(* Properties.                                                             *)

CandidateRow == [status: {"pending", "claimed", "promoted"}, slug: {NoOne}, title: Creators,
                 strength: {"observation"}, refs: {{}}]
EntryRow == [slug: {<<"candidate", 1>>}, title: Creators, status: {"active"}]
CaptureRow == [decision: {"captured"}, candidate: Nat \ {0}, eligible: {FALSE}]
EventRow == [action: {"claim", "promote"}, candidate: {1}, entry: Nat,
             after: {{<<1, "claimed">>}, {<<1, "promoted">>}}, entryStatus: {"active", "none"}]

TablesOK(t) ==
  /\ t.candidates \in Seq(CandidateRow)
  /\ t.candidateFts \in Seq(Creators)
  /\ t.entries \in Seq(EntryRow)
  /\ t.entryFts \in Seq(Creators)
  /\ t.captures \in Seq(CaptureRow)
  /\ t.events \in Seq(EventRow)
  /\ t.view = NoView \/ t.view \in [Columns -> Updaters \cup {NoOne}]

\* The tables hold rows of their types and the connection is free or held by a
\* request that is inside its transaction: no ended request keeps it.
TypeOK ==
  /\ TablesOK(db) /\ TablesOK(work)
  /\ at \in [Callers -> 0..8]
  /\ row \in [Callers -> Nat]
  /\ answered \subseteq Callers
  /\ conn # NoOne => conn \in Callers /\ Statement(conn) \in OnTransaction

\* The curation module, of which a committed table is the table.
C == INSTANCE Curation WITH
  Slugs <- {}, NoSlug <- NoOne, Titles <- Creators, Refs <- {}, RefLists <- {{}},
  StrengthInputs <- {"observation"}, PatchInputs <- {}, EntryStatusInputs <- {},
  KindInputs <- {}, ColumnInputs <- {}, MaxFragments <- 0,
  MaxCandidates <- MaxRequests,
  MaxCaptures <- MaxRequests,
  MaxEntries <- 1, MaxEvents <- MaxRequests,
  MaxProposals <- 0,
  candidates <- db.candidates, candidateFts <- db.candidateFts,
  entries <- db.entries, entryFts <- db.entryFts, sourceRefs <- {},
  captures <- db.captures, events <- db.events, proposals <- <<>>

\* Statement by statement, with failures, cancellations and crashes anywhere, the
\* handlers change the tables only as Curation's one-step requests do.
OneStepRequests == C!Spec

Made(r) == {i \in DOMAIN db.candidates : db.candidates[i].title = r}

\* An answered request is stored for good, also after a crash: a created
\* candidate is in the table under the id the caller got and in the capture log, a
\* promoted one has its entry and its event (candidates.go:46, curation.go:122).
\* For a caller who retries that is at least once, as nothing identifies the
\* repetition, but each request stores at most once.
AnsweredIsStored ==
  /\ \A r \in Creators :
       /\ Cardinality(Made(r)) <= tries[r]
       /\ r \in answered =>
            /\ row[r] \in Made(r)
            /\ \E i \in DOMAIN db.captures : db.captures[i].candidate = row[r]
  /\ \A r \in Promoters : r \in answered =>
       /\ row[r] \in DOMAIN db.entries
       /\ \E i \in DOMAIN db.events : db.events[i].entry = row[r]

\* An update of a view is lost only to one that gives the same column later or
\* that had read the row before it was written (views.go:60-72).
UpdatesKept ==
  \A i \in DOMAIN writes : \A c \in writes[i].columns :
    \/ db.view[c] = writes[i].by
    \/ \E j \in i+1..Len(writes) : c \in writes[j].columns \/ writes[j].basis < i

\* What an export read, although its tables are from different moments, refers to
\* rows it read as well: a captured event to its candidate, and an entry and a
\* promoted candidate to an event.  It rests on the order of the tables, as rows
\* are never deleted (audit.go:85).  Limits that cut a table are left out.
ExportExplained ==
  \A r \in Auditors : at[r] = Len(ExportOrder) + 1 =>
    LET x == export[r] IN
    /\ \A i \in DOMAIN x.captures : x.captures[i].candidate \in DOMAIN x.candidates
    /\ \A e \in DOMAIN x.entries : \E i \in DOMAIN x.events : x.events[i].entry = e
    /\ \A c \in DOMAIN x.candidates : x.candidates[c].status # "pending" =>
         \E i \in DOMAIN x.events : <<c, x.candidates[c].status>> \in x.events[i].after

\* The requests in flight end: none waits for the one connection while it holds it
\* (store.go:35), and none keeps it when it ends.
RequestsEnd == (\E r \in Callers : at[r] # 0) ~> (\A r \in Callers : at[r] = 0)

=============================================================================
