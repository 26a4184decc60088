--------------------------- MODULE HandlersProofs ---------------------------
(***************************************************************************)
(* Proofs about Handlers: types, that the statements of a handler add up   *)
(* to one step of Curation whatever fails between them, that what was      *)
(* answered is stored, and what updates of a view and an export may see.   *)
(***************************************************************************)
EXTENDS Handlers, FiniteSetTheorems, TLAPS

-----------------------------------------------------------------------------
(* Where the statements are.                                               *)

\* Each caller runs the program of its handler.
LEMMA Programs ==
  ASSUME NEW r \in Callers
  PROVE  /\ r \in Creators => Program(r) = CreateProgram
         /\ r \in Claimers => Program(r) = ClaimProgram
         /\ r \in Promoters => Program(r) = PromoteProgram
         /\ r \in Openers => Program(r) = <<"insertView", "getViewRecord">>
         /\ r \in Updaters => Program(r) = <<"readView", "writeView", "getViewRecord">>
         /\ r \in Auditors => Program(r) = ExportOrder
BY CallersAssumption DEF Callers, Program

\* The places of a creator.
LEMMA CreatorAt ==
  ASSUME NEW r \in Creators, at[r] \in Nat
  PROVE  /\ at[r] = 1 => Statement(r) = "begin"
         /\ at[r] = 2 => Statement(r) = "insertCandidate"
         /\ at[r] = 3 => Statement(r) = "refreshCandidateFTS"
         /\ at[r] = 4 => Statement(r) = "logCapture"
         /\ at[r] = 5 => Statement(r) = "commit"
         /\ at[r] = 6 => Statement(r) = "getCandidateRecord"
         /\ at[r] \notin 1..6 => Statement(r) = "none"
         /\ Len(Program(r)) = 6
<1>1. Program(r) = CreateProgram
  BY Programs DEF Callers
<1>2. DOMAIN CreateProgram = 1..6 /\ Len(CreateProgram) = 6
  BY DEF CreateProgram
<1> QED
  BY <1>1, <1>2 DEF Statement, CreateProgram

\* The places of a claimer.
LEMMA ClaimerAt ==
  ASSUME NEW r \in Claimers, at[r] \in Nat
  PROVE  /\ at[r] = 1 => Statement(r) = "begin"
         /\ at[r] = 2 => Statement(r) = "selectCandidate"
         /\ at[r] = 3 => Statement(r) = "updateCandidate"
         /\ at[r] = 4 => Statement(r) = "logCuration"
         /\ at[r] = 5 => Statement(r) = "commit"
         /\ at[r] \notin 1..5 => Statement(r) = "none"
         /\ Len(Program(r)) = 5
<1>1. Program(r) = ClaimProgram
  BY Programs DEF Callers
<1>2. DOMAIN ClaimProgram = 1..5 /\ Len(ClaimProgram) = 5
  BY DEF ClaimProgram
<1> QED
  BY <1>1, <1>2 DEF Statement, ClaimProgram

\* The places of a promoter.
LEMMA PromoterAt ==
  ASSUME NEW r \in Promoters, at[r] \in Nat
  PROVE  /\ at[r] = 1 => Statement(r) = "begin"
         /\ at[r] = 2 => Statement(r) = "selectCandidate"
         /\ at[r] = 3 => Statement(r) = "insertEntry"
         /\ at[r] = 4 => Statement(r) = "refreshEntryFTS"
         /\ at[r] = 5 => Statement(r) = "updateCandidate"
         /\ at[r] = 6 => Statement(r) = "logCuration"
         /\ at[r] = 7 => Statement(r) = "commit"
         /\ at[r] \notin 1..7 => Statement(r) = "none"
         /\ Len(Program(r)) = 7
<1>1. Program(r) = PromoteProgram
  BY Programs DEF Callers
<1>2. DOMAIN PromoteProgram = 1..7 /\ Len(PromoteProgram) = 7
  BY DEF PromoteProgram
<1> QED
  BY <1>1, <1>2 DEF Statement, PromoteProgram

\* The places of the handlers without a transaction.
LEMMA ViewsAt ==
  ASSUME NEW r \in Openers \cup Updaters \cup Auditors, at[r] \in Nat
  PROVE  /\ r \in Openers =>
              /\ at[r] = 1 => Statement(r) = "insertView"
              /\ at[r] = 2 => Statement(r) = "getViewRecord"
              /\ at[r] \notin 1..2 => Statement(r) = "none"
              /\ Len(Program(r)) = 2
         /\ r \in Updaters =>
              /\ at[r] = 1 => Statement(r) = "readView"
              /\ at[r] = 2 => Statement(r) = "writeView"
              /\ at[r] = 3 => Statement(r) = "getViewRecord"
              /\ at[r] \notin 1..3 => Statement(r) = "none"
              /\ Len(Program(r)) = 3
         /\ r \in Auditors =>
              /\ at[r] = 1 => Statement(r) = "captures"
              /\ at[r] = 2 => Statement(r) = "candidates"
              /\ at[r] = 3 => Statement(r) = "entries"
              /\ at[r] = 4 => Statement(r) = "events"
              /\ at[r] \notin 1..4 => Statement(r) = "none"
              /\ Len(Program(r)) = 4
<1>1. CASE r \in Openers
  <2>1. Program(r) = <<"insertView", "getViewRecord">> /\ r \notin Updaters /\ r \notin Auditors
    BY <1>1, Programs, CallersAssumption DEF Callers
  <2> QED
    BY <2>1 DEF Statement
<1>2. CASE r \in Updaters
  <2>1. /\ Program(r) = <<"readView", "writeView", "getViewRecord">>
        /\ r \notin Openers /\ r \notin Auditors
    BY <1>2, Programs, CallersAssumption DEF Callers
  <2> QED
    BY <2>1 DEF Statement
<1>3. CASE r \in Auditors
  <2>1. Program(r) = ExportOrder /\ r \notin Openers /\ r \notin Updaters
    BY <1>3, Programs, CallersAssumption DEF Callers
  <2> QED
    BY <2>1 DEF Statement, ExportOrder
<1> QED
  BY <1>1, <1>2, <1>3

Transactional == Creators \cup Claimers \cup Promoters

\* A statement tells whose it is and where.
LEMMA Placed ==
  ASSUME NEW r \in Callers, at[r] \in Nat
  PROVE  /\ Statement(r) = "begin" => r \in Transactional /\ at[r] = 1
         /\ Statement(r) = "insertCandidate" => r \in Creators /\ at[r] = 2
         /\ Statement(r) = "refreshCandidateFTS" => r \in Creators /\ at[r] = 3
         /\ Statement(r) = "logCapture" => r \in Creators /\ at[r] = 4
         /\ Statement(r) = "getCandidateRecord" => r \in Creators /\ at[r] = 6
         /\ Statement(r) = "selectCandidate" => r \in Claimers \cup Promoters /\ at[r] = 2
         /\ Statement(r) = "insertEntry" => r \in Promoters /\ at[r] = 3
         /\ Statement(r) = "refreshEntryFTS" => r \in Promoters /\ at[r] = 4
         /\ Statement(r) = "updateCandidate" =>
              (r \in Claimers /\ at[r] = 3) \/ (r \in Promoters /\ at[r] = 5)
         /\ Statement(r) = "logCuration" =>
              (r \in Claimers /\ at[r] = 4) \/ (r \in Promoters /\ at[r] = 6)
         /\ Statement(r) = "commit" =>
              (r \in Creators \cup Claimers /\ at[r] = 5) \/ (r \in Promoters /\ at[r] = 7)
         /\ Statement(r) = "insertView" => r \in Openers /\ at[r] = 1
         /\ Statement(r) = "getViewRecord" =>
              (r \in Openers /\ at[r] = 2) \/ (r \in Updaters /\ at[r] = 3)
         /\ Statement(r) = "readView" => r \in Updaters /\ at[r] = 1
         /\ Statement(r) = "writeView" => r \in Updaters /\ at[r] = 2
         /\ Statement(r) = "captures" => r \in Auditors /\ at[r] = 1
         /\ Statement(r) = "candidates" => r \in Auditors /\ at[r] = 2
         /\ Statement(r) = "entries" => r \in Auditors /\ at[r] = 3
         /\ Statement(r) = "events" => r \in Auditors /\ at[r] = 4
<1>1. CASE r \in Creators
  <2>1. \/ at[r] = 1 /\ Statement(r) = "begin"
        \/ at[r] = 2 /\ Statement(r) = "insertCandidate"
        \/ at[r] = 3 /\ Statement(r) = "refreshCandidateFTS"
        \/ at[r] = 4 /\ Statement(r) = "logCapture"
        \/ at[r] = 5 /\ Statement(r) = "commit"
        \/ at[r] = 6 /\ Statement(r) = "getCandidateRecord"
        \/ Statement(r) = "none"
    <3>1. \/ at[r] \notin 1..6 \/ at[r] = 1 \/ at[r] = 2 \/ at[r] = 3
          \/ at[r] = 4 \/ at[r] = 5 \/ at[r] = 6
      OBVIOUS
    <3> QED
      BY <1>1, <3>1, CreatorAt
  <2> QED
    BY <1>1, <2>1 DEF Transactional
<1>2. CASE r \in Claimers
  <2>1. \/ at[r] = 1 /\ Statement(r) = "begin"
        \/ at[r] = 2 /\ Statement(r) = "selectCandidate"
        \/ at[r] = 3 /\ Statement(r) = "updateCandidate"
        \/ at[r] = 4 /\ Statement(r) = "logCuration"
        \/ at[r] = 5 /\ Statement(r) = "commit"
        \/ Statement(r) = "none"
    <3>1. at[r] \notin 1..5 \/ at[r] = 1 \/ at[r] = 2 \/ at[r] = 3 \/ at[r] = 4 \/ at[r] = 5
      OBVIOUS
    <3> QED
      BY <1>2, <3>1, ClaimerAt
  <2> QED
    BY <1>2, <2>1 DEF Transactional
<1>3. CASE r \in Promoters
  <2>1. \/ at[r] = 1 /\ Statement(r) = "begin"
        \/ at[r] = 2 /\ Statement(r) = "selectCandidate"
        \/ at[r] = 3 /\ Statement(r) = "insertEntry"
        \/ at[r] = 4 /\ Statement(r) = "refreshEntryFTS"
        \/ at[r] = 5 /\ Statement(r) = "updateCandidate"
        \/ at[r] = 6 /\ Statement(r) = "logCuration"
        \/ at[r] = 7 /\ Statement(r) = "commit"
        \/ Statement(r) = "none"
    <3>1. \/ at[r] \notin 1..7 \/ at[r] = 1 \/ at[r] = 2 \/ at[r] = 3
          \/ at[r] = 4 \/ at[r] = 5 \/ at[r] = 6 \/ at[r] = 7
      OBVIOUS
    <3> QED
      BY <1>3, <3>1, PromoterAt
  <2> QED
    BY <1>3, <2>1 DEF Transactional
<1>4. CASE r \in Openers
  <2>1. \/ at[r] = 1 /\ Statement(r) = "insertView"
        \/ at[r] = 2 /\ Statement(r) = "getViewRecord"
        \/ Statement(r) = "none"
    <3>1. at[r] \notin 1..2 \/ at[r] = 1 \/ at[r] = 2
      OBVIOUS
    <3> QED
      BY <1>4, <3>1, ViewsAt
  <2> QED
    BY <1>4, <2>1 DEF Transactional
<1>5. CASE r \in Updaters
  <2>1. \/ at[r] = 1 /\ Statement(r) = "readView"
        \/ at[r] = 2 /\ Statement(r) = "writeView"
        \/ at[r] = 3 /\ Statement(r) = "getViewRecord"
        \/ Statement(r) = "none"
    <3>1. at[r] \notin 1..3 \/ at[r] = 1 \/ at[r] = 2 \/ at[r] = 3
      OBVIOUS
    <3> QED
      BY <1>5, <3>1, ViewsAt
  <2> QED
    BY <1>5, <2>1 DEF Transactional
<1>6. CASE r \in Auditors
  <2>1. \/ at[r] = 1 /\ Statement(r) = "captures"
        \/ at[r] = 2 /\ Statement(r) = "candidates"
        \/ at[r] = 3 /\ Statement(r) = "entries"
        \/ at[r] = 4 /\ Statement(r) = "events"
        \/ Statement(r) = "none"
    <3>1. at[r] \notin 1..4 \/ at[r] = 1 \/ at[r] = 2 \/ at[r] = 3 \/ at[r] = 4
      OBVIOUS
    <3> QED
      BY <1>6, <3>1, ViewsAt
  <2> QED
    BY <1>6, <2>1 DEF Transactional
<1> QED
  BY <1>1, <1>2, <1>3, <1>4, <1>5, <1>6 DEF Callers


-----------------------------------------------------------------------------
(* The tables, and what an open transaction has made of them.              *)

Views == {NoView} \cup [Columns -> Updaters \cup {NoOne}]

TableSet ==
  [captures: Seq(CaptureRow), candidates: Seq(CandidateRow), candidateFts: Seq(Creators),
   entries: Seq(EntryRow), entryFts: Seq(Creators), events: Seq(EventRow), view: Views]

\* Both indexes cover their tables and have the present titles.
InSync(t) ==
  /\ Len(t.candidateFts) = Len(t.candidates)
  /\ \A i \in 1..Len(t.candidates) : t.candidateFts[i] = t.candidates[i].title
  /\ Len(t.entryFts) = Len(t.entries)
  /\ \A i \in 1..Len(t.entries) : t.entryFts[i] = t.entries[i].title

Capture(id) == [decision |-> "captured", candidate |-> id, eligible |-> FALSE]

\* What the transaction of r, before its n-th statement, has made of the tables:
\* of a creator,
CreateWork(r, n) ==
  /\ <<work.entries, work.entryFts, work.events>> = <<db.entries, db.entryFts, db.events>>
  /\ n \in 2..5
  /\ n > 2 => row[r] = Len(db.candidates) + 1
  /\ work.candidates = IF n > 2 THEN Append(db.candidates, NewCandidate(r)) ELSE db.candidates
  /\ work.candidateFts =
       IF n > 3 THEN Refreshed(db.candidateFts, work.candidates, row[r]) ELSE db.candidateFts
  /\ work.captures = IF n > 4 THEN Append(db.captures, Capture(row[r])) ELSE db.captures

\* of a claimer,
ClaimWork(r, n) ==
  /\ <<work.entries, work.entryFts>> = <<db.entries, db.entryFts>>
  /\ <<work.captures, work.candidateFts>> = <<db.captures, db.candidateFts>>
  /\ n \in 2..5
  /\ n > 2 => db.candidates # <<>>
  /\ work.candidates =
       IF n > 3 THEN [db.candidates EXCEPT ![1].status = "claimed"] ELSE db.candidates
  /\ work.events = IF n > 4 THEN Append(db.events, CurationEvent(r)) ELSE db.events

\* and of a promoter.
PromoteWork(r, n) ==
  /\ <<work.captures, work.candidateFts>> = <<db.captures, db.candidateFts>>
  /\ n \in 2..7
  /\ n > 2 => db.candidates # <<>> /\ db.candidates[1].status \in {"pending", "claimed"}
  /\ n > 3 => db.entries = <<>> /\ row[r] = 1
  /\ work.entries = IF n > 3 THEN Append(db.entries, NewEntry(db)) ELSE db.entries
  /\ work.entryFts =
       IF n > 4 THEN Refreshed(db.entryFts, work.entries, row[r]) ELSE db.entryFts
  /\ work.candidates =
       IF n > 5 THEN [db.candidates EXCEPT ![1].status = "promoted"] ELSE db.candidates
  /\ work.events = IF n > 6 THEN Append(db.events, CurationEvent(r)) ELSE db.events

\* The open transaction is of a request inside it, and has written what its statements
\* so far write; the tables it started from are still the committed ones.
OpenWork ==
  /\ conn \in Transactional /\ work.view = db.view
  /\ conn \in Creators => CreateWork(conn, at[conn])
  /\ conn \in Claimers => ClaimWork(conn, at[conn])
  /\ conn \in Promoters => PromoteWork(conn, at[conn])

AtOK == at \in [Callers -> 0..8] /\ \A r \in Callers : at[r] <= Len(Program(r)) + 1

RowOK == row \in [Callers -> Nat] /\ \A r \in Claimers : row[r] = 0

TxInv ==
  /\ db \in TableSet /\ work \in TableSet /\ InSync(db)
  /\ AtOK /\ RowOK /\ answered \subseteq Callers
  /\ conn = NoOne => work = Empty
  /\ conn # NoOne => OpenWork

\* A statement writes its table and no other.
LEMMA InsertCandidateWrites ==
  ASSUME NEW r, NEW w \in TableSet
  PROVE  LET t == Written(r, "insertCandidate", w) IN
         /\ t.candidates = Append(w.candidates, NewCandidate(r))
         /\ <<t.captures, t.candidateFts>> = <<w.captures, w.candidateFts>>
         /\ <<t.entries, t.entryFts, t.events, t.view>> = <<w.entries, w.entryFts, w.events, w.view>>
         /\ r \in Creators => t \in TableSet
<1>1. NewCandidate(r).title = r /\ (r \in Creators => NewCandidate(r) \in CandidateRow)
  BY DEF NewCandidate, CandidateRow
<1>2. Written(r, "insertCandidate", w) = [w EXCEPT !.candidates = Append(@, NewCandidate(r))]
  BY DEF Written
<1>3. r \in Creators => Append(w.candidates, NewCandidate(r)) \in Seq(CandidateRow)
  BY <1>1 DEF TableSet
<1> QED
  BY <1>2, <1>3 DEF TableSet

\* Re-indexing a row leaves an index of the table's length.
LEMMA RefreshedSeq ==
  ASSUME NEW Row, NEW rows \in Seq(Row), \A x \in Row : x.title \in Creators,
         NEW fts \in Seq(Creators), NEW id,
         \A i \in 1..Len(rows) : i = id \/ i \in 1..Len(fts)
  PROVE  /\ Refreshed(fts, rows, id) \in Seq(Creators)
         /\ Len(Refreshed(fts, rows, id)) = Len(rows)
         /\ \A i \in 1..Len(rows) :
              Refreshed(fts, rows, id)[i] = IF i = id THEN rows[i].title ELSE fts[i]
<1>1. \A i \in 1..Len(rows) : (IF i = id THEN rows[i].title ELSE fts[i]) \in Creators
  <2>1. \A i \in 1..Len(rows) : rows[i] \in Row
    OBVIOUS
  <2>2. \A i \in 1..Len(fts) : fts[i] \in Creators
    OBVIOUS
  <2> QED
    BY <2>1, <2>2
<1>2. Len(rows) \in Nat
  OBVIOUS
<1>3. Refreshed(fts, rows, id) \in [1..Len(rows) -> Creators]
  BY <1>1 DEF Refreshed
<1> QED
  BY <1>2, <1>3 DEF Refreshed

\* The index of candidates, rewritten.
LEMMA RefreshCandidateWrites ==
  ASSUME NEW r, NEW w \in TableSet
  PROVE  LET t == Written(r, "refreshCandidateFTS", w) IN
         /\ t.candidateFts = Refreshed(w.candidateFts, w.candidates, row[r])
         /\ <<t.captures, t.candidates>> = <<w.captures, w.candidates>>
         /\ <<t.entries, t.entryFts, t.events, t.view>> = <<w.entries, w.entryFts, w.events, w.view>>
         /\ t.candidateFts \in Seq(Creators) => t \in TableSet
<1>1. Written(r, "refreshCandidateFTS", w)
        = [w EXCEPT !.candidateFts = Refreshed(@, w.candidates, row[r])]
  BY DEF Written
<1> QED
  BY <1>1 DEF TableSet

\* The capture log of a create.
LEMMA LogCaptureWrites ==
  ASSUME NEW r, NEW w \in TableSet
  PROVE  LET t == Written(r, "logCapture", w) IN
         /\ t.captures = Append(w.captures, Capture(row[r]))
         /\ <<t.candidates, t.candidateFts>> = <<w.candidates, w.candidateFts>>
         /\ <<t.entries, t.entryFts, t.events, t.view>> = <<w.entries, w.entryFts, w.events, w.view>>
         /\ row[r] \in Nat \ {0} => t \in TableSet
<1>1. Written(r, "logCapture", w) = [w EXCEPT !.captures = Append(@, Capture(row[r]))]
  BY DEF Written, Capture
<1>2. row[r] \in Nat \ {0} => Capture(row[r]) \in CaptureRow
  BY DEF Capture, CaptureRow
<1>3. row[r] \in Nat \ {0} => Append(w.captures, Capture(row[r])) \in Seq(CaptureRow)
  BY <1>2 DEF TableSet
<1> QED
  BY <1>1, <1>3 DEF TableSet

\* The status of the candidate.
LEMMA UpdateCandidateWrites ==
  ASSUME NEW r, NEW w \in TableSet, w.candidates # <<>>
  PROVE  LET t == Written(r, "updateCandidate", w) IN
         /\ t.candidates = [w.candidates EXCEPT ![1].status = NewStatus(r)]
         /\ <<t.captures, t.candidateFts>> = <<w.captures, w.candidateFts>>
         /\ <<t.entries, t.entryFts, t.events, t.view>> = <<w.entries, w.entryFts, w.events, w.view>>
         /\ t \in TableSet
<1>1. Written(r, "updateCandidate", w) = [w EXCEPT !.candidates[1].status = NewStatus(r)]
  BY DEF Written
<1>2. w.candidates \in Seq(CandidateRow) /\ 1 \in DOMAIN w.candidates
  BY DEF TableSet
<1>3. w.candidates[1] \in CandidateRow
  BY <1>2
<1>4. [w.candidates[1] EXCEPT !.status = NewStatus(r)] \in CandidateRow
  BY <1>3 DEF CandidateRow, NewStatus
<1> DEFINE new == [w.candidates[1] EXCEPT !.status = NewStatus(r)]
<1>5. [w.candidates EXCEPT ![1].status = NewStatus(r)] = [w.candidates EXCEPT ![1] = new]
  OBVIOUS
<1> HIDE DEF new
<1>6. [w.candidates EXCEPT ![1] = new] \in Seq(CandidateRow)
  BY <1>2, <1>4 DEF new
<1> QED
  BY <1>1, <1>5, <1>6 DEF TableSet

\* The entry of a promoted candidate.
LEMMA InsertEntryWrites ==
  ASSUME NEW r, NEW w \in TableSet, w.candidates # <<>>
  PROVE  LET t == Written(r, "insertEntry", w) IN
         /\ t.entries = Append(w.entries, NewEntry(w))
         /\ <<t.captures, t.candidates, t.candidateFts>> = <<w.captures, w.candidates, w.candidateFts>>
         /\ <<t.entryFts, t.events, t.view>> = <<w.entryFts, w.events, w.view>>
         /\ NewEntry(w) \in EntryRow /\ NewEntry(w).title = w.candidates[1].title
         /\ t \in TableSet
<1>1. Written(r, "insertEntry", w) = [w EXCEPT !.entries = Append(@, NewEntry(w))]
  BY DEF Written
<1>2. w.candidates \in Seq(CandidateRow) /\ 1 \in DOMAIN w.candidates
  BY DEF TableSet
<1>3. w.candidates[1].title \in Creators
  <2>1. w.candidates[1] \in CandidateRow
    BY <1>2
  <2> QED
    BY <2>1 DEF CandidateRow
<1>4. NewEntry(w) \in EntryRow /\ NewEntry(w).title = w.candidates[1].title
  BY <1>3 DEF NewEntry, EntryRow
<1>5. Append(w.entries, NewEntry(w)) \in Seq(EntryRow)
  BY <1>4 DEF TableSet
<1> QED
  BY <1>1, <1>4, <1>5 DEF TableSet

\* The index of entries, rewritten.
LEMMA RefreshEntryWrites ==
  ASSUME NEW r, NEW w \in TableSet
  PROVE  LET t == Written(r, "refreshEntryFTS", w) IN
         /\ t.entryFts = Refreshed(w.entryFts, w.entries, row[r])
         /\ <<t.captures, t.candidates, t.candidateFts>> = <<w.captures, w.candidates, w.candidateFts>>
         /\ <<t.entries, t.events, t.view>> = <<w.entries, w.events, w.view>>
         /\ t.entryFts \in Seq(Creators) => t \in TableSet
<1>1. Written(r, "refreshEntryFTS", w) = [w EXCEPT !.entryFts = Refreshed(@, w.entries, row[r])]
  BY DEF Written
<1> QED
  BY <1>1 DEF TableSet

\* The curation event.
LEMMA LogCurationWrites ==
  ASSUME NEW r, NEW w \in TableSet, row[r] \in Nat
  PROVE  LET t == Written(r, "logCuration", w) IN
         /\ t.events = Append(w.events, CurationEvent(r))
         /\ <<t.captures, t.candidates, t.candidateFts>> = <<w.captures, w.candidates, w.candidateFts>>
         /\ <<t.entries, t.entryFts, t.view>> = <<w.entries, w.entryFts, w.view>>
         /\ CurationEvent(r) \in EventRow /\ t \in TableSet
<1>1. Written(r, "logCuration", w) = [w EXCEPT !.events = Append(@, CurationEvent(r))]
  BY DEF Written
<1>2. CurationEvent(r) \in EventRow
  BY DEF CurationEvent, EventRow, NewStatus
<1>3. Append(w.events, CurationEvent(r)) \in Seq(EventRow)
  BY <1>2 DEF TableSet
<1> QED
  BY <1>1, <1>2, <1>3 DEF TableSet

-----------------------------------------------------------------------------
(* Steps keep what an open transaction has written.                        *)

WithStatus(s, status) == [s EXCEPT ![1].status = status]

\* Nothing but the status of the first row changes.
LEMMA StatusSet ==
  ASSUME NEW s \in Seq(CandidateRow), NEW status \in {"pending", "claimed", "promoted"},
         s # <<>>
  PROVE  LET t == WithStatus(s, status) IN
         /\ t \in Seq(CandidateRow) /\ Len(t) = Len(s)
         /\ t[1] = [s[1] EXCEPT !.status = status] /\ t[1].status = status
         /\ \A i \in 1..Len(s) : t[i].title = s[i].title /\ (i # 1 => t[i] = s[i])
<1> DEFINE new == [s[1] EXCEPT !.status = status]
<1>1. s[1] \in CandidateRow /\ 1 \in DOMAIN s
  OBVIOUS
<1>2. new \in CandidateRow /\ new.title = s[1].title /\ new.status = status
  BY <1>1 DEF CandidateRow
<1>3. WithStatus(s, status) = [s EXCEPT ![1] = new]
  BY DEF WithStatus
<1> HIDE DEF new
<1> DEFINE t == [s EXCEPT ![1] = new]
<1>4. /\ t \in Seq(CandidateRow) /\ Len(t) = Len(s)
      /\ t[1] = new /\ \A i \in 1..Len(s) : i # 1 => t[i] = s[i]
  BY <1>1, <1>2
<1> HIDE DEF t
<1>5. \A i \in 1..Len(s) : t[i].title = s[i].title
  BY <1>2, <1>4
<1>6. t[1].status = status /\ t[1] = [s[1] EXCEPT !.status = status]
  BY <1>2, <1>4 DEF new
<1>7. WithStatus(s, status) = t
  BY <1>3 DEF t
<1> QED
  BY <1>4, <1>5, <1>6, <1>7

\* The number of rows stays,
LEMMA StatusLength ==
  \A s, status : s \in Seq(CandidateRow) => Len(WithStatus(s, status)) = Len(s)
BY DEF WithStatus

\* and so does every title.
LEMMA StatusTitles ==
  \A s, status : s \in Seq(CandidateRow) /\ s # <<>> =>
    \A i \in 1..Len(s) : WithStatus(s, status)[i].title = s[i].title
<1> SUFFICES ASSUME NEW s, NEW status, s \in Seq(CandidateRow), s # <<>>, NEW i \in 1..Len(s)
             PROVE  WithStatus(s, status)[i].title = s[i].title
  OBVIOUS
<1>1. WithStatus(s, status) = [s EXCEPT ![1] = [s[1] EXCEPT !.status = status]]
  BY DEF WithStatus
<1>2. CASE i = 1
  <2>1. s[1] \in CandidateRow
    BY <1>2
  <2>2. [s[1] EXCEPT !.status = status].title = s[1].title
    BY <2>1 DEF CandidateRow
  <2> QED
    BY <1>1, <1>2, <2>2
<1>3. CASE i # 1
  BY <1>1, <1>3
<1> QED
  BY <1>2, <1>3

\* A program has at least two statements and at most seven, and a request that has a
\* statement to run is inside it.
LEMMA Lengths ==
  ASSUME NEW r \in Callers, at[r] \in Nat
  PROVE  /\ Len(Program(r)) \in 2..7
         /\ Statement(r) # "none" => at[r] \in 1..Len(Program(r))
<1>1. CASE r \in Creators
  <2>1. Len(Program(r)) = 6 /\ (at[r] \notin 1..6 => Statement(r) = "none")
    BY <1>1, CreatorAt
  <2> QED
    BY <2>1
<1>2. CASE r \in Claimers
  <2>1. Len(Program(r)) = 5 /\ (at[r] \notin 1..5 => Statement(r) = "none")
    BY <1>2, ClaimerAt
  <2> QED
    BY <2>1
<1>3. CASE r \in Promoters
  <2>1. Len(Program(r)) = 7 /\ (at[r] \notin 1..7 => Statement(r) = "none")
    BY <1>3, PromoterAt
  <2> QED
    BY <2>1
<1>4. CASE r \in Openers \cup Updaters \cup Auditors
  <2>1. \E n \in 2..4 : Len(Program(r)) = n /\ (at[r] \notin 1..n => Statement(r) = "none")
    BY <1>4, ViewsAt
  <2> QED
    BY <2>1
<1> QED
  BY <1>1, <1>2, <1>3, <1>4 DEF Callers

\* After a statement the request is at the next one.
LEMMA StepAt ==
  ASSUME AtOK, NEW r \in Callers, Statement(r) # "none", Done(r)
  PROVE  /\ AtOK'
         /\ at'[r] = at[r] + 1
         /\ \A q \in Callers : q # r => at'[q] = at[q]
<1>1. at[r] \in 0..8 /\ at[r] <= Len(Program(r)) /\ Len(Program(r)) \in 2..7
  BY Lengths DEF AtOK
<1>2. /\ at' \in [Callers -> 0..8]
      /\ at'[r] = at[r] + 1
      /\ \A q \in Callers : q # r => at'[q] = at[q]
  <2>1. at[r] + 1 \in 0..8
    <3>1. \A a, n \in Int : a \in 0..8 /\ a <= n /\ n \in 2..7 => a + 1 \in 0..8
      OBVIOUS
    <3>2. at[r] \in Int /\ Len(Program(r)) \in Int
      BY <1>1
    <3> QED
      BY <1>1, <3>1, <3>2
  <2>2. at \in [Callers -> 0..8] /\ at' = [at EXCEPT ![r] = at[r] + 1]
    BY DEF AtOK, Done
  <2> QED
    BY <2>1, <2>2
<1>3. ASSUME NEW q \in Callers
      PROVE  at'[q] <= Len(Program(q)) + 1
  <2>1. CASE q = r
    <3>1. at'[r] <= Len(Program(r)) + 1
      BY <1>1, <1>2
    <3> QED
      BY <2>1, <3>1
  <2>2. CASE q # r
    BY <1>2, <2>2 DEF AtOK
  <2> QED
    BY <2>1, <2>2
<1> QED
  BY <1>2, <1>3 DEF AtOK

\* A request that starts or ends.
LEMMA JumpAt ==
  ASSUME AtOK, NEW r \in Callers, NEW n \in {0, 1}, at' = [at EXCEPT ![r] = n]
  PROVE  AtOK' /\ at'[r] = n /\ \A q \in Callers : q # r => at'[q] = at[q]
<1>1. Len(Program(r)) \in 2..7
  BY Lengths DEF AtOK
<1> QED
  BY <1>1 DEF AtOK

\* The open transaction is not disturbed by what others do.
LEMMA WorkKept ==
  ASSUME OpenWork, db' = db, work' = work, conn' = conn,
         at'[conn] = at[conn], row'[conn] = row[conn]
  PROVE  OpenWork'
<1>1. CurationEvent(conn)' = CurationEvent(conn)
  BY DEF CurationEvent
<1>2. conn \in Creators => CreateWork(conn, at[conn])'
  BY DEF OpenWork, CreateWork
<1>3. conn \in Claimers => ClaimWork(conn, at[conn])'
  BY <1>1 DEF OpenWork, ClaimWork
<1>4. conn \in Promoters => PromoteWork(conn, at[conn])'
  BY <1>1 DEF OpenWork, PromoteWork
<1> QED
  BY <1>2, <1>3, <1>4 DEF OpenWork

\* Before anything was done.
LEMMA TxInit == Init => TxInv
<1> SUFFICES ASSUME Init PROVE TxInv
  OBVIOUS
<1>1. Empty \in TableSet /\ InSync(Empty)
  BY DEF Empty, TableSet, Views, InSync
<1>2. AtOK
  <2>1. at \in [Callers -> 0..8] /\ \A r \in Callers : at[r] = 0
    BY DEF Init
  <2>2. \A r \in Callers : Len(Program(r)) \in 2..7
    BY <2>1, Lengths
  <2> QED
    BY <2>1, <2>2 DEF AtOK
<1>3. RowOK /\ answered \subseteq Callers
  BY DEF Init, RowOK, Callers
<1> QED
  BY <1>1, <1>2, <1>3 DEF Init, TxInv

\* A request arrives.
LEMMA TxReceive ==
  ASSUME TxInv, NEW r \in Callers, Receive(r)
  PROVE  TxInv'
<1>1. AtOK' /\ \A q \in Callers : q # r => at'[q] = at[q]
  BY JumpAt DEF Receive, TxInv
<1>2. UNCHANGED <<db, work, conn, row, answered>>
  BY DEF Receive
<1>3. conn # NoOne => OpenWork'
  <2> SUFFICES ASSUME conn # NoOne PROVE OpenWork'
    OBVIOUS
  <2>1. OpenWork /\ conn \in Callers /\ at[conn] # 0
    BY DEF TxInv, OpenWork, Transactional, Callers, CreateWork, ClaimWork, PromoteWork
  <2>2. conn # r
    BY <2>1 DEF Receive
  <2> QED
    BY <1>1, <1>2, <2>1, <2>2, WorkKept
<1> QED
  BY <1>1, <1>2, <1>3 DEF TxInv, RowOK, InSync

\* A transaction begins with the tables as they are committed.
LEMMA TxBegin ==
  ASSUME TxInv, NEW r \in Callers, Begin(r)
  PROVE  TxInv'
<1>1. Statement(r) = "begin" /\ conn = NoOne
  BY DEF Begin, MayRun, OnTransaction, RowStatements
<1>2. r \in Transactional /\ at[r] = 1
  BY <1>1, Placed DEF TxInv, AtOK
<1>3. AtOK' /\ at'[r] = 2
  BY <1>1, <1>2, StepAt DEF Begin, TxInv
<1>4. /\ conn' = r /\ work' = db
      /\ UNCHANGED <<db, row, answered>>
  BY DEF Begin
<1>5. r \in Creators => CreateWork(r, 2)'
  BY <1>4 DEF CreateWork
<1>6. r \in Claimers => ClaimWork(r, 2)'
  BY <1>4 DEF ClaimWork
<1>7. r \in Promoters => PromoteWork(r, 2)'
  BY <1>4 DEF PromoteWork
<1>8. OpenWork'
  BY <1>2, <1>3, <1>4, <1>5, <1>6, <1>7 DEF OpenWork
<1>9. r # NoOne
  BY CallersAssumption
<1> QED
  BY <1>3, <1>4, <1>8, <1>9 DEF TxInv, RowOK, InSync

\* A statement given the transaction is of the request that holds the connection.
LEMMA Executed ==
  ASSUME TxInv, NEW r \in Callers, NEW s \in OnTransaction, Execute(r, s)
  PROVE  /\ conn = r /\ Statement(r) = s /\ OpenWork /\ ~Refused(r, s)
         /\ AtOK' /\ at'[r] = at[r] + 1 /\ at[r] \in Nat
         /\ work' = Written(r, s, work) /\ row' = [row EXCEPT ![r] = InsertedId(r, s, work)]
         /\ UNCHANGED <<db, conn, answered>>
         /\ s \notin {"insertCandidate", "insertEntry"} => row' = row
<1>1. conn = r /\ Statement(r) = s /\ ~Refused(r, s)
  BY DEF Execute, MayRun
<1>2. OpenWork
  BY <1>1, CallersAssumption DEF TxInv
<1>3. s # "none"
  BY DEF OnTransaction, RowStatements
<1>4. AtOK' /\ at'[r] = at[r] + 1 /\ at[r] \in Nat
  BY <1>1, <1>3, StepAt DEF Execute, TxInv, AtOK
<1>5. /\ work' = Written(r, s, work) /\ row' = [row EXCEPT ![r] = InsertedId(r, s, work)]
      /\ UNCHANGED <<db, conn, answered>>
  BY DEF Execute
<1>6. s \notin {"insertCandidate", "insertEntry"} => row' = row
  BY <1>5 DEF InsertedId, TxInv, RowOK
<1> QED
  BY <1>1, <1>2, <1>4, <1>5, <1>6

\* What is left to show of such a statement.
LEMMA TxExecuted ==
  ASSUME TxInv, NEW r \in Callers, NEW s \in OnTransaction, Execute(r, s),
         work' \in TableSet, RowOK', OpenWork'
  PROVE  TxInv'
<1>1. conn = r /\ AtOK' /\ UNCHANGED <<db, conn, answered>> /\ r # NoOne
  BY Executed, CallersAssumption
<1>2. InSync(db)'
  BY <1>1 DEF TxInv, InSync
<1> QED
  BY <1>1, <1>2 DEF TxInv

\* A create inserts its row,
LEMMA TxInsertCandidate ==
  ASSUME TxInv, NEW r \in Callers, Execute(r, "insertCandidate")
  PROVE  TxInv'
<1>1. "insertCandidate" \in OnTransaction
  BY DEF OnTransaction, RowStatements
<1>2. /\ conn = r /\ Statement(r) = "insertCandidate" /\ OpenWork
      /\ at'[r] = at[r] + 1 /\ at[r] \in Nat
      /\ work' = Written(r, "insertCandidate", work)
      /\ row' = [row EXCEPT ![r] = InsertedId(r, "insertCandidate", work)]
      /\ UNCHANGED <<db, conn>>
  BY <1>1, Executed
<1>3. r \in Creators /\ at[r] = 2 /\ r \notin Claimers /\ r \notin Promoters
  BY <1>2, Placed, CallersAssumption
<1>4. CreateWork(r, 2) /\ work.view = db.view
  BY <1>2, <1>3 DEF OpenWork
<1>5. work \in TableSet /\ work.candidates \in Seq(CandidateRow)
  BY DEF TxInv, TableSet
<1>6. /\ work'.candidates = Append(work.candidates, NewCandidate(r))
      /\ work'.captures = work.captures /\ work'.candidateFts = work.candidateFts
      /\ work'.entries = work.entries /\ work'.entryFts = work.entryFts
      /\ work'.events = work.events /\ work'.view = work.view
      /\ work' \in TableSet
  BY <1>2, <1>3, <1>5, InsertCandidateWrites
<1>7. RowOK' /\ row'[r] = Len(work.candidates) + 1
  BY <1>2, <1>3, <1>5 DEF TxInv, RowOK, InsertedId
<1>8. CreateWork(r, 3)'
  BY <1>2, <1>4, <1>6, <1>7 DEF CreateWork, NewCandidate
<1>9. OpenWork'
  BY <1>2, <1>3, <1>4, <1>6, <1>8 DEF OpenWork
<1> QED
  BY <1>1, <1>6, <1>7, <1>9, TxExecuted

\* indexes it
LEMMA TxRefreshCandidateFTS ==
  ASSUME TxInv, NEW r \in Callers, Execute(r, "refreshCandidateFTS")
  PROVE  TxInv'
<1>1. "refreshCandidateFTS" \in OnTransaction
  BY DEF OnTransaction, RowStatements
<1>2. /\ conn = r /\ Statement(r) = "refreshCandidateFTS" /\ OpenWork
      /\ at'[r] = at[r] + 1 /\ at[r] \in Nat
      /\ work' = Written(r, "refreshCandidateFTS", work) /\ row' = row
      /\ UNCHANGED <<db, conn>>
  BY <1>1, Executed
<1>3. r \in Creators /\ at[r] = 3 /\ r \notin Claimers /\ r \notin Promoters
  BY <1>2, Placed, CallersAssumption
<1>4. CreateWork(r, 3) /\ work.view = db.view
  BY <1>2, <1>3 DEF OpenWork
<1>5. /\ work \in TableSet /\ work.candidates \in Seq(CandidateRow)
      /\ db.candidates \in Seq(CandidateRow) /\ db.candidateFts \in Seq(Creators)
      /\ Len(db.candidateFts) = Len(db.candidates)
  BY DEF TxInv, TableSet, InSync
<1>6. /\ work'.candidateFts = Refreshed(work.candidateFts, work.candidates, row[r])
      /\ work'.captures = work.captures /\ work'.candidates = work.candidates
      /\ work'.entries = work.entries /\ work'.entryFts = work.entryFts
      /\ work'.events = work.events /\ work'.view = work.view
      /\ work'.candidateFts \in Seq(Creators) => work' \in TableSet
  BY <1>2, <1>5, RefreshCandidateWrites
<1>7. /\ work.candidateFts = db.candidateFts /\ row[r] = Len(db.candidates) + 1
      /\ Len(work.candidates) = Len(db.candidates) + 1
  BY <1>4, <1>5 DEF CreateWork
<1>8. work'.candidateFts \in Seq(Creators)
  <2>1. \A x \in CandidateRow : x.title \in Creators
    BY DEF CandidateRow
  <2>2. \A i \in 1..Len(work.candidates) : i = row[r] \/ i \in 1..Len(work.candidateFts)
    BY <1>5, <1>7
  <2> QED
    BY <1>5, <1>6, <1>7, <2>1, <2>2, RefreshedSeq
<1>9. CreateWork(r, 4)'
  <2>1. /\ row[r] = Len(db.candidates) + 1
        /\ work.candidates = Append(db.candidates, NewCandidate(r))
        /\ work.captures = db.captures
        /\ <<work.entries, work.entryFts, work.events>> = <<db.entries, db.entryFts, db.events>>
    BY <1>4 DEF CreateWork
  <2>2. /\ row'[r] = Len(db'.candidates) + 1
        /\ work'.candidates = Append(db'.candidates, NewCandidate(r))
        /\ work'.candidateFts = Refreshed(db'.candidateFts, work'.candidates, row'[r])
        /\ work'.captures = db'.captures
        /\ <<work'.entries, work'.entryFts, work'.events>>
             = <<db'.entries, db'.entryFts, db'.events>>
    BY <1>2, <1>6, <1>7, <2>1
  <2> QED
    BY <2>2 DEF CreateWork
<1>10. OpenWork' /\ RowOK'
  BY <1>2, <1>3, <1>4, <1>6, <1>9 DEF OpenWork, TxInv, RowOK
<1> QED
  BY <1>1, <1>6, <1>8, <1>10, TxExecuted

\* and logs the capture.
LEMMA TxLogCapture ==
  ASSUME TxInv, NEW r \in Callers, Execute(r, "logCapture")
  PROVE  TxInv'
<1>1. "logCapture" \in OnTransaction
  BY DEF OnTransaction, RowStatements
<1>2. /\ conn = r /\ Statement(r) = "logCapture" /\ OpenWork
      /\ at'[r] = at[r] + 1 /\ at[r] \in Nat
      /\ work' = Written(r, "logCapture", work) /\ row' = row
      /\ UNCHANGED <<db, conn>>
  BY <1>1, Executed
<1>3. r \in Creators /\ at[r] = 4 /\ r \notin Claimers /\ r \notin Promoters
  BY <1>2, Placed, CallersAssumption
<1>4. CreateWork(r, 4) /\ work.view = db.view
  BY <1>2, <1>3 DEF OpenWork
<1>5. work \in TableSet /\ db.candidates \in Seq(CandidateRow)
  BY DEF TxInv, TableSet
<1>6. row[r] \in Nat \ {0}
  BY <1>4, <1>5 DEF CreateWork
<1>7. /\ work'.captures = Append(work.captures, Capture(row[r]))
      /\ work'.candidates = work.candidates /\ work'.candidateFts = work.candidateFts
      /\ work'.entries = work.entries /\ work'.entryFts = work.entryFts
      /\ work'.events = work.events /\ work'.view = work.view
      /\ work' \in TableSet
  BY <1>2, <1>5, <1>6, LogCaptureWrites
<1>8. CreateWork(r, 5)'
  <2>1. /\ row[r] = Len(db.candidates) + 1
        /\ work.candidates = Append(db.candidates, NewCandidate(r))
        /\ work.candidateFts = Refreshed(db.candidateFts, work.candidates, row[r])
        /\ work.captures = db.captures
        /\ <<work.entries, work.entryFts, work.events>> = <<db.entries, db.entryFts, db.events>>
    BY <1>4 DEF CreateWork
  <2>2. /\ row'[r] = Len(db'.candidates) + 1
        /\ work'.candidates = Append(db'.candidates, NewCandidate(r))
        /\ work'.candidateFts = Refreshed(db'.candidateFts, work'.candidates, row'[r])
        /\ work'.captures = Append(db'.captures, Capture(row'[r]))
        /\ <<work'.entries, work'.entryFts, work'.events>>
             = <<db'.entries, db'.entryFts, db'.events>>
    BY <1>2, <1>7, <2>1
  <2> QED
    BY <2>2 DEF CreateWork
<1>9. OpenWork' /\ RowOK'
  BY <1>2, <1>3, <1>4, <1>7, <1>8 DEF OpenWork, TxInv, RowOK
<1> QED
  BY <1>1, <1>7, <1>9, TxExecuted

\* A claim or a promotion looks its candidate up; the claim finds one, the promotion
\* one that is open.
LEMMA TxSelectCandidate ==
  ASSUME TxInv, NEW r \in Callers, Execute(r, "selectCandidate")
  PROVE  TxInv'
<1>1. "selectCandidate" \in OnTransaction
  BY DEF OnTransaction, RowStatements
<1>2. /\ conn = r /\ Statement(r) = "selectCandidate" /\ OpenWork
      /\ ~Refused(r, "selectCandidate")
      /\ at'[r] = at[r] + 1 /\ at[r] \in Nat
      /\ work' = Written(r, "selectCandidate", work) /\ row' = row
      /\ UNCHANGED <<db, conn>>
  BY <1>1, Executed
<1>3. r \in Claimers \cup Promoters /\ at[r] = 2 /\ r \notin Creators
  BY <1>2, Placed, CallersAssumption
<1>4. work.view = db.view /\ work' = work
  BY <1>2 DEF OpenWork, Written
<1>5. /\ work.candidates # <<>>
      /\ r \in Promoters => work.candidates[1].status \in {"pending", "claimed"}
  BY <1>2 DEF Refused
<1>6. RowOK' /\ work' \in TableSet
  BY <1>2, <1>4 DEF TxInv, RowOK
<1>7. CASE r \in Claimers
  <2>1. ClaimWork(r, 2) /\ r \notin Promoters
    BY <1>2, <1>3, <1>7, CallersAssumption DEF OpenWork
  <2>2. /\ work'.candidates = db'.candidates /\ work'.events = db'.events
        /\ <<work'.entries, work'.entryFts>> = <<db'.entries, db'.entryFts>>
        /\ <<work'.captures, work'.candidateFts>> = <<db'.captures, db'.candidateFts>>
        /\ db'.candidates # <<>>
    BY <1>2, <1>4, <1>5, <2>1 DEF ClaimWork
  <2>3. ClaimWork(r, 3)'
    BY <2>2 DEF ClaimWork
  <2> QED
    BY <1>1, <1>2, <1>3, <1>4, <1>6, <2>1, <2>3, TxExecuted DEF OpenWork, Transactional
<1>8. CASE r \in Promoters
  <2>1. PromoteWork(r, 2) /\ r \notin Claimers
    BY <1>2, <1>3, <1>8, CallersAssumption DEF OpenWork
  <2>2. /\ work'.candidates = db'.candidates /\ work'.events = db'.events
        /\ work'.entries = db'.entries /\ work'.entryFts = db'.entryFts
        /\ <<work'.captures, work'.candidateFts>> = <<db'.captures, db'.candidateFts>>
        /\ db'.candidates # <<>> /\ db'.candidates[1].status \in {"pending", "claimed"}
    BY <1>2, <1>4, <1>5, <1>8, <2>1 DEF PromoteWork
  <2>3. PromoteWork(r, 3)'
    BY <2>2 DEF PromoteWork
  <2> QED
    BY <1>1, <1>2, <1>3, <1>4, <1>6, <2>1, <2>3, TxExecuted DEF OpenWork, Transactional
<1> QED
  BY <1>3, <1>7, <1>8

\* A promotion inserts the entry: the slug is free only while there is none,
LEMMA TxInsertEntry ==
  ASSUME TxInv, NEW r \in Callers, Execute(r, "insertEntry")
  PROVE  TxInv'
<1>1. "insertEntry" \in OnTransaction
  BY DEF OnTransaction, RowStatements
<1>2. /\ conn = r /\ Statement(r) = "insertEntry" /\ OpenWork
      /\ ~Refused(r, "insertEntry")
      /\ at'[r] = at[r] + 1 /\ at[r] \in Nat
      /\ work' = Written(r, "insertEntry", work)
      /\ row' = [row EXCEPT ![r] = InsertedId(r, "insertEntry", work)]
      /\ UNCHANGED <<db, conn>>
  BY <1>1, Executed
<1>3. r \in Promoters /\ at[r] = 3 /\ r \notin Creators /\ r \notin Claimers
  BY <1>2, Placed, CallersAssumption
<1>4. PromoteWork(r, 3) /\ work.view = db.view
  BY <1>2, <1>3 DEF OpenWork
<1>5. /\ work \in TableSet /\ db.entries \in Seq(EntryRow)
  BY DEF TxInv, TableSet
<1>6. /\ work.candidates = db.candidates /\ work.events = db.events
      /\ work.entries = db.entries /\ work.entryFts = db.entryFts
      /\ <<work.captures, work.candidateFts>> = <<db.captures, db.candidateFts>>
      /\ db.candidates # <<>> /\ db.candidates[1].status \in {"pending", "claimed"}
  BY <1>4 DEF PromoteWork
<1>7. db.entries = <<>>
  <2>1. \A i \in DOMAIN work.entries : work.entries[i].slug # <<"candidate", 1>>
    BY <1>2 DEF Refused, NewEntry
  <2>2. \A i \in DOMAIN db.entries : db.entries[i].slug = <<"candidate", 1>>
    <3>1. \A i \in DOMAIN db.entries : db.entries[i] \in EntryRow
      BY <1>5
    <3> QED
      BY <3>1 DEF EntryRow
  <2>3. db.entries # <<>> => 1 \in DOMAIN db.entries
    BY <1>5
  <2> QED
    BY <1>6, <2>1, <2>2, <2>3
<1>8. /\ work'.entries = Append(work.entries, NewEntry(work))
      /\ work'.captures = work.captures /\ work'.candidates = work.candidates
      /\ work'.candidateFts = work.candidateFts /\ work'.entryFts = work.entryFts
      /\ work'.events = work.events /\ work'.view = work.view
      /\ work' \in TableSet
  BY <1>2, <1>5, <1>6, InsertEntryWrites
<1>9. RowOK' /\ row'[r] = 1
  BY <1>2, <1>3, <1>6, <1>7 DEF TxInv, RowOK, InsertedId
<1>10. NewEntry(work) = NewEntry(db')
  BY <1>2, <1>6 DEF NewEntry
<1>11. PromoteWork(r, 4)'
  <2>1. /\ work'.candidates = db'.candidates /\ work'.events = db'.events
        /\ work'.entries = Append(db'.entries, NewEntry(db'))
        /\ work'.entryFts = db'.entryFts
        /\ <<work'.captures, work'.candidateFts>> = <<db'.captures, db'.candidateFts>>
        /\ db'.candidates # <<>> /\ db'.candidates[1].status \in {"pending", "claimed"}
        /\ db'.entries = <<>>
    BY <1>2, <1>6, <1>7, <1>8, <1>10
  <2> QED
    BY <1>9, <2>1 DEF PromoteWork
<1> QED
  BY <1>1, <1>2, <1>3, <1>4, <1>8, <1>9, <1>11, TxExecuted DEF OpenWork, Transactional

\* and indexes it.
LEMMA TxRefreshEntryFTS ==
  ASSUME TxInv, NEW r \in Callers, Execute(r, "refreshEntryFTS")
  PROVE  TxInv'
<1>1. "refreshEntryFTS" \in OnTransaction
  BY DEF OnTransaction, RowStatements
<1>2. /\ conn = r /\ Statement(r) = "refreshEntryFTS" /\ OpenWork
      /\ at'[r] = at[r] + 1 /\ at[r] \in Nat
      /\ work' = Written(r, "refreshEntryFTS", work) /\ row' = row
      /\ UNCHANGED <<db, conn>>
  BY <1>1, Executed
<1>3. r \in Promoters /\ at[r] = 4 /\ r \notin Creators /\ r \notin Claimers
  BY <1>2, Placed, CallersAssumption
<1>4. PromoteWork(r, 4) /\ work.view = db.view
  BY <1>2, <1>3 DEF OpenWork
<1>5. /\ work \in TableSet /\ work.entries \in Seq(EntryRow) /\ work.entryFts \in Seq(Creators)
  BY DEF TxInv, TableSet
<1>6. /\ work.candidates = db.candidates /\ work.events = db.events
      /\ work.entries = Append(db.entries, NewEntry(db)) /\ work.entryFts = db.entryFts
      /\ <<work.captures, work.candidateFts>> = <<db.captures, db.candidateFts>>
      /\ db.candidates # <<>> /\ db.candidates[1].status \in {"pending", "claimed"}
      /\ db.entries = <<>> /\ row[r] = 1
  BY <1>4 DEF PromoteWork
<1>7. /\ work'.entryFts = Refreshed(work.entryFts, work.entries, row[r])
      /\ work'.captures = work.captures /\ work'.candidates = work.candidates
      /\ work'.candidateFts = work.candidateFts /\ work'.entries = work.entries
      /\ work'.events = work.events /\ work'.view = work.view
      /\ work'.entryFts \in Seq(Creators) => work' \in TableSet
  BY <1>2, <1>5, RefreshEntryWrites
<1>8. work'.entryFts \in Seq(Creators)
  <2>1. \A x \in EntryRow : x.title \in Creators
    BY DEF EntryRow
  <2>2. \A i \in 1..Len(work.entries) : i = row[r]
    BY <1>6
  <2> QED
    BY <1>5, <1>7, <2>1, <2>2, RefreshedSeq
<1>9. PromoteWork(r, 5)'
  <2>1. /\ work'.candidates = db'.candidates /\ work'.events = db'.events
        /\ work'.entries = Append(db'.entries, NewEntry(db'))
        /\ work'.entryFts = Refreshed(db'.entryFts, work'.entries, row'[r])
        /\ <<work'.captures, work'.candidateFts>> = <<db'.captures, db'.candidateFts>>
        /\ db'.candidates # <<>> /\ db'.candidates[1].status \in {"pending", "claimed"}
        /\ db'.entries = <<>> /\ row'[r] = 1
    BY <1>2, <1>6, <1>7
  <2> QED
    BY <2>1 DEF PromoteWork
<1>10. OpenWork' /\ RowOK'
  BY <1>2, <1>3, <1>4, <1>7, <1>9 DEF OpenWork, TxInv, RowOK, Transactional
<1> QED
  BY <1>1, <1>7, <1>8, <1>10, TxExecuted

\* The status of the candidate,
LEMMA TxUpdateCandidate ==
  ASSUME TxInv, NEW r \in Callers, Execute(r, "updateCandidate")
  PROVE  TxInv'
<1>1. "updateCandidate" \in OnTransaction
  BY DEF OnTransaction, RowStatements
<1>2. /\ conn = r /\ Statement(r) = "updateCandidate" /\ OpenWork
      /\ at'[r] = at[r] + 1 /\ at[r] \in Nat
      /\ work' = Written(r, "updateCandidate", work) /\ row' = row
      /\ UNCHANGED <<db, conn>>
  BY <1>1, Executed
<1>3. /\ (r \in Claimers /\ at[r] = 3) \/ (r \in Promoters /\ at[r] = 5)
      /\ r \notin Creators /\ work.view = db.view
  BY <1>2, Placed, CallersAssumption DEF OpenWork
<1>4. work \in TableSet /\ RowOK'
  BY <1>2 DEF TxInv, RowOK
<1>5. CASE r \in Claimers
  <2>1. ClaimWork(r, 3) /\ r \notin Promoters /\ at[r] = 3
    BY <1>2, <1>3, <1>5, CallersAssumption DEF OpenWork
  <2>2. /\ work.candidates = db.candidates /\ work.events = db.events
        /\ <<work.entries, work.entryFts>> = <<db.entries, db.entryFts>>
        /\ <<work.captures, work.candidateFts>> = <<db.captures, db.candidateFts>>
        /\ db.candidates # <<>>
    BY <2>1 DEF ClaimWork
  <2>3. NewStatus(r) = "claimed"
    BY <2>1 DEF NewStatus
  <2>4. /\ work'.candidates = [work.candidates EXCEPT ![1].status = "claimed"]
        /\ work'.captures = work.captures /\ work'.candidateFts = work.candidateFts
        /\ work'.entries = work.entries /\ work'.entryFts = work.entryFts
        /\ work'.events = work.events /\ work'.view = work.view
        /\ work' \in TableSet
    <3>1. work.candidates # <<>> /\ work' = Written(r, "updateCandidate", work)
      BY <1>2, <2>2
    <3> QED
      BY <1>4, <2>3, <3>1, UpdateCandidateWrites
  <2>5. ClaimWork(r, 4)'
    <3>1. /\ work'.candidates = [db'.candidates EXCEPT ![1].status = "claimed"]
          /\ work'.events = db'.events
          /\ <<work'.entries, work'.entryFts>> = <<db'.entries, db'.entryFts>>
          /\ <<work'.captures, work'.candidateFts>> = <<db'.captures, db'.candidateFts>>
          /\ db'.candidates # <<>>
      BY <1>2, <2>2, <2>4
    <3> QED
      BY <3>1 DEF ClaimWork
  <2>6. OpenWork'
    BY <1>2, <1>3, <2>1, <2>4, <2>5 DEF OpenWork, Transactional
  <2> QED
    BY <1>1, <1>4, <2>4, <2>6, TxExecuted
<1>6. CASE r \in Promoters
  <2>1. PromoteWork(r, 5) /\ r \notin Claimers /\ at[r] = 5
    BY <1>2, <1>3, <1>6, CallersAssumption DEF OpenWork
  <2>2. /\ work.candidates = db.candidates /\ work.events = db.events
        /\ work.entries = Append(db.entries, NewEntry(db))
        /\ work.entryFts = Refreshed(db.entryFts, work.entries, row[r])
        /\ <<work.captures, work.candidateFts>> = <<db.captures, db.candidateFts>>
        /\ db.candidates # <<>> /\ db.candidates[1].status \in {"pending", "claimed"}
        /\ db.entries = <<>> /\ row[r] = 1
    BY <2>1 DEF PromoteWork
  <2>3. NewStatus(r) = "promoted"
    BY <1>6 DEF NewStatus
  <2>4. /\ work'.candidates = [work.candidates EXCEPT ![1].status = "promoted"]
        /\ work'.captures = work.captures /\ work'.candidateFts = work.candidateFts
        /\ work'.entries = work.entries /\ work'.entryFts = work.entryFts
        /\ work'.events = work.events /\ work'.view = work.view
        /\ work' \in TableSet
    <3>1. work.candidates # <<>> /\ work' = Written(r, "updateCandidate", work)
      BY <1>2, <2>2
    <3> QED
      BY <1>4, <2>3, <3>1, UpdateCandidateWrites
  <2>5. PromoteWork(r, 6)'
    <3>1. /\ work'.candidates = [db'.candidates EXCEPT ![1].status = "promoted"]
          /\ work'.events = db'.events
          /\ work'.entries = Append(db'.entries, NewEntry(db'))
          /\ work'.entryFts = Refreshed(db'.entryFts, work'.entries, row'[r])
          /\ <<work'.captures, work'.candidateFts>> = <<db'.captures, db'.candidateFts>>
          /\ db'.candidates # <<>> /\ db'.candidates[1].status \in {"pending", "claimed"}
          /\ db'.entries = <<>> /\ row'[r] = 1
      BY <1>2, <2>2, <2>4
    <3> QED
      BY <3>1 DEF PromoteWork
  <2>6. OpenWork'
    BY <1>2, <1>3, <2>1, <2>4, <2>5 DEF OpenWork, Transactional
  <2> QED
    BY <1>1, <1>4, <2>4, <2>6, TxExecuted
<1> QED
  BY <1>3, <1>5, <1>6

\* and the event.
LEMMA TxLogCuration ==
  ASSUME TxInv, NEW r \in Callers, Execute(r, "logCuration")
  PROVE  TxInv'
<1>1. "logCuration" \in OnTransaction
  BY DEF OnTransaction, RowStatements
<1>2. /\ conn = r /\ Statement(r) = "logCuration" /\ OpenWork
      /\ at'[r] = at[r] + 1 /\ at[r] \in Nat
      /\ work' = Written(r, "logCuration", work) /\ row' = row
      /\ UNCHANGED <<db, conn>>
  BY <1>1, Executed
<1>3. /\ (r \in Claimers /\ at[r] = 4) \/ (r \in Promoters /\ at[r] = 6)
      /\ r \notin Creators /\ work.view = db.view
  BY <1>2, Placed, CallersAssumption DEF OpenWork
<1>4. work \in TableSet /\ RowOK' /\ row[r] \in Nat
  BY <1>2 DEF TxInv, RowOK
<1>5. /\ work'.events = Append(work.events, CurationEvent(r))
      /\ work'.captures = work.captures /\ work'.candidateFts = work.candidateFts
      /\ work'.candidates = work.candidates
      /\ work'.entries = work.entries /\ work'.entryFts = work.entryFts
      /\ work'.view = work.view /\ work' \in TableSet
  BY <1>2, <1>4, LogCurationWrites
<1>6. CurationEvent(r)' = CurationEvent(r)
  BY <1>2 DEF CurationEvent
<1>7. CASE r \in Claimers
  <2>1. ClaimWork(r, 4) /\ r \notin Promoters /\ at[r] = 4
    BY <1>2, <1>3, <1>7, CallersAssumption DEF OpenWork
  <2>2. /\ work.candidates = [db.candidates EXCEPT ![1].status = "claimed"]
        /\ work.events = db.events
        /\ <<work.entries, work.entryFts>> = <<db.entries, db.entryFts>>
        /\ <<work.captures, work.candidateFts>> = <<db.captures, db.candidateFts>>
        /\ db.candidates # <<>>
    BY <2>1 DEF ClaimWork
  <2>3. ClaimWork(r, 5)'
    <3>1. /\ work'.candidates = [db'.candidates EXCEPT ![1].status = "claimed"]
          /\ work'.events = Append(db'.events, CurationEvent(r)')
          /\ <<work'.entries, work'.entryFts>> = <<db'.entries, db'.entryFts>>
          /\ <<work'.captures, work'.candidateFts>> = <<db'.captures, db'.candidateFts>>
          /\ db'.candidates # <<>>
      BY <1>2, <1>5, <1>6, <2>2
    <3> QED
      BY <3>1 DEF ClaimWork
  <2>4. OpenWork'
    BY <1>2, <1>3, <1>5, <2>1, <2>3 DEF OpenWork, Transactional
  <2> QED
    BY <1>1, <1>4, <1>5, <2>4, TxExecuted
<1>8. CASE r \in Promoters
  <2>1. PromoteWork(r, 6) /\ r \notin Claimers /\ at[r] = 6
    BY <1>2, <1>3, <1>8, CallersAssumption DEF OpenWork
  <2>2. /\ work.candidates = [db.candidates EXCEPT ![1].status = "promoted"]
        /\ work.events = db.events
        /\ work.entries = Append(db.entries, NewEntry(db))
        /\ work.entryFts = Refreshed(db.entryFts, work.entries, row[r])
        /\ <<work.captures, work.candidateFts>> = <<db.captures, db.candidateFts>>
        /\ db.candidates # <<>> /\ db.candidates[1].status \in {"pending", "claimed"}
        /\ db.entries = <<>> /\ row[r] = 1
    BY <2>1 DEF PromoteWork
  <2>3. PromoteWork(r, 7)'
    <3>1. /\ work'.candidates = [db'.candidates EXCEPT ![1].status = "promoted"]
          /\ work'.events = Append(db'.events, CurationEvent(r)')
          /\ work'.entries = Append(db'.entries, NewEntry(db'))
          /\ work'.entryFts = Refreshed(db'.entryFts, work'.entries, row'[r])
          /\ <<work'.captures, work'.candidateFts>> = <<db'.captures, db'.candidateFts>>
          /\ db'.candidates # <<>> /\ db'.candidates[1].status \in {"pending", "claimed"}
          /\ db'.entries = <<>> /\ row'[r] = 1
      BY <1>2, <1>5, <1>6, <2>2
    <3> QED
      BY <3>1 DEF PromoteWork
  <2>4. OpenWork'
    BY <1>2, <1>3, <1>5, <2>1, <2>3 DEF OpenWork, Transactional
  <2> QED
    BY <1>1, <1>4, <1>5, <2>4, TxExecuted
<1> QED
  BY <1>3, <1>7, <1>8

-----------------------------------------------------------------------------
(* What a commit does to the tables: it is all that its handler writes.    *)

Created(r) ==
  /\ r \in Creators /\ at[r] = 5
  /\ row[r] = Len(db.candidates) + 1
  /\ db'.candidates = Append(db.candidates, NewCandidate(r))
  /\ db'.candidateFts = Refreshed(db.candidateFts, db'.candidates, row[r])
  /\ db'.captures = Append(db.captures, Capture(row[r]))
  /\ <<db'.entries, db'.entryFts, db'.events>> = <<db.entries, db.entryFts, db.events>>

Claimed(r) ==
  /\ r \in Claimers /\ at[r] = 5
  /\ db.candidates # <<>>
  /\ db'.candidates = WithStatus(db.candidates, "claimed")
  /\ db'.events = Append(db.events, CurationEvent(r))
  /\ <<db'.captures, db'.candidateFts>> = <<db.captures, db.candidateFts>>
  /\ <<db'.entries, db'.entryFts>> = <<db.entries, db.entryFts>>

Promoted(r) ==
  /\ r \in Promoters /\ at[r] = 7
  /\ db.candidates # <<>> /\ db.candidates[1].status \in {"pending", "claimed"}
  /\ db.entries = <<>> /\ row[r] = 1
  /\ db'.candidates = WithStatus(db.candidates, "promoted")
  /\ db'.entries = Append(db.entries, NewEntry(db))
  /\ db'.entryFts = Refreshed(db.entryFts, db'.entries, row[r])
  /\ db'.events = Append(db.events, CurationEvent(r))
  /\ <<db'.captures, db'.candidateFts>> = <<db.captures, db.candidateFts>>

\* A commit is of one of the three, and stores its rows with its log.
LEMMA Committed ==
  ASSUME TxInv, NEW r \in Callers, Commit(r)
  PROVE  /\ Created(r) \/ Claimed(r) \/ Promoted(r)
         /\ conn = r /\ conn' = NoOne /\ work' = Empty
         /\ db' \in TableSet /\ db'.view = db.view
         /\ AtOK' /\ at'[r] = at[r] + 1 /\ at[r] \in Nat
<1>1. conn = r /\ Statement(r) = "commit"
  BY DEF Commit, MayRun, OnTransaction
<1>2. /\ OpenWork /\ AtOK' /\ at'[r] = at[r] + 1 /\ at[r] \in Nat
  BY <1>1, CallersAssumption, StepAt DEF TxInv, Commit, AtOK
<1>3. conn' = NoOne /\ work' = Empty /\ db' = work
  BY DEF Commit
<1>4. db' \in TableSet /\ db'.view = db.view
  BY <1>2, <1>3 DEF TxInv, OpenWork
<1>5. \/ (r \in Creators \cup Claimers /\ at[r] = 5) \/ (r \in Promoters /\ at[r] = 7)
  BY <1>1, <1>2, Placed
<1>6. CASE r \in Creators
  <2>1. CreateWork(r, 5) /\ at[r] = 5
    BY <1>1, <1>2, <1>5, <1>6, CallersAssumption DEF OpenWork
  <2>2. Created(r)
    BY <1>3, <1>6, <2>1 DEF CreateWork, Created
  <2> QED
    BY <1>1, <1>2, <1>3, <1>4, <2>2
<1>7. CASE r \in Claimers
  <2>1. ClaimWork(r, 5) /\ at[r] = 5
    BY <1>1, <1>2, <1>5, <1>7, CallersAssumption DEF OpenWork
  <2>2. Claimed(r)
    BY <1>3, <1>7, <2>1 DEF ClaimWork, Claimed, WithStatus
  <2> QED
    BY <1>1, <1>2, <1>3, <1>4, <2>2
<1>8. CASE r \in Promoters
  <2>1. PromoteWork(r, 7) /\ at[r] = 7
    BY <1>1, <1>2, <1>5, <1>8, CallersAssumption DEF OpenWork
  <2>2. /\ db.candidates # <<>> /\ db.candidates[1].status \in {"pending", "claimed"}
        /\ db.entries = <<>> /\ row[r] = 1
        /\ work.candidates = WithStatus(db.candidates, "promoted")
        /\ work.entries = Append(db.entries, NewEntry(db))
        /\ work.entryFts = Refreshed(db.entryFts, work.entries, row[r])
        /\ work.events = Append(db.events, CurationEvent(r))
        /\ <<work.captures, work.candidateFts>> = <<db.captures, db.candidateFts>>
    BY <2>1 DEF PromoteWork, WithStatus
  <2>3. Promoted(r)
    BY <1>3, <1>8, <2>1, <2>2 DEF Promoted
  <2> QED
    BY <1>1, <1>2, <1>3, <1>4, <2>3
<1> QED
  BY <1>5, <1>6, <1>7, <1>8

\* The indexes follow.
LEMMA CommitInSync ==
  ASSUME TxInv, NEW r \in Callers, Commit(r)
  PROVE  InSync(db)'
<1>1. Created(r) \/ Claimed(r) \/ Promoted(r)
  BY Committed
<1>2. db \in TableSet /\ InSync(db) /\ db' \in TableSet
  BY Committed DEF TxInv
<1>3. /\ db.candidates \in Seq(CandidateRow) /\ db.candidateFts \in Seq(Creators)
      /\ db.entries \in Seq(EntryRow) /\ db.entryFts \in Seq(Creators)
      /\ Len(db.candidateFts) = Len(db.candidates) /\ Len(db.entryFts) = Len(db.entries)
      /\ \A i \in 1..Len(db.candidates) : db.candidateFts[i] = db.candidates[i].title
      /\ \A i \in 1..Len(db.entries) : db.entryFts[i] = db.entries[i].title
  BY <1>2 DEF TableSet, InSync
<1>4. db'.candidates \in Seq(CandidateRow) /\ db'.entries \in Seq(EntryRow)
  BY <1>2 DEF TableSet
<1>5. CASE Created(r)
  <2>1. /\ row[r] = Len(db.candidates) + 1
        /\ db'.candidates = Append(db.candidates, NewCandidate(r))
        /\ db'.candidateFts = Refreshed(db.candidateFts, db'.candidates, row[r])
        /\ db'.entries = db.entries /\ db'.entryFts = db.entryFts
    BY <1>5 DEF Created
  <2>2. Len(db'.candidates) = row[r] /\ \A i \in 1..Len(db.candidates) : db'.candidates[i] = db.candidates[i]
    BY <1>3, <2>1
  <2>3. \A x \in CandidateRow : x.title \in Creators
    BY DEF CandidateRow
  <2>4. \A i \in 1..Len(db'.candidates) : i = row[r] \/ i \in 1..Len(db.candidateFts)
    BY <1>3, <2>1, <2>2
  <2>5. /\ Len(db'.candidateFts) = Len(db'.candidates)
        /\ \A i \in 1..Len(db'.candidates) :
             db'.candidateFts[i] = IF i = row[r] THEN db'.candidates[i].title ELSE db.candidateFts[i]
    <3> DEFINE rows == db'.candidates
               fts == db.candidateFts
    <3>1. rows \in Seq(CandidateRow) /\ fts \in Seq(Creators)
      BY <1>3, <1>4
    <3>2. \A i \in 1..Len(rows) : i = row[r] \/ i \in 1..Len(fts)
      BY <2>4
    <3>3. db'.candidateFts = Refreshed(fts, rows, row[r])
      BY <2>1
    <3> HIDE DEF rows, fts
    <3>4. /\ Len(Refreshed(fts, rows, row[r])) = Len(rows)
          /\ \A i \in 1..Len(rows) :
               Refreshed(fts, rows, row[r])[i] = IF i = row[r] THEN rows[i].title ELSE fts[i]
      BY <2>3, <3>1, <3>2, RefreshedSeq
    <3> QED
      BY <3>3, <3>4 DEF rows, fts
  <2>6. \A i \in 1..Len(db'.candidates) : db'.candidateFts[i] = db'.candidates[i].title
    BY <1>3, <2>2, <2>4, <2>5
  <2> QED
    BY <1>3, <2>1, <2>5, <2>6 DEF InSync
<1>6. CASE Claimed(r)
  <2>1. /\ db'.candidates = WithStatus(db.candidates, "claimed") /\ db.candidates # <<>>
        /\ db'.candidateFts = db.candidateFts
        /\ db'.entries = db.entries /\ db'.entryFts = db.entryFts
    BY <1>6 DEF Claimed
  <2>2. /\ Len(db'.candidates) = Len(db.candidates)
        /\ \A i \in 1..Len(db.candidates) : db'.candidates[i].title = db.candidates[i].title
    <3>1. db.candidates \in Seq(CandidateRow) /\ db.candidates # <<>>
      BY <1>3, <2>1
    <3>2. "claimed" \in {"pending", "claimed", "promoted"}
      OBVIOUS
    <3> DEFINE t == WithStatus(db.candidates, "claimed")
    <3>3. /\ Len(t) = Len(db.candidates)
          /\ \A i \in 1..Len(db.candidates) : t[i].title = db.candidates[i].title
      BY <3>1, <3>2, StatusSet
    <3> QED
      BY <2>1, <3>3
  <2> QED
    BY <1>3, <2>1, <2>2 DEF InSync
<1>7. CASE Promoted(r)
  <2>1. /\ db'.candidates = WithStatus(db.candidates, "promoted") /\ db.candidates # <<>>
        /\ db'.candidateFts = db.candidateFts /\ db.entries = <<>> /\ row[r] = 1
        /\ db'.entries = Append(db.entries, NewEntry(db))
        /\ db'.entryFts = Refreshed(db.entryFts, db'.entries, row[r])
    BY <1>7 DEF Promoted
  <2>2. /\ Len(db'.candidates) = Len(db.candidates)
        /\ \A i \in 1..Len(db.candidates) : db'.candidates[i].title = db.candidates[i].title
    <3>1. db.candidates \in Seq(CandidateRow) /\ db.candidates # <<>>
      BY <1>3, <2>1
    <3>2. "promoted" \in {"pending", "claimed", "promoted"}
      OBVIOUS
    <3> DEFINE t == WithStatus(db.candidates, "promoted")
    <3>3. /\ Len(t) = Len(db.candidates)
          /\ \A i \in 1..Len(db.candidates) : t[i].title = db.candidates[i].title
      BY <3>1, <3>2, StatusSet
    <3> QED
      BY <2>1, <3>3
  <2>3. \A x \in EntryRow : x.title \in Creators
    BY DEF EntryRow
  <2>4. \A i \in 1..Len(db'.entries) : i = row[r]
    BY <1>3, <2>1
  <2>5. /\ Len(db'.entryFts) = Len(db'.entries)
        /\ \A i \in 1..Len(db'.entries) :
             db'.entryFts[i] = IF i = row[r] THEN db'.entries[i].title ELSE db.entryFts[i]
    <3> DEFINE rows == db'.entries
               fts == db.entryFts
    <3>1. rows \in Seq(EntryRow) /\ fts \in Seq(Creators)
      BY <1>3, <1>4
    <3>2. \A i \in 1..Len(rows) : i = row[r] \/ i \in 1..Len(fts)
      BY <2>4
    <3>3. db'.entryFts = Refreshed(fts, rows, row[r])
      BY <2>1
    <3> HIDE DEF rows, fts
    <3>4. /\ Len(Refreshed(fts, rows, row[r])) = Len(rows)
          /\ \A i \in 1..Len(rows) :
               Refreshed(fts, rows, row[r])[i] = IF i = row[r] THEN rows[i].title ELSE fts[i]
      BY <2>3, <3>1, <3>2, RefreshedSeq
    <3> QED
      BY <3>3, <3>4 DEF rows, fts
  <2> QED
    BY <1>3, <2>1, <2>2, <2>4, <2>5 DEF InSync
<1> QED
  BY <1>1, <1>5, <1>6, <1>7

\* After a commit nothing is open.
LEMMA TxCommit ==
  ASSUME TxInv, NEW r \in Callers, Commit(r)
  PROVE  TxInv'
<1>1. conn' = NoOne /\ work' = Empty /\ db' \in TableSet /\ AtOK' /\ InSync(db)'
  BY Committed, CommitInSync
<1>2. Empty \in TableSet
  BY DEF Empty, TableSet, Views
<1>3. RowOK' /\ answered' \subseteq Callers
  BY DEF Commit, TxInv, RowOK
<1> QED
  BY <1>1, <1>2, <1>3 DEF TxInv

\* A statement given the handle, which runs while no transaction is open.
LEMMA TxQuiet ==
  ASSUME TxInv, NEW r \in Callers, Statement(r) # "none", conn = NoOne, Done(r),
         UNCHANGED <<work, conn, row, answered>>, db' \in TableSet, InSync(db)'
  PROVE  TxInv'
BY StepAt DEF TxInv, RowOK

\* A request ends, and a transaction it had open ends with it.
LEMMA TxEnd ==
  ASSUME TxInv, NEW r \in Callers, End(r), answered' \subseteq Callers,
         row' = row \/ row' = [row EXCEPT ![r] = 0]
  PROVE  TxInv'
<1>1. AtOK' /\ \A q \in Callers : q # r => at'[q] = at[q]
  <2>1. AtOK /\ at' = [at EXCEPT ![r] = 0]
    BY DEF End, TxInv
  <2>2. 0 \in {0, 1}
    OBVIOUS
  <2> QED
    BY <2>1, <2>2, JumpAt
<1>2. RowOK' /\ \A q \in Callers : q # r => row'[q] = row[q]
  <2>1. row \in [Callers -> Nat] /\ \A q \in Claimers : q \in Callers /\ row[q] = 0
    BY DEF TxInv, RowOK, Callers
  <2>2. /\ row' \in [Callers -> Nat] /\ \A q \in Claimers : row'[q] = 0
        /\ \A q \in Callers : q # r => row'[q] = row[q]
    BY <2>1
  <2> QED
    BY <2>2 DEF RowOK
<1>3. Empty \in TableSet
  BY DEF Empty, TableSet, Views
<1>4. CASE conn = r
  <2>1. conn' = NoOne /\ work' = Empty /\ db' = db
    BY <1>4 DEF End, Rollback
  <2> QED
    BY <1>1, <1>2, <1>3, <2>1 DEF TxInv, InSync
<1>5. CASE conn # r
  <2>1. UNCHANGED <<conn, db, work>>
    BY <1>5 DEF End, Rollback
  <2>2. ASSUME conn # NoOne
        PROVE  OpenWork'
    <3>1. OpenWork /\ conn \in Callers
      BY <2>2 DEF TxInv, OpenWork, Transactional, Callers
    <3> QED
      BY <1>1, <1>2, <1>5, <2>1, <3>1, WorkKept
  <2> QED
    BY <1>1, <1>2, <2>1, <2>2 DEF TxInv, InSync
<1> QED
  BY <1>4, <1>5

\* The process stops.
LEMMA TxCrash == TxInv /\ Crash => TxInv'
<1> SUFFICES ASSUME TxInv, Crash PROVE TxInv'
  OBVIOUS
<1>1. AtOK'
  <2>1. /\ at' \in [Callers -> 0..8]
        /\ \A r \in Callers : at'[r] = 0 /\ at[r] \in Nat
    <3>1. at' = [r \in Callers |-> 0] /\ at \in [Callers -> 0..8]
      BY DEF Crash, TxInv, AtOK
    <3> QED
      BY <3>1
  <2>2. \A r \in Callers : Len(Program(r)) \in 2..7
    BY <2>1, Lengths
  <2> QED
    BY <2>1, <2>2 DEF AtOK
<1>2. RowOK'
  BY DEF Crash, TxInv, RowOK, Callers
<1>3. Empty \in TableSet
  BY DEF Empty, TableSet, Views
<1> QED
  BY <1>1, <1>2, <1>3 DEF Crash, TxInv, InSync

-----------------------------------------------------------------------------
(* Updates of the view.                                                    *)

ViewRow == [Columns -> Updaters \cup {NoOne}]
WriteRow == [by: Updaters, columns: SUBSET Columns, basis: Nat]

\* Of the first n writes, those v lacks were overwritten or not read.
Kept(v, n) ==
  \A i \in 1..n : \A c \in writes[i].columns :
    \/ v[c] = writes[i].by
    \/ \E j \in i+1..n : c \in writes[j].columns \/ writes[j].basis < i

ViewTypes ==
  /\ writes \in Seq(WriteRow)
  /\ given \in [Callers -> SUBSET Columns]
  /\ copy \in [Callers -> Views]
  /\ basis \in [Callers -> Nat]

\* The row an update has read, and is to write over, kept what was written before it
\* was read.
Reading(r) == copy[r] \in ViewRow /\ basis[r] \in 0..Len(writes) /\ Kept(copy[r], basis[r])

ViewInv ==
  /\ ViewTypes
  /\ writes # <<>> => db.view # NoView
  /\ Kept(db.view, Len(writes))
  /\ \A r \in Updaters : at[r] = 2 => Reading(r)

\* A row of the view is not the absence of one.
LEMMA RowIsNoNoView == \A v \in ViewRow : v # NoView
<1> SUFFICES ASSUME NEW v \in ViewRow, v = NoView PROVE FALSE
  OBVIOUS
<1>1. DOMAIN v = Columns
  BY DEF ViewRow
<1>2. DOMAIN v = {}
  BY DEF NoView
<1>3. "title" \in Columns
  BY DEF Columns
<1> QED
  BY <1>1, <1>2, <1>3

\* Before anything was done.
LEMMA ViewInit == Init => ViewInv
<1> SUFFICES ASSUME Init PROVE ViewInv
  OBVIOUS
<1>1. ViewTypes
  BY DEF Init, ViewTypes, Views
<1>2. writes = <<>> /\ \A r \in Updaters : at[r] = 0
  BY DEF Init, Callers
<1>3. Kept(db.view, Len(writes))
  BY <1>2 DEF Kept
<1> QED
  BY <1>1, <1>2, <1>3 DEF ViewInv

\* Steps that neither read nor write the view.
LEMMA ViewKept ==
  ASSUME ViewInv, ViewTypes', writes' = writes, db'.view = db.view,
         \A q \in Updaters :
           at'[q] = 2 => at[q] = 2 /\ copy'[q] = copy[q] /\ basis'[q] = basis[q]
  PROVE  ViewInv'
<1>1. Kept(db.view, Len(writes))'
  BY DEF ViewInv, Kept
<1>2. ASSUME NEW q \in Updaters, at'[q] = 2
      PROVE  Reading(q)'
  <2>1. /\ copy[q] \in ViewRow /\ basis[q] \in 0..Len(writes) /\ Kept(copy[q], basis[q])
        /\ copy'[q] = copy[q] /\ basis'[q] = basis[q]
    BY <1>2 DEF ViewInv, Reading
  <2>2. Kept(copy[q], basis[q])'
    BY <2>1 DEF Kept
  <2> QED
    BY <2>1, <2>2 DEF Reading
<1> QED
  BY <1>1, <1>2 DEF ViewInv

\* A statement that is not a read of the view by an update.
LEMMA ViewQuiet ==
  ASSUME TxInv, ViewInv, NEW r \in Callers, Statement(r) # "none", Statement(r) # "readView",
         Done(r), UNCHANGED viewVars, db'.view = db.view
  PROVE  ViewInv'
<1>1. ViewTypes' /\ writes' = writes /\ copy' = copy /\ basis' = basis
  BY DEF ViewInv, ViewTypes, viewVars
<1>2. ASSUME NEW q \in Updaters, at'[q] = 2
      PROVE  at[q] = 2
  <2>1. /\ q \in Callers /\ at'[r] = at[r] + 1 /\ at[r] \in Nat
        /\ q # r => at'[q] = at[q]
    BY StepAt DEF TxInv, AtOK, Callers
  <2>2. q = r => at[r] = 1
    BY <1>2, <2>1
  <2>3. q = r => Statement(r) = "readView"
    BY <2>1, <2>2, ViewsAt
  <2> QED
    BY <1>2, <2>1, <2>3
<1> QED
  BY <1>1, <1>2, ViewKept

\* The update of the view: a write since it read the row is one that it had not read.
LEMMA ViewWrite ==
  ASSUME TxInv, ViewInv, NEW r \in Callers, WriteView(r)
  PROVE  ViewInv' /\ db'.view \in ViewRow
<1>1. Statement(r) = "writeView" /\ r \in Updaters /\ at[r] = 2
  <2>1. Statement(r) = "writeView" /\ at[r] \in Nat
    BY DEF WriteView, MayRun, TxInv, AtOK
  <2> QED
    BY <2>1, Placed
<1>2. Reading(r) /\ writes \in Seq(WriteRow) /\ given[r] \in SUBSET Columns
  BY <1>1 DEF ViewInv, ViewTypes
<1> DEFINE new == [by |-> r, columns |-> given[r], basis |-> basis[r]]
           n == Len(writes)
<1>3. /\ db'.view = Merged(r) /\ writes' = Append(writes, new)
      /\ UNCHANGED <<given, copy, basis>> /\ Done(r)
  <2>1. "view" \in DOMAIN db
    BY DEF TxInv, TableSet
  <2> QED
    BY <2>1 DEF WriteView
<1>4. new \in WriteRow /\ n \in Nat /\ basis[r] \in 0..n
  BY <1>1, <1>2 DEF WriteRow, Reading
<1>5. /\ writes' \in Seq(WriteRow) /\ Len(writes') = n + 1
      /\ writes'[n + 1] = new /\ \A i \in 1..n : writes'[i] = writes[i]
  BY <1>2, <1>3, <1>4
<1>6. ViewTypes'
  BY <1>3, <1>5 DEF ViewInv, ViewTypes
<1>7. Merged(r) \in ViewRow
  <2>1. copy[r] \in ViewRow
    BY <1>2 DEF Reading
  <2> QED
    BY <1>1, <2>1 DEF Merged, ViewRow
<1>8. new.by = r /\ new.columns = given[r] /\ new.basis = basis[r]
  OBVIOUS
<1> HIDE DEF new
<1>9. Kept(db.view, Len(writes))'
  <2> SUFFICES ASSUME NEW i \in 1..(n + 1), NEW c \in writes'[i].columns
               PROVE  \/ db'.view[c] = writes'[i].by
                      \/ \E j \in i+1..(n + 1) : c \in writes'[j].columns \/ writes'[j].basis < i
    BY <1>5 DEF Kept
  <2>1. c \in Columns
    <3>1. writes'[i] \in WriteRow
      BY <1>4, <1>5
    <3> QED
      BY <3>1 DEF WriteRow
  <2>2. Merged(r)[c] = IF c \in given[r] THEN r ELSE copy[r][c]
    BY <2>1 DEF Merged
  <2>3. CASE i = n + 1
    BY <1>3, <1>5, <1>8, <2>2, <2>3
  <2>4. CASE i \in 1..n /\ (c \in given[r] \/ basis[r] < i)
    <3>1. n + 1 \in i+1..(n + 1)
      BY <1>4, <2>4
    <3>2. c \in writes'[n + 1].columns \/ writes'[n + 1].basis < i
      BY <1>5, <1>8, <2>4
    <3> QED
      BY <3>1, <3>2
  <2>5. CASE i \in 1..n /\ c \notin given[r] /\ i <= basis[r]
    <3>1. i \in 1..basis[r] /\ c \in writes[i].columns
      BY <1>4, <1>5, <2>5
    <3>2. \/ copy[r][c] = writes[i].by
          \/ \E j \in i+1..basis[r] : c \in writes[j].columns \/ writes[j].basis < i
      BY <1>2, <3>1 DEF Reading, Kept
    <3>3. CASE copy[r][c] = writes[i].by
      BY <1>3, <1>5, <2>2, <2>5, <3>3
    <3>4. CASE \E j \in i+1..basis[r] : c \in writes[j].columns \/ writes[j].basis < i
      <4>1. PICK j \in i+1..basis[r] : c \in writes[j].columns \/ writes[j].basis < i
        BY <3>4
      <4>2. j \in i+1..(n + 1) /\ j \in 1..n
        BY <1>4, <4>1, <2>5
      <4>3. c \in writes'[j].columns \/ writes'[j].basis < i
        BY <1>5, <4>1, <4>2
      <4> QED
        BY <4>2, <4>3
    <3> QED
      BY <3>2, <3>3, <3>4
  <2>6. i = n + 1 \/ i \in 1..n
    BY <1>4
  <2>7. i \in 1..n => basis[r] < i \/ i <= basis[r]
    BY <1>4
  <2> QED
    BY <2>3, <2>4, <2>5, <2>6, <2>7
<1>10. ASSUME NEW q \in Updaters, at'[q] = 2
       PROVE  Reading(q)'
  <2>1. q \in Callers /\ at'[r] = 3 /\ (q # r => at'[q] = at[q])
    BY <1>1, <1>3, StepAt DEF TxInv, Callers
  <2>2. q # r /\ at[q] = 2
    BY <1>10, <2>1
  <2>3. copy[q] \in ViewRow /\ basis[q] \in 0..n /\ Kept(copy[q], basis[q])
    BY <2>2 DEF ViewInv, Reading
  <2>4. Kept(copy[q], basis[q])'
    <3>1. \A i \in 1..basis[q] : i \in 1..n /\ writes'[i] = writes[i]
      BY <1>4, <1>5, <2>3
    <3>2. \A i \in 1..basis[q] : \A j \in i+1..basis[q] : j \in 1..basis[q]
      BY <2>3
    <3>3. copy'[q] = copy[q] /\ basis'[q] = basis[q]
      BY <1>3
    <3> QED
      BY <2>3, <3>1, <3>2, <3>3 DEF Kept
  <2>5. basis[q] \in 0..(n + 1)
    BY <1>4, <2>3
  <2> QED
    BY <1>3, <1>5, <2>3, <2>4, <2>5 DEF Reading
<1> QED
  BY <1>3, <1>6, <1>7, <1>9, <1>10, RowIsNoNoView DEF ViewInv

\* Every step keeps both invariants: first the steps of one request,
LEMMA ExecuteStep ==
  ASSUME TxInv, ViewInv, NEW r \in Callers, NEW s \in OnTransaction, Execute(r, s)
  PROVE  TxInv' /\ ViewInv'
<1>1. TxInv'
  <2>1. \/ s = "insertCandidate" \/ s = "refreshCandidateFTS" \/ s = "logCapture"
        \/ s = "selectCandidate" \/ s = "updateCandidate" \/ s = "insertEntry"
        \/ s = "refreshEntryFTS" \/ s = "logCuration"
    BY DEF Execute, OnTransaction, RowStatements
  <2> QED
    BY <2>1, TxInsertCandidate, TxRefreshCandidateFTS, TxLogCapture, TxSelectCandidate,
       TxUpdateCandidate, TxInsertEntry, TxRefreshEntryFTS, TxLogCuration
<1>2. /\ Statement(r) = s /\ Done(r) /\ UNCHANGED viewVars /\ db' = db
      /\ s # "none" /\ s # "readView"
  BY DEF Execute, MayRun, OnTransaction, RowStatements
<1> QED
  BY <1>1, <1>2, ViewQuiet

\* the beginning and the end of its transaction,
LEMMA TransactionStep ==
  ASSUME TxInv, ViewInv, NEW r \in Callers, Begin(r) \/ Commit(r)
  PROVE  TxInv' /\ ViewInv'
<1>1. CASE Begin(r)
  <2>1. Statement(r) = "begin" /\ Done(r) /\ UNCHANGED viewVars /\ db' = db
    BY <1>1 DEF Begin, MayRun
  <2> QED
    BY <1>1, <2>1, TxBegin, ViewQuiet
<1>2. CASE Commit(r)
  <2>1. Statement(r) = "commit" /\ Done(r) /\ UNCHANGED viewVars
    BY <1>2 DEF Commit, MayRun
  <2>2. db'.view = db.view
    BY <1>2, Committed
  <2> QED
    BY <1>2, <2>1, <2>2, TxCommit, ViewQuiet
<1> QED
  BY <1>1, <1>2

\* statements outside one that write no table,
LEMMA ReadStep ==
  ASSUME TxInv, ViewInv, NEW r \in Callers,
         \/ GetCandidateRecord(r) \/ GetViewRecord(r)
         \/ \E table \in Tables : ReadTable(r, table)
  PROVE  TxInv' /\ ViewInv'
<1>1. PICK s \in {"getCandidateRecord", "getViewRecord"} \cup Tables :
        /\ Statement(r) = s /\ conn = NoOne /\ Done(r)
        /\ UNCHANGED <<db, work, conn, row, answered, viewVars>>
  <2>1. CASE GetCandidateRecord(r)
    <3>1. "getCandidateRecord" \notin OnTransaction
      BY DEF OnTransaction, RowStatements
    <3> QED
      BY <2>1, <3>1 DEF GetCandidateRecord, MayRun
  <2>2. CASE GetViewRecord(r)
    <3>1. "getViewRecord" \notin OnTransaction
      BY DEF OnTransaction, RowStatements
    <3> QED
      BY <2>2, <3>1 DEF GetViewRecord, MayRun
  <2>3. ASSUME NEW table \in Tables, ReadTable(r, table)
        PROVE  /\ Statement(r) = table /\ conn = NoOne /\ Done(r)
               /\ UNCHANGED <<db, work, conn, row, answered, viewVars>>
    <3>1. table \notin OnTransaction
      BY DEF OnTransaction, RowStatements, Tables
    <3> QED
      BY <2>3, <3>1 DEF ReadTable, MayRun
  <2> QED
    BY <2>1, <2>2, <2>3
<1>2. s # "none" /\ s # "readView"
  BY DEF Tables
<1>3. db' \in TableSet /\ InSync(db)' /\ db'.view = db.view
  BY <1>1 DEF TxInv, InSync
<1>4. TxInv'
  BY <1>1, <1>2, <1>3, TxQuiet
<1>5. ViewInv'
  BY <1>1, <1>2, <1>3, ViewQuiet
<1> QED
  BY <1>4, <1>5

\* those on the view,
LEMMA ViewStep ==
  ASSUME TxInv, ViewInv, NEW r \in Callers, InsertView(r) \/ ReadView(r) \/ WriteView(r)
  PROVE  TxInv' /\ ViewInv'
<1> USE DEF MayRun
<1>1. {"insertView", "readView", "writeView"} \cap OnTransaction = {}
  BY DEF OnTransaction, RowStatements
<1>2. ASSUME NEW v \in Views, db' = [db EXCEPT !.view = v]
      PROVE  db' \in TableSet /\ InSync(db)' /\ db'.view = v
  BY <1>2 DEF TxInv, TableSet, InSync
<1>3. CASE InsertView(r)
  <2>1. /\ Statement(r) = "insertView" /\ conn = NoOne /\ Done(r) /\ db.view = NoView
        /\ UNCHANGED <<work, conn, row, answered, viewVars>>
    BY <1>1, <1>3 DEF InsertView, Refused
  <2>2. [c \in Columns |-> NoOne] \in Views
    BY DEF Views
  <2>3. db' \in TableSet /\ InSync(db)'
    BY <1>2, <1>3, <2>2 DEF InsertView
  <2>4. TxInv'
    BY <2>1, <2>3, TxQuiet
  <2>5. writes = <<>> /\ writes' = <<>> /\ ViewTypes'
    BY <2>1 DEF ViewInv, ViewTypes, viewVars
  <2>6. Kept(db.view, Len(writes))'
    BY <2>5 DEF Kept
  <2>7. ASSUME NEW q \in Updaters, at'[q] = 2
        PROVE  Reading(q)'
    <3>1. q \in Callers /\ at'[r] = at[r] + 1 /\ at[r] = 1 /\ (q # r => at'[q] = at[q])
      BY <2>1, StepAt, Placed DEF TxInv, AtOK, Callers
    <3>2. r \in Openers
      BY <2>1, Placed DEF TxInv, AtOK
    <3>3. at[q] = 2
      BY <2>7, <3>1, <3>2, CallersAssumption
    <3>4. copy[q] \in ViewRow /\ basis[q] = 0 /\ copy'[q] = copy[q] /\ basis'[q] = 0
      BY <2>1, <2>5, <3>3 DEF ViewInv, Reading, viewVars
    <3>5. Kept(copy[q], basis[q])'
      BY <3>4 DEF Kept
    <3> QED
      BY <2>5, <3>4, <3>5 DEF Reading
  <2> QED
    BY <2>4, <2>5, <2>6, <2>7 DEF ViewInv
<1>4. CASE ReadView(r)
  <2>1. /\ Statement(r) = "readView" /\ conn = NoOne /\ Done(r) /\ db.view # NoView
        /\ UNCHANGED <<db, work, conn, row, answered, given, writes>>
        /\ copy' = [copy EXCEPT ![r] = db.view]
        /\ basis' = [basis EXCEPT ![r] = Len(writes)]
    BY <1>1, <1>4 DEF ReadView, Refused
  <2>2. db' \in TableSet /\ InSync(db)' /\ db.view \in ViewRow
    BY <2>1 DEF TxInv, TableSet, InSync, Views, ViewRow
  <2>3. TxInv'
    BY <2>1, <2>2, TxQuiet
  <2>4. writes \in Seq(WriteRow) /\ Len(writes) \in Nat /\ db.view \in Views
    BY <2>2 DEF ViewInv, ViewTypes, Views, ViewRow
  <2>5. ViewTypes'
    BY <2>1, <2>4 DEF ViewInv, ViewTypes
  <2>6. Kept(db.view, Len(writes))'
    BY <2>1 DEF ViewInv, Kept
  <2>7. ASSUME NEW q \in Updaters, at'[q] = 2
        PROVE  Reading(q)'
    <3>1. q \in Callers /\ (q # r => at'[q] = at[q])
      BY <2>1, StepAt DEF TxInv, AtOK, Callers
    <3>2. CASE q = r
      <4>1. copy'[q] = db.view /\ basis'[q] = Len(writes) /\ Kept(db.view, Len(writes))
        BY <2>1, <3>1, <3>2 DEF ViewInv, ViewTypes
      <4>2. Kept(copy[q], basis[q])'
        BY <2>1, <4>1 DEF Kept
      <4> QED
        BY <2>1, <2>2, <2>4, <4>1, <4>2 DEF Reading
    <3>3. CASE q # r
      <4>1. /\ copy[q] \in ViewRow /\ basis[q] \in 0..Len(writes) /\ Kept(copy[q], basis[q])
        BY <2>7, <3>1, <3>3 DEF ViewInv, Reading
      <4>2. copy'[q] = copy[q] /\ basis'[q] = basis[q]
        BY <2>1, <3>1, <3>3 DEF ViewInv, ViewTypes
      <4>3. Kept(copy[q], basis[q])'
        BY <2>1, <4>1, <4>2 DEF Kept
      <4> QED
        BY <2>1, <4>1, <4>2, <4>3 DEF Reading
    <3> QED
      BY <3>2, <3>3
  <2> QED
    BY <2>1, <2>3, <2>5, <2>6, <2>7 DEF ViewInv
<1>5. CASE WriteView(r)
  <2>1. ViewInv' /\ db'.view \in ViewRow
    BY <1>5, ViewWrite
  <2>2. /\ Statement(r) = "writeView" /\ conn = NoOne /\ Done(r)
        /\ UNCHANGED <<work, conn, row, answered>> /\ db' = [db EXCEPT !.view = Merged(r)]
    BY <1>1, <1>5 DEF WriteView
  <2>3. db'.view = Merged(r)
    BY <2>2 DEF TxInv, TableSet
  <2>4. Merged(r) \in Views
    BY <2>1, <2>3 DEF Views, ViewRow
  <2>5. db' \in TableSet /\ InSync(db)'
    BY <1>2, <2>2, <2>4
  <2> QED
    BY <2>1, <2>2, <2>5, TxQuiet
<1> QED
  BY <1>3, <1>4, <1>5

\* the end of a request, answered or not,
LEMMA EndStep ==
  ASSUME TxInv, ViewInv, NEW r \in Callers, Answer(r) \/ EndUnanswered(r)
  PROVE  TxInv' /\ ViewInv'
<1>1. End(r)
  BY DEF Answer, EndUnanswered
<1>2. answered' \subseteq Callers /\ (row' = row \/ row' = [row EXCEPT ![r] = 0])
  BY DEF Answer, EndUnanswered, TxInv
<1>3. TxInv'
  BY <1>1, <1>2, TxEnd
<1>4. db' = db /\ writes' = writes
  BY <1>1 DEF End, Rollback
<1>5. ViewTypes'
  BY <1>1, <1>4 DEF End, ViewInv, ViewTypes, Views
<1>6. ASSUME NEW q \in Updaters, at'[q] = 2
      PROVE  at[q] = 2 /\ copy'[q] = copy[q] /\ basis'[q] = basis[q]
  <2>1. at \in [Callers -> 0..8] /\ at' = [at EXCEPT ![r] = 0] /\ q \in Callers
    BY <1>1 DEF End, TxInv, AtOK, Callers
  <2>2. q # r /\ at[q] = 2
    BY <1>6, <2>1
  <2>3. copy' = [copy EXCEPT ![r] = NoView] /\ basis' = [basis EXCEPT ![r] = 0]
    BY <1>1 DEF End
  <2> QED
    BY <2>1, <2>2, <2>3 DEF ViewInv, ViewTypes
<1> QED
  BY <1>3, <1>4, <1>5, <1>6, ViewKept

\* its arrival, and the stop of the process.
LEMMA ArriveStep ==
  ASSUME TxInv, ViewInv, NEW r \in Callers, Receive(r)
  PROVE  TxInv' /\ ViewInv'
<1>1. TxInv'
  BY TxReceive
<1>2. db' = db /\ writes' = writes /\ copy' = copy /\ basis' = basis
  BY DEF Receive
<1>3. given' \in [Callers -> SUBSET Columns]
  <2>1. given \in [Callers -> SUBSET Columns]
    BY DEF ViewInv, ViewTypes
  <2>2. \/ \E columns \in Payloads : given' = [given EXCEPT ![r] = columns]
        \/ given' = given
    BY DEF Receive
  <2> QED
    BY <2>1, <2>2, PayloadsAssumption
<1>4. ViewTypes'
  BY <1>2, <1>3 DEF ViewInv, ViewTypes
<1>5. ASSUME NEW q \in Updaters, at'[q] = 2
      PROVE  at[q] = 2
  <2>1. at \in [Callers -> 0..8] /\ at' = [at EXCEPT ![r] = 1] /\ q \in Callers
    BY DEF Receive, TxInv, AtOK, Callers
  <2> QED
    BY <1>5, <2>1
<1> QED
  BY <1>1, <1>2, <1>4, <1>5, ViewKept

\* Nothing of a request survives a stop but what it committed.
LEMMA CrashStep ==
  ASSUME TxInv, ViewInv, Crash
  PROVE  TxInv' /\ ViewInv'
<1>1. db' = db /\ writes' = writes /\ \A q \in Updaters : at'[q] = 0
  BY DEF Crash, Callers
<1>2. ViewTypes'
  BY <1>1 DEF Crash, ViewInv, ViewTypes, Views
<1> QED
  BY <1>1, <1>2, TxCrash, ViewKept

\* The steps a request can take; only one that is inside its program is refused or fails.
LEMMA Steps ==
  ASSUME TxInv, [Next]_vars
  PROVE  \/ Crash \/ UNCHANGED vars
         \/ \E r \in Callers :
              \/ Receive(r) \/ Begin(r) \/ Commit(r)
              \/ \E s \in OnTransaction : Execute(r, s)
              \/ GetCandidateRecord(r) \/ GetViewRecord(r)
              \/ \E table \in Tables : ReadTable(r, table)
              \/ InsertView(r) \/ ReadView(r) \/ WriteView(r)
              \/ Answer(r) \/ (at[r] # 0 /\ EndUnanswered(r))
<1>1. ASSUME NEW r \in Callers, Refuse(r)
      PROVE  at[r] # 0 /\ EndUnanswered(r)
  <2>1. Refused(r, Statement(r))
    BY <1>1 DEF Refuse, MayRun
  <2>2. Statement(r) # "none"
    BY <2>1 DEF Refused
  <2>3. at[r] \in Nat
    BY DEF TxInv, AtOK
  <2> QED
    BY <1>1, <2>2, <2>3, Placed, Lengths DEF Refuse
<1> QED
  BY <1>1 DEF Next, Serve, Fail

\* Steps that change nothing.
LEMMA Stutters == TxInv /\ ViewInv /\ UNCHANGED vars => TxInv' /\ ViewInv'
<1> SUFFICES ASSUME TxInv, ViewInv, UNCHANGED vars PROVE TxInv' /\ ViewInv'
  OBVIOUS
<1>1. TxInv'
  <2>1. UNCHANGED <<db, work, conn, at, row, answered>>
    BY DEF vars
  <2>2. conn # NoOne => OpenWork'
    BY <2>1, WorkKept DEF TxInv
  <2> QED
    BY <2>1, <2>2 DEF TxInv, InSync, AtOK, RowOK
<1>2. ViewTypes' /\ UNCHANGED <<db, at, writes, copy, basis>>
  BY DEF vars, ViewInv, ViewTypes
<1> QED
  BY <1>1, <1>2, ViewKept

\* Both invariants hold in every state of every behaviour.
LEMMA Inductive == TxInv /\ ViewInv /\ [Next]_vars => TxInv' /\ ViewInv'
<1> SUFFICES ASSUME TxInv, ViewInv, [Next]_vars PROVE TxInv' /\ ViewInv'
  OBVIOUS
<1>1. ASSUME NEW r \in Callers,
             \/ Receive(r) \/ Begin(r) \/ Commit(r)
             \/ \E s \in OnTransaction : Execute(r, s)
             \/ GetCandidateRecord(r) \/ GetViewRecord(r)
             \/ \E table \in Tables : ReadTable(r, table)
             \/ InsertView(r) \/ ReadView(r) \/ WriteView(r)
             \/ Answer(r) \/ EndUnanswered(r)
      PROVE  TxInv' /\ ViewInv'
  BY <1>1, ArriveStep, TransactionStep, ExecuteStep, ReadStep, ViewStep, EndStep
<1> QED
  BY <1>1, Steps, CrashStep, Stutters

\* The transaction that is open, if any, is of a request inside it and has written what
\* its statements so far write; no update of the view lost one it had read.
LEMMA Invariant == Spec => [](TxInv /\ ViewInv)
<1>1. Init => TxInv /\ ViewInv
  BY TxInit, ViewInit
<1> QED
  BY <1>1, Inductive, PTL DEF Spec

\* The tables hold rows of their types, and a held connection is of a request in its
\* transaction (store.go:35).
THEOREM TypeCorrect == Spec => []TypeOK
<1>1. ASSUME NEW t \in TableSet
      PROVE  TablesOK(t)
  BY DEF TableSet, TablesOK, Views
<1>2. TxInv => TypeOK
  <2> SUFFICES ASSUME TxInv PROVE TypeOK
    OBVIOUS
  <2>1. TablesOK(db) /\ TablesOK(work)
    BY <1>1 DEF TxInv
  <2>2. ASSUME conn # NoOne
        PROVE  conn \in Callers /\ Statement(conn) \in OnTransaction
    <3>1. OpenWork /\ conn \in Callers /\ at[conn] \in Nat
      BY <2>2 DEF TxInv, AtOK, OpenWork, Transactional, Callers
    <3>2. CASE conn \in Creators
      <4>1. at[conn] \in 2..5
        BY <3>1, <3>2 DEF OpenWork, CreateWork
      <4>2. Statement(conn) \in {"insertCandidate", "refreshCandidateFTS", "logCapture", "commit"}
        BY <3>1, <3>2, <4>1, CreatorAt
      <4> QED
        BY <3>1, <4>2 DEF OnTransaction, RowStatements
    <3>3. CASE conn \in Claimers
      <4>1. at[conn] \in 2..5
        BY <3>1, <3>3 DEF OpenWork, ClaimWork
      <4>2. Statement(conn) \in {"selectCandidate", "updateCandidate", "logCuration", "commit"}
        BY <3>1, <3>3, <4>1, ClaimerAt
      <4> QED
        BY <3>1, <4>2 DEF OnTransaction, RowStatements
    <3>4. CASE conn \in Promoters
      <4>1. at[conn] \in 2..7
        BY <3>1, <3>4 DEF OpenWork, PromoteWork
      <4>2. Statement(conn) \in {"selectCandidate", "insertEntry", "refreshEntryFTS",
                                 "updateCandidate", "logCuration", "commit"}
        BY <3>1, <3>4, <4>1, PromoterAt
      <4> QED
        BY <3>1, <4>2 DEF OnTransaction, RowStatements
    <3> QED
      BY <3>1, <3>2, <3>3, <3>4 DEF OpenWork, Transactional
  <2> QED
    BY <2>1, <2>2 DEF TypeOK, TxInv, AtOK, RowOK
<1> QED
  BY <1>2, Invariant, PTL

\* An update of the view is lost only to one that gives the same column later or that
\* had read the row before it was written (views.go:60-72).
THEOREM UpdatesAreKept == Spec => []UpdatesKept
<1>1. ViewInv => UpdatesKept
  <2> SUFFICES ASSUME ViewInv PROVE UpdatesKept
    OBVIOUS
  <2>1. writes \in Seq(WriteRow) /\ Kept(db.view, Len(writes))
    BY DEF ViewInv, ViewTypes
  <2>2. DOMAIN writes = 1..Len(writes)
    BY <2>1
  <2> QED
    BY <2>1, <2>2 DEF Kept, UpdatesKept
<1> QED
  BY <1>1, Invariant, PTL

-----------------------------------------------------------------------------
(* The handlers take Curation's steps.                                     *)

SameTables ==
  /\ db'.captures = db.captures /\ db'.events = db.events
  /\ db'.candidates = db.candidates /\ db'.candidateFts = db.candidateFts
  /\ db'.entries = db.entries /\ db'.entryFts = db.entryFts

\* The tables but the view change at a commit only.
LEMMA OnlyCommits ==
  ASSUME TxInv, [Next]_vars, \A r \in Callers : ~Commit(r)
  PROVE  SameTables
<1>1. ASSUME NEW v, db' = [db EXCEPT !.view = v]
      PROVE  SameTables
  BY <1>1 DEF TxInv, TableSet, SameTables
<1>2. CASE \E r \in Callers : InsertView(r) \/ WriteView(r)
  BY <1>1, <1>2 DEF InsertView, WriteView
<1>3. CASE ~ \E r \in Callers : InsertView(r) \/ WriteView(r)
  <2>1. db' = db
    <3>1. CASE Crash \/ UNCHANGED vars
      BY <3>1 DEF Crash, vars
    <3>2. ASSUME NEW r \in Callers,
                 \/ Receive(r) \/ Begin(r)
                 \/ \E s \in OnTransaction : Execute(r, s)
                 \/ GetCandidateRecord(r) \/ GetViewRecord(r)
                 \/ \E table \in Tables : ReadTable(r, table)
                 \/ ReadView(r)
          PROVE  db' = db
      BY <3>2 DEF Receive, Begin, Execute, GetCandidateRecord, GetViewRecord, ReadTable, ReadView
    <3>3. ASSUME NEW r \in Callers, Answer(r) \/ EndUnanswered(r)
          PROVE  db' = db
      BY <3>3 DEF Answer, EndUnanswered, End, Rollback
    <3> QED
      BY <1>3, <3>1, <3>2, <3>3, Steps
  <2> QED
    BY <2>1 DEF SameTables
<1> QED
  BY <1>2, <1>3

CommitAt(r) == IF r \in Promoters THEN 7 ELSE 5

\* The requests that may still commit.
Uncommitted == {r \in Transactional : at[r] \in 1..CommitAt(r)}

\* Every row of candidates and of events is of a request that has committed.
CountInv ==
  /\ requests \in 0..MaxRequests
  /\ IsFiniteSet(Uncommitted)
  /\ Len(db.captures) = Len(db.candidates)
  /\ Len(db.candidates) + Len(db.events) + Cardinality(Uncommitted) <= requests

\* Before anything was done.
LEMMA CountInit == Init => CountInv
<1> SUFFICES ASSUME Init PROVE CountInv
  OBVIOUS
<1>1. Uncommitted = {}
  BY DEF Init, Uncommitted, Transactional, Callers, CommitAt
<1>2. IsFiniteSet(Uncommitted) /\ Cardinality(Uncommitted) = 0
  BY <1>1, FS_EmptySet
<1>3. Len(db.candidates) = 0 /\ Len(db.events) = 0 /\ Len(db.captures) = 0
  BY DEF Init, Empty
<1> QED
  BY <1>2, <1>3, BoundsAssumption DEF CountInv, Init

\* How a request moves: it arrives, runs its next statement or ends.
LEMMA Moves ==
  ASSUME TxInv, [Next]_vars, NEW q \in Callers
  PROVE  \/ at'[q] = at[q]
         \/ at'[q] = 0
         \/ at[q] = 0 /\ at'[q] = 1 /\ Receive(q)
         \/ at[q] \in 1..7 /\ at'[q] = at[q] + 1 /\ ~Receive(q)
<1>1. at \in [Callers -> 0..8]
  BY DEF TxInv, AtOK
<1>2. CASE Crash \/ UNCHANGED vars
  BY <1>2 DEF Crash, vars
<1>3. ASSUME NEW r \in Callers, Receive(r)
      PROVE  \/ at'[q] = at[q]
             \/ at[q] = 0 /\ at'[q] = 1 /\ Receive(q)
  BY <1>1, <1>3 DEF Receive
<1>4. ASSUME NEW r \in Callers, Answer(r) \/ EndUnanswered(r)
      PROVE  at'[q] = at[q] \/ at'[q] = 0
  BY <1>1, <1>4 DEF Answer, EndUnanswered, End
<1>5. ASSUME NEW r \in Callers,
             \/ Begin(r) \/ Commit(r)
             \/ \E s \in OnTransaction : Execute(r, s)
             \/ GetCandidateRecord(r) \/ GetViewRecord(r)
             \/ \E table \in Tables : ReadTable(r, table)
             \/ InsertView(r) \/ ReadView(r) \/ WriteView(r)
      PROVE  at'[q] = at[q] \/ (at[q] \in 1..7 /\ at'[q] = at[q] + 1 /\ ~Receive(q))
  <2>1. Done(r) /\ \E s \in OnTransaction \cup Tables \cup
          {"begin", "getCandidateRecord", "getViewRecord", "insertView", "readView", "writeView"} :
             Statement(r) = s
    <3> USE DEF MayRun
    <3>1. CASE Begin(r) \/ Commit(r) \/ GetCandidateRecord(r) \/ GetViewRecord(r)
      BY <3>1 DEF Begin, Commit, GetCandidateRecord, GetViewRecord, OnTransaction
    <3>2. CASE InsertView(r) \/ ReadView(r) \/ WriteView(r)
      BY <3>2 DEF InsertView, ReadView, WriteView
    <3>3. CASE \E s \in OnTransaction : Execute(r, s)
      BY <3>3 DEF Execute
    <3>4. CASE \E table \in Tables : ReadTable(r, table)
      BY <3>4 DEF ReadTable
    <3> QED
      BY <1>5, <3>1, <3>2, <3>3, <3>4
  <2>2. Statement(r) # "none"
    BY <2>1 DEF OnTransaction, RowStatements, Tables
  <2>3. at'[r] = at[r] + 1 /\ (q # r => at'[q] = at[q])
    BY <2>1, <2>2, StepAt DEF TxInv
  <2>4. at[r] \in 1..7
    <3>1. /\ Len(Program(r)) \in 2..7 /\ at[r] \in 1..Len(Program(r))
      BY <1>1, <2>2, Lengths
    <3>2. \A a, n : n \in 2..7 /\ a \in 1..n => a \in 1..7
      OBVIOUS
    <3> QED
      BY <3>1, <3>2
  <2>5. q = r => ~Receive(q)
    BY <2>4 DEF Receive
  <2> QED
    BY <2>3, <2>4, <2>5
<1> QED
  BY <1>2, <1>3, <1>4, <1>5, Steps

\* A step that does not commit adds to the requests that may at most the one that
\* arrives, and a commit takes its request out.
LEMMA CountStep == TxInv /\ CountInv /\ [Next]_vars => CountInv'
<1> SUFFICES ASSUME TxInv, CountInv, [Next]_vars PROVE CountInv'
  OBVIOUS
<1>1. at \in [Callers -> 0..8] /\ Transactional \subseteq Callers
  BY DEF TxInv, AtOK, Transactional, Callers
<1>2. \A q \in Callers : CommitAt(q) \in 5..7
  BY DEF CommitAt
<1>3. ASSUME NEW q \in Uncommitted'
      PROVE  q \in Callers /\ (q \in Uncommitted \/ Receive(q))
  <2>1. q \in Transactional /\ q \in Callers /\ at'[q] \in 1..CommitAt(q)
    BY <1>1 DEF Uncommitted, CommitAt
  <2>2. CASE at'[q] = at[q]
    BY <2>1, <2>2 DEF Uncommitted
  <2>3. CASE at[q] \in 1..7 /\ at'[q] = at[q] + 1
    <3>1. at[q] \in 1..CommitAt(q)
      BY <1>2, <2>1, <2>3
    <3> QED
      BY <2>1, <3>1 DEF Uncommitted
  <2> QED
    BY <2>1, <2>2, <2>3, Moves
<1>4. /\ IsFiniteSet(Uncommitted) /\ Cardinality(Uncommitted) \in Nat
      /\ requests \in 0..MaxRequests /\ Len(db.captures) = Len(db.candidates)
      /\ Len(db.candidates) + Len(db.events) + Cardinality(Uncommitted) <= requests
  BY FS_CardinalityType DEF CountInv
<1>9. requests \in Nat /\ MaxRequests \in Nat
  BY <1>4, BoundsAssumption
<1>8. /\ db.candidates \in Seq(CandidateRow) /\ db.events \in Seq(EventRow)
      /\ db.captures \in Seq(CaptureRow)
  BY DEF TxInv, TableSet
<1>5. Len(db.candidates) \in Nat /\ Len(db.events) \in Nat
  BY <1>8
<1>6. CASE \E r \in Callers : Receive(r)
  <2>1. PICK r \in Callers : Receive(r)
    BY <1>6
  <2>2. /\ requests < MaxRequests /\ requests' = requests + 1 /\ db' = db
        /\ \A q \in Callers : Receive(q) => q = r
    <3>1. at' = [at EXCEPT ![r] = 1] /\ at[r] = 0
      BY <2>1 DEF Receive
    <3>2. ASSUME NEW q \in Callers, Receive(q), q # r
          PROVE  FALSE
      <4>1. at' = [at EXCEPT ![q] = 1] /\ at[q] = 0
        BY <3>2 DEF Receive
      <4> QED
        BY <1>1, <3>1, <3>2, <4>1
    <3> QED
      BY <2>1, <3>2 DEF Receive
  <2>3. Uncommitted' \subseteq Uncommitted \cup {r}
    BY <1>3, <2>2
  <2>4. /\ IsFiniteSet(Uncommitted \cup {r})
        /\ Cardinality(Uncommitted \cup {r}) <= Cardinality(Uncommitted) + 1
        /\ Cardinality(Uncommitted \cup {r}) \in Nat
    <3>1. /\ IsFiniteSet(Uncommitted \cup {r})
          /\ Cardinality(Uncommitted \cup {r})
               = IF r \in Uncommitted THEN Cardinality(Uncommitted) ELSE Cardinality(Uncommitted) + 1
      BY <1>4, FS_AddElement
    <3> QED
      BY <1>4, <3>1
  <2>5. /\ IsFiniteSet(Uncommitted') /\ Cardinality(Uncommitted') \in Nat
        /\ Cardinality(Uncommitted') <= Cardinality(Uncommitted \cup {r})
    BY <2>3, <2>4, FS_Subset, FS_CardinalityType
  <2> HIDE DEF Uncommitted
  <2>6. requests' \in 0..MaxRequests
    BY <1>4, <1>9, <2>2
  <2>7. Len(db'.candidates) + Len(db'.events) + Cardinality(Uncommitted') <= requests'
    <3> DEFINE c == Len(db.candidates)
               e == Len(db.events)
               c2 == Len(db'.candidates)
               e2 == Len(db'.events)
               k == Cardinality(Uncommitted)
               k2 == Cardinality(Uncommitted')
    <3>1. /\ c \in Nat /\ e \in Nat /\ c2 = c /\ e2 = e
          /\ k \in Nat /\ k2 \in Nat /\ k2 <= k + 1 /\ c + e + k <= requests
      <4>1. \A x \in Nat : k2 <= x /\ x <= k + 1 => k2 <= k + 1
        BY <1>4, <2>5
      <4> QED
        BY <1>4, <1>5, <2>2, <2>4, <2>5, <4>1
    <3>2. requests' = requests + 1 /\ requests \in Nat
      BY <1>9, <2>2
    <3> HIDE DEF c, e, c2, e2, k, k2
    <3>3. c2 + e2 + k2 <= requests'
      BY <3>1, <3>2
    <3> QED
      BY <3>3 DEF c, e, c2, e2, k, k2
  <2> QED
    BY <1>4, <2>2, <2>5, <2>6, <2>7 DEF CountInv
<1>7. CASE ~ \E r \in Callers : Receive(r)
  <2>1. Uncommitted' \subseteq Uncommitted
    BY <1>3, <1>7
  <2>2. requests' = requests
    <3>1. CASE Crash \/ UNCHANGED vars
      BY <3>1 DEF Crash, vars
    <3>2. ASSUME NEW r \in Callers,
                 \/ Begin(r) \/ Commit(r)
                 \/ \E s \in OnTransaction : Execute(r, s)
                 \/ GetCandidateRecord(r) \/ GetViewRecord(r)
                 \/ \E table \in Tables : ReadTable(r, table)
                 \/ InsertView(r) \/ ReadView(r) \/ WriteView(r)
                 \/ Answer(r) \/ EndUnanswered(r)
          PROVE  requests' = requests
      BY <3>2 DEF Begin, Commit, Execute, GetCandidateRecord, GetViewRecord, ReadTable,
                  InsertView, ReadView, WriteView, Answer, EndUnanswered, End
    <3> QED
      BY <1>7, <3>1, <3>2, Steps
  <2>3. CASE \E r \in Callers : Commit(r)
    <3>1. PICK r \in Callers : Commit(r)
      BY <2>3
    <3>2. /\ Created(r) \/ Claimed(r) \/ Promoted(r)
          /\ at'[r] = at[r] + 1
      BY <3>1, Committed
    <3>3. r \in Transactional /\ at[r] = CommitAt(r)
      BY <3>2, CallersAssumption DEF Created, Claimed, Promoted, CommitAt, Transactional
    <3>4. r \in Uncommitted /\ r \notin Uncommitted'
      <4>1. at[r] \in 1..CommitAt(r) /\ at'[r] \notin 1..CommitAt(r)
        BY <1>2, <3>2, <3>3
      <4>2. CommitAt(r)' = CommitAt(r)
        BY DEF CommitAt
      <4> QED
        BY <3>3, <4>1, <4>2 DEF Uncommitted
    <3>5. Uncommitted' \in SUBSET (Uncommitted \ {r})
      BY <2>1, <3>4
    <3>6. /\ IsFiniteSet(Uncommitted \ {r})
          /\ Cardinality(Uncommitted \ {r}) = Cardinality(Uncommitted) - 1
      BY <1>4, <3>4, FS_RemoveElement
    <3>7. /\ IsFiniteSet(Uncommitted') /\ Cardinality(Uncommitted') \in Nat
          /\ Cardinality(Uncommitted') <= Cardinality(Uncommitted) - 1
      BY <3>5, <3>6, FS_Subset, FS_CardinalityType
    <3>8. /\ Len(db'.candidates) + Len(db'.events) = Len(db.candidates) + Len(db.events) + 1
          /\ Len(db'.captures) = Len(db'.candidates)
          /\ Len(db'.candidates) \in Nat /\ Len(db'.events) \in Nat
      <4>1. CASE Created(r)
        <5>1. /\ Len(db'.candidates) = Len(db.candidates) + 1
              /\ Len(db'.captures) = Len(db.captures) + 1
              /\ Len(db'.events) = Len(db.events)
          BY <1>8, <4>1 DEF Created
        <5> DEFINE c == Len(db.candidates)
                   e == Len(db.events)
                   c2 == Len(db'.candidates)
                   e2 == Len(db'.events)
        <5>3. c \in Nat /\ e \in Nat /\ c2 = c + 1 /\ e2 = e
          BY <1>5, <5>1
        <5> HIDE DEF c, e, c2, e2
        <5>4. c2 + e2 = c + e + 1 /\ c2 \in Nat /\ e2 \in Nat
          BY <5>3
        <5> QED
          BY <1>4, <5>1, <5>4 DEF c, e, c2, e2
      <4>2. CASE Claimed(r)
        <5>1. Len(db'.candidates) = Len(db.candidates)
          BY <1>8, <4>2, StatusLength DEF Claimed
        <5>2. Len(db'.captures) = Len(db.captures) /\ Len(db'.events) = Len(db.events) + 1
          BY <1>8, <4>2 DEF Claimed
        <5> DEFINE c == Len(db.candidates)
                   e == Len(db.events)
                   c2 == Len(db'.candidates)
                   e2 == Len(db'.events)
        <5>3. c \in Nat /\ e \in Nat /\ c2 = c /\ e2 = e + 1
          BY <1>5, <5>1, <5>2
        <5> HIDE DEF c, e, c2, e2
        <5>4. c2 + e2 = c + e + 1 /\ c2 \in Nat /\ e2 \in Nat
          BY <5>3
        <5> QED
          BY <1>4, <5>1, <5>2, <5>4 DEF c, e, c2, e2
      <4>3. CASE Promoted(r)
        <5>1. Len(db'.candidates) = Len(db.candidates)
          BY <1>8, <4>3, StatusLength DEF Promoted
        <5>2. Len(db'.captures) = Len(db.captures) /\ Len(db'.events) = Len(db.events) + 1
          BY <1>8, <4>3 DEF Promoted
        <5> DEFINE c == Len(db.candidates)
                   e == Len(db.events)
                   c2 == Len(db'.candidates)
                   e2 == Len(db'.events)
        <5>3. c \in Nat /\ e \in Nat /\ c2 = c /\ e2 = e + 1
          BY <1>5, <5>1, <5>2
        <5> HIDE DEF c, e, c2, e2
        <5>4. c2 + e2 = c + e + 1 /\ c2 \in Nat /\ e2 \in Nat
          BY <5>3
        <5> QED
          BY <1>4, <5>1, <5>2, <5>4 DEF c, e, c2, e2
      <4> QED
        BY <3>2, <4>1, <4>2, <4>3
    <3>9. Len(db'.candidates) + Len(db'.events) + Cardinality(Uncommitted') <= requests'
      <4> DEFINE c == Len(db.candidates)
                 e == Len(db.events)
                 c2 == Len(db'.candidates)
                 e2 == Len(db'.events)
                 k == Cardinality(Uncommitted)
                 k2 == Cardinality(Uncommitted')
      <4>1. /\ c \in Nat /\ e \in Nat /\ c2 + e2 = c + e + 1 /\ c2 \in Nat /\ e2 \in Nat
            /\ k \in Nat /\ k2 \in Nat /\ k2 <= k - 1 /\ c + e + k <= requests
        BY <1>4, <1>5, <3>7, <3>8
      <4>2. requests' = requests /\ requests \in Nat
        BY <1>9, <2>2
      <4> HIDE DEF c, e, c2, e2, k, k2
      <4>3. c2 + e2 + k2 <= requests'
        BY <4>1, <4>2
      <4> QED
        BY <4>3 DEF c, e, c2, e2, k, k2
    <3> QED
      BY <1>4, <2>2, <3>7, <3>8, <3>9 DEF CountInv
  <2>4. CASE ~ \E r \in Callers : Commit(r)
    <3>1. SameTables
      BY <2>4, OnlyCommits
    <3>2. /\ IsFiniteSet(Uncommitted') /\ Cardinality(Uncommitted') \in Nat
          /\ Cardinality(Uncommitted') <= Cardinality(Uncommitted)
      BY <1>4, <2>1, FS_Subset, FS_CardinalityType
    <3>3. Len(db'.candidates) + Len(db'.events) + Cardinality(Uncommitted') <= requests'
      <4> DEFINE c == Len(db.candidates)
                 e == Len(db.events)
                 c2 == Len(db'.candidates)
                 e2 == Len(db'.events)
                 k == Cardinality(Uncommitted)
                 k2 == Cardinality(Uncommitted')
      <4>1. /\ c \in Nat /\ e \in Nat /\ c2 = c /\ e2 = e
            /\ k \in Nat /\ k2 \in Nat /\ k2 <= k /\ c + e + k <= requests
        BY <1>4, <1>5, <3>1, <3>2 DEF SameTables
      <4>2. requests' = requests /\ requests \in Nat
        BY <1>9, <2>2
      <4> HIDE DEF c, e, c2, e2, k, k2
      <4>3. c2 + e2 + k2 <= requests'
        BY <4>1, <4>2
      <4> QED
        BY <4>3 DEF c, e, c2, e2, k, k2
    <3> QED
      BY <1>4, <2>2, <3>1, <3>2, <3>3 DEF CountInv, SameTables
  <2> QED
    BY <2>3, <2>4
<1> QED
  BY <1>6, <1>7

\* So the tables keep within the requests that may be made.
LEMMA CountBounds ==
  ASSUME TxInv', CountInv'
  PROVE  Len(db'.candidates) <= MaxRequests /\ Len(db'.events) <= MaxRequests
<1> DEFINE c == Len(db'.candidates)
           e == Len(db'.events)
           k == Cardinality(Uncommitted')
<1>1. db'.candidates \in Seq(CandidateRow) /\ db'.events \in Seq(EventRow)
  BY DEF TxInv, TableSet
<1>2. c \in Nat /\ e \in Nat /\ k \in Nat
  BY <1>1, FS_CardinalityType DEF CountInv
<1>3. c + e + k <= requests' /\ requests' \in 0..MaxRequests
  BY DEF CountInv
<1> HIDE DEF c, e, k
<1>4. c <= MaxRequests /\ e <= MaxRequests
  BY <1>2, <1>3, BoundsAssumption
<1> QED
  BY <1>4 DEF c, e

\* Curation's refresh of one row.
LEMMA SameRefresh ==
  \A fts, rows, id : C!Refreshed(fts, rows, {id}) = Refreshed(fts, rows, id)
BY DEF C!Refreshed, Refreshed

\* Refreshing a row that has the title indexed for it changes nothing.
LEMMA IdleRefresh ==
  ASSUME NEW fts \in Seq(Creators), NEW rows, Len(rows) = Len(fts), NEW id,
         \A i \in 1..Len(rows) : fts[i] = rows[i].title
  PROVE  Refreshed(fts, rows, id) = fts
<1>1. Refreshed(fts, rows, id) = [i \in 1..Len(fts) |-> fts[i]]
  BY DEF Refreshed
<1> QED
  BY <1>1

\* A create is Curation's.
LEMMA CreateSimulated ==
  ASSUME TxInv, TxInv', CountInv', NEW r \in Callers, Created(r)
  PROVE  C!Next
<1> DEFINE new == NewCandidate(r)
           n == Len(db.candidates) + 1
<1>1. /\ r \in Creators /\ row[r] = n
      /\ db'.candidates = Append(db.candidates, new)
      /\ db'.candidateFts = Refreshed(db.candidateFts, db'.candidates, row[r])
      /\ db'.captures = Append(db.captures, Capture(row[r]))
      /\ db'.entries = db.entries /\ db'.entryFts = db.entryFts /\ db'.events = db.events
  BY DEF Created
<1>2. /\ db.candidates \in Seq(CandidateRow) /\ db.captures \in Seq(CaptureRow)
      /\ Len(db'.candidates) <= MaxRequests /\ Len(db'.captures) = Len(db'.candidates)
  <2>1. /\ db.candidates \in Seq(CandidateRow) /\ db.captures \in Seq(CaptureRow)
        /\ db'.candidates \in Seq(CandidateRow) /\ db'.events \in Seq(EventRow)
    BY DEF TxInv, TableSet
  <2>2. Len(db'.candidates) <= MaxRequests
    BY CountBounds
  <2> QED
    BY <2>1, <2>2 DEF CountInv
<1>3. new \in C!RowInputs /\ C!Insertable(new)
  BY <1>1 DEF NewCandidate, C!RowInputs, C!Insertable
<1>4. C!NewId(db.candidates) = n
  BY DEF C!NewId
<1>5. C!WriteCandidates(Append(db.candidates, new), {n})
  BY <1>1, <1>2, SameRefresh DEF C!WriteCandidates
<1>6. C!LogCaptures(<<C!CaptureLog("captured", n, FALSE)>>)
  <2>1. C!CaptureLog("captured", n, FALSE) = Capture(n)
    BY DEF C!CaptureLog, Capture
  <2>2. db'.captures = db.captures \o <<Capture(n)>>
    BY <1>1, <1>2
  <2>3. Len(db.captures) + Len(<<Capture(n)>>) <= MaxRequests
    <3>1. Len(db'.captures) = Len(db.captures) + 1
      BY <1>1, <1>2
    <3>2. Len(<<Capture(n)>>) = 1
      OBVIOUS
    <3> QED
      BY <1>2, <3>1, <3>2
  <2> QED
    BY <2>1, <2>2, <2>3 DEF C!LogCaptures
<1>7. C!CreateCandidate(new)
  BY <1>1, <1>3, <1>4, <1>5, <1>6 DEF C!CreateCandidate, C!entryVars
<1> QED
  BY <1>3, <1>7 DEF C!Next, C!CaptureNext

\* A claim is Curation's, about candidate 1.
LEMMA ClaimSimulated ==
  ASSUME TxInv, TxInv', CountInv', NEW r \in Callers, Claimed(r)
  PROVE  C!Next
<1> DEFINE new == [db.candidates[1] EXCEPT !.status = "claimed"]
<1>1. /\ r \in Claimers /\ db.candidates # <<>>
      /\ db'.candidates = WithStatus(db.candidates, "claimed")
      /\ db'.events = Append(db.events, CurationEvent(r))
      /\ db'.captures = db.captures /\ db'.candidateFts = db.candidateFts
      /\ db'.entries = db.entries /\ db'.entryFts = db.entryFts
  BY DEF Claimed
<1>2. /\ db.candidates \in Seq(CandidateRow) /\ db.events \in Seq(EventRow)
      /\ db'.candidateFts \in Seq(Creators)
      /\ Len(db'.candidateFts) = Len(db'.candidates)
      /\ \A i \in 1..Len(db'.candidates) : db'.candidateFts[i] = db'.candidates[i].title
  BY DEF TxInv, TableSet, InSync
<1>3. Len(db'.candidates) <= MaxRequests /\ Len(db'.events) <= MaxRequests
  BY CountBounds
<1>4. db'.candidates = [db.candidates EXCEPT ![1] = new]
  BY <1>1 DEF WithStatus
<1> HIDE DEF new
<1>5. C!UpdateCandidate(1, new)
  <2>1. db'.candidateFts = Refreshed(db'.candidateFts, db'.candidates, 1)
    BY <1>2, IdleRefresh
  <2>2. db'.candidateFts = C!Refreshed(db.candidateFts, [db.candidates EXCEPT ![1] = new], {1})
    BY <1>1, <1>4, <2>1, SameRefresh
  <2> QED
    BY <1>3, <1>4, <2>2 DEF C!UpdateCandidate, C!WriteCandidates
<1>6. C!LogCuration("claim", 1, 0, {<<1, "claimed">>}, "none")
  <2>1. row[r] = 0 /\ r \notin Promoters
    BY <1>1, CallersAssumption DEF TxInv, RowOK
  <2>2. CurationEvent(r) = [action |-> "claim", candidate |-> 1, entry |-> 0,
                            after |-> {<<1, "claimed">>}, entryStatus |-> "none"]
    BY <2>1 DEF CurationEvent, NewStatus
  <2>3. Len(db.events) < MaxRequests
    <3>1. Len(db'.events) = Len(db.events) + 1 /\ Len(db.events) \in Nat
      BY <1>1, <1>2
    <3> QED
      BY <1>3, <3>1, BoundsAssumption
  <2> QED
    BY <1>1, <2>2, <2>3 DEF C!LogCuration
<1>7. C!ClaimCandidate(1)
  BY <1>1, <1>5, <1>6 DEF C!ClaimCandidate, C!SetStatus, C!entryVars, new
<1>8. 1 \in DOMAIN db.candidates
  BY <1>1, <1>2
<1> QED
  BY <1>7, <1>8 DEF C!Next, C!CandidateNext

\* A promotion is Curation's, about candidate 1 and under its title.
LEMMA PromoteSimulated ==
  ASSUME TxInv, TxInv', CountInv', NEW r \in Callers, Promoted(r)
  PROVE  C!Next
<1> DEFINE old == db.candidates[1]
           new == [old EXCEPT !.status = "promoted"]
<1>1. /\ r \in Promoters /\ db.candidates # <<>> /\ old.status \in {"pending", "claimed"}
      /\ db.entries = <<>> /\ row[r] = 1
      /\ db'.candidates = WithStatus(db.candidates, "promoted")
      /\ db'.entries = Append(db.entries, NewEntry(db))
      /\ db'.entryFts = Refreshed(db.entryFts, db'.entries, row[r])
      /\ db'.events = Append(db.events, CurationEvent(r))
      /\ db'.captures = db.captures /\ db'.candidateFts = db.candidateFts
  BY DEF Promoted
<1>2. /\ db.candidates \in Seq(CandidateRow) /\ db.events \in Seq(EventRow)
      /\ db'.candidateFts \in Seq(Creators)
      /\ Len(db'.candidateFts) = Len(db'.candidates)
      /\ \A i \in 1..Len(db'.candidates) : db'.candidateFts[i] = db'.candidates[i].title
  BY DEF TxInv, TableSet, InSync
<1>3. Len(db'.candidates) <= MaxRequests /\ Len(db'.events) <= MaxRequests
  BY CountBounds
<1>4. db'.candidates = [db.candidates EXCEPT ![1] = new]
  BY <1>1 DEF WithStatus
<1>5. old \in CandidateRow /\ 1 \in DOMAIN db.candidates
  BY <1>1, <1>2
<1>6. old.slug = NoOne /\ old.title \in Creators /\ old.refs = {}
  BY <1>5 DEF CandidateRow
<1> HIDE DEF old, new
<1>7. C!UpdateCandidate(1, new)
  <2>1. db'.candidateFts = Refreshed(db'.candidateFts, db'.candidates, 1)
    BY <1>2, IdleRefresh
  <2>2. db'.candidateFts = C!Refreshed(db.candidateFts, [db.candidates EXCEPT ![1] = new], {1})
    BY <1>1, <1>4, <2>1, SameRefresh
  <2> QED
    BY <1>3, <1>4, <2>2 DEF C!UpdateCandidate, C!WriteCandidates
<1>8. C!NewId(db.entries) = 1
  BY <1>1 DEF C!NewId
<1>9. C!LogCuration("promote", 1, 1, {<<1, "promoted">>}, "active")
  <2>1. CurationEvent(r) = [action |-> "promote", candidate |-> 1, entry |-> 1,
                            after |-> {<<1, "promoted">>}, entryStatus |-> "active"]
    BY <1>1 DEF CurationEvent, NewStatus
  <2>2. Len(db.events) < MaxRequests
    <3>1. Len(db'.events) = Len(db.events) + 1 /\ Len(db.events) \in Nat
      BY <1>1, <1>2
    <3> QED
      BY <1>3, <3>1, BoundsAssumption
  <2> QED
    BY <1>1, <2>1, <2>2 DEF C!LogCuration
<1>10. C!InsertEntry(<<"candidate", 1>>, old.title, "active", {})
  <2>1. C!UsedSlugs = {} /\ Len(db.entries) < 1
    BY <1>1 DEF C!UsedSlugs
  <2>2. NewEntry(db) = [slug |-> <<"candidate", 1>>, title |-> old.title, status |-> "active"]
    BY DEF NewEntry, old
  <2>3. db'.entryFts = C!Refreshed(db.entryFts, db'.entries, {1})
    BY <1>1, SameRefresh
  <2>4. db'.entries = Append(db.entries, [slug |-> <<"candidate", 1>>, title |-> old.title,
                                          status |-> "active"])
    BY <1>1, <2>2
  <2> QED
    BY <1>8, <2>1, <2>3, <2>4 DEF C!InsertEntry
<1>11. C!EntrySlug(NoOne, old, 1) = <<"candidate", 1>>
  BY <1>6 DEF C!EntrySlug, C!FallbackSlug
<1>12. C!Promote(1, NoOne, old.title)
  BY <1>1, <1>6, <1>7, <1>8, <1>9, <1>10, <1>11 DEF C!Promote, C!Promotable, old, new
<1>13. C!PromoteCandidate(1, NoOne, old.title)
  BY <1>1, <1>12 DEF C!PromoteCandidate
<1> QED
  BY <1>5, <1>6, <1>13 DEF C!Next, C!CandidateNext

\* Statement by statement, with failures, cancellations and crashes anywhere, the
\* handlers change the tables only as Curation's one-step requests do: a commit is the
\* step, everything before and after it a stutter.
THEOREM Refinement == Spec => OneStepRequests
<1>1. Init => C!Init
  BY DEF Init, Empty, C!Init
<1>2. ASSUME TxInv, CountInv, [Next]_vars, TxInv', CountInv'
      PROVE  [C!Next]_C!vars
  <2>1. CASE \E r \in Callers : Commit(r)
    <3>1. PICK r \in Callers : Commit(r)
      BY <2>1
    <3>2. Created(r) \/ Claimed(r) \/ Promoted(r)
      BY <1>2, <3>1, Committed
    <3>3. C!Next
      BY <1>2, <3>2, CreateSimulated, ClaimSimulated, PromoteSimulated
    <3> QED
      BY <3>3
  <2>2. CASE ~ \E r \in Callers : Commit(r)
    <3>1. SameTables
      BY <1>2, <2>2, OnlyCommits
    <3> QED
      BY <3>1 DEF SameTables, C!vars
  <2> QED
    BY <2>1, <2>2
<1>3. TxInv /\ CountInv /\ TxInv' /\ CountInv' /\ [Next]_vars => [C!Next]_C!vars
  BY <1>2
<1>4. Spec => []CountInv
  <2>1. Spec => []TxInv
    BY Invariant, PTL
  <2>2. TxInv /\ CountInv /\ [Next]_vars => CountInv'
    BY CountStep
  <2> QED
    BY <2>1, <2>2, CountInit, PTL DEF Spec
<1> QED
  BY <1>1, <1>3, <1>4, Invariant, PTL DEF Spec, OneStepRequests, C!Spec

-----------------------------------------------------------------------------
(* What was answered is stored.                                            *)

\* Rows stay, and keep their titles; log rows stay as they are.
Grown ==
  /\ Len(db.candidates) <= Len(db'.candidates)
  /\ \A i \in 1..Len(db.candidates) : db'.candidates[i].title = db.candidates[i].title
  /\ Len(db.captures) <= Len(db'.captures)
  /\ \A i \in 1..Len(db.captures) : db'.captures[i] = db.captures[i]
  /\ Len(db.entries) <= Len(db'.entries)
  /\ Len(db.events) <= Len(db'.events)
  /\ \A i \in 1..Len(db.events) : db'.events[i] = db.events[i]

TablesSeq ==
  /\ db.candidates \in Seq(CandidateRow) /\ db.captures \in Seq(CaptureRow)
  /\ db.entries \in Seq(EntryRow) /\ db.events \in Seq(EventRow)

\* The tables are sequences.
LEMMA TablesAre == TxInv => TablesSeq
BY DEF TxInv, TableSet, TablesSeq

\* No step deletes a row.
LEMMA NoDeletes ==
  ASSUME TxInv, TxInv', [Next]_vars
  PROVE  Grown
<1>1. TablesSeq /\ TablesSeq'
  BY TablesAre DEF TxInv, TableSet, TablesSeq
<1>2. /\ db.candidates \in Seq(CandidateRow) /\ db.captures \in Seq(CaptureRow)
      /\ db.entries \in Seq(EntryRow) /\ db.events \in Seq(EventRow)
  BY <1>1 DEF TablesSeq
<1>3. CASE ~ \E r \in Callers : Commit(r)
  <2>1. SameTables
    BY <1>3, OnlyCommits
  <2> QED
    BY <1>2, <2>1 DEF SameTables, Grown
<1>4. ASSUME NEW r \in Callers, Commit(r)
      PROVE  Grown
  <2>1. Created(r) \/ Claimed(r) \/ Promoted(r)
    BY <1>4, Committed
  <2>2. CASE Created(r)
    <3>1. /\ db'.candidates = Append(db.candidates, NewCandidate(r))
          /\ db'.captures = Append(db.captures, Capture(row[r]))
          /\ db'.entries = db.entries /\ db'.events = db.events
      BY <2>2 DEF Created
    <3>2. /\ Len(db.candidates) <= Len(db'.candidates)
          /\ \A i \in 1..Len(db.candidates) : db'.candidates[i] = db.candidates[i]
      BY <1>2, <3>1
    <3>3. /\ Len(db.captures) <= Len(db'.captures)
          /\ \A i \in 1..Len(db.captures) : db'.captures[i] = db.captures[i]
      BY <1>2, <3>1
    <3> QED
      BY <1>2, <3>1, <3>2, <3>3 DEF Grown
  <2>3. ASSUME NEW status, db.candidates # <<>>,
               db'.candidates = WithStatus(db.candidates, status),
               db'.events = Append(db.events, CurationEvent(r)),
               db'.captures = db.captures,
               Len(db.entries) <= Len(db'.entries)
        PROVE  Grown
    <3> DEFINE t == WithStatus(db.candidates, status)
    <3>1. /\ Len(t) = Len(db.candidates)
          /\ \A i \in 1..Len(db.candidates) : t[i].title = db.candidates[i].title
      <4>1. db.candidates \in Seq(CandidateRow) /\ db.candidates # <<>>
        BY <1>2, <2>3
      <4> QED
        BY <4>1, StatusLength, StatusTitles
    <3>2. /\ Len(db.candidates) <= Len(db'.candidates)
          /\ \A i \in 1..Len(db.candidates) : db'.candidates[i].title = db.candidates[i].title
      BY <1>2, <2>3, <3>1
    <3>3. /\ Len(db.events) <= Len(db'.events)
          /\ \A i \in 1..Len(db.events) : db'.events[i] = db.events[i]
      BY <1>2, <2>3
    <3>4. Len(db.captures) <= Len(db'.captures)
      BY <1>2, <2>3
    <3> QED
      BY <2>3, <3>2, <3>3, <3>4 DEF Grown
  <2>4. CASE Claimed(r)
    <3>1. Len(db.entries) <= Len(db'.entries)
      BY <1>2, <2>4 DEF Claimed
    <3> QED
      BY <2>3, <2>4, <3>1 DEF Claimed
  <2>5. CASE Promoted(r)
    <3>1. Len(db.entries) <= Len(db'.entries)
      BY <1>2, <2>5 DEF Promoted
    <3> QED
      BY <2>3, <2>5, <3>1 DEF Promoted
  <2> QED
    BY <2>1, <2>2, <2>4, <2>5
<1> QED
  BY <1>3, <1>4

\* A request that moved on ran the statement it was at.
LEMMA Mover ==
  ASSUME TxInv, [Next]_vars, NEW q \in Callers, at[q] # 0, at'[q] = at[q] + 1
  PROVE  \/ Begin(q) \/ Commit(q)
         \/ \E s \in OnTransaction : Execute(q, s)
         \/ GetCandidateRecord(q) \/ GetViewRecord(q)
         \/ \E table \in Tables : ReadTable(q, table)
         \/ InsertView(q) \/ ReadView(q) \/ WriteView(q)
<1>1. at \in [Callers -> 0..8] /\ at'[q] # at[q] /\ at'[q] # 0
  BY DEF TxInv, AtOK
<1>2. ASSUME NEW r \in Callers,
             \/ Receive(r) \/ Begin(r) \/ Commit(r)
             \/ \E s \in OnTransaction : Execute(r, s)
             \/ GetCandidateRecord(r) \/ GetViewRecord(r)
             \/ \E table \in Tables : ReadTable(r, table)
             \/ InsertView(r) \/ ReadView(r) \/ WriteView(r)
             \/ Answer(r) \/ EndUnanswered(r)
      PROVE  r = q
  <2>1. \E n : at' = [at EXCEPT ![r] = n]
    BY <1>2 DEF Receive, Begin, Commit, Execute, GetCandidateRecord, GetViewRecord, ReadTable,
                InsertView, ReadView, WriteView, Answer, EndUnanswered, End, Done
  <2> QED
    BY <1>1, <2>1
<1>3. ~Receive(q) /\ ~Answer(q) /\ ~EndUnanswered(q) /\ ~Crash /\ ~UNCHANGED vars
  BY <1>1 DEF Receive, Answer, EndUnanswered, End, Crash, vars
<1> QED
  BY <1>2, <1>3, Steps

\* The id a request was given changes only when it is given another or ends unanswered.
LEMMA RowMoves ==
  ASSUME TxInv, [Next]_vars, NEW q \in Callers
  PROVE  \/ row'[q] = row[q]
         \/ at[q] # 0 /\ at'[q] = 0
         \/ at[q] # 0 /\ (Execute(q, "insertCandidate") \/ Execute(q, "insertEntry"))
<1>1. row \in [Callers -> Nat] /\ at \in [Callers -> 0..8]
  BY DEF TxInv, AtOK, RowOK
<1>2. CASE Crash \/ UNCHANGED vars
  BY <1>1, <1>2 DEF Crash, vars
<1>3. ASSUME NEW r \in Callers,
             \/ Receive(r) \/ Begin(r) \/ Commit(r)
             \/ GetCandidateRecord(r) \/ GetViewRecord(r)
             \/ \E table \in Tables : ReadTable(r, table)
             \/ InsertView(r) \/ ReadView(r) \/ WriteView(r)
             \/ Answer(r)
      PROVE  row' = row
  BY <1>3 DEF Receive, Begin, Commit, GetCandidateRecord, GetViewRecord, ReadTable,
              InsertView, ReadView, WriteView, Answer
<1>4. ASSUME NEW r \in Callers, at[r] # 0, EndUnanswered(r)
      PROVE  row'[q] = row[q] \/ (at[q] # 0 /\ at'[q] = 0)
  BY <1>1, <1>4 DEF EndUnanswered, End
<1>5. ASSUME NEW r \in Callers, NEW s \in OnTransaction, Execute(r, s)
      PROVE  \/ row'[q] = row[q]
             \/ at[q] # 0 /\ (Execute(q, "insertCandidate") \/ Execute(q, "insertEntry"))
  <2>1. CASE s \notin {"insertCandidate", "insertEntry"}
    BY <1>5, <2>1, Executed
  <2>2. CASE s \in {"insertCandidate", "insertEntry"}
    <3>1. Statement(r) = s /\ at[r] \in Nat
      BY <1>1, <1>5 DEF Execute, MayRun
    <3>2. at[r] # 0
      BY <2>2, <3>1, Placed
    <3>3. row' = [row EXCEPT ![r] = InsertedId(r, s, work)]
      BY <1>5 DEF Execute
    <3> QED
      BY <1>1, <1>5, <2>2, <3>2, <3>3
  <2> QED
    BY <2>1, <2>2
<1> QED
  BY <1>2, <1>3, <1>4, <1>5, Steps

\* Who is answered was at the end of its program, and keeps its answer.
LEMMA AnswerMoves ==
  ASSUME TxInv, [Next]_vars, NEW q \in answered'
  PROVE  /\ q \in Callers
         /\ \/ q \in answered /\ ~Receive(q)
            \/ at[q] = Len(Program(q)) + 1 /\ at'[q] = 0 /\ row'[q] = row[q]
<1>1. at \in [Callers -> 0..8]
  BY DEF TxInv, AtOK
<1>2. ASSUME NEW r \in Callers, Answer(r)
      PROVE  /\ answered' = answered \cup {r} /\ row' = row
             /\ at[r] = Len(Program(r)) + 1 /\ at'[r] = 0
  BY <1>1, <1>2 DEF Answer, End
<1>3. CASE Crash \/ UNCHANGED vars
  BY <1>3 DEF Crash, vars, TxInv, Receive
<1>4. ASSUME NEW r \in Callers,
             \/ Receive(r) \/ Begin(r) \/ Commit(r)
             \/ \E s \in OnTransaction : Execute(r, s)
             \/ GetCandidateRecord(r) \/ GetViewRecord(r)
             \/ \E table \in Tables : ReadTable(r, table)
             \/ InsertView(r) \/ ReadView(r) \/ WriteView(r)
             \/ EndUnanswered(r)
      PROVE  answered' = answered
  BY <1>4 DEF Receive, Begin, Commit, Execute, GetCandidateRecord, GetViewRecord, ReadTable,
              InsertView, ReadView, WriteView, EndUnanswered
<1>5. answered \subseteq Callers
  BY DEF TxInv
<1>6. q \in answered => ~Receive(q)
  BY DEF Receive
<1>7. answered' = answered \/ \E r \in Callers : Answer(r)
  <2>1. CASE Crash \/ UNCHANGED vars
    BY <2>1 DEF Crash, vars
  <2> QED
    BY <1>4, <2>1, Steps
<1> QED
  BY <1>2, <1>5, <1>6, <1>7

\* The requests a caller made are counted when they arrive.
LEMMA TriesMove ==
  ASSUME TxInv, [Next]_vars, tries \in [Callers -> Nat]
  PROVE  /\ tries' \in [Callers -> Nat]
         /\ \A q \in Callers : tries[q] <= tries'[q]
         /\ \A q \in Callers : Receive(q) => tries'[q] = tries[q] + 1 /\ db' = db
<1>1. CASE \E r \in Callers : Receive(r)
  <2>1. PICK r \in Callers : Receive(r)
    BY <1>1
  <2>2. tries' = [tries EXCEPT ![r] = tries[r] + 1] /\ db' = db
    BY <2>1 DEF Receive
  <2>3. ASSUME NEW q \in Callers, Receive(q)
        PROVE  tries' = [tries EXCEPT ![q] = tries[q] + 1]
    BY <2>3 DEF Receive
  <2>4. \A q \in Callers : Receive(q) => tries'[q] = tries[q] + 1
    BY <2>3
  <2> QED
    BY <2>2, <2>4
<1>2. CASE ~ \E r \in Callers : Receive(r)
  <2>1. tries' = tries
    <3>1. CASE Crash \/ UNCHANGED vars
      BY <3>1 DEF Crash, vars
    <3>2. ASSUME NEW r \in Callers,
                 \/ Begin(r) \/ Commit(r)
                 \/ \E s \in OnTransaction : Execute(r, s)
                 \/ GetCandidateRecord(r) \/ GetViewRecord(r)
                 \/ \E table \in Tables : ReadTable(r, table)
                 \/ InsertView(r) \/ ReadView(r) \/ WriteView(r)
                 \/ Answer(r) \/ EndUnanswered(r)
          PROVE  tries' = tries
      BY <3>2 DEF Begin, Commit, Execute, GetCandidateRecord, GetViewRecord, ReadTable,
                  InsertView, ReadView, WriteView, Answer, EndUnanswered, End
    <3> QED
      BY <1>2, <3>1, <3>2, Steps
  <2> QED
    BY <1>2, <2>1
<1> QED
  BY <1>1, <1>2

\* The candidate of r and its capture are stored; the entry and its event are.
StoredCandidate(r) ==
  /\ row[r] \in 1..Len(db.candidates) /\ db.candidates[row[r]].title = r
  /\ \E i \in 1..Len(db.captures) : db.captures[i].candidate = row[r]

StoredEntry(r) ==
  /\ row[r] \in 1..Len(db.entries)
  /\ \E i \in 1..Len(db.events) : db.events[i].entry = row[r]

AnswerInv ==
  /\ \A r \in answered : at[r] = 0
  /\ \A r \in Creators : at[r] > 5 \/ r \in answered => StoredCandidate(r)
  /\ \A r \in Promoters : at[r] > 7 \/ r \in answered => StoredEntry(r)

\* What is stored stays, as no row is deleted.
LEMMA StaysStored ==
  ASSUME TablesSeq, TablesSeq', Grown, NEW r, row'[r] = row[r]
  PROVE  /\ StoredCandidate(r) => StoredCandidate(r)'
         /\ StoredEntry(r) => StoredEntry(r)'
<1>1. /\ Len(db.candidates) \in Nat /\ Len(db'.candidates) \in Nat
      /\ Len(db.captures) \in Nat /\ Len(db'.captures) \in Nat
      /\ Len(db.entries) \in Nat /\ Len(db'.entries) \in Nat
      /\ Len(db.events) \in Nat /\ Len(db'.events) \in Nat
  BY DEF TablesSeq
<1>2. \A m, n \in Nat : m <= n => \A i \in 1..m : i \in 1..n
  OBVIOUS
<1>3. /\ \A i \in 1..Len(db.candidates) : i \in 1..Len(db'.candidates)
      /\ \A i \in 1..Len(db.captures) : i \in 1..Len(db'.captures)
      /\ \A i \in 1..Len(db.entries) : i \in 1..Len(db'.entries)
      /\ \A i \in 1..Len(db.events) : i \in 1..Len(db'.events)
  BY <1>1, <1>2 DEF Grown
<1>4. ASSUME StoredCandidate(r)
      PROVE  StoredCandidate(r)'
  <2>1. row'[r] \in 1..Len(db'.candidates) /\ db'.candidates[row'[r]].title = r
    BY <1>3, <1>4 DEF StoredCandidate, Grown
  <2>2. PICK i \in 1..Len(db.captures) : db.captures[i].candidate = row[r]
    BY <1>4 DEF StoredCandidate
  <2>3. i \in 1..Len(db'.captures) /\ db'.captures[i].candidate = row'[r]
    BY <1>3, <2>2 DEF Grown
  <2> QED
    BY <2>1, <2>3 DEF StoredCandidate
<1>5. ASSUME StoredEntry(r)
      PROVE  StoredEntry(r)'
  <2>1. row'[r] \in 1..Len(db'.entries)
    BY <1>3, <1>5 DEF StoredEntry
  <2>2. PICK i \in 1..Len(db.events) : db.events[i].entry = row[r]
    BY <1>5 DEF StoredEntry
  <2>3. i \in 1..Len(db'.events) /\ db'.events[i].entry = row'[r]
    BY <1>3, <2>2 DEF Grown
  <2> QED
    BY <2>1, <2>3 DEF StoredEntry
<1> QED
  BY <1>4, <1>5

\* A commit stores.
LEMMA CommitStores ==
  ASSUME TxInv, NEW r \in Callers, Commit(r)
  PROVE  /\ r \in Creators => StoredCandidate(r)'
         /\ r \in Promoters => StoredEntry(r)'
<1>1. Created(r) \/ Claimed(r) \/ Promoted(r)
  BY Committed
<1>2. row' = row
  BY DEF Commit
<1>3. /\ db.candidates \in Seq(CandidateRow) /\ db.captures \in Seq(CaptureRow)
      /\ db.entries \in Seq(EntryRow) /\ db.events \in Seq(EventRow)
  BY TablesAre DEF TablesSeq
<1>4. CASE r \in Creators
  <2>1. /\ row[r] = Len(db.candidates) + 1
        /\ db'.candidates = Append(db.candidates, NewCandidate(r))
        /\ db'.captures = Append(db.captures, Capture(row[r]))
    BY <1>1, <1>4, CallersAssumption DEF Created, Claimed, Promoted
  <2>2. NewCandidate(r).title = r /\ Capture(row[r]).candidate = row[r]
    BY DEF NewCandidate, Capture
  <2>3. row[r] \in 1..Len(db'.candidates) /\ db'.candidates[row[r]] = NewCandidate(r)
    BY <1>3, <2>1
  <2>4. /\ Len(db.captures) + 1 \in 1..Len(db'.captures)
        /\ db'.captures[Len(db.captures) + 1] = Capture(row[r])
    BY <1>3, <2>1
  <2>5. StoredCandidate(r)'
    BY <1>2, <2>2, <2>3, <2>4 DEF StoredCandidate
  <2> QED
    BY <1>4, <2>5, CallersAssumption
<1>5. CASE r \in Promoters
  <2>1. /\ row[r] = 1 /\ db.entries = <<>>
        /\ db'.entries = Append(db.entries, NewEntry(db))
        /\ db'.events = Append(db.events, CurationEvent(r))
    BY <1>1, <1>5, CallersAssumption DEF Created, Claimed, Promoted
  <2>2. CurationEvent(r).entry = row[r]
    BY DEF CurationEvent
  <2>3. row[r] \in 1..Len(db'.entries)
    BY <2>1
  <2>4. /\ Len(db.events) + 1 \in 1..Len(db'.events)
        /\ db'.events[Len(db.events) + 1] = CurationEvent(r)
    BY <1>3, <2>1
  <2>5. StoredEntry(r)'
    BY <1>2, <2>2, <2>3, <2>4 DEF StoredEntry
  <2> QED
    BY <1>5, <2>5, CallersAssumption
<1> QED
  BY <1>4, <1>5

\* A request past its commit has run it.
LEMMA PastCommit ==
  ASSUME TxInv, [Next]_vars, NEW r \in Creators \cup Promoters, at'[r] > CommitAt(r)
  PROVE  /\ r \in Callers /\ row'[r] = row[r]
         /\ at[r] > CommitAt(r) \/ Commit(r)
<1>1. r \in Callers /\ at[r] \in 0..8 /\ CommitAt(r) \in 5..7
  BY DEF TxInv, AtOK, Callers, CommitAt
<1>2. at'[r] = at[r] \/ (at[r] \in 1..7 /\ at'[r] = at[r] + 1)
  BY <1>1, Moves
<1>3. row'[r] = row[r]
  <2>1. ASSUME Execute(r, "insertCandidate") \/ Execute(r, "insertEntry")
        PROVE  FALSE
    <3>1. Statement(r) \in {"insertCandidate", "insertEntry"}
      BY <2>1 DEF Execute, MayRun
    <3>2. at[r] \in {2, 3}
      BY <1>1, <3>1, Placed
    <3> QED
      BY <1>1, <1>2, <3>2
  <2> QED
    BY <1>1, <2>1, RowMoves
<1>4. CASE at[r] = CommitAt(r) /\ at'[r] = at[r] + 1
  <2>1. Statement(r) = "commit"
    <3>1. CASE r \in Creators
      <4>1. at[r] = 5
        BY <1>4, <3>1, CallersAssumption DEF CommitAt
      <4> QED
        BY <3>1, <4>1, CreatorAt
    <3>2. CASE r \in Promoters
      <4>1. at[r] = 7
        BY <1>4, <3>2 DEF CommitAt
      <4> QED
        BY <3>2, <4>1, PromoterAt
    <3> QED
      BY <3>1, <3>2
  <2>2. "commit" \notin Tables
    BY DEF Tables
  <2>3. /\ ~Begin(r) /\ ~GetCandidateRecord(r) /\ ~GetViewRecord(r)
        /\ ~InsertView(r) /\ ~ReadView(r) /\ ~WriteView(r)
    BY <2>1 DEF Begin, GetCandidateRecord, GetViewRecord, InsertView, ReadView, WriteView, MayRun
  <2>4. ~ \E s \in OnTransaction : Execute(r, s)
    BY <2>1 DEF Execute, MayRun
  <2>5. ~ \E table \in Tables : ReadTable(r, table)
    BY <2>1, <2>2 DEF ReadTable, MayRun
  <2>6. at[r] # 0
    BY <1>1, <1>4
  <2>7. Commit(r)
    BY <1>1, <1>4, <2>3, <2>4, <2>5, <2>6, Mover
  <2> QED
    BY <1>1, <1>3, <2>7
<1>5. CASE at[r] > CommitAt(r)
  BY <1>1, <1>3, <1>5
<1> QED
  BY <1>1, <1>2, <1>4, <1>5

\* An answer is given for what is stored.
LEMMA AnswerStep == TxInv /\ TxInv' /\ AnswerInv /\ [Next]_vars => AnswerInv'
<1> SUFFICES ASSUME TxInv, TxInv', AnswerInv, [Next]_vars PROVE AnswerInv'
  OBVIOUS
<1>1. TablesSeq /\ TablesSeq' /\ Grown
  BY TablesAre, NoDeletes DEF TxInv, TableSet, TablesSeq
<1>2. at \in [Callers -> 0..8] /\ answered \subseteq Callers
  BY DEF TxInv, AtOK
<1>3. ASSUME NEW r \in answered'
      PROVE  /\ at'[r] = 0 /\ row'[r] = row[r]
             /\ r \in answered \/ at[r] = Len(Program(r)) + 1
  <2>1. r \in Callers
    BY AnswerMoves
  <2>2. CASE at[r] = Len(Program(r)) + 1 /\ at'[r] = 0 /\ row'[r] = row[r]
    BY <2>2
  <2>3. CASE r \in answered /\ ~Receive(r)
    <3>1. at[r] = 0
      BY <2>3 DEF AnswerInv
    <3> QED
      BY <2>1, <2>3, <3>1, Moves, RowMoves
  <2> QED
    BY <2>2, <2>3, AnswerMoves
<1>4. ASSUME NEW r \in Creators, at'[r] > 5 \/ r \in answered'
      PROVE  StoredCandidate(r)'
  <2>1. CommitAt(r) = 5 /\ r \in Callers
    BY CallersAssumption DEF CommitAt, Callers
  <2>2. CASE at'[r] > 5
    <3>1. row'[r] = row[r] /\ (at[r] > 5 \/ Commit(r))
      BY <2>1, <2>2, PastCommit
    <3> QED
      BY <1>1, <2>1, <3>1, CommitStores, StaysStored DEF AnswerInv
  <2>3. CASE r \in answered'
    <3>1. row'[r] = row[r] /\ (r \in answered \/ at[r] = 7)
      <4>1. Len(Program(r)) = 6
        <5>1. at[r] \in Nat
          BY <1>2, <2>1
        <5> QED
          BY <5>1, CreatorAt
      <4>2. \A n : n = 6 => n + 1 = 7
        OBVIOUS
      <4> QED
        BY <1>3, <2>3, <4>1, <4>2
    <3>2. StoredCandidate(r)
      BY <3>1 DEF AnswerInv
    <3> QED
      BY <1>1, <3>1, <3>2, StaysStored
  <2> QED
    BY <1>4, <2>2, <2>3
<1>5. ASSUME NEW r \in Promoters, at'[r] > 7 \/ r \in answered'
      PROVE  StoredEntry(r)'
  <2>1. CommitAt(r) = 7 /\ r \in Callers
    BY DEF CommitAt, Callers
  <2>2. CASE at'[r] > 7
    <3>1. row'[r] = row[r] /\ (at[r] > 7 \/ Commit(r))
      BY <2>1, <2>2, PastCommit
    <3> QED
      BY <1>1, <2>1, <3>1, CommitStores, StaysStored DEF AnswerInv
  <2>3. CASE r \in answered'
    <3>1. row'[r] = row[r] /\ (r \in answered \/ at[r] = 8)
      <4>1. Len(Program(r)) = 7
        <5>1. at[r] \in Nat
          BY <1>2, <2>1
        <5> QED
          BY <5>1, PromoterAt
      <4>2. \A n : n = 7 => n + 1 = 8
        OBVIOUS
      <4> QED
        BY <1>3, <2>3, <4>1, <4>2
    <3>2. StoredEntry(r)
      BY <3>1 DEF AnswerInv
    <3> QED
      BY <1>1, <3>1, <3>2, StaysStored
  <2> QED
    BY <1>5, <2>2, <2>3
<1> QED
  BY <1>3, <1>4, <1>5 DEF AnswerInv

\* A creator made no more candidates than requests, one fewer while one of them may
\* still commit.
TryInv ==
  /\ tries \in [Callers -> Nat]
  /\ \A r \in Creators :
       /\ IsFiniteSet(Made(r)) /\ Cardinality(Made(r)) <= tries[r]
       /\ at[r] \in 1..5 => Cardinality(Made(r)) + 1 <= tries[r]

\* A step makes a candidate for a creator only when it commits.
LEMMA MadeStep ==
  ASSUME TxInv, TxInv', [Next]_vars, NEW r \in Creators
  PROVE  \/ Made(r)' = Made(r)
         \/ /\ at[r] = 5 /\ at'[r] = 6
            /\ Made(r)' = Made(r) \cup {Len(db.candidates) + 1}
            /\ Len(db.candidates) + 1 \notin Made(r)
<1>1. db.candidates \in Seq(CandidateRow) /\ db'.candidates \in Seq(CandidateRow)
  BY DEF TxInv, TableSet
<1>2. /\ Made(r) = {i \in 1..Len(db.candidates) : db.candidates[i].title = r}
      /\ Made(r)' = {i \in 1..Len(db'.candidates) : db'.candidates[i].title = r}
  BY <1>1 DEF Made
<1>3. ASSUME NEW q \in Callers, Created(q), at'[q] = at[q] + 1
      PROVE  \/ Made(r)' = Made(r)
             \/ /\ at[r] = 5 /\ at'[r] = 6
                /\ Made(r)' = Made(r) \cup {Len(db.candidates) + 1}
                /\ Len(db.candidates) + 1 \notin Made(r)
  <2> DEFINE n == Len(db.candidates)
  <2>1. /\ db'.candidates = Append(db.candidates, NewCandidate(q)) /\ at[q] = 5
        /\ NewCandidate(q).title = q
    BY <1>3 DEF Created, NewCandidate
  <2>2. /\ Len(db'.candidates) = n + 1 /\ n \in Nat
        /\ \A i \in 1..n : db'.candidates[i] = db.candidates[i]
        /\ db'.candidates[n + 1].title = q
    BY <1>1, <2>1
  <2> HIDE DEF n
  <2>3. 1..(n + 1) = (1..n) \cup {n + 1} /\ n + 1 \notin 1..n
    BY <2>2
  <2>4. n = Len(db.candidates)
    BY DEF n
  <2>5. CASE q = r
    BY <1>2, <1>3, <2>1, <2>2, <2>3, <2>4, <2>5
  <2>6. CASE q # r
    BY <1>2, <2>2, <2>3, <2>4, <2>6
  <2> QED
    BY <2>5, <2>6
<1>4. ASSUME NEW status, db.candidates # <<>>, db'.candidates = WithStatus(db.candidates, status)
      PROVE  Made(r)' = Made(r)
  <2>1. /\ Len(db'.candidates) = Len(db.candidates)
        /\ \A i \in 1..Len(db.candidates) : db'.candidates[i].title = db.candidates[i].title
    BY <1>1, <1>4, StatusLength, StatusTitles
  <2> QED
    BY <1>2, <2>1
<1>5. ASSUME NEW q \in Callers, Commit(q)
      PROVE  \/ Made(r)' = Made(r)
             \/ /\ at[r] = 5 /\ at'[r] = 6
                /\ Made(r)' = Made(r) \cup {Len(db.candidates) + 1}
                /\ Len(db.candidates) + 1 \notin Made(r)
  <2>1. (Created(q) \/ Claimed(q) \/ Promoted(q)) /\ at'[q] = at[q] + 1
    BY <1>5, Committed
  <2>2. CASE Created(q)
    BY <1>3, <2>1, <2>2
  <2>3. CASE Claimed(q) \/ Promoted(q)
    <3>1. /\ db.candidates # <<>>
          /\ \E status : db'.candidates = WithStatus(db.candidates, status)
      BY <2>3 DEF Claimed, Promoted
    <3> QED
      BY <1>4, <3>1
  <2> QED
    BY <2>1, <2>2, <2>3
<1>6. CASE ~ \E q \in Callers : Commit(q)
  <2>1. db'.candidates = db.candidates
    BY <1>6, OnlyCommits DEF SameTables
  <2> QED
    BY <1>2, <2>1
<1> QED
  BY <1>5, <1>6

\* So the count holds on.
LEMMA TryStep == TxInv /\ TxInv' /\ TryInv /\ [Next]_vars => TryInv'
<1> SUFFICES ASSUME TxInv, TxInv', TryInv, [Next]_vars PROVE TryInv'
  OBVIOUS
<1>1. /\ tries' \in [Callers -> Nat]
      /\ \A q \in Callers : tries[q] <= tries'[q]
      /\ \A q \in Callers : Receive(q) => tries'[q] = tries[q] + 1 /\ db' = db
  BY TriesMove DEF TryInv
<1>2. ASSUME NEW r \in Creators
      PROVE  /\ IsFiniteSet(Made(r)') /\ Cardinality(Made(r)') <= tries'[r]
             /\ at'[r] \in 1..5 => Cardinality(Made(r)') + 1 <= tries'[r]
  <2> DEFINE k == Cardinality(Made(r))
             k2 == Cardinality(Made(r)')
             t == tries[r]
             t2 == tries'[r]
  <2>1. /\ r \in Callers /\ IsFiniteSet(Made(r)) /\ k \in Nat /\ k <= t
        /\ at[r] \in 1..5 => k + 1 <= t
    BY FS_CardinalityType DEF TryInv, Callers
  <2>2. t \in Nat /\ t2 \in Nat /\ t <= t2 /\ (Receive(r) => t2 = t + 1)
    BY <1>1, <2>1 DEF TryInv
  <2>3. at[r] \in 0..8
    BY <2>1 DEF TxInv, AtOK
  <2>4. CASE Made(r)' = Made(r)
    <3>1. k2 = k /\ IsFiniteSet(Made(r)')
      BY <2>1, <2>4
    <3>2. at'[r] \in 1..5 => at[r] \in 1..5 \/ Receive(r)
      BY <2>1, <2>3, Moves
    <3> HIDE DEF k, k2, t, t2
    <3>3. k2 <= t2 /\ (at'[r] \in 1..5 => k2 + 1 <= t2)
      BY <2>1, <2>2, <3>1, <3>2
    <3> QED
      BY <3>1, <3>3 DEF k, k2, t, t2
  <2>5. CASE /\ at[r] = 5 /\ at'[r] = 6
             /\ Made(r)' = Made(r) \cup {Len(db.candidates) + 1}
             /\ Len(db.candidates) + 1 \notin Made(r)
    <3>1. k2 = k + 1 /\ IsFiniteSet(Made(r)')
      BY <2>1, <2>5, FS_AddElement
    <3>2. at[r] \in 1..5 /\ at'[r] \notin 1..5
      BY <2>5
    <3> HIDE DEF k, k2, t, t2
    <3>3. k2 <= t2
      BY <2>1, <2>2, <3>1, <3>2
    <3> QED
      BY <3>1, <3>2, <3>3 DEF k, k2, t, t2
  <2> QED
    BY <2>4, <2>5, MadeStep
<1> QED
  BY <1>1, <1>2 DEF TryInv

\* An answered request is stored for good, also after a crash: a created candidate is in
\* the table under the id the caller got and in the capture log, a promoted one has its
\* entry and its event, and no request stores twice (candidates.go:46, curation.go:122).
THEOREM StoredForGood == Spec => []AnsweredIsStored
<1>1. Init => AnswerInv /\ TryInv
  <2> SUFFICES ASSUME Init PROVE AnswerInv /\ TryInv
    OBVIOUS
  <2>1. AnswerInv
    BY DEF Init, AnswerInv, Callers
  <2>2. ASSUME NEW r \in Creators
        PROVE  Made(r) = {} /\ at[r] = 0 /\ tries[r] = 0
    BY DEF Init, Made, Empty, Callers
  <2>3. tries \in [Callers -> Nat]
    BY DEF Init
  <2>4. IsFiniteSet({}) /\ Cardinality({}) = 0
    BY FS_EmptySet
  <2>5. ASSUME NEW r \in Creators
        PROVE  /\ IsFiniteSet(Made(r)) /\ Cardinality(Made(r)) <= tries[r]
               /\ at[r] \in 1..5 => Cardinality(Made(r)) + 1 <= tries[r]
    BY <2>2, <2>4
  <2>6. TryInv
    BY <2>3, <2>5 DEF TryInv
  <2> QED
    BY <2>1, <2>6
<1>2. TxInv /\ AnswerInv /\ TryInv => AnsweredIsStored
  <2> SUFFICES ASSUME TxInv, AnswerInv, TryInv PROVE AnsweredIsStored
    OBVIOUS
  <2>1. /\ DOMAIN db.candidates = 1..Len(db.candidates)
        /\ DOMAIN db.captures = 1..Len(db.captures)
        /\ DOMAIN db.entries = 1..Len(db.entries)
        /\ DOMAIN db.events = 1..Len(db.events)
    BY TablesAre DEF TablesSeq
  <2>2. ASSUME NEW r \in Creators, r \in answered
        PROVE  /\ row[r] \in Made(r)
               /\ \E i \in DOMAIN db.captures : db.captures[i].candidate = row[r]
    <3>1. StoredCandidate(r)
      BY <2>2 DEF AnswerInv
    <3> QED
      BY <2>1, <3>1 DEF StoredCandidate, Made
  <2>3. ASSUME NEW r \in Promoters, r \in answered
        PROVE  /\ row[r] \in DOMAIN db.entries
               /\ \E i \in DOMAIN db.events : db.events[i].entry = row[r]
    <3>1. StoredEntry(r)
      BY <2>3 DEF AnswerInv
    <3> QED
      BY <2>1, <3>1 DEF StoredEntry
  <2>4. \A r \in Creators : Cardinality(Made(r)) <= tries[r]
    BY DEF TryInv
  <2> QED
    BY <2>2, <2>3, <2>4 DEF AnsweredIsStored
<1> QED
  BY <1>1, <1>2, AnswerStep, TryStep, Invariant, PTL DEF Spec

-----------------------------------------------------------------------------
(* The export: what each table refers to is in the tables read after it.   *)

\* Captures name candidates; decided candidates and entries have their events.
CapturesNamed(captures, candidates) ==
  \A i \in DOMAIN captures : captures[i].candidate \in DOMAIN candidates

DecisionsLogged(candidates, log) ==
  \A c \in DOMAIN candidates : candidates[c].status # "pending" =>
    \E i \in DOMAIN log : <<c, candidates[c].status>> \in log[i].after

EntriesLogged(entries, log) ==
  \A e \in DOMAIN entries : \E i \in DOMAIN log : log[i].entry = e

LogFacts ==
  /\ CapturesNamed(db.captures, db.candidates)
  /\ DecisionsLogged(db.candidates, db.events)
  /\ EntriesLogged(db.entries, db.events)

\* The log only grows.
Longer(log, log2) ==
  /\ DOMAIN log \subseteq DOMAIN log2
  /\ \A i \in DOMAIN log : log2[i] = log[i]

\* What a log explains a longer one explains.
LEMMA StillLogged ==
  ASSUME NEW log, NEW log2, Longer(log, log2)
  PROVE  /\ \A t : DecisionsLogged(t, log) => DecisionsLogged(t, log2)
         /\ \A t : EntriesLogged(t, log) => EntriesLogged(t, log2)
<1>1. ASSUME NEW t, DecisionsLogged(t, log)
      PROVE  DecisionsLogged(t, log2)
  <2> SUFFICES ASSUME NEW c \in DOMAIN t, t[c].status # "pending"
               PROVE  \E i \in DOMAIN log2 : <<c, t[c].status>> \in log2[i].after
    BY DEF DecisionsLogged
  <2>1. PICK i \in DOMAIN log : <<c, t[c].status>> \in log[i].after
    BY <1>1 DEF DecisionsLogged
  <2>2. i \in DOMAIN log2 /\ log2[i] = log[i]
    BY DEF Longer
  <2> QED
    BY <2>1, <2>2
<1>2. ASSUME NEW t, EntriesLogged(t, log)
      PROVE  EntriesLogged(t, log2)
  <2> SUFFICES ASSUME NEW e \in DOMAIN t
               PROVE  \E i \in DOMAIN log2 : log2[i].entry = e
    BY DEF EntriesLogged
  <2>1. PICK i \in DOMAIN log : log[i].entry = e
    BY <1>2 DEF EntriesLogged
  <2>2. i \in DOMAIN log2 /\ log2[i] = log[i]
    BY DEF Longer
  <2> QED
    BY <2>1, <2>2
<1> QED
  BY <1>1, <1>2

\* One more row of a sequence.
LEMMA Appended ==
  ASSUME NEW Row, NEW s \in Seq(Row), NEW x
  PROVE  /\ Longer(s, Append(s, x))
         /\ DOMAIN Append(s, x) = DOMAIN s \cup {Len(s) + 1}
         /\ Append(s, x)[Len(s) + 1] = x
<1>1. Len(Append(s, x)) = Len(s) + 1 /\ Len(s) \in Nat
  OBVIOUS
<1>2. DOMAIN s = 1..Len(s) /\ DOMAIN Append(s, x) = 1..(Len(s) + 1)
  OBVIOUS
<1>3. \A i \in 1..Len(s) : Append(s, x)[i] = s[i]
  OBVIOUS
<1>4. Append(s, x)[Len(s) + 1] = x
  OBVIOUS
<1>5. \A n \in Nat : 1..(n + 1) = (1..n) \cup {n + 1} /\ 1..n \subseteq 1..(n + 1)
  OBVIOUS
<1> QED
  BY <1>1, <1>2, <1>3, <1>4, <1>5 DEF Longer

\* The tables grow.
LEMMA TablesGrow ==
  ASSUME TxInv, TxInv', [Next]_vars
  PROVE  /\ DOMAIN db.candidates \subseteq DOMAIN db'.candidates
         /\ Longer(db.events, db'.events)
<1>1. TablesSeq /\ TablesSeq' /\ Grown
  BY TablesAre, NoDeletes DEF TxInv, TableSet, TablesSeq
<1>2. /\ DOMAIN db.candidates = 1..Len(db.candidates) /\ Len(db.candidates) \in Nat
      /\ DOMAIN db'.candidates = 1..Len(db'.candidates) /\ Len(db'.candidates) \in Nat
      /\ DOMAIN db.events = 1..Len(db.events) /\ Len(db.events) \in Nat
      /\ DOMAIN db'.events = 1..Len(db'.events) /\ Len(db'.events) \in Nat
  BY <1>1 DEF TablesSeq
<1>3. \A m, n \in Nat : m <= n => 1..m \subseteq 1..n
  OBVIOUS
<1> QED
  BY <1>1, <1>2, <1>3 DEF Grown, Longer

\* The rows as a new status leaves them.
LEMMA StatusRows ==
  \A s \in Seq(CandidateRow) \ {<<>>}, status \in {"pending", "claimed", "promoted"} :
    /\ DOMAIN WithStatus(s, status) = DOMAIN s
    /\ WithStatus(s, status)[1].status = status
    /\ \A i \in DOMAIN s : i # 1 => WithStatus(s, status)[i] = s[i]
<1> SUFFICES ASSUME NEW s \in Seq(CandidateRow), s # <<>>,
                    NEW status \in {"pending", "claimed", "promoted"}
             PROVE  /\ DOMAIN WithStatus(s, status) = DOMAIN s
                    /\ WithStatus(s, status)[1].status = status
                    /\ \A i \in DOMAIN s : i # 1 => WithStatus(s, status)[i] = s[i]
  OBVIOUS
<1> DEFINE new == [s[1] EXCEPT !.status = status]
<1>1. WithStatus(s, status) = [s EXCEPT ![1] = new]
  BY DEF WithStatus
<1>2. s[1] \in CandidateRow /\ 1 \in DOMAIN s
  OBVIOUS
<1>3. new.status = status
  BY <1>2 DEF CandidateRow
<1> HIDE DEF new
<1> QED
  BY <1>1, <1>2, <1>3

\* A decision is in the log that has its event.
LEMMA DecisionAppended ==
  ASSUME NEW s \in Seq(CandidateRow), s # <<>>, NEW log \in Seq(EventRow), NEW e,
         NEW status \in {"pending", "claimed", "promoted"}, <<1, status>> \in e.after,
         DecisionsLogged(s, log)
  PROVE  /\ DOMAIN WithStatus(s, status) = DOMAIN s
         /\ DecisionsLogged(WithStatus(s, status), Append(log, e))
<1> DEFINE t == WithStatus(s, status)
           log2 == Append(log, e)
           last == Len(log) + 1
<1>1. t[1].status = status /\ \A i \in DOMAIN s : i # 1 => t[i] = s[i]
  BY StatusRows
<1>2. DOMAIN t = DOMAIN s
  BY StatusRows
<1>3. Longer(log, log2) /\ last \in DOMAIN log2 /\ log2[last] = e
  BY Appended
<1>4. DecisionsLogged(s, log2)
  BY <1>3, StillLogged
<1> HIDE DEF t, log2, last
<1>5. ASSUME NEW c \in DOMAIN t, t[c].status # "pending"
      PROVE  \E i \in DOMAIN log2 : <<c, t[c].status>> \in log2[i].after
  <2>1. CASE c = 1
    BY <1>1, <1>3, <2>1
  <2>2. CASE c # 1
    <3>1. t[c] = s[c] /\ c \in DOMAIN s
      BY <1>1, <1>2, <2>2
    <3> QED
      BY <1>4, <1>5, <3>1 DEF DecisionsLogged
  <2> QED
    BY <2>1, <2>2
<1>6. DecisionsLogged(t, log2)
  BY <1>5 DEF DecisionsLogged
<1> QED
  BY <1>2, <1>6 DEF t, log2

\* A commit keeps the log's facts.
LEMMA CommitLogged ==
  ASSUME TxInv, LogFacts, NEW r \in Callers, Commit(r)
  PROVE  LogFacts'
<1>1. Created(r) \/ Claimed(r) \/ Promoted(r)
  BY Committed
<1>2. /\ db.candidates \in Seq(CandidateRow) /\ db.captures \in Seq(CaptureRow)
      /\ db.entries \in Seq(EntryRow) /\ db.events \in Seq(EventRow)
  BY TablesAre DEF TablesSeq
<1>3. /\ CapturesNamed(db.captures, db.candidates)
      /\ DecisionsLogged(db.candidates, db.events)
      /\ EntriesLogged(db.entries, db.events)
  BY DEF LogFacts
<1>4. CASE Created(r)
  <2> DEFINE id == Len(db.candidates) + 1
             k == Len(db.captures) + 1
  <2>1. /\ row[r] = id /\ db'.candidates = Append(db.candidates, NewCandidate(r))
        /\ db'.captures = Append(db.captures, Capture(id))
        /\ db'.entries = db.entries /\ db'.events = db.events
    BY <1>4 DEF Created
  <2>2. NewCandidate(r).status = "pending" /\ Capture(id).candidate = id
    BY DEF NewCandidate, Capture
  <2>3. /\ DOMAIN db'.candidates = DOMAIN db.candidates \cup {id}
        /\ db'.candidates[id] = NewCandidate(r)
        /\ \A c \in DOMAIN db.candidates : db'.candidates[c] = db.candidates[c]
    BY <1>2, <2>1, Appended DEF Longer
  <2>4. /\ DOMAIN db'.captures = DOMAIN db.captures \cup {k}
        /\ db'.captures[k] = Capture(id)
        /\ \A i \in DOMAIN db.captures : db'.captures[i] = db.captures[i]
    BY <1>2, <2>1, Appended DEF Longer
  <2> HIDE DEF id, k
  <2>5. CapturesNamed(db'.captures, db'.candidates)
    BY <1>3, <2>2, <2>3, <2>4 DEF CapturesNamed
  <2>6. DecisionsLogged(db'.candidates, db.events)
    BY <1>3, <2>2, <2>3 DEF DecisionsLogged
  <2> QED
    BY <1>3, <2>1, <2>5, <2>6 DEF LogFacts
<1>5. ASSUME NEW status \in {"claimed", "promoted"}, db.candidates # <<>>,
             NewStatus(r) = status,
             db'.candidates = WithStatus(db.candidates, status),
             db'.events = Append(db.events, CurationEvent(r)),
             db'.captures = db.captures
      PROVE  /\ CapturesNamed(db'.captures, db'.candidates)
             /\ DecisionsLogged(db'.candidates, db'.events)
             /\ EntriesLogged(db.entries, db'.events)
  <2>1. <<1, status>> \in CurationEvent(r).after
    BY <1>5 DEF CurationEvent
  <2>2. /\ DOMAIN db'.candidates = DOMAIN db.candidates
        /\ DecisionsLogged(db'.candidates, db'.events)
    BY <1>2, <1>3, <1>5, <2>1, DecisionAppended
  <2>3. CapturesNamed(db'.captures, db'.candidates)
    BY <1>3, <1>5, <2>2 DEF CapturesNamed
  <2>4. Longer(db.events, db'.events)
    BY <1>2, <1>5, Appended
  <2>5. EntriesLogged(db.entries, db'.events)
    BY <1>3, <2>4, StillLogged
  <2> QED
    BY <2>2, <2>3, <2>5
<1>6. CASE Claimed(r)
  <2>1. NewStatus(r) = "claimed"
    BY <1>6, CallersAssumption DEF Claimed, NewStatus
  <2>2. /\ CapturesNamed(db'.captures, db'.candidates)
        /\ DecisionsLogged(db'.candidates, db'.events)
        /\ EntriesLogged(db.entries, db'.events)
    BY <1>5, <1>6, <2>1 DEF Claimed
  <2>3. db'.entries = db.entries
    BY <1>6 DEF Claimed
  <2> QED
    BY <2>2, <2>3 DEF LogFacts
<1>7. CASE Promoted(r)
  <2>1. NewStatus(r) = "promoted"
    BY <1>7 DEF Promoted, NewStatus
  <2>2. /\ CapturesNamed(db'.captures, db'.candidates)
        /\ DecisionsLogged(db'.candidates, db'.events)
    BY <1>5, <1>7, <2>1 DEF Promoted
  <2> DEFINE last == Len(db.events) + 1
  <2>3. last \in DOMAIN db'.events /\ db'.events[last].entry = 1
    <3>1. db'.events = Append(db.events, CurationEvent(r)) /\ CurationEvent(r).entry = 1
      BY <1>7 DEF Promoted, CurationEvent
    <3> QED
      BY <1>2, <3>1, Appended
  <2>4. DOMAIN db'.entries = {1}
    <3>1. db'.entries = Append(<<>>, NewEntry(db))
      BY <1>7 DEF Promoted
    <3> QED
      BY <3>1
  <2> HIDE DEF last
  <2>5. EntriesLogged(db'.entries, db'.events)
    BY <2>3, <2>4 DEF EntriesLogged
  <2> QED
    BY <2>2, <2>5 DEF LogFacts
<1> QED
  BY <1>1, <1>4, <1>6, <1>7

\* So they hold on.
LEMMA LogStep == TxInv /\ LogFacts /\ [Next]_vars => LogFacts'
<1>1. CASE \E r \in Callers : Commit(r)
  BY <1>1, CommitLogged
<1>2. CASE ~ \E r \in Callers : Commit(r)
  BY <1>2, OnlyCommits DEF SameTables, LogFacts
<1> QED
  BY <1>1, <1>2

Rows == Seq(CaptureRow) \cup Seq(CandidateRow) \cup Seq(EntryRow) \cup Seq(EventRow)

\* What an export has read by its n-th statement is explained by what it read since and,
\* for the tables it has yet to read, by the committed ones.
Explained(x, n) ==
  /\ n = 2 => CapturesNamed(x.captures, db.candidates)
  /\ n \in 3..5 => CapturesNamed(x.captures, x.candidates)
  /\ n \in 3..4 => DecisionsLogged(x.candidates, db.events)
  /\ n = 4 => EntriesLogged(x.entries, db.events)
  /\ n = 5 => DecisionsLogged(x.candidates, x.events) /\ EntriesLogged(x.entries, x.events)

ExportInv ==
  /\ LogFacts
  /\ export \in [Callers -> [Tables -> Rows]]
  /\ \A r \in Auditors : Explained(export[r], at[r])

\* Before anything was read.
LEMMA ExportInit == Init => ExportInv
<1> SUFFICES ASSUME Init PROVE ExportInv
  OBVIOUS
<1>1. LogFacts
  BY DEF Init, Empty, LogFacts, CapturesNamed, DecisionsLogged, EntriesLogged
<1>2. export \in [Callers -> [Tables -> Rows]]
  <2>1. <<>> \in Rows
    BY DEF Rows
  <2>2. NoExport \in [Tables -> Rows]
    BY <2>1 DEF NoExport
  <2> QED
    BY <2>2 DEF Init
<1>3. \A r \in Auditors : Explained(export[r], at[r])
  BY DEF Init, Explained, Callers
<1> QED
  BY <1>1, <1>2, <1>3 DEF ExportInv

\* An export changes when it reads or ends, and at no other step.
LEMMA ExportMoves ==
  ASSUME TxInv, [Next]_vars, export \in [Callers -> [Tables -> Rows]]
  PROVE  /\ export' \in [Callers -> [Tables -> Rows]]
         /\ \A q \in Callers : \/ export'[q] = export[q]
                               \/ at'[q] = 0
                               \/ \E table \in Tables : ReadTable(q, table)
<1>1. at \in [Callers -> 0..8]
  BY DEF TxInv, AtOK
<1>2. NoExport \in [Tables -> Rows]
  <2>1. <<>> \in Rows
    BY DEF Rows
  <2> QED
    BY <2>1 DEF NoExport
<1>3. CASE UNCHANGED vars
  BY <1>3 DEF vars
<1>4. CASE Crash
  BY <1>2, <1>4 DEF Crash
<1>5. ASSUME NEW r \in Callers,
             \/ Receive(r) \/ Begin(r) \/ Commit(r)
             \/ \E s \in OnTransaction : Execute(r, s)
             \/ GetCandidateRecord(r) \/ GetViewRecord(r)
             \/ InsertView(r) \/ ReadView(r) \/ WriteView(r)
      PROVE  export' = export
  BY <1>5 DEF Receive, Begin, Commit, Execute, GetCandidateRecord, GetViewRecord,
              InsertView, ReadView, WriteView
<1>6. ASSUME NEW r \in Callers, Answer(r) \/ EndUnanswered(r)
      PROVE  /\ export' \in [Callers -> [Tables -> Rows]]
             /\ \A q \in Callers : export'[q] = export[q] \/ at'[q] = 0
  <2>1. export' = [export EXCEPT ![r] = NoExport] /\ at' = [at EXCEPT ![r] = 0]
    BY <1>6 DEF Answer, EndUnanswered, End
  <2> QED
    BY <1>1, <1>2, <2>1
<1>7. ASSUME NEW r \in Callers, NEW table \in Tables, ReadTable(r, table)
      PROVE  /\ export' \in [Callers -> [Tables -> Rows]]
             /\ \A q \in Callers : export'[q] = export[q] \/ ReadTable(q, table)
  <2>1. db[table] \in Rows
    BY DEF TxInv, TableSet, Tables, Rows
  <2>2. export' = [export EXCEPT ![r] = [export[r] EXCEPT ![table] = db[table]]]
    BY <1>7 DEF ReadTable
  <2>3. [export[r] EXCEPT ![table] = db[table]] \in [Tables -> Rows]
    BY <2>1
  <2> QED
    BY <1>7, <2>2, <2>3
<1> QED
  BY <1>3, <1>4, <1>5, <1>6, <1>7, Steps

\* The n-th statement of an export reads its n-th table.
LEMMA ReadsNext ==
  ASSUME TxInv, export \in [Callers -> [Tables -> Rows]],
         NEW r \in Auditors, NEW table \in Tables, ReadTable(r, table)
  PROVE  /\ at[r] \in 1..4 /\ at'[r] = at[r] + 1 /\ db' = db
         /\ table = ExportOrder[at[r]]
         /\ \A t \in Tables : export'[r][t] = IF t = table THEN db[t] ELSE export[r][t]
<1>1. r \in Callers /\ at[r] \in Nat /\ Statement(r) = table
  BY DEF TxInv, AtOK, Callers, ReadTable, MayRun
<1>2. Statement(r) # "none"
  BY <1>1 DEF Tables
<1>3. at[r] \in 1..4 /\ table = ExportOrder[at[r]]
  <2>1. at[r] \notin 1..4 \/ at[r] = 1 \/ at[r] = 2 \/ at[r] = 3 \/ at[r] = 4
    BY <1>1
  <2> QED
    BY <1>1, <1>2, <2>1, ViewsAt DEF ExportOrder
<1>4. at'[r] = at[r] + 1
  BY <1>1, <1>2, StepAt DEF TxInv, ReadTable
<1>5. export' = [export EXCEPT ![r] = [export[r] EXCEPT ![table] = db[table]]]
  BY DEF ReadTable
<1>6. \A t \in Tables : export'[r][t] = IF t = table THEN db[t] ELSE export[r][t]
  BY <1>1, <1>5
<1> QED
  BY <1>3, <1>4, <1>6 DEF ReadTable

\* A table that is read is explained by the committed tables, and stays so until those
\* are read.
LEMMA ExportStep == TxInv /\ TxInv' /\ ExportInv /\ [Next]_vars => ExportInv'
<1> SUFFICES ASSUME TxInv, TxInv', ExportInv, [Next]_vars PROVE ExportInv'
  OBVIOUS
<1>1. LogFacts /\ LogFacts'
  BY LogStep DEF ExportInv
<1>2. export \in [Callers -> [Tables -> Rows]] /\ export' \in [Callers -> [Tables -> Rows]]
  BY ExportMoves DEF ExportInv
<1>3. ASSUME NEW r \in Auditors
      PROVE  Explained(export[r], at[r])'
  <2> DEFINE x == export[r]
             y == export'[r]
             n == at[r]
  <2>1. r \in Callers /\ n \in 0..8 /\ Explained(x, n)
    BY DEF TxInv, AtOK, ExportInv, Callers
  <2>2. CASE at'[r] \in {0, 1}
    BY <2>2 DEF Explained
  <2>3. CASE at'[r] = n /\ y = x
    <3>1. /\ DOMAIN db.candidates \subseteq DOMAIN db'.candidates
          /\ Longer(db.events, db'.events)
      BY TablesGrow
    <3>2. /\ \A t : CapturesNamed(t, db.candidates) => CapturesNamed(t, db'.candidates)
          /\ \A t : DecisionsLogged(t, db.events) => DecisionsLogged(t, db'.events)
          /\ \A t : EntriesLogged(t, db.events) => EntriesLogged(t, db'.events)
      BY <3>1, StillLogged DEF CapturesNamed
    <3> QED
      BY <2>1, <2>3, <3>2 DEF Explained
  <2>4. CASE \E table \in Tables : ReadTable(r, table)
    <3>1. PICK table \in Tables : ReadTable(r, table)
      BY <2>4
    <3>2. /\ n \in 1..4 /\ at'[r] = n + 1 /\ db' = db /\ table = ExportOrder[n]
          /\ \A t \in Tables : y[t] = IF t = table THEN db[t] ELSE x[t]
      BY <1>2, <3>1, ReadsNext
    <3>3. \A t \in {"captures", "candidates", "entries", "events"} :
            y[t] = IF t = table THEN db[t] ELSE x[t]
      BY <3>2 DEF Tables
    <3> HIDE DEF x, y, n
    <3>4. CASE n = 1
      <4>1. at'[r] = 2 /\ y.captures = db.captures
        BY <3>2, <3>3, <3>4 DEF ExportOrder
      <4>2. CapturesNamed(y.captures, db'.candidates)
        BY <1>1, <3>2, <4>1 DEF LogFacts
      <4> QED
        BY <4>1, <4>2 DEF Explained, y
    <3>5. CASE n = 2
      <4>1. at'[r] = 3 /\ y.captures = x.captures /\ y.candidates = db.candidates
        BY <3>2, <3>3, <3>5 DEF ExportOrder
      <4>2. CapturesNamed(y.captures, y.candidates) /\ DecisionsLogged(y.candidates, db'.events)
        BY <1>1, <2>1, <3>2, <3>5, <4>1 DEF LogFacts, Explained
      <4> QED
        BY <4>1, <4>2 DEF Explained, y
    <3>6. CASE n = 3
      <4>1. /\ at'[r] = 4 /\ y.captures = x.captures /\ y.candidates = x.candidates
            /\ y.entries = db.entries
        BY <3>2, <3>3, <3>6 DEF ExportOrder
      <4>2. /\ CapturesNamed(y.captures, y.candidates)
            /\ DecisionsLogged(y.candidates, db'.events) /\ EntriesLogged(y.entries, db'.events)
        BY <1>1, <2>1, <3>2, <3>6, <4>1 DEF LogFacts, Explained
      <4> QED
        BY <4>1, <4>2 DEF Explained, y
    <3>7. CASE n = 4
      <4>1. /\ at'[r] = 5 /\ y.captures = x.captures /\ y.candidates = x.candidates
            /\ y.entries = x.entries /\ y.events = db.events
        BY <3>2, <3>3, <3>7 DEF ExportOrder
      <4>2. /\ CapturesNamed(y.captures, y.candidates)
            /\ DecisionsLogged(y.candidates, y.events) /\ EntriesLogged(y.entries, y.events)
        BY <1>1, <2>1, <3>7, <4>1 DEF LogFacts, Explained
      <4> QED
        BY <4>1, <4>2 DEF Explained, y
    <3> QED
      BY <3>2, <3>4, <3>5, <3>6, <3>7
  <2>5. at'[r] \in {0, 1} \/ (at'[r] = n /\ y = x) \/ \E table \in Tables : ReadTable(r, table)
    <3>1. CASE at'[r] = n /\ y # x
      <4>1. at'[r] = 0 \/ \E table \in Tables : ReadTable(r, table)
        BY <1>2, <2>1, <3>1, ExportMoves
      <4> QED
        BY <4>1
    <3>2. CASE n \in 1..7 /\ at'[r] = n + 1
      <4>1. /\ Statement(r) \in {"captures", "candidates", "entries", "events", "none"}
        <5>1. n \notin 1..4 \/ n = 1 \/ n = 2 \/ n = 3 \/ n = 4
          BY <2>1
        <5> QED
          BY <2>1, <5>1, ViewsAt
      <4>2. /\ ~Begin(r) /\ ~GetCandidateRecord(r) /\ ~GetViewRecord(r) /\ ~Commit(r)
            /\ ~InsertView(r) /\ ~ReadView(r) /\ ~WriteView(r)
        BY <4>1 DEF Begin, GetCandidateRecord, GetViewRecord, Commit, InsertView, ReadView,
                    WriteView, MayRun
      <4>3. ~ \E s \in OnTransaction : Execute(r, s)
        BY <4>1 DEF Execute, MayRun, OnTransaction, RowStatements
      <4> QED
        BY <2>1, <3>2, <4>2, <4>3, Mover
    <3> QED
      BY <2>1, <3>1, <3>2, Moves
  <2> QED
    BY <2>2, <2>3, <2>4, <2>5
<1> QED
  BY <1>1, <1>2, <1>3 DEF ExportInv

\* What an export read, although its tables are from different moments, refers to rows it
\* read as well (audit.go:85).
THEOREM ExportsAreExplained == Spec => []ExportExplained
<1>1. TxInv /\ ExportInv => ExportExplained
  <2> SUFFICES ASSUME ExportInv, NEW r \in Auditors, at[r] = Len(ExportOrder) + 1
               PROVE  LET x == export[r] IN
                      /\ CapturesNamed(x.captures, x.candidates)
                      /\ EntriesLogged(x.entries, x.events)
                      /\ DecisionsLogged(x.candidates, x.events)
    BY DEF ExportExplained, CapturesNamed, EntriesLogged, DecisionsLogged
  <2>1. at[r] = 5
    BY DEF ExportOrder
  <2> QED
    BY <2>1 DEF ExportInv, Explained
<1> QED
  BY <1>1, ExportInit, ExportStep, Invariant, PTL DEF Spec
=============================================================================
