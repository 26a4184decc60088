--------------------------- MODULE CurationProofs ---------------------------
(* Theorems about Curation, for all values of its constants.               *)
EXTENDS Curation, SequenceTheorems, FiniteSetTheorems, TLAPS

(***************************************************************************)
(* What the shared statements do to their tables.                          *)
(***************************************************************************)

\* Re-indexing the rows written leaves an index of the table's length, all of
\* it titles, provided every other row was indexed before.
LEMMA RefreshedSeq ==
  ASSUME NEW Row, NEW rows \in Seq(Row), \A row \in Row : row.title \in Titles,
         NEW fts \in Seq(Titles), NEW ids,
         \A i \in 1..Len(rows) : i \in ids \/ i \in 1..Len(fts)
  PROVE  /\ Refreshed(fts, rows, ids) \in Seq(Titles)
         /\ Len(Refreshed(fts, rows, ids)) = Len(rows)
         /\ \A i \in 1..Len(rows) : Refreshed(fts, rows, ids)[i] =
              IF i \in ids THEN rows[i].title ELSE fts[i]
<1> DEFINE e(i) == IF i \in ids THEN rows[i].title ELSE fts[i]
<1>1. Len(rows) \in Nat
  BY LenProperties
<1>2. \A i \in 1..Len(rows) : e(i) \in Titles
  BY ElementOfSeq
<1> HIDE DEF e
<1>3. [i \in 1..Len(rows) |-> e(i)] \in Seq(Titles)
  BY <1>1, <1>2, IsASeq
<1>4. Refreshed(fts, rows, ids) = [i \in 1..Len(rows) |-> e(i)]
  BY DEF Refreshed, e
<1>5. Len([i \in 1..Len(rows) |-> e(i)]) = Len(rows)
  BY <1>1, <1>3, LenProperties
<1> QED
  BY <1>3, <1>4, <1>5 DEF e

\* A write to the candidate tables that indexes every row it adds.
LEMMA CandidatesWritten ==
  ASSUME CandidateTablesOK, NEW rows \in Seq(CandidateRow), NEW ids,
         \A i \in 1..Len(rows) : i \in ids \/ i \in 1..Len(candidates),
         WriteCandidates(rows, ids)
  PROVE  CandidateTablesOK'
<1>1. \A row \in CandidateRow : row.title \in Titles
  BY DEF CandidateRow
<1> QED
  BY <1>1, RefreshedSeq DEF WriteCandidates, CandidateTablesOK

\* An appended row, and a row replaced, keep a table a sequence of its rows.
LEMMA Appended ==
  ASSUME NEW S, NEW s \in Seq(S), NEW x \in S
  PROVE  /\ Append(s, x) \in Seq(S)
         /\ Len(Append(s, x)) = Len(s) + 1
         /\ \A i \in 1..Len(s) : Append(s, x)[i] = s[i]
         /\ Append(s, x)[Len(s) + 1] = x
  OBVIOUS

\* A candidate written in place keeps its tables well typed.
LEMMA CandidateUpdated ==
  ASSUME CandidateTablesOK, NEW c \in DOMAIN candidates, NEW row \in CandidateRow,
         UpdateCandidate(c, row)
  PROVE  CandidateTablesOK'
<1>1. c \in 1..Len(candidates)
  BY LenProperties DEF CandidateTablesOK
<1>2. /\ [candidates EXCEPT ![c] = row] \in Seq(CandidateRow)
      /\ Len([candidates EXCEPT ![c] = row]) = Len(candidates)
  BY <1>1, ExceptSeq DEF CandidateTablesOK
<1> QED
  BY <1>2, CandidatesWritten DEF UpdateCandidate

\* So does a candidate that is added.
LEMMA CandidateAppended ==
  ASSUME CandidateTablesOK, NEW row \in CandidateRow,
         WriteCandidates(Append(candidates, row), {NewId(candidates)})
  PROVE  CandidateTablesOK'
<1>1. /\ Append(candidates, row) \in Seq(CandidateRow)
      /\ Len(Append(candidates, row)) = Len(candidates) + 1
      /\ Len(candidates) \in Nat
  BY Appended, LenProperties DEF CandidateTablesOK
<1>2. \A i \in 1..Len(Append(candidates, row)) :
        i \in {NewId(candidates)} \/ i \in 1..Len(candidates)
  BY <1>1 DEF NewId
<1> QED
  BY <1>1, <1>2, CandidatesWritten

\* A new entry: its row, its index row and its source references.
LEMMA EntryInserted ==
  ASSUME EntryTablesOK, NEW slug \in EntrySlugs, NEW title \in Titles,
         NEW status \in EntryStatuses, NEW refs \in SUBSET Refs,
         InsertEntry(slug, title, status, refs)
  PROVE  /\ EntryTablesOK'
         /\ NewId(entries) = Len(entries') /\ Len(entries') = Len(entries) + 1
<1> DEFINE row == [slug |-> slug, title |-> title, status |-> status]
<1>1. row \in EntryRow
  BY DEF EntryRow
<1>2. /\ entries' \in Seq(EntryRow) /\ Len(entries') = Len(entries) + 1
      /\ Len(entries) \in Nat
  BY <1>1, Appended, LenProperties DEF InsertEntry, EntryTablesOK
<1>3. \A i \in 1..Len(entries') : i \in {NewId(entries)} \/ i \in 1..Len(entryFts)
  BY <1>2 DEF NewId, EntryTablesOK
<1>4. \A r \in EntryRow : r.title \in Titles
  BY DEF EntryRow
<1>5. entryFts' \in Seq(Titles) /\ Len(entryFts') = Len(entries')
  <2>1. entryFts' = Refreshed(entryFts, entries', {NewId(entries)}) /\ entryFts \in Seq(Titles)
    BY DEF InsertEntry, EntryTablesOK
  <2> QED
    BY <1>2, <1>3, <1>4, <2>1, RefreshedSeq
<1>6. sourceRefs' \in SUBSET (Nat \X Refs)
  BY <1>2 DEF InsertEntry, EntryTablesOK, NewId
<1> QED
  BY <1>2, <1>5, <1>6 DEF EntryTablesOK, NewId

\* An entry written in place stays a row of its table.
LEMMA EntryWritten ==
  ASSUME EntryTablesOK, NEW e \in DOMAIN entries, NEW row \in EntryRow,
         WriteEntry(e, row)
  PROVE  /\ e \in 1..Len(entries)
         /\ entries' \in Seq(EntryRow) /\ Len(entries') = Len(entries)
         /\ \A i \in 1..Len(entries) : entries'[i] = IF i = e THEN row ELSE entries[i]
<1>1. e \in 1..Len(entries)
  BY LenProperties DEF EntryTablesOK
<1> QED
  BY <1>1, ExceptSeq DEF EntryTablesOK, WriteEntry

\* An event whose columns are in range keeps the log well typed.
LEMMA CurationLogged ==
  ASSUME events \in Seq(EventRow),
         NEW action \in CurationActions, NEW c \in Nat, NEW e \in Nat,
         NEW after \in SUBSET (Nat \X CandidateStatuses),
         NEW status \in EntryStatuses \cup {"none"},
         LogCuration(action, c, e, after, status)
  PROVE  /\ events' \in Seq(EventRow)
         /\ Len(events') = Len(events) + 1 /\ Len(events) \in Nat
         /\ \A i \in 1..Len(events) : events'[i] = events[i]
         /\ events'[Len(events) + 1] =
              [action |-> action, candidate |-> c, entry |-> e, after |-> after,
               entryStatus |-> status]
<1> DEFINE event == [action |-> action, candidate |-> c, entry |-> e, after |-> after,
                     entryStatus |-> status]
<1>1. event \in EventRow
  BY DEF EventRow
<1> QED
  BY <1>1, Appended, LenProperties DEF LogCuration

\* So do capture events for the capture log.
LEMMA CapturesLogged ==
  ASSUME captures \in Seq(CaptureRow), NEW rows \in Seq(CaptureRow), LogCaptures(rows)
  PROVE  captures' \in Seq(CaptureRow)
  BY ConcatProperties DEF LogCaptures

\* The slug of a promotion is one an entry may have.
LEMMA EntrySlugType ==
  ASSUME NEW slug \in Slugs \cup {NoSlug}, NEW row \in CandidateRow, NEW id \in Nat
  PROVE  EntrySlug(slug, row, id) \in EntrySlugs
  BY DEF EntrySlug, EntrySlugs, FallbackSlug, CandidateRow

\* What callers may send is a row of the table.
LEMMA InputsAreRows ==
  /\ RowInputs \subseteq CandidateRow
  /\ \A row \in CandidateRow : FragmentInputs(row) \subseteq CandidateRow
  BY InputAssumption DEF RowInputs, FragmentInputs, CandidateRow, CandidateStatuses

(***************************************************************************)
(* Type correctness.                                                       *)
(***************************************************************************)

\* Ids are positions of well-typed rows.
LEMMA IdsAreNaturals ==
  ASSUME TypeOK
  PROVE  /\ DOMAIN candidates = 1..Len(candidates) /\ Len(candidates) \in Nat
         /\ DOMAIN entries = 1..Len(entries) /\ Len(entries) \in Nat
         /\ DOMAIN proposals = 1..Len(proposals) /\ Len(proposals) \in Nat
         /\ DOMAIN events = 1..Len(events) /\ Len(events) \in Nat
         /\ \A c \in DOMAIN candidates : c \in Nat /\ candidates[c] \in CandidateRow
         /\ \A e \in DOMAIN entries : e \in Nat /\ entries[e] \in EntryRow
         /\ \A p \in DOMAIN proposals : p \in Nat /\ proposals[p] \in ProposalRow
  BY LenProperties, ElementOfSeq DEF TypeOK, CandidateTablesOK, EntryTablesOK, LogsOK

\* Requests that create or capture keep the types.
LEMMA CaptureNextType == ASSUME TypeOK, CaptureNext PROVE TypeOK'
<1> USE DEF TypeOK
<1>1. NewId(candidates) \in Nat /\ NewId(entries) \in Nat
  BY IdsAreNaturals DEF NewId
<1>2. ASSUME NEW row \in RowInputs, CreateCandidate(row) \/ CaptureCandidate(row)
      PROVE  TypeOK'
  <2>1. CandidateTablesOK'
    BY <1>2, InputsAreRows, CandidateAppended DEF CreateCandidate, CaptureCandidate
  <2>2. <<CaptureLog("captured", NewId(candidates), FALSE)>> \in Seq(CaptureRow)
    BY <1>1 DEF CaptureLog, CaptureRow, Decisions
  <2>3. captures' \in Seq(CaptureRow)
    BY <1>2, <2>2, CapturesLogged DEF CreateCandidate, CaptureCandidate, LogsOK
  <2> QED
    BY <1>2, <2>1, <2>3
    DEF CreateCandidate, CaptureCandidate, entryVars, EntryTablesOK, LogsOK
<1>3. ASSUME NEW decision \in Decisions, NEW eligible \in BOOLEAN,
             CaptureDeclined(decision, eligible)
      PROVE  TypeOK'
  <2>1. <<CaptureLog(decision, 0, eligible)>> \in Seq(CaptureRow)
    BY DEF CaptureLog, CaptureRow
  <2>2. captures' \in Seq(CaptureRow)
    BY <1>3, <2>1, CapturesLogged DEF CaptureDeclined, LogsOK
  <2> QED
    BY <1>3, <2>2
    DEF CaptureDeclined, candidateVars, entryVars, CandidateTablesOK, EntryTablesOK, LogsOK
<1>4. ASSUME NEW row \in RowInputs, NEW slug \in Slugs \cup {NoSlug},
             CapturePromoted(row, slug)
      PROVE  TypeOK'
  <2>1. row \in CandidateRow /\ [row EXCEPT !.status = "promoted"] \in CandidateRow
    BY InputsAreRows DEF CandidateRow, CandidateStatuses
  <2>2. CandidateTablesOK'
    BY <1>4, <2>1, CandidateAppended DEF CapturePromoted
  <2>3. row.title \in Titles /\ row.refs \in SUBSET Refs /\ "active" \in EntryStatuses
    BY <2>1 DEF CandidateRow, EntryStatuses
  <2>4. EntryTablesOK'
    BY <1>4, <2>1, <2>3, EntrySlugType, EntryInserted DEF CapturePromoted
  <2>5. <<CaptureLog("captured", NewId(candidates), TRUE)>> \in Seq(CaptureRow)
    BY <1>1 DEF CaptureLog, CaptureRow, Decisions
  <2>6. captures' \in Seq(CaptureRow)
    BY <1>4, <2>5, CapturesLogged DEF CapturePromoted, LogsOK
  <2>7. events' \in Seq(EventRow)
    <3>1. /\ "promote" \in CurationActions
          /\ {<<NewId(candidates), "promoted">>} \in SUBSET (Nat \X CandidateStatuses)
      BY <1>1 DEF CurationActions, CandidateStatuses
    <3>2. LogCuration("promote", NewId(candidates), NewId(entries),
                      {<<NewId(candidates), "promoted">>}, "active")
      BY <1>4 DEF CapturePromoted
    <3> QED
      BY <1>1, <2>3, <3>1, <3>2, CurationLogged DEF LogsOK
  <2> QED
    BY <1>4, <2>2, <2>4, <2>6, <2>7 DEF CapturePromoted, LogsOK
<1>5. ASSUME NEW row \in RowInputs, NEW slug \in Slugs \cup {NoSlug}, NEW columns,
             CapturePromotionErrored(row, slug, columns)
      PROVE  TypeOK'
  <2>1. CandidateTablesOK'
    BY <1>5, InputsAreRows, CandidateAppended DEF CapturePromotionErrored
  <2>2. <<CaptureLog("captured", NewId(candidates), TRUE), CaptureLog("errored", 0, TRUE)>>
          \in Seq(CaptureRow)
    BY <1>1 DEF CaptureLog, CaptureRow, Decisions
  <2>3. captures' \in Seq(CaptureRow)
    BY <1>5, <2>2, CapturesLogged DEF CapturePromotionErrored, LogsOK
  <2> QED
    BY <1>5, <2>1, <2>3 DEF CapturePromotionErrored, entryVars, EntryTablesOK, LogsOK
<1> QED
  BY <1>2, <1>3, <1>4, <1>5 DEF CaptureNext

\* A request about one candidate that sets its status and logs it.
LEMMA StatusSet ==
  ASSUME TypeOK, NEW c \in DOMAIN candidates, NEW status \in CandidateStatuses,
         NEW action \in CurationActions, SetStatus(c, status, action)
  PROVE  CandidateTablesOK' /\ events' \in Seq(EventRow)
<1>1. c \in Nat /\ candidates[c] \in CandidateRow
  BY IdsAreNaturals
<1>2. [candidates[c] EXCEPT !.status = status] \in CandidateRow
  BY <1>1 DEF CandidateRow
<1>3. CandidateTablesOK'
  BY <1>2, CandidateUpdated DEF SetStatus, TypeOK
<1>4. {<<c, status>>} \in SUBSET (Nat \X CandidateStatuses)
  BY <1>1
<1>5. events' \in Seq(EventRow)
  BY <1>1, <1>4, CurationLogged DEF SetStatus, TypeOK, LogsOK
<1> QED
  BY <1>3, <1>5

\* A candidate becoming an entry, by either of the two handlers that do so.
LEMMA PromoteType ==
  ASSUME TypeOK, NEW c \in DOMAIN candidates, NEW slug \in Slugs \cup {NoSlug},
         NEW title \in Titles, Promote(c, slug, title)
  PROVE  CandidateTablesOK' /\ EntryTablesOK' /\ events' \in Seq(EventRow)
<1>1. c \in Nat /\ candidates[c] \in CandidateRow /\ NewId(entries) \in Nat
  BY IdsAreNaturals DEF NewId
<1>2. /\ [candidates[c] EXCEPT !.status = "promoted"] \in CandidateRow
      /\ candidates[c].refs \in SUBSET Refs
  BY <1>1 DEF CandidateRow, CandidateStatuses
<1>3. CandidateTablesOK'
  BY <1>2, CandidateUpdated DEF Promote, TypeOK
<1>4. "active" \in EntryStatuses /\ "promote" \in CurationActions
  BY DEF EntryStatuses, CurationActions
<1>5. EntryTablesOK'
  BY <1>1, <1>2, <1>4, EntrySlugType, EntryInserted DEF Promote, TypeOK
<1>6. {<<c, "promoted">>} \in SUBSET (Nat \X CandidateStatuses)
  BY <1>1 DEF CandidateStatuses
<1>7. LogCuration("promote", c, NewId(entries), {<<c, "promoted">>}, "active")
  BY DEF Promote
<1>8. events' \in Seq(EventRow)
  BY <1>1, <1>4, <1>6, <1>7, CurationLogged DEF TypeOK, LogsOK
<1> QED
  BY <1>3, <1>5, <1>8

\* Requests about candidates keep the types.
LEMMA CandidateNextType == ASSUME TypeOK, CandidateNext PROVE TypeOK'
<1> USE DEF TypeOK
<1>1. ASSUME NEW c \in DOMAIN candidates, NEW status \in CandidateStatuses,
             NEW action \in CurationActions, SetStatus(c, status, action),
             UNCHANGED <<entryVars, captures, proposals>>
      PROVE  TypeOK'
  BY <1>1, StatusSet DEF entryVars, EntryTablesOK, LogsOK
<1>2. ASSUME NEW c \in DOMAIN candidates, ClaimCandidate(c) \/ RejectCandidate(c)
      PROVE  TypeOK'
  BY <1>1, <1>2
  DEF ClaimCandidate, RejectCandidate, CandidateStatuses, CurationActions
<1>3. ASSUME NEW c \in DOMAIN candidates, NEW status \in PatchInputs,
             UpdateCandidateStatus(c, status)
      PROVE  TypeOK'
  <2>1. PatchAction(status) \in CurationActions
    BY DEF PatchAction, CurationActions
  <2> QED
    BY <1>1, <1>3, <2>1, InputAssumption DEF UpdateCandidateStatus
<1>4. ASSUME NEW c \in DOMAIN candidates, NEW row \in CandidateRow,
             NEW action \in CurationActions, UpdateCandidate(c, row),
             LogCuration(action, c, 0, {<<c, candidates[c].status>>}, "none"),
             UNCHANGED <<entryVars, captures, proposals>>
      PROVE  TypeOK'
  <2>1. CandidateTablesOK'
    BY <1>4, CandidateUpdated
  <2>2. c \in Nat /\ {<<c, candidates[c].status>>} \in SUBSET (Nat \X CandidateStatuses)
    BY IdsAreNaturals DEF CandidateRow
  <2>3. events' \in Seq(EventRow)
    BY <1>4, <2>2, CurationLogged DEF LogsOK
  <2> QED
    BY <1>4, <2>1, <2>3 DEF entryVars, EntryTablesOK, LogsOK
<1>5. ASSUME NEW c \in DOMAIN candidates, NEW title \in Titles,
             NEW strength \in StrengthInputs \cup {candidates[c].strength},
             RelabelCandidate(c, title, strength)
      PROVE  TypeOK'
  <2>1. [candidates[c] EXCEPT !.title = title, !.strength = strength] \in CandidateRow
    <3>1. candidates[c] \in CandidateRow
      BY IdsAreNaturals
    <3>2. strength \in ClaimStrengths
      BY <3>1, InputAssumption DEF CandidateRow
    <3> QED
      BY <3>1, <3>2 DEF CandidateRow
  <2>2. "relabel" \in CurationActions
    BY DEF CurationActions
  <2> QED
    BY <1>4, <1>5, <2>1, <2>2 DEF RelabelCandidate
<1>6. ASSUME NEW c \in DOMAIN candidates, NEW strength \in StrengthInputs,
             RescopeCandidate(c, strength)
      PROVE  TypeOK'
  <2>1. [candidates[c] EXCEPT !.strength = strength] \in CandidateRow
    BY IdsAreNaturals, InputAssumption DEF CandidateRow
  <2>2. "rescope" \in CurationActions
    BY DEF CurationActions
  <2> QED
    BY <1>4, <1>6, <2>1, <2>2 DEF RescopeCandidate
<1>7. ASSUME NEW c \in DOMAIN candidates, NEW slug \in Slugs \cup {NoSlug},
             NEW title \in Titles, PromoteCandidate(c, slug, title)
      PROVE  TypeOK'
  BY <1>7, PromoteType DEF PromoteCandidate, LogsOK
<1>8. ASSUME NEW c \in DOMAIN candidates, NEW n \in 0..MaxFragments,
             NEW parts \in [1..n -> FragmentInputs(candidates[c])],
             SplitCandidate(c, parts)
      PROVE  TypeOK'
  <2> DEFINE original == [candidates[c] EXCEPT !.status = "needs_split"]
             ids == (Len(candidates) + 1)..(Len(candidates) + Len(parts))
             updated == [candidates EXCEPT ![c] = original]
  <2>1. c \in 1..Len(candidates) /\ Len(candidates) \in Nat /\ candidates[c] \in CandidateRow
    BY IdsAreNaturals
  <2>2. original \in CandidateRow
    BY <2>1 DEF CandidateRow, CandidateStatuses
  <2>3. updated \in Seq(CandidateRow) /\ Len(updated) = Len(candidates)
    BY <2>1, <2>2, ExceptSeq DEF CandidateTablesOK
  <2>4. n \in Nat
    BY BoundAssumption
  <2>5. parts \in Seq(CandidateRow) /\ Len(parts) \in Nat
    BY <2>1, <2>4, InputsAreRows
  <2>6. /\ updated \o parts \in Seq(CandidateRow)
        /\ Len(updated \o parts) = Len(candidates) + Len(parts)
    BY <2>3, <2>5, ConcatProperties
  <2>7. \A i \in 1..Len(updated \o parts) : i \in ids \cup {c} \/ i \in 1..Len(candidates)
    BY <2>1, <2>5, <2>6
  <2>8. WriteCandidates(updated \o parts, ids \cup {c})
    BY <1>8 DEF SplitCandidate
  <2>9. CandidateTablesOK'
    BY <2>6, <2>7, <2>8, CandidatesWritten
  <2>10. SplitAfter(c, ids) \in SUBSET (Nat \X CandidateStatuses) /\ c \in Nat
    BY <2>1, <2>5 DEF SplitAfter, CandidateStatuses
  <2>11. LogCuration("split", c, 0, SplitAfter(c, ids), "none") /\ "split" \in CurationActions
    BY <1>8 DEF SplitCandidate, CurationActions
  <2> HIDE DEF ids
  <2>12. events' \in Seq(EventRow)
    BY <2>10, <2>11, CurationLogged DEF LogsOK
  <2> QED
    BY <1>8, <2>9, <2>12 DEF SplitCandidate, entryVars, EntryTablesOK, LogsOK
<1>9. ASSUME NEW ids \in SUBSET DOMAIN candidates \ {{}}, NEW title \in Titles,
             NEW strength \in StrengthInputs, MergeCandidates(ids, title, strength)
      PROVE  TypeOK'
  <2> DEFINE m == NewId(candidates)
             merged == [status |-> "pending", slug |-> NoSlug, title |-> title,
                        strength |-> strength, refs |-> MergedRefs(ids)]
             source(c) == IF c \in ids
                          THEN [candidates[c] EXCEPT !.status = "needs_merge"]
                          ELSE candidates[c]
             sources == [c \in DOMAIN candidates |-> source(c)]
  <2>1. /\ DOMAIN candidates = 1..Len(candidates) /\ Len(candidates) \in Nat
        /\ m = Len(candidates) + 1 /\ ids \subseteq 1..Len(candidates)
    BY IdsAreNaturals DEF NewId
  <2>2. \A c \in DOMAIN candidates : candidates[c] \in CandidateRow
    BY IdsAreNaturals
  <2>3. merged \in CandidateRow
    <3>1. MergedRefs(ids) \in SUBSET Refs
      BY <2>1, <2>2 DEF MergedRefs, CandidateRow
    <3> QED
      BY <3>1, InputAssumption DEF CandidateRow, CandidateStatuses
  <2>4. \A c \in 1..Len(candidates) : source(c) \in CandidateRow
    BY <2>1, <2>2 DEF CandidateRow, CandidateStatuses
  <2>5. sources \in Seq(CandidateRow) /\ Len(sources) = Len(candidates)
    BY <2>1, <2>4
  <2>6. /\ Append(sources, merged) \in Seq(CandidateRow)
        /\ Len(Append(sources, merged)) = Len(candidates) + 1
    BY <2>3, <2>5, Appended
  <2>7. \A i \in 1..Len(Append(sources, merged)) :
          i \in ids \cup {m} \/ i \in 1..Len(candidates)
    BY <2>1, <2>6
  <2>8. WriteCandidates(Append(sources, merged), ids \cup {m})
    BY <1>9 DEF MergeCandidates
  <2>9. CandidateTablesOK'
    BY <2>6, <2>7, <2>8, CandidatesWritten
  <2>10. MergeAfter(ids, m) \in SUBSET (Nat \X CandidateStatuses) /\ m \in Nat
    BY <2>1 DEF MergeAfter, CandidateStatuses
  <2>11. LogCuration("merge", m, 0, MergeAfter(ids, m), "none") /\ "merge" \in CurationActions
    BY <1>9 DEF MergeCandidates, CurationActions
  <2>12. events' \in Seq(EventRow)
    BY <2>10, <2>11, CurationLogged DEF LogsOK
  <2> QED
    BY <1>9, <2>9, <2>12 DEF MergeCandidates, entryVars, EntryTablesOK, LogsOK
<1> QED
  BY <1>2, <1>3, <1>5, <1>6, <1>7, <1>8, <1>9 DEF CandidateNext

\* What the two statements on curation_proposals do.
LEMMA ProposalReplaced ==
  ASSUME TypeOK, NEW p \in DOMAIN proposals, NEW row \in ProposalRow,
         proposals' = [proposals EXCEPT ![p] = row]
  PROVE  /\ proposals' \in Seq(ProposalRow)
         /\ Len(proposals') = Len(proposals)
         /\ \A q \in DOMAIN proposals :
              proposals'[q] = IF q = p THEN row ELSE proposals[q]
<1>1. p \in 1..Len(proposals) /\ DOMAIN proposals = 1..Len(proposals)
  BY IdsAreNaturals
<1> QED
  BY <1>1, ExceptSeq DEF TypeOK, LogsOK

\* Marking a proposal applied replaces one row by a row of the table.
LEMMA AppliedMarked ==
  ASSUME TypeOK, NEW p \in DOMAIN proposals, NEW e \in Nat, MarkApplied(p, e)
  PROVE  /\ proposals' \in Seq(ProposalRow)
         /\ Len(proposals') = Len(proposals)
         /\ \A q \in DOMAIN proposals : proposals'[q] =
              IF q = p THEN [proposals[p] EXCEPT !.status = "applied",
                                                 !.event = NewId(events), !.entry = e]
              ELSE proposals[q]
<1> DEFINE row == [proposals[p] EXCEPT !.status = "applied",
                                       !.event = NewId(events), !.entry = e]
<1>1. proposals[p] \in ProposalRow /\ NewId(events) \in Nat
  BY IdsAreNaturals DEF NewId
<1>2. row \in ProposalRow
  BY <1>1 DEF ProposalRow, ProposalStatuses
<1>3. proposals' = [proposals EXCEPT ![p] = row]
  BY <1>1 DEF MarkApplied, ProposalRow
<1> QED
  BY <1>2, <1>3, ProposalReplaced

\* Requests about proposals keep the types.
LEMMA ProposalNextType == ASSUME TypeOK, ProposalNext PROVE TypeOK'
<1> USE DEF TypeOK
<1>1. ASSUME NEW kind \in KindInputs, NEW status \in {"proposed", "needs_human"},
             NEW ids \in SUBSET DOMAIN candidates, NEW slug \in Slugs \cup {NoSlug},
             CreateCurationProposal(kind, status, ids, slug)
      PROVE  TypeOK'
  <2> DEFINE row == [kind |-> kind, status |-> status, candidates |-> ids,
                     slug |-> slug, event |-> 0, entry |-> 0]
  <2>1. ids \in SUBSET Nat
    BY IdsAreNaturals
  <2>2. row \in ProposalRow
    BY <2>1, InputAssumption DEF ProposalRow, ProposalStatuses
  <2>3. proposals' \in Seq(ProposalRow)
    BY <1>1, <2>2, Appended DEF CreateCurationProposal, LogsOK
  <2> QED
    BY <1>1, <2>3 DEF CreateCurationProposal, candidateVars, entryVars,
                      CandidateTablesOK, EntryTablesOK, LogsOK
<1>2. ASSUME NEW p \in DOMAIN proposals, NEW c \in DOMAIN candidates, NEW title \in Titles,
             ApplyPromoteCandidate(p, c, title)
      PROVE  TypeOK'
  <2>1. proposals[p].slug \in Slugs \cup {NoSlug} /\ NewId(entries) \in Nat
    BY IdsAreNaturals DEF ProposalRow, NewId
  <2>2. CandidateTablesOK' /\ EntryTablesOK' /\ events' \in Seq(EventRow)
    BY <1>2, <2>1, PromoteType DEF ApplyPromoteCandidate
  <2>3. proposals' \in Seq(ProposalRow)
    BY <1>2, <2>1, AppliedMarked DEF ApplyPromoteCandidate
  <2> QED
    BY <1>2, <2>2, <2>3 DEF ApplyPromoteCandidate, LogsOK
<1>3. ASSUME NEW p \in DOMAIN proposals, NEW c \in DOMAIN candidates,
             ApplyRejectCandidate(p, c)
      PROVE  TypeOK'
  <2>1. "rejected" \in CandidateStatuses /\ "reject" \in CurationActions
    BY DEF CandidateStatuses, CurationActions
  <2>2. CandidateTablesOK' /\ events' \in Seq(EventRow)
    BY <1>3, <2>1, StatusSet DEF ApplyRejectCandidate
  <2>3. proposals' \in Seq(ProposalRow)
    BY <1>3, AppliedMarked DEF ApplyRejectCandidate
  <2> QED
    BY <1>3, <2>2, <2>3 DEF ApplyRejectCandidate, entryVars, EntryTablesOK, LogsOK
<1>4. ASSUME NEW p \in DOMAIN proposals, NEW status \in {"rejected", "deferred"},
             MarkCurationProposal(p, status)
      PROVE  TypeOK'
  <2> DEFINE row == [proposals[p] EXCEPT !.status = status]
  <2>1. proposals[p] \in ProposalRow
    BY IdsAreNaturals
  <2>2. row \in ProposalRow
    BY <2>1 DEF ProposalRow, ProposalStatuses
  <2>3. proposals' = [proposals EXCEPT ![p] = row]
    BY <1>4, <2>1 DEF MarkCurationProposal, ProposalRow
  <2>4. proposals' \in Seq(ProposalRow)
    BY <2>2, <2>3, ProposalReplaced
  <2> QED
    BY <1>4, <2>4 DEF MarkCurationProposal, candidateVars, entryVars,
                      CandidateTablesOK, EntryTablesOK, LogsOK
<1> QED
  BY <1>1, <1>2, <1>3, <1>4 DEF ProposalNext

\* Requests about entries keep the types.
LEMMA EntryNextType == ASSUME TypeOK, EntryNext PROVE TypeOK'
<1> USE DEF TypeOK
<1>1. NewId(entries) \in Nat
  BY IdsAreNaturals DEF NewId
<1>2. ASSUME NEW slug \in Slugs, NEW title \in Titles, NEW status \in EntryStatusInputs,
             NEW refs \in RefLists, NEW action \in {"promote", "relabel"},
             CreateEntry(slug, title, status, refs, action)
      PROVE  TypeOK'
  <2>1. /\ slug \in EntrySlugs /\ status \in EntryStatuses /\ refs \in SUBSET Refs
        /\ action \in CurationActions
    BY InputAssumption DEF EntrySlugs, CurationActions
  <2>2. EntryTablesOK'
    BY <1>2, <2>1, EntryInserted DEF CreateEntry
  <2>3. events' \in Seq(EventRow)
    BY <1>1, <1>2, <2>1, CurationLogged DEF CreateEntry, LogsOK
  <2> QED
    BY <1>2, <2>2, <2>3 DEF CreateEntry, candidateVars, CandidateTablesOK, LogsOK
<1>3. ASSUME NEW e \in DOMAIN entries, NEW title \in Titles,
             NEW status \in EntryStatusInputs \cup {entries[e].status},
             UpdateEntry(e, title, status)
      PROVE  TypeOK'
  <2> DEFINE row == [entries[e] EXCEPT !.title = title, !.status = status]
  <2>1. e \in Nat /\ entries[e] \in EntryRow
    BY IdsAreNaturals
  <2>2. status \in EntryStatuses
    BY <2>1, InputAssumption DEF EntryRow
  <2>3. row \in EntryRow
    BY <2>1, <2>2 DEF EntryRow
  <2>4. entries' \in Seq(EntryRow) /\ Len(entries') = Len(entries)
    BY <1>3, <2>3, EntryWritten DEF UpdateEntry
  <2>5. \A r \in EntryRow : r.title \in Titles
    BY DEF EntryRow
  <2>6. entryFts' = Refreshed(entryFts, entries', {e})
    BY <1>3 DEF UpdateEntry
  <2>7. entryFts' \in Seq(Titles) /\ Len(entryFts') = Len(entries')
    BY <2>4, <2>5, <2>6, RefreshedSeq DEF EntryTablesOK
  <2>8. events' \in Seq(EventRow)
    <3>1. "relabel" \in CurationActions /\ {} \in SUBSET (Nat \X CandidateStatuses)
      BY DEF CurationActions
    <3>2. LogCuration("relabel", 0, e, {}, status)
      BY <1>3 DEF UpdateEntry
    <3> QED
      BY <2>1, <2>2, <3>1, <3>2, CurationLogged DEF LogsOK
  <2> QED
    BY <1>3, <2>4, <2>7, <2>8
    DEF UpdateEntry, candidateVars, CandidateTablesOK, EntryTablesOK, LogsOK
<1>4. ASSUME NEW e \in DOMAIN entries, CurationSupersedeEntry(e)
      PROVE  TypeOK'
  <2>1. e \in Nat /\ entries[e] \in EntryRow
    BY IdsAreNaturals
  <2>2. [entries[e] EXCEPT !.status = "superseded"] \in EntryRow
    BY <2>1 DEF EntryRow, EntryStatuses
  <2>3. entries' \in Seq(EntryRow) /\ Len(entries') = Len(entries)
    BY <1>4, <2>2, EntryWritten DEF CurationSupersedeEntry
  <2>4. events' \in Seq(EventRow)
    <3>1. /\ "supersede" \in CurationActions /\ "superseded" \in EntryStatuses
          /\ {} \in SUBSET (Nat \X CandidateStatuses)
      BY DEF CurationActions, EntryStatuses
    <3>2. LogCuration("supersede", 0, e, {}, "superseded")
      BY <1>4 DEF CurationSupersedeEntry
    <3> QED
      BY <2>1, <3>1, <3>2, CurationLogged DEF LogsOK
  <2> QED
    BY <1>4, <2>3, <2>4
    DEF CurationSupersedeEntry, candidateVars, CandidateTablesOK, EntryTablesOK, LogsOK
<1> QED
  BY <1>2, <1>3, <1>4 DEF EntryNext

\* Every table keeps the type its schema declares and every index the length of
\* its table, whatever requests are served: the invariant all others rest on.
THEOREM TypeCorrect == Spec => []TypeOK
<1>1. Init => TypeOK
  BY EmptySeq DEF Init, TypeOK, CandidateTablesOK, EntryTablesOK, LogsOK
<1>2. TypeOK /\ [Next]_vars => TypeOK'
  <2>1. ASSUME TypeOK, UNCHANGED vars PROVE TypeOK'
    BY <2>1 DEF vars, TypeOK, CandidateTablesOK, EntryTablesOK, LogsOK
  <2> QED
    BY <2>1, CaptureNextType, CandidateNextType, ProposalNextType, EntryNextType DEF Next
<1> QED
  BY <1>1, <1>2, PTL DEF Spec

\* A decision on a proposal is final: both statements that write a stored
\* proposal require it to be undecided, and no other handler writes one.
THEOREM DecisionsFinal == Spec => DecisionsAreFinal
<1> DEFINE Final == \A p \in DOMAIN proposals :
                      proposals[p].status \notin {"proposed", "needs_human"} =>
                        proposals'[p] = proposals[p]
<1>1. ASSUME TypeOK, Next, proposals' # proposals PROVE Final
  <2>1. ASSUME NEW p \in DOMAIN proposals, Undecided(p),
               \A q \in DOMAIN proposals : q # p => proposals'[q] = proposals[q]
        PROVE  Final
    BY <2>1 DEF Undecided
  <2>2. ASSUME NEW p \in DOMAIN proposals, NEW e \in Nat, Undecided(p), MarkApplied(p, e)
        PROVE  Final
    BY <1>1, <2>1, <2>2, AppliedMarked
  <2>3. ASSUME NEW kind, NEW status, NEW ids, NEW slug,
               CreateCurationProposal(kind, status, ids, slug)
        PROVE  Final
    <3>1. \A p \in DOMAIN proposals : proposals'[p] = proposals[p]
      <4>1. PICK row : proposals' = Append(proposals, row)
        BY <2>3 DEF CreateCurationProposal
      <4>2. proposals \in Seq(ProposalRow \cup {row}) /\ DOMAIN proposals = 1..Len(proposals)
        BY <1>1, IdsAreNaturals, SeqMonotonic DEF TypeOK, LogsOK
      <4> QED
        BY <4>1, <4>2, Appended
    <3> QED
      BY <3>1
  <2>4. ASSUME NEW p \in DOMAIN proposals, NEW c, NEW title, ApplyPromoteCandidate(p, c, title)
        PROVE  Final
    <3>1. NewId(entries) \in Nat
      BY <1>1, IdsAreNaturals DEF NewId
    <3> QED
      BY <2>2, <2>4, <3>1 DEF ApplyPromoteCandidate
  <2>5. ASSUME NEW p \in DOMAIN proposals, NEW c, ApplyRejectCandidate(p, c)
        PROVE  Final
    BY <2>2, <2>5 DEF ApplyRejectCandidate
  <2>6. ASSUME NEW p \in DOMAIN proposals, NEW status, MarkCurationProposal(p, status)
        PROVE  Final
    BY <2>1, <2>6 DEF MarkCurationProposal
  <2>7. ProposalNext
    BY <1>1 DEF Next, CaptureNext, CandidateNext, EntryNext,
       CreateCandidate, CaptureCandidate, CaptureDeclined, CapturePromoted,
       CapturePromotionErrored, ClaimCandidate, RejectCandidate, UpdateCandidateStatus,
       RelabelCandidate, RescopeCandidate, PromoteCandidate, SplitCandidate,
       MergeCandidates, CreateEntry, UpdateEntry, CurationSupersedeEntry
  <2> QED
    BY <2>3, <2>4, <2>5, <2>6, <2>7 DEF ProposalNext
<1>2. TypeOK /\ [Next]_vars => [Final]_proposals
  BY <1>1 DEF vars
<1> QED
  BY <1>2, TypeCorrect, PTL DEF Spec, DecisionsAreFinal

(***************************************************************************)
(* What a request does to the tables, stated so that the invariants about  *)
(* the logs need not look at the actions again: event is the row it adds   *)
(* to curation_events, NoEvent if it adds none.                            *)
(***************************************************************************)

NoEvent == [action |-> "none", candidate |-> 0, entry |-> 0, after |-> {},
            entryStatus |-> "none"]

\* The log of curation events grows by event, or not at all.
EventAdded(event) ==
  IF event = NoEvent THEN events' = events
  ELSE /\ Len(events') = Len(events) + 1
       /\ \A i \in 1..Len(events) : events'[i] = events[i]
       /\ events'[Len(events) + 1] = event

\* Candidates are never removed and keep their refs; event holds the status of
\* every candidate it names; the others keep theirs, new ones being pending.
StatusEffects(event) ==
  /\ DOMAIN candidates \subseteq DOMAIN candidates'
  /\ \A c \in DOMAIN candidates : candidates'[c].refs = candidates[c].refs
  /\ \A c \in Nat, status \in CandidateStatuses :
       <<c, status>> \in event.after =>
         c \in DOMAIN candidates' /\ candidates'[c].status = status
  /\ \A c \in DOMAIN candidates' : ~About(event, c) =>
       candidates'[c].status =
         IF c \in DOMAIN candidates THEN candidates[c].status ELSE "pending"

\* Every row whose title is written or changed is indexed by it.
IndexEffects ==
  /\ \A c \in DOMAIN candidates' :
       \/ candidateFts'[c] = candidates'[c].title
       \/ /\ c \in DOMAIN candidates /\ candidates'[c].title = candidates[c].title
          /\ candidateFts'[c] = candidateFts[c]
  /\ \A e \in DOMAIN entries' :
       \/ entryFts'[e] = entries'[e].title
       \/ /\ e \in DOMAIN entries /\ entries'[e].title = entries[e].title
          /\ entryFts'[e] = entryFts[e]

\* The only entry created or given a status is the one event names.
EntryEffects(event) ==
  /\ DOMAIN entries \subseteq DOMAIN entries'
  /\ sourceRefs \subseteq sourceRefs'
  /\ event.entry \in DOMAIN entries' \cup {0}
  /\ \A e \in DOMAIN entries' :
       IF e = event.entry THEN entries'[e].status = event.entryStatus
       ELSE e \in DOMAIN entries /\ entries'[e].status = entries[e].status

\* A candidate gets policy strength only by a relabel or a rescope of it.
StrengthEffects(event) ==
  \A c \in DOMAIN candidates' : candidates'[c].strength = "policy" =>
    \/ c \in DOMAIN candidates /\ candidates[c].strength = "policy"
    \/ event.candidate = c /\ event.action \in {"relabel", "rescope"}

\* A promotion is of an open candidate or of a new one, and attaches its refs.
PromoteEffects(event) ==
  event.action = "promote" /\ event.candidate # 0 =>
    /\ event.after = {<<event.candidate, "promoted">>}
    /\ event.candidate \in DOMAIN candidates =>
         candidates[event.candidate].status \in {"pending", "claimed"}
    /\ \A r \in candidates'[event.candidate].refs : <<event.entry, r>> \in sourceRefs'

\* A merge creates a candidate with the refs of all the others it names.
MergeEffects(event) ==
  event.action = "merge" =>
    /\ About(event, event.candidate)
    /\ \A s \in Sources(event) :
         candidates'[s].refs \subseteq candidates'[event.candidate].refs

NewCaptures == DOMAIN captures' \ DOMAIN captures

\* Exactly the new candidates get an origin: one capture, or event.
OriginEffects(event) ==
  /\ DOMAIN captures \subseteq DOMAIN captures'
  /\ \A i \in DOMAIN captures : captures'[i] = captures[i]
  /\ \A i \in NewCaptures :
       captures'[i].candidate \in (DOMAIN candidates' \ DOMAIN candidates) \cup {0}
  /\ Born(event) \cap DOMAIN candidates = {}
  /\ \A c \in DOMAIN candidates' \ DOMAIN candidates :
       IF c \in Born(event) THEN \A i \in NewCaptures : captures'[i].candidate # c
       ELSE \E k \in NewCaptures : \A i \in NewCaptures : captures'[i].candidate = c <=> i = k

Effects(event) ==
  /\ EventAdded(event)
  /\ StatusEffects(event)
  /\ IndexEffects
  /\ EntryEffects(event)
  /\ StrengthEffects(event)
  /\ PromoteEffects(event)
  /\ MergeEffects(event)
  /\ OriginEffects(event)

Event(action, c, e, after, status) ==
  [action |-> action, candidate |-> c, entry |-> e, after |-> after,
   entryStatus |-> status]

\* Writing an event adds it.
LEMMA LoggedEventAdded ==
  ASSUME TypeOK, NEW action \in CurationActions, NEW c \in Nat, NEW e \in Nat,
         NEW after \in SUBSET (Nat \X CandidateStatuses),
         NEW status \in EntryStatuses \cup {"none"},
         LogCuration(action, c, e, after, status)
  PROVE  EventAdded(Event(action, c, e, after, status))
<1>1. Event(action, c, e, after, status) # NoEvent
  BY DEF Event, NoEvent, CurationActions
<1> QED
  BY <1>1, CurationLogged DEF EventAdded, Event, TypeOK, LogsOK

\* What a write of the candidate table leaves in it and in its index.
LEMMA CandidateRowsWritten ==
  ASSUME TypeOK, NEW rows \in Seq(CandidateRow), NEW ids,
         \A i \in 1..Len(rows) : i \in ids \/ i \in 1..Len(candidates),
         WriteCandidates(rows, ids)
  PROVE  /\ candidates' = rows /\ DOMAIN candidates' = 1..Len(rows)
         /\ \A c \in DOMAIN candidates' :
              candidateFts'[c] = IF c \in ids THEN rows[c].title ELSE candidateFts[c]
<1>1. \A row \in CandidateRow : row.title \in Titles
  BY DEF CandidateRow
<1>2. DOMAIN rows = 1..Len(rows)
  BY LenProperties
<1>3. candidates' = rows /\ candidateFts' = Refreshed(candidateFts, rows, ids)
  BY DEF WriteCandidates
<1>4. /\ candidateFts \in Seq(Titles)
      /\ \A i \in 1..Len(rows) : i \in ids \/ i \in 1..Len(candidateFts)
  BY DEF TypeOK, CandidateTablesOK
<1> QED
  BY <1>1, <1>2, <1>3, <1>4, RefreshedSeq

\* One candidate replaced.
LEMMA CandidateRowUpdated ==
  ASSUME TypeOK, NEW c \in DOMAIN candidates, NEW row \in CandidateRow,
         UpdateCandidate(c, row)
  PROVE  /\ DOMAIN candidates' = DOMAIN candidates
         /\ \A d \in DOMAIN candidates :
              /\ candidates'[d] = IF d = c THEN row ELSE candidates[d]
              /\ candidateFts'[d] = IF d = c THEN row.title ELSE candidateFts[d]
<1>1. c \in 1..Len(candidates) /\ DOMAIN candidates = 1..Len(candidates)
  BY IdsAreNaturals
<1> DEFINE rows == [candidates EXCEPT ![c] = row]
<1>2. /\ rows \in Seq(CandidateRow)
      /\ Len(rows) = Len(candidates)
      /\ \A d \in 1..Len(candidates) : rows[d] = IF d = c THEN row ELSE candidates[d]
  BY <1>1, ExceptSeq DEF TypeOK, CandidateTablesOK
<1>3. WriteCandidates(rows, {c})
  BY DEF UpdateCandidate
<1> HIDE DEF rows
<1> QED
  BY <1>1, <1>2, <1>3, CandidateRowsWritten

\* One candidate added.
LEMMA CandidateRowAppended ==
  ASSUME TypeOK, NEW row \in CandidateRow,
         WriteCandidates(Append(candidates, row), {NewId(candidates)})
  PROVE  /\ DOMAIN candidates' = DOMAIN candidates \cup {NewId(candidates)}
         /\ NewId(candidates) \notin DOMAIN candidates /\ NewId(candidates) \in Nat \ {0}
         /\ \A c \in DOMAIN candidates :
              candidates'[c] = candidates[c] /\ candidateFts'[c] = candidateFts[c]
         /\ candidates'[NewId(candidates)] = row
         /\ candidateFts'[NewId(candidates)] = row.title
<1>1. /\ DOMAIN candidates = 1..Len(candidates) /\ Len(candidates) \in Nat
      /\ NewId(candidates) = Len(candidates) + 1
  BY IdsAreNaturals DEF NewId
<1> DEFINE rows == Append(candidates, row)
<1>2. /\ rows \in Seq(CandidateRow) /\ Len(rows) = Len(candidates) + 1
      /\ \A c \in 1..Len(candidates) : rows[c] = candidates[c]
      /\ rows[Len(candidates) + 1] = row
  BY Appended DEF TypeOK, CandidateTablesOK
<1>3. WriteCandidates(rows, {NewId(candidates)})
  OBVIOUS
<1> HIDE DEF rows
<1>4. /\ candidates' = rows /\ DOMAIN candidates' = 1..Len(rows)
      /\ \A c \in DOMAIN candidates' : candidateFts'[c] =
           IF c \in {NewId(candidates)} THEN rows[c].title ELSE candidateFts[c]
  <2>1. \A c \in 1..Len(rows) : c \in {NewId(candidates)} \/ c \in 1..Len(candidates)
    BY <1>1, <1>2
  <2> QED
    BY <1>2, <1>3, <2>1, CandidateRowsWritten
<1> QED
  BY <1>1, <1>2, <1>4

\* A request that leaves the entries alone has no effect on them to log.
LEMMA EntriesUntouched ==
  ASSUME UNCHANGED <<entries, sourceRefs>>, NEW event, event.entry = 0
  PROVE  0 \notin DOMAIN entries => EntryEffects(event)
  BY DEF EntryEffects

\* A request that captures nothing and creates no candidate gives no origin.
LEMMA NoneBorn ==
  ASSUME UNCHANGED captures, DOMAIN candidates' = DOMAIN candidates,
         NEW event, event.action \notin {"split", "merge"}
  PROVE  OriginEffects(event)
  BY DEF OriginEffects, NewCaptures, Born

\* A request about one candidate that writes its row in place and logs it.
LEMMA UpdateEffects ==
  ASSUME TypeOK, NEW c \in DOMAIN candidates, NEW row \in CandidateRow,
         row.refs = candidates[c].refs,
         NEW action \in CurationActions \ {"promote", "split", "merge"},
         row.strength = "policy" =>
           candidates[c].strength = "policy" \/ action \in {"relabel", "rescope"},
         UpdateCandidate(c, row), LogCuration(action, c, 0, {<<c, row.status>>}, "none"),
         UNCHANGED <<entryVars, captures>>
  PROVE  \E event : Effects(event)
<1> DEFINE event == Event(action, c, 0, {<<c, row.status>>}, "none")
<1>1. /\ c \in Nat /\ row.status \in CandidateStatuses
      /\ {<<c, row.status>>} \in SUBSET (Nat \X CandidateStatuses)
  BY IdsAreNaturals DEF CandidateRow
<1>2. EventAdded(event)
  BY <1>1, LoggedEventAdded
<1>3. /\ DOMAIN candidates' = DOMAIN candidates
      /\ \A d \in DOMAIN candidates :
           /\ candidates'[d] = IF d = c THEN row ELSE candidates[d]
           /\ candidateFts'[d] = IF d = c THEN row.title ELSE candidateFts[d]
  BY CandidateRowUpdated
<1>4. /\ event.action = action /\ event.candidate = c /\ event.entry = 0
      /\ event.after = {<<c, row.status>>}
  BY DEF Event
<1> HIDE DEF event
<1>5. StatusEffects(event)
  BY <1>1, <1>3, <1>4 DEF StatusEffects, About
<1>6. IndexEffects
  BY <1>3 DEF IndexEffects, entryVars
<1>7. EntryEffects(event)
  BY <1>4, IdsAreNaturals, EntriesUntouched DEF entryVars
<1>8. StrengthEffects(event)
  BY <1>3, <1>4 DEF StrengthEffects
<1>9. PromoteEffects(event) /\ MergeEffects(event)
  BY <1>4 DEF PromoteEffects, MergeEffects
<1>10. OriginEffects(event)
  BY <1>3, <1>4, NoneBorn
<1> QED
  BY <1>2, <1>5, <1>6, <1>7, <1>8, <1>9, <1>10 DEF Effects

\* What a write of capture events leaves in their table.
LEMMA CaptureRowsAdded ==
  ASSUME TypeOK, NEW rows \in Seq(CaptureRow), LogCaptures(rows)
  PROVE  /\ DOMAIN captures = 1..Len(captures) /\ Len(captures) \in Nat /\ Len(rows) \in Nat
         /\ DOMAIN captures' = 1..(Len(captures) + Len(rows))
         /\ \A i \in 1..Len(captures) : captures'[i] = captures[i]
         /\ \A i \in 1..Len(rows) : captures'[Len(captures) + i] = rows[i]
<1>1. captures \in Seq(CaptureRow) /\ captures' = captures \o rows
  BY DEF TypeOK, LogsOK, LogCaptures
<1> QED
  BY <1>1, ConcatProperties, LenProperties

\* A capture that stores a candidate is the origin of that candidate: of the
\* capture events it writes the first names it, the others name none.
LEMMA CapturedOrigin ==
  ASSUME TypeOK, NEW rows \in Seq(CaptureRow), LogCaptures(rows), Len(rows) >= 1,
         NEW c \in Nat \ {0}, c \notin DOMAIN candidates,
         DOMAIN candidates' = DOMAIN candidates \cup {c},
         rows[1].candidate = c, \A i \in 2..Len(rows) : rows[i].candidate = 0,
         NEW event, event.action \notin {"split", "merge"}
  PROVE  OriginEffects(event)
<1>1. /\ DOMAIN captures = 1..Len(captures) /\ Len(captures) \in Nat /\ Len(rows) \in Nat
      /\ DOMAIN captures' = 1..(Len(captures) + Len(rows))
      /\ \A i \in 1..Len(captures) : captures'[i] = captures[i]
      /\ \A i \in 1..Len(rows) : captures'[Len(captures) + i] = rows[i]
  BY CaptureRowsAdded
<1>2. NewCaptures = (Len(captures) + 1)..(Len(captures) + Len(rows))
  BY <1>1 DEF NewCaptures
<1>3. \A i \in NewCaptures :
        captures'[i].candidate = IF i = Len(captures) + 1 THEN c ELSE 0
  <2>1. SUFFICES ASSUME NEW i \in NewCaptures
                 PROVE  captures'[i].candidate = IF i = Len(captures) + 1 THEN c ELSE 0
    OBVIOUS
  <2>2. i - Len(captures) \in 1..Len(rows) /\ i = Len(captures) + (i - Len(captures))
    BY <1>1, <1>2
  <2>3. captures'[i] = rows[i - Len(captures)]
    BY <1>1, <2>2
  <2> QED
    BY <1>1, <1>2, <2>2, <2>3
<1>4. Born(event) = {}
  BY DEF Born
<1>5. Len(captures) + 1 \in NewCaptures
  BY <1>1, <1>2
<1> QED
  BY <1>1, <1>3, <1>4, <1>5 DEF OriginEffects

\* A request that logs no curation event.
LEMMA NoEventEffects ==
  ASSUME UNCHANGED <<entries, sourceRefs, events>>, 0 \notin DOMAIN entries
  PROVE  /\ EventAdded(NoEvent) /\ EntryEffects(NoEvent)
         /\ PromoteEffects(NoEvent) /\ MergeEffects(NoEvent)
         /\ NoEvent.action \notin {"split", "merge"}
         /\ \A c : ~About(NoEvent, c)
  BY EntriesUntouched DEF NoEvent, EventAdded, PromoteEffects, MergeEffects, About

\* A capture, or a creation, that ends in a pending candidate.
LEMMA CapturePendingEffects ==
  ASSUME TypeOK, NEW row \in RowInputs, Insertable(row),
         WriteCandidates(Append(candidates, row), {NewId(candidates)}),
         NEW rows \in Seq(CaptureRow), LogCaptures(rows), Len(rows) >= 1,
         rows[1].candidate = NewId(candidates), \A i \in 2..Len(rows) : rows[i].candidate = 0,
         UNCHANGED <<entryVars, events>>
  PROVE  \E event : Effects(event)
<1> DEFINE c == NewId(candidates)
<1>1. row \in CandidateRow /\ row.status = "pending" /\ row.strength # "policy"
  BY InputsAreRows DEF Insertable
<1>2. /\ DOMAIN candidates' = DOMAIN candidates \cup {c}
      /\ c \notin DOMAIN candidates /\ c \in Nat \ {0}
      /\ \A d \in DOMAIN candidates :
           candidates'[d] = candidates[d] /\ candidateFts'[d] = candidateFts[d]
      /\ candidates'[c] = row /\ candidateFts'[c] = row.title
  BY <1>1, CandidateRowAppended
<1>3. /\ EventAdded(NoEvent) /\ EntryEffects(NoEvent)
      /\ PromoteEffects(NoEvent) /\ MergeEffects(NoEvent)
      /\ NoEvent.action \notin {"split", "merge"} /\ \A d : ~About(NoEvent, d)
  BY IdsAreNaturals, NoEventEffects DEF entryVars
<1>4. StatusEffects(NoEvent)
  BY <1>1, <1>2, <1>3 DEF StatusEffects, NoEvent
<1>5. IndexEffects
  BY <1>2 DEF IndexEffects, entryVars
<1>6. StrengthEffects(NoEvent)
  BY <1>1, <1>2 DEF StrengthEffects
<1>7. OriginEffects(NoEvent)
  BY <1>2, <1>3, CapturedOrigin
<1> QED
  BY <1>3, <1>4, <1>5, <1>6, <1>7 DEF Effects

\* A capture that is declined.
LEMMA CaptureDeclinedEffects ==
  ASSUME TypeOK, NEW decision \in Decisions, NEW eligible \in BOOLEAN,
         CaptureDeclined(decision, eligible)
  PROVE  \E event : Effects(event)
<1> DEFINE rows == <<CaptureLog(decision, 0, eligible)>>
<1>1. rows \in Seq(CaptureRow) /\ Len(rows) = 1 /\ rows[1].candidate = 0
  BY DEF CaptureLog, CaptureRow
<1>2. LogCaptures(rows) /\ UNCHANGED <<candidateVars, entryVars, events>>
  BY DEF CaptureDeclined
<1> HIDE DEF rows
<1>3. /\ EventAdded(NoEvent) /\ EntryEffects(NoEvent)
      /\ PromoteEffects(NoEvent) /\ MergeEffects(NoEvent)
      /\ NoEvent.action \notin {"split", "merge"} /\ \A d : ~About(NoEvent, d)
  BY <1>2, IdsAreNaturals, NoEventEffects DEF entryVars
<1>4. StatusEffects(NoEvent)
  BY <1>2, <1>3 DEF StatusEffects, NoEvent, candidateVars
<1>5. IndexEffects /\ StrengthEffects(NoEvent)
  BY <1>2 DEF IndexEffects, StrengthEffects, candidateVars, entryVars
<1>6. OriginEffects(NoEvent)
  <2>1. /\ DOMAIN captures = 1..Len(captures) /\ Len(captures) \in Nat
        /\ DOMAIN captures' = 1..(Len(captures) + 1)
        /\ \A i \in 1..Len(captures) : captures'[i] = captures[i]
        /\ captures'[Len(captures) + 1].candidate = 0
    <3>1. /\ DOMAIN captures = 1..Len(captures) /\ Len(captures) \in Nat
          /\ DOMAIN captures' = 1..(Len(captures) + Len(rows))
          /\ \A i \in 1..Len(captures) : captures'[i] = captures[i]
          /\ \A i \in 1..Len(rows) : captures'[Len(captures) + i] = rows[i]
      BY <1>1, <1>2, CaptureRowsAdded
    <3> QED
      BY <1>1, <3>1
  <2>2. NewCaptures = {Len(captures) + 1}
    BY <2>1 DEF NewCaptures
  <2>3. Born(NoEvent) = {}
    BY <1>3 DEF Born
  <2> QED
    BY <1>2, <2>1, <2>2, <2>3 DEF OriginEffects, candidateVars
<1> QED
  BY <1>3, <1>4, <1>5, <1>6 DEF Effects

\* What inserting an entry leaves in the entry tables.
LEMMA EntryRowInserted ==
  ASSUME TypeOK, NEW slug \in EntrySlugs, NEW title \in Titles,
         NEW status \in EntryStatuses, NEW refs \in SUBSET Refs,
         InsertEntry(slug, title, status, refs)
  PROVE  /\ DOMAIN entries' = DOMAIN entries \cup {NewId(entries)}
         /\ NewId(entries) \notin DOMAIN entries /\ NewId(entries) \in Nat \ {0}
         /\ \A e \in DOMAIN entries :
              entries'[e] = entries[e] /\ entryFts'[e] = entryFts[e]
         /\ entries'[NewId(entries)].status = status
         /\ entryFts'[NewId(entries)] = entries'[NewId(entries)].title
         /\ sourceRefs' = sourceRefs \cup ({NewId(entries)} \X refs)
<1> DEFINE row == [slug |-> slug, title |-> title, status |-> status]
<1>1. row \in EntryRow /\ row.status = status
  BY DEF EntryRow
<1>2. /\ DOMAIN entries = 1..Len(entries) /\ Len(entries) \in Nat
      /\ NewId(entries) = Len(entries) + 1
  BY IdsAreNaturals DEF NewId
<1>3. /\ entries' = Append(entries, row)
      /\ entryFts' = Refreshed(entryFts, entries', {NewId(entries)})
      /\ sourceRefs' = sourceRefs \cup ({NewId(entries)} \X refs)
  BY DEF InsertEntry
<1> HIDE DEF row
<1>4. /\ entries' \in Seq(EntryRow) /\ Len(entries') = Len(entries) + 1
      /\ \A e \in 1..Len(entries) : entries'[e] = entries[e]
      /\ entries'[Len(entries) + 1] = row
      /\ DOMAIN entries' = 1..Len(entries')
  BY <1>1, <1>3, Appended, LenProperties DEF TypeOK, EntryTablesOK
<1>5. \A e \in 1..Len(entries') : e \in {NewId(entries)} \/ e \in 1..Len(entryFts)
  BY <1>2, <1>4 DEF TypeOK, EntryTablesOK
<1>6. \A r \in EntryRow : r.title \in Titles
  BY DEF EntryRow
<1>7. \A e \in 1..Len(entries') : entryFts'[e] =
        IF e \in {NewId(entries)} THEN entries'[e].title ELSE entryFts[e]
  <2>1. entryFts \in Seq(Titles)
    BY DEF TypeOK, EntryTablesOK
  <2>2. entryFts' = Refreshed(entryFts, entries', {NewId(entries)})
    BY <1>3
  <2> QED
    BY <1>4, <1>5, <1>6, <2>1, <2>2, RefreshedSeq
<1>8. /\ DOMAIN entries' = DOMAIN entries \cup {NewId(entries)}
      /\ NewId(entries) \notin DOMAIN entries /\ NewId(entries) \in Nat \ {0}
  BY <1>2, <1>4
<1>9. \A e \in DOMAIN entries : entries'[e] = entries[e] /\ entryFts'[e] = entryFts[e]
  BY <1>2, <1>4, <1>7
<1>10. entryFts'[NewId(entries)] = entries'[NewId(entries)].title
  BY <1>2, <1>4, <1>7
<1> QED
  BY <1>1, <1>2, <1>3, <1>4, <1>8, <1>9, <1>10

\* A request that inserts an entry and logs it as event.
LEMMA EntryInsertedEffects ==
  ASSUME TypeOK, NEW slug \in EntrySlugs, NEW title \in Titles,
         NEW status \in EntryStatuses, NEW refs \in SUBSET Refs,
         InsertEntry(slug, title, status, refs),
         NEW event, event.entry = NewId(entries), event.entryStatus = status
  PROVE  /\ EntryEffects(event)
         /\ \A e \in DOMAIN entries' :
              \/ entryFts'[e] = entries'[e].title
              \/ /\ e \in DOMAIN entries /\ entries'[e].title = entries[e].title
                 /\ entryFts'[e] = entryFts[e]
         /\ \A r \in refs : <<event.entry, r>> \in sourceRefs'
<1>1. /\ DOMAIN entries' = DOMAIN entries \cup {NewId(entries)}
      /\ NewId(entries) \notin DOMAIN entries /\ NewId(entries) \in Nat \ {0}
      /\ \A e \in DOMAIN entries : entries'[e] = entries[e] /\ entryFts'[e] = entryFts[e]
      /\ entries'[NewId(entries)].status = status
      /\ entryFts'[NewId(entries)] = entries'[NewId(entries)].title
      /\ sourceRefs' = sourceRefs \cup ({NewId(entries)} \X refs)
  BY EntryRowInserted
<1>2. EntryEffects(event)
  BY <1>1 DEF EntryEffects
<1> QED
  BY <1>1, <1>2

\* A capture that is promoted at once.
LEMMA CapturePromotedEffects ==
  ASSUME TypeOK, NEW row \in RowInputs, NEW slug \in Slugs \cup {NoSlug},
         CapturePromoted(row, slug)
  PROVE  \E event : Effects(event)
<1> DEFINE c == NewId(candidates)
           e == NewId(entries)
           promoted == [row EXCEPT !.status = "promoted"]
           rows == <<CaptureLog("captured", c, TRUE)>>
           event == Event("promote", c, e, {<<c, "promoted">>}, "active")
<1>1. /\ row \in CandidateRow /\ row.strength # "policy"
      /\ promoted \in CandidateRow /\ promoted.status = "promoted"
      /\ promoted.strength = row.strength /\ promoted.refs = row.refs
  BY InputsAreRows DEF CapturePromoted, Insertable, CandidateRow, CandidateStatuses
<1>2. /\ c \in Nat /\ e \in Nat /\ 0 \notin DOMAIN entries
  BY IdsAreNaturals DEF NewId
<1>3. rows \in Seq(CaptureRow) /\ Len(rows) = 1 /\ rows[1].candidate = c
  BY <1>2 DEF CaptureLog, CaptureRow, Decisions
<1>4. /\ EntrySlug(slug, row, 0) \in EntrySlugs /\ row.title \in Titles
      /\ row.refs \in SUBSET Refs /\ "active" \in EntryStatuses
  BY <1>1, EntrySlugType DEF CandidateRow, EntryStatuses
<1>5. EventAdded(event)
  <2>1. /\ "promote" \in CurationActions /\ "active" \in EntryStatuses \cup {"none"}
        /\ {<<c, "promoted">>} \in SUBSET (Nat \X CandidateStatuses)
    BY <1>2 DEF CurationActions, CandidateStatuses, EntryStatuses
  <2>2. LogCuration("promote", c, e, {<<c, "promoted">>}, "active")
    BY DEF CapturePromoted
  <2> QED
    BY <1>2, <2>1, <2>2, LoggedEventAdded
<1>6. /\ event.action = "promote" /\ event.candidate = c /\ event.entry = e
      /\ event.after = {<<c, "promoted">>} /\ event.entryStatus = "active"
  BY DEF Event
<1>7. /\ WriteCandidates(Append(candidates, promoted), {c}) /\ LogCaptures(rows)
      /\ InsertEntry(EntrySlug(slug, row, 0), row.title, "active", row.refs)
  BY DEF CapturePromoted
<1> HIDE DEF event, promoted, rows
<1>8. /\ DOMAIN candidates' = DOMAIN candidates \cup {c}
      /\ c \notin DOMAIN candidates /\ c \in Nat \ {0}
      /\ \A d \in DOMAIN candidates :
           candidates'[d] = candidates[d] /\ candidateFts'[d] = candidateFts[d]
      /\ candidates'[c] = promoted /\ candidateFts'[c] = promoted.title
  BY <1>1, <1>7, CandidateRowAppended
<1>9. /\ EntryEffects(event)
      /\ \A i \in DOMAIN entries' :
           \/ entryFts'[i] = entries'[i].title
           \/ /\ i \in DOMAIN entries /\ entries'[i].title = entries[i].title
              /\ entryFts'[i] = entryFts[i]
      /\ \A r \in row.refs : <<event.entry, r>> \in sourceRefs'
  BY <1>4, <1>6, <1>7, EntryInsertedEffects
<1>10. StatusEffects(event)
  BY <1>1, <1>2, <1>6, <1>8 DEF StatusEffects, About, CandidateStatuses
<1>11. IndexEffects
  BY <1>8, <1>9 DEF IndexEffects
<1>12. StrengthEffects(event)
  BY <1>1, <1>8 DEF StrengthEffects
<1>13. PromoteEffects(event) /\ MergeEffects(event)
  BY <1>1, <1>6, <1>8, <1>9 DEF PromoteEffects, MergeEffects
<1>14. OriginEffects(event)
  BY <1>3, <1>6, <1>7, <1>8, CapturedOrigin
<1> QED
  BY <1>5, <1>9, <1>10, <1>11, <1>12, <1>13, <1>14 DEF Effects

\* A stored candidate that is promoted, by hand or by a proposal.
LEMMA PromotedEffects ==
  ASSUME TypeOK, NEW c \in DOMAIN candidates, NEW slug \in Slugs \cup {NoSlug},
         NEW title \in Titles, Promote(c, slug, title), UNCHANGED captures
  PROVE  Effects(Event("promote", c, NewId(entries), {<<c, "promoted">>}, "active"))
<1> DEFINE row == [candidates[c] EXCEPT !.status = "promoted"]
           e == NewId(entries)
           event == Event("promote", c, e, {<<c, "promoted">>}, "active")
<1>1. /\ c \in Nat \ {0} /\ candidates[c] \in CandidateRow /\ e \in Nat
  BY IdsAreNaturals DEF NewId
<1>2. /\ row \in CandidateRow /\ row.status = "promoted" /\ row.refs = candidates[c].refs
      /\ row.strength = candidates[c].strength
      /\ candidates[c].status \in {"pending", "claimed"}
  BY <1>1 DEF CandidateRow, CandidateStatuses, Promote, Promotable
<1>3. EventAdded(event)
  <2>1. /\ "promote" \in CurationActions /\ "active" \in EntryStatuses \cup {"none"}
        /\ {<<c, "promoted">>} \in SUBSET (Nat \X CandidateStatuses)
    BY <1>1 DEF CurationActions, CandidateStatuses, EntryStatuses
  <2>2. LogCuration("promote", c, e, {<<c, "promoted">>}, "active")
    BY DEF Promote
  <2> QED
    BY <1>1, <2>1, <2>2, LoggedEventAdded
<1>4. /\ event.action = "promote" /\ event.candidate = c /\ event.entry = e
      /\ event.after = {<<c, "promoted">>} /\ event.entryStatus = "active"
  BY DEF Event
<1>5. /\ UpdateCandidate(c, row)
      /\ InsertEntry(EntrySlug(slug, candidates[c], c), title, "active", candidates[c].refs)
  BY DEF Promote
<1>6. /\ EntrySlug(slug, candidates[c], c) \in EntrySlugs
      /\ candidates[c].refs \in SUBSET Refs /\ "active" \in EntryStatuses
  BY <1>1, EntrySlugType DEF CandidateRow, EntryStatuses
<1> HIDE DEF event, row
<1>7. /\ DOMAIN candidates' = DOMAIN candidates
      /\ \A d \in DOMAIN candidates :
           /\ candidates'[d] = IF d = c THEN row ELSE candidates[d]
           /\ candidateFts'[d] = IF d = c THEN row.title ELSE candidateFts[d]
  BY <1>2, <1>5, CandidateRowUpdated
<1>8. /\ EntryEffects(event)
      /\ \A i \in DOMAIN entries' :
           \/ entryFts'[i] = entries'[i].title
           \/ /\ i \in DOMAIN entries /\ entries'[i].title = entries[i].title
              /\ entryFts'[i] = entryFts[i]
      /\ \A r \in candidates[c].refs : <<event.entry, r>> \in sourceRefs'
  BY <1>4, <1>5, <1>6, EntryInsertedEffects
<1>9. StatusEffects(event)
  BY <1>1, <1>2, <1>4, <1>7 DEF StatusEffects, About, CandidateStatuses
<1>10. IndexEffects
  BY <1>7, <1>8 DEF IndexEffects
<1>11. StrengthEffects(event)
  BY <1>2, <1>7 DEF StrengthEffects
<1>12. PromoteEffects(event) /\ MergeEffects(event)
  BY <1>2, <1>4, <1>7, <1>8 DEF PromoteEffects, MergeEffects
<1>13. OriginEffects(event)
  BY <1>4, <1>7, NoneBorn
<1> QED
  BY <1>3, <1>8, <1>9, <1>10, <1>11, <1>12, <1>13 DEF Effects, event, e

\* A split: its fragments are the candidates it creates.
LEMMA SplitEffects ==
  ASSUME TypeOK, NEW c \in DOMAIN candidates, NEW n \in 0..MaxFragments,
         NEW parts \in [1..n -> FragmentInputs(candidates[c])], SplitCandidate(c, parts)
  PROVE  \E event : Effects(event)
<1> DEFINE original == [candidates[c] EXCEPT !.status = "needs_split"]
           ids == (Len(candidates) + 1)..(Len(candidates) + Len(parts))
           updated == [candidates EXCEPT ![c] = original]
           rows == updated \o parts
           event == Event("split", c, 0, SplitAfter(c, ids), "none")
<1>1. /\ c \in 1..Len(candidates) /\ DOMAIN candidates = 1..Len(candidates)
      /\ Len(candidates) \in Nat /\ candidates[c] \in CandidateRow /\ 0 \notin DOMAIN entries
  BY IdsAreNaturals
<1>2. /\ original \in CandidateRow /\ original.status = "needs_split"
      /\ original.refs = candidates[c].refs /\ original.strength = candidates[c].strength
      /\ original.title = candidates[c].title
  BY <1>1 DEF CandidateRow, CandidateStatuses
<1>3. /\ updated \in Seq(CandidateRow) /\ Len(updated) = Len(candidates)
      /\ \A d \in 1..Len(candidates) : updated[d] = IF d = c THEN original ELSE candidates[d]
  BY <1>1, <1>2, ExceptSeq DEF TypeOK, CandidateTablesOK
<1>4. parts \in Seq(CandidateRow) /\ Len(parts) \in Nat /\ DOMAIN parts = 1..Len(parts)
  BY <1>1, InputsAreRows, BoundAssumption
<1>5. /\ \A i \in DOMAIN parts : Insertable(parts[i])
      /\ WriteCandidates(rows, ids \cup {c})
      /\ LogCuration("split", c, 0, SplitAfter(c, ids), "none")
      /\ UNCHANGED <<entryVars, captures>>
  BY DEF SplitCandidate
<1> HIDE DEF original, updated
<1>6. /\ rows \in Seq(CandidateRow) /\ Len(rows) = Len(candidates) + Len(parts)
      /\ \A d \in 1..Len(candidates) : rows[d] = IF d = c THEN original ELSE candidates[d]
      /\ \A d \in ids : rows[d] = parts[d - Len(candidates)]
                          /\ d - Len(candidates) \in DOMAIN parts
  <2>1. /\ rows \in Seq(CandidateRow) /\ Len(rows) = Len(updated) + Len(parts)
        /\ \A d \in 1..Len(updated) + Len(parts) : rows[d] =
             IF d <= Len(updated) THEN updated[d] ELSE parts[d - Len(updated)]
    BY <1>3, <1>4, ConcatProperties
  <2> HIDE DEF rows
  <2>2. ASSUME NEW d \in 1..Len(candidates)
        PROVE  rows[d] = IF d = c THEN original ELSE candidates[d]
    BY <1>1, <1>3, <1>4, <2>1
  <2>3. ASSUME NEW d \in ids
        PROVE  rows[d] = parts[d - Len(candidates)] /\ d - Len(candidates) \in DOMAIN parts
    BY <1>1, <1>3, <1>4, <2>1
  <2> QED
    BY <1>3, <2>1, <2>2, <2>3
<1> HIDE DEF rows
<1>7. /\ candidates' = rows /\ DOMAIN candidates' = 1..Len(rows)
      /\ \A d \in DOMAIN candidates' :
           candidateFts'[d] = IF d \in ids \cup {c} THEN rows[d].title ELSE candidateFts[d]
  <2>1. \A d \in 1..Len(rows) : d \in ids \cup {c} \/ d \in 1..Len(candidates)
    BY <1>1, <1>4, <1>6
  <2> HIDE DEF ids
  <2> QED
    BY <1>5, <1>6, <2>1, CandidateRowsWritten
<1>8. /\ DOMAIN candidates' = DOMAIN candidates \cup ids /\ ids \cap DOMAIN candidates = {}
      /\ ids \subseteq Nat \ {0}
  BY <1>1, <1>4, <1>6, <1>7
<1>9. \A d \in ids : /\ candidates'[d].status = "pending" /\ candidates'[d].strength # "policy"
                     /\ candidateFts'[d] = candidates'[d].title
  <2>1. \A d \in ids : Insertable(rows[d])
    BY <1>5, <1>6
  <2> HIDE DEF ids
  <2>2. \A d \in ids : candidateFts'[d] = rows[d].title /\ candidates'[d] = rows[d]
    BY <1>7, <1>8
  <2> QED
    BY <2>1, <2>2 DEF Insertable
<1>10. \A d \in DOMAIN candidates :
         /\ candidates'[d] = IF d = c THEN original ELSE candidates[d]
         /\ candidateFts'[d] = IF d = c THEN original.title ELSE candidateFts[d]
  BY <1>1, <1>6, <1>7, <1>8
<1> HIDE DEF ids
<1>11. /\ event.action = "split" /\ event.candidate = c /\ event.entry = 0
       /\ event.after = {<<c, "needs_split">>} \cup (ids \X {"pending"})
  BY DEF Event, SplitAfter
<1>12. EventAdded(event)
  <2>1. /\ SplitAfter(c, ids) \in SUBSET (Nat \X CandidateStatuses) /\ c \in Nat
        /\ "split" \in CurationActions
    BY <1>1, <1>8 DEF SplitAfter, CandidateStatuses, CurationActions
  <2> QED
    BY <1>5, <2>1, LoggedEventAdded
<1> HIDE DEF event
<1>13. \A d : d \in ids \cup {c} => About(event, d)
  BY <1>11 DEF About, CandidateStatuses
<1>14. StatusEffects(event)
  <2>1. /\ DOMAIN candidates \subseteq DOMAIN candidates'
        /\ \A d \in DOMAIN candidates : candidates'[d].refs = candidates[d].refs
    BY <1>2, <1>8, <1>10
  <2>2. \A d \in Nat, status \in CandidateStatuses : <<d, status>> \in event.after =>
          d \in DOMAIN candidates' /\ candidates'[d].status = status
    BY <1>1, <1>2, <1>8, <1>9, <1>10, <1>11
  <2>3. \A d \in DOMAIN candidates' : ~About(event, d) => candidates'[d].status =
          IF d \in DOMAIN candidates THEN candidates[d].status ELSE "pending"
    BY <1>8, <1>10, <1>13
  <2> QED
    BY <2>1, <2>2, <2>3 DEF StatusEffects
<1>15. IndexEffects
  BY <1>5, <1>8, <1>9, <1>10 DEF IndexEffects, entryVars
<1>16. EntryEffects(event)
  BY <1>1, <1>5, <1>11, EntriesUntouched DEF entryVars
<1>17. StrengthEffects(event)
  BY <1>2, <1>8, <1>9, <1>10 DEF StrengthEffects
<1>18. PromoteEffects(event) /\ MergeEffects(event)
  BY <1>11 DEF PromoteEffects, MergeEffects
<1>19. OriginEffects(event)
  <2>1. Born(event) = ids
    <3>1. ASSUME NEW d \in ids PROVE d \in {pair[1] : pair \in event.after}
      <4>1. <<d, "pending">> \in event.after /\ <<d, "pending">>[1] = d
        BY <1>11
      <4> QED
        BY <4>1
    <3>2. \A pair \in event.after : pair[1] \in ids \cup {c}
      BY <1>11
    <3>3. c \notin ids
      BY <1>1, <1>8
    <3>4. Born(event) = {pair[1] : pair \in event.after} \ {c}
      BY <1>11 DEF Born
    <3> QED
      BY <3>1, <3>2, <3>3, <3>4
  <2>2. NewCaptures = {}
    BY <1>5 DEF NewCaptures
  <2> QED
    BY <1>5, <1>8, <2>1, <2>2 DEF OriginEffects
<1> QED
  BY <1>12, <1>14, <1>15, <1>16, <1>17, <1>18, <1>19 DEF Effects

\* A merge: its result is the one candidate it creates.
LEMMA MergedEffects ==
  ASSUME TypeOK, NEW ids \in SUBSET DOMAIN candidates \ {{}}, NEW title \in Titles,
         NEW strength \in StrengthInputs, MergeCandidates(ids, title, strength)
  PROVE  \E event : Effects(event)
<1> DEFINE m == NewId(candidates)
           merged == [status |-> "pending", slug |-> NoSlug, title |-> title,
                      strength |-> strength, refs |-> MergedRefs(ids)]
           source(c) == IF c \in ids
                        THEN [candidates[c] EXCEPT !.status = "needs_merge"]
                        ELSE candidates[c]
           sources == [c \in DOMAIN candidates |-> source(c)]
           rows == Append(sources, merged)
           event == Event("merge", m, 0, MergeAfter(ids, m), "none")
<1>1. /\ DOMAIN candidates = 1..Len(candidates) /\ Len(candidates) \in Nat
      /\ m = Len(candidates) + 1 /\ ids \subseteq DOMAIN candidates
      /\ \A c \in DOMAIN candidates : candidates[c] \in CandidateRow
      /\ 0 \notin DOMAIN entries
  BY IdsAreNaturals DEF NewId
<1>2. m \in Nat \ {0} /\ m \notin DOMAIN candidates /\ ids \subseteq Nat
  BY <1>1
<1>3. /\ Insertable(merged) /\ WriteCandidates(rows, ids \cup {m})
      /\ LogCuration("merge", m, 0, MergeAfter(ids, m), "none")
      /\ UNCHANGED <<entryVars, captures>>
  BY DEF MergeCandidates
<1>4. /\ merged \in CandidateRow /\ merged.status = "pending" /\ merged.strength # "policy"
      /\ merged.refs = MergedRefs(ids)
  <2>1. MergedRefs(ids) \in SUBSET Refs
    BY <1>1 DEF MergedRefs, CandidateRow
  <2> QED
    BY <1>3, <2>1, InputAssumption DEF CandidateRow, CandidateStatuses, Insertable
<1>5. \A c \in DOMAIN candidates :
        /\ source(c) \in CandidateRow /\ source(c).refs = candidates[c].refs
        /\ source(c).strength = candidates[c].strength /\ source(c).title = candidates[c].title
        /\ source(c).status = IF c \in ids THEN "needs_merge" ELSE candidates[c].status
        /\ c \notin ids => source(c) = candidates[c]
  BY <1>1 DEF CandidateRow, CandidateStatuses
<1> HIDE DEF merged, source
<1>6. sources \in Seq(CandidateRow) /\ Len(sources) = Len(candidates)
  BY <1>1, <1>5
<1>7. /\ rows \in Seq(CandidateRow) /\ Len(rows) = Len(candidates) + 1
      /\ \A c \in DOMAIN candidates : rows[c] = source(c)
      /\ rows[m] = merged
  BY <1>1, <1>4, <1>6, Appended
<1> HIDE DEF rows, m
<1>8. /\ candidates' = rows /\ DOMAIN candidates' = 1..Len(rows)
      /\ \A c \in DOMAIN candidates' :
           candidateFts'[c] = IF c \in ids \cup {m} THEN rows[c].title ELSE candidateFts[c]
  <2>1. \A c \in 1..Len(rows) : c \in ids \cup {m} \/ c \in 1..Len(candidates)
    BY <1>1, <1>7
  <2> QED
    BY <1>3, <1>7, <2>1, CandidateRowsWritten
<1>9. /\ DOMAIN candidates' = DOMAIN candidates \cup {m}
      /\ candidates'[m] = merged /\ candidateFts'[m] = merged.title
      /\ \A c \in DOMAIN candidates :
           /\ candidates'[c] = source(c)
           /\ candidateFts'[c] = IF c \in ids THEN candidates'[c].title ELSE candidateFts[c]
  BY <1>1, <1>2, <1>7, <1>8
<1>10. /\ event.action = "merge" /\ event.candidate = m /\ event.entry = 0
       /\ event.after = {<<m, "pending">>} \cup (ids \X {"needs_merge"})
  BY DEF Event, MergeAfter
<1>11. EventAdded(event)
  <2>1. /\ <<m, "pending">> \in Nat \X CandidateStatuses
        /\ ids \X {"needs_merge"} \subseteq Nat \X CandidateStatuses
    BY <1>2 DEF CandidateStatuses
  <2>2. /\ MergeAfter(ids, m) \in SUBSET (Nat \X CandidateStatuses)
        /\ "merge" \in CurationActions
    BY <2>1 DEF MergeAfter, CurationActions
  <2> QED
    BY <1>2, <1>3, <2>2, LoggedEventAdded
<1> HIDE DEF event
<1>12. \A c : c \in ids \cup {m} => About(event, c)
  BY <1>10 DEF About, CandidateStatuses
<1>13. StatusEffects(event)
  <2>1. \A c \in Nat, status \in CandidateStatuses : <<c, status>> \in event.after =>
          c \in DOMAIN candidates' /\ candidates'[c].status = status
    <3>1. SUFFICES ASSUME NEW c, NEW status, <<c, status>> \in event.after
                   PROVE  c \in DOMAIN candidates' /\ candidates'[c].status = status
      OBVIOUS
    <3>2. <<c, status>> = <<m, "pending">> \/ <<c, status>> \in ids \X {"needs_merge"}
      BY <1>10, <3>1
    <3>3. \/ c = m /\ status = "pending"
          \/ c \in ids /\ status = "needs_merge"
      BY <3>2
    <3>4. CASE c = m /\ status = "pending"
      BY <1>4, <1>9, <3>4
    <3>5. CASE c \in ids /\ status = "needs_merge"
      BY <1>1, <1>5, <1>9, <3>5
    <3> QED
      BY <3>3, <3>4, <3>5
  <2>2. \A c \in DOMAIN candidates' : ~About(event, c) => candidates'[c].status =
          IF c \in DOMAIN candidates THEN candidates[c].status ELSE "pending"
    BY <1>5, <1>9, <1>12
  <2> QED
    BY <1>5, <1>9, <2>1, <2>2 DEF StatusEffects
<1>14. IndexEffects
  BY <1>3, <1>5, <1>9 DEF IndexEffects, entryVars
<1>15. EntryEffects(event)
  BY <1>1, <1>3, <1>10, EntriesUntouched DEF entryVars
<1>16. StrengthEffects(event)
  BY <1>4, <1>5, <1>9 DEF StrengthEffects
<1>17. PromoteEffects(event)
  BY <1>10 DEF PromoteEffects
<1>18. MergeEffects(event)
  <2>1. ASSUME NEW s \in Sources(event) PROVE s \in ids
    <3>1. PICK pair \in event.after : s = pair[1] /\ s # m
      BY <1>10, <2>1 DEF Sources
    <3> QED
      BY <1>10, <3>1
  <2>2. \A s \in ids : candidates'[s].refs \subseteq candidates'[m].refs
    BY <1>1, <1>4, <1>5, <1>9 DEF MergedRefs
  <2> QED
    BY <1>10, <1>12, <2>1, <2>2 DEF MergeEffects
<1>19. OriginEffects(event)
  <2>1. Born(event) = {m}
    BY <1>10 DEF Born
  <2>2. NewCaptures = {}
    BY <1>3 DEF NewCaptures
  <2> QED
    BY <1>2, <1>3, <1>9, <2>1, <2>2 DEF OriginEffects
<1> QED
  BY <1>11, <1>13, <1>14, <1>15, <1>16, <1>17, <1>18, <1>19 DEF Effects

\* Requests about proposals only: nothing is logged.
LEMMA NoEffects ==
  ASSUME TypeOK, UNCHANGED <<candidateVars, entryVars, captures, events>>
  PROVE  \E event : Effects(event)
<1>1. /\ EventAdded(NoEvent) /\ EntryEffects(NoEvent)
      /\ PromoteEffects(NoEvent) /\ MergeEffects(NoEvent)
      /\ NoEvent.action \notin {"split", "merge"} /\ \A d : ~About(NoEvent, d)
  BY IdsAreNaturals, NoEventEffects DEF entryVars
<1>2. StatusEffects(NoEvent)
  BY <1>1 DEF StatusEffects, NoEvent, candidateVars
<1>3. IndexEffects /\ StrengthEffects(NoEvent)
  BY DEF IndexEffects, StrengthEffects, candidateVars, entryVars
<1>4. OriginEffects(NoEvent)
  BY <1>1, NoneBorn DEF candidateVars
<1> QED
  BY <1>1, <1>2, <1>3, <1>4 DEF Effects

\* A request that logs an event of no candidate: what it leaves alone.
LEMMA NoCandidateEffects ==
  ASSUME TypeOK, UNCHANGED <<candidateVars, captures>>,
         NEW event, event.candidate = 0, event.after = {},
         event.action \notin {"split", "merge"}
  PROVE  /\ StatusEffects(event) /\ StrengthEffects(event) /\ PromoteEffects(event)
         /\ MergeEffects(event) /\ OriginEffects(event)
<1>1. StatusEffects(event)
  BY DEF StatusEffects, candidateVars
<1>2. StrengthEffects(event) /\ PromoteEffects(event) /\ MergeEffects(event)
  BY DEF StrengthEffects, PromoteEffects, MergeEffects, candidateVars
<1>3. OriginEffects(event)
  BY NoneBorn DEF candidateVars
<1> QED
  BY <1>1, <1>2, <1>3

\* An entry created by a caller.
LEMMA CreateEntryEffects ==
  ASSUME TypeOK, NEW slug \in Slugs, NEW title \in Titles, NEW status \in EntryStatusInputs,
         NEW refs \in RefLists, NEW action \in {"promote", "relabel"},
         CreateEntry(slug, title, status, refs, action)
  PROVE  \E event : Effects(event)
<1> DEFINE event == Event(action, 0, NewId(entries), {}, status)
<1>1. /\ slug \in EntrySlugs /\ status \in EntryStatuses /\ refs \in SUBSET Refs
      /\ action \in CurationActions /\ NewId(entries) \in Nat
  BY InputAssumption, IdsAreNaturals DEF EntrySlugs, CurationActions, NewId
<1>2. EventAdded(event)
  BY <1>1, LoggedEventAdded DEF CreateEntry
<1>3. /\ event.action = action /\ event.candidate = 0 /\ event.entry = NewId(entries)
      /\ event.after = {} /\ event.entryStatus = status
  BY DEF Event
<1> HIDE DEF event
<1>4. /\ EntryEffects(event)
      /\ \A e \in DOMAIN entries' :
           \/ entryFts'[e] = entries'[e].title
           \/ /\ e \in DOMAIN entries /\ entries'[e].title = entries[e].title
              /\ entryFts'[e] = entryFts[e]
  BY <1>1, <1>3, EntryInsertedEffects DEF CreateEntry
<1>5. UNCHANGED <<candidateVars, captures>>
  BY DEF CreateEntry
<1>6. IndexEffects
  BY <1>4, <1>5 DEF IndexEffects, candidateVars
<1> QED
  BY <1>2, <1>3, <1>4, <1>5, <1>6, NoCandidateEffects DEF Effects

\* An entry updated, re-indexed unless its title stays.
LEMMA EntryUpdatedEffects ==
  ASSUME TypeOK, NEW e \in DOMAIN entries, NEW row \in EntryRow, WriteEntry(e, row),
         \/ entryFts' = Refreshed(entryFts, entries', {e})
         \/ entryFts' = entryFts /\ row.title = entries[e].title,
         NEW action \in {"relabel", "supersede"}, LogCuration(action, 0, e, {}, row.status),
         UNCHANGED <<candidateVars, sourceRefs, captures>>
  PROVE  \E event : Effects(event)
<1> DEFINE event == Event(action, 0, e, {}, row.status)
<1>1. /\ e \in Nat \ {0} /\ row.status \in EntryStatuses /\ action \in CurationActions
  BY IdsAreNaturals DEF EntryRow, CurationActions
<1>2. EventAdded(event)
  BY <1>1, LoggedEventAdded
<1>3. /\ event.action = action /\ event.candidate = 0 /\ event.entry = e
      /\ event.after = {} /\ event.entryStatus = row.status
  BY DEF Event
<1> HIDE DEF event
<1>4. /\ DOMAIN entries' = DOMAIN entries
      /\ \A i \in DOMAIN entries : entries'[i] = IF i = e THEN row ELSE entries[i]
  BY DEF WriteEntry
<1>5. EntryEffects(event)
  BY <1>1, <1>3, <1>4 DEF EntryEffects
<1>6. IndexEffects
  <2>1. entries' \in Seq(EntryRow) /\ Len(entries') = Len(entries)
    BY EntryWritten DEF TypeOK
  <2>2. DOMAIN entries = 1..Len(entries)
    BY IdsAreNaturals
  <2>3. CASE entryFts' = Refreshed(entryFts, entries', {e})
    BY <1>4, <2>1, <2>2, <2>3 DEF IndexEffects, Refreshed, candidateVars
  <2>4. CASE entryFts' = entryFts /\ row.title = entries[e].title
    BY <1>4, <2>4 DEF IndexEffects, candidateVars
  <2> QED
    BY <2>3, <2>4
<1> QED
  BY <1>2, <1>3, <1>5, <1>6, NoCandidateEffects DEF Effects

\* A request that sets the status of one candidate.
LEMMA StatusSetEffects ==
  ASSUME TypeOK, NEW c \in DOMAIN candidates, NEW status \in CandidateStatuses,
         NEW action \in CurationActions \ {"promote", "split", "merge"},
         SetStatus(c, status, action), UNCHANGED <<entryVars, captures>>
  PROVE  \E event : Effects(event)
<1> DEFINE row == [candidates[c] EXCEPT !.status = status]
<1>1. candidates[c] \in CandidateRow
  BY IdsAreNaturals
<1>2. /\ row \in CandidateRow /\ row.status = status
      /\ row.refs = candidates[c].refs /\ row.strength = candidates[c].strength
  BY <1>1 DEF CandidateRow
<1>3. UpdateCandidate(c, row) /\ LogCuration(action, c, 0, {<<c, status>>}, "none")
  BY DEF SetStatus
<1> HIDE DEF row
<1> QED
  BY <1>2, <1>3, UpdateEffects

\* Every request has effects that some event accounts for.
LEMMA StepEffects == ASSUME TypeOK, Next PROVE \E event : Effects(event)
<1>1. CASE CaptureNext
  <2>1. NewId(candidates) \in Nat
    BY IdsAreNaturals DEF NewId
  <2>2. ASSUME NEW row \in RowInputs, CreateCandidate(row) \/ CaptureCandidate(row)
        PROVE  \E event : Effects(event)
    <3> DEFINE rows == <<CaptureLog("captured", NewId(candidates), FALSE)>>
    <3>1. /\ rows \in Seq(CaptureRow) /\ Len(rows) >= 1
          /\ rows[1].candidate = NewId(candidates)
          /\ \A i \in 2..Len(rows) : rows[i].candidate = 0
      BY <2>1 DEF CaptureLog, CaptureRow, Decisions
    <3>2. /\ Insertable(row) /\ LogCaptures(rows)
          /\ WriteCandidates(Append(candidates, row), {NewId(candidates)})
          /\ UNCHANGED <<entryVars, events>>
      BY <2>2 DEF CreateCandidate, CaptureCandidate
    <3> HIDE DEF rows
    <3> QED
      BY <3>1, <3>2, CapturePendingEffects
  <2>3. ASSUME NEW row \in RowInputs, NEW slug, NEW columns,
               CapturePromotionErrored(row, slug, columns)
        PROVE  \E event : Effects(event)
    <3> DEFINE rows == <<CaptureLog("captured", NewId(candidates), TRUE),
                         CaptureLog("errored", 0, TRUE)>>
    <3>1. /\ rows \in Seq(CaptureRow) /\ Len(rows) >= 1
          /\ rows[1].candidate = NewId(candidates)
          /\ \A i \in 2..Len(rows) : rows[i].candidate = 0
      BY <2>1 DEF CaptureLog, CaptureRow, Decisions
    <3>2. /\ Insertable(row) /\ LogCaptures(rows)
          /\ WriteCandidates(Append(candidates, row), {NewId(candidates)})
          /\ UNCHANGED <<entryVars, events>>
      BY <2>3 DEF CapturePromotionErrored
    <3> HIDE DEF rows
    <3> QED
      BY <3>1, <3>2, CapturePendingEffects
  <2> QED
    BY <1>1, <2>2, <2>3, CaptureDeclinedEffects, CapturePromotedEffects DEF CaptureNext
<1>2. CASE CandidateNext
  <2>1. \A c \in DOMAIN candidates : candidates[c] \in CandidateRow
    BY IdsAreNaturals
  <2>3. ASSUME NEW c \in DOMAIN candidates, ClaimCandidate(c) \/ RejectCandidate(c)
        PROVE  \E event : Effects(event)
    BY <2>3, StatusSetEffects
    DEF ClaimCandidate, RejectCandidate, CandidateStatuses, CurationActions
  <2>4. ASSUME NEW c \in DOMAIN candidates, NEW status \in PatchInputs,
               UpdateCandidateStatus(c, status)
        PROVE  \E event : Effects(event)
    <3>1. PatchAction(status) \in CurationActions \ {"promote", "split", "merge"}
      BY DEF PatchAction, CurationActions
    <3> QED
      BY <2>4, <3>1, StatusSetEffects, InputAssumption DEF UpdateCandidateStatus
  <2>5. ASSUME NEW c \in DOMAIN candidates, NEW title \in Titles,
               NEW strength \in ClaimStrengths, RelabelCandidate(c, title, strength)
        PROVE  \E event : Effects(event)
    <3> DEFINE row == [candidates[c] EXCEPT !.title = title, !.strength = strength]
    <3>1. /\ row \in CandidateRow /\ row.status = candidates[c].status
          /\ row.refs = candidates[c].refs
      BY <2>1 DEF CandidateRow
    <3>2. /\ UpdateCandidate(c, row) /\ UNCHANGED <<entryVars, captures>>
          /\ LogCuration("relabel", c, 0, {<<c, candidates[c].status>>}, "none")
      BY <2>5 DEF RelabelCandidate
    <3>3. "relabel" \in CurationActions \ {"promote", "split", "merge"}
      BY DEF CurationActions
    <3> HIDE DEF row
    <3> QED
      BY <3>1, <3>2, <3>3, UpdateEffects
  <2>6. ASSUME NEW c \in DOMAIN candidates, NEW strength \in StrengthInputs,
               RescopeCandidate(c, strength)
        PROVE  \E event : Effects(event)
    <3> DEFINE row == [candidates[c] EXCEPT !.strength = strength]
    <3>1. /\ row \in CandidateRow /\ row.status = candidates[c].status
          /\ row.refs = candidates[c].refs
      BY <2>1, InputAssumption DEF CandidateRow
    <3>2. /\ UpdateCandidate(c, row) /\ UNCHANGED <<entryVars, captures>>
          /\ LogCuration("rescope", c, 0, {<<c, candidates[c].status>>}, "none")
      BY <2>6 DEF RescopeCandidate
    <3>3. "rescope" \in CurationActions \ {"promote", "split", "merge"}
      BY DEF CurationActions
    <3> HIDE DEF row
    <3> QED
      BY <3>1, <3>2, <3>3, UpdateEffects
  <2>7. ASSUME NEW c \in DOMAIN candidates, NEW slug \in Slugs \cup {NoSlug},
               NEW title \in Titles, PromoteCandidate(c, slug, title)
        PROVE  \E event : Effects(event)
    BY <2>7, PromotedEffects DEF PromoteCandidate
  <2>8. \A c \in DOMAIN candidates : StrengthInputs \cup {candidates[c].strength}
                                       \subseteq ClaimStrengths
    BY <2>1, InputAssumption DEF CandidateRow
  <2> QED
    BY <1>2, <2>3, <2>4, <2>5, <2>6, <2>7, <2>8, SplitEffects, MergedEffects
    DEF CandidateNext
<1>3. CASE ProposalNext
  <2>1. ASSUME NEW p \in DOMAIN proposals, NEW c \in DOMAIN candidates, NEW title \in Titles,
               ApplyPromoteCandidate(p, c, title)
        PROVE  \E event : Effects(event)
    <3>1. proposals[p].slug \in Slugs \cup {NoSlug}
      BY IdsAreNaturals DEF ProposalRow
    <3>2. Promote(c, proposals[p].slug, title) /\ UNCHANGED captures
      BY <2>1 DEF ApplyPromoteCandidate
    <3> QED
      BY <3>1, <3>2, PromotedEffects
  <2>2. ASSUME NEW p \in DOMAIN proposals, NEW c \in DOMAIN candidates,
               ApplyRejectCandidate(p, c)
        PROVE  \E event : Effects(event)
    BY <2>2, StatusSetEffects DEF ApplyRejectCandidate, CandidateStatuses, CurationActions
  <2>3. ASSUME UNCHANGED <<candidateVars, entryVars, captures, events>>
        PROVE  \E event : Effects(event)
    BY <2>3, NoEffects
  <2> QED
    BY <1>3, <2>1, <2>2, <2>3 DEF ProposalNext, CreateCurationProposal, MarkCurationProposal
<1>4. CASE EntryNext
  <2>1. ASSUME NEW e \in DOMAIN entries, NEW title \in Titles,
               NEW status \in EntryStatuses, UpdateEntry(e, title, status)
        PROVE  \E event : Effects(event)
    <3> DEFINE row == [entries[e] EXCEPT !.title = title, !.status = status]
    <3>1. row \in EntryRow /\ row.status = status
      BY IdsAreNaturals DEF EntryRow
    <3>2. /\ WriteEntry(e, row) /\ entryFts' = Refreshed(entryFts, entries', {e})
          /\ LogCuration("relabel", 0, e, {}, status)
          /\ UNCHANGED <<candidateVars, sourceRefs, captures>>
      BY <2>1 DEF UpdateEntry
    <3> HIDE DEF row
    <3> QED
      BY <3>1, <3>2, EntryUpdatedEffects
  <2>2. ASSUME NEW e \in DOMAIN entries, CurationSupersedeEntry(e)
        PROVE  \E event : Effects(event)
    <3> DEFINE row == [entries[e] EXCEPT !.status = "superseded"]
    <3>1. row \in EntryRow /\ row.status = "superseded" /\ row.title = entries[e].title
      BY IdsAreNaturals DEF EntryRow, EntryStatuses
    <3>2. /\ WriteEntry(e, row) /\ LogCuration("supersede", 0, e, {}, "superseded")
          /\ UNCHANGED <<candidateVars, entryFts, sourceRefs, captures>>
      BY <2>2 DEF CurationSupersedeEntry
    <3> HIDE DEF row
    <3> QED
      BY <3>1, <3>2, EntryUpdatedEffects
  <2>3. \A e \in DOMAIN entries :
          EntryStatusInputs \cup {entries[e].status} \subseteq EntryStatuses
    BY InputAssumption, IdsAreNaturals DEF EntryRow
  <2> QED
    BY <1>4, <2>1, <2>2, <2>3, CreateEntryEffects DEF EntryNext
<1> QED
  BY <1>1, <1>2, <1>3, <1>4 DEF Next

\* So has a step of the specification, stuttering or not.
LEMMA BoxEffects == ASSUME TypeOK, [Next]_vars PROVE \E event : Effects(event)
<1>1. ASSUME UNCHANGED vars PROVE \E event : Effects(event)
  BY <1>1, NoEffects DEF vars, candidateVars, entryVars
<1> QED
  BY <1>1, StepEffects

\* The events after a step are those before it and the one that was added.
LEMMA EventsAfter ==
  ASSUME TypeOK, TypeOK', NEW event, EventAdded(event)
  PROVE  /\ DOMAIN events \subseteq DOMAIN events'
         /\ DOMAIN events = 1..Len(events) /\ Len(events) \in Nat
         /\ \A i \in DOMAIN events : events'[i] = events[i]
         /\ \A i \in DOMAIN events' : i \notin DOMAIN events =>
              event # NoEvent /\ i = Len(events) + 1 /\ events'[i] = event
         /\ event # NoEvent =>
              Len(events) + 1 \in DOMAIN events' /\ events'[Len(events) + 1] = event
         /\ event.after \in SUBSET (Nat \X CandidateStatuses)
<1>1. /\ DOMAIN events = 1..Len(events) /\ Len(events) \in Nat
      /\ DOMAIN events' = 1..Len(events') /\ Len(events') \in Nat
      /\ \A i \in DOMAIN events' : events'[i] \in EventRow
  BY LenProperties, ElementOfSeq DEF TypeOK, LogsOK
<1>2. CASE event = NoEvent
  BY <1>1, <1>2 DEF EventAdded, NoEvent
<1>3. CASE event # NoEvent
  <2>1. /\ Len(events') = Len(events) + 1 /\ events'[Len(events) + 1] = event
        /\ \A i \in 1..Len(events) : events'[i] = events[i]
    BY <1>3 DEF EventAdded
  <2>2. event.after \in SUBSET (Nat \X CandidateStatuses)
    BY <1>1, <2>1 DEF EventRow
  <2> QED
    BY <1>1, <1>3, <2>1, <2>2
<1> QED
  BY <1>2, <1>3

(***************************************************************************)
(* The search indexes.                                                     *)
(***************************************************************************)

\* Both full-text indexes hold the current title of every row and no former one:
\* every handler that writes a title re-indexes the row it wrote.
THEOREM IndexesInSync == Spec => []FtsInSync
<1>1. Init => FtsInSync
  BY DEF Init, FtsInSync
<1>2. ASSUME TypeOK, FtsInSync, [Next]_vars PROVE FtsInSync'
  <2>1. IndexEffects
    BY <1>2, BoxEffects DEF Effects
  <2> QED
    BY <1>2, <2>1 DEF IndexEffects, FtsInSync
<1> QED
  BY <1>1, <1>2, TypeCorrect, PTL DEF Spec

(***************************************************************************)
(* The log of curation events.                                             *)
(***************************************************************************)

\* Every row the log names is stored.
LogNamesRows ==
  \A i \in DOMAIN events :
    /\ \A pair \in events[i].after : pair[1] \in DOMAIN candidates
    /\ events[i].entry \in DOMAIN entries \cup {0}

\* A promotion of a candidate says just that, and its refs are the entry's.
PromotionsLogged ==
  \A i \in DOMAIN events :
    events[i].action = "promote" /\ events[i].candidate # 0 =>
      /\ events[i].after = {<<events[i].candidate, "promoted">>}
      /\ \A r \in candidates[events[i].candidate].refs : <<events[i].entry, r>> \in sourceRefs

\* A merge names its result, which has the refs of every source.
MergesLogged ==
  \A i \in DOMAIN events :
    events[i].action = "merge" =>
      /\ About(events[i], events[i].candidate)
      /\ \A s \in Sources(events[i]) :
           candidates[s].refs \subseteq candidates[events[i].candidate].refs

\* What the properties of the log rest on, beside the types.
LogInv == LogNamesRows /\ PromotionsLogged /\ MergesLogged

\* Of whatever an event is about, the row is stored.
LEMMA AboutStored ==
  ASSUME LogNamesRows, NEW i \in DOMAIN events, NEW c, About(events[i], c)
  PROVE  c \in DOMAIN candidates
<1>1. PICK status \in CandidateStatuses : <<c, status>> \in events[i].after
  BY DEF About
<1>2. <<c, status>>[1] = c
  OBVIOUS
<1> QED
  BY <1>1, <1>2 DEF LogNamesRows

\* The candidate of a promotion or of a merge is stored, and so are the sources.
LEMMA NamedStored ==
  ASSUME TypeOK, LogInv, NEW i \in DOMAIN events
  PROVE  /\ events[i].action = "promote" /\ events[i].candidate # 0 =>
              /\ About(events[i], events[i].candidate)
              /\ events[i].candidate \in DOMAIN candidates
         /\ events[i].action = "merge" => events[i].candidate \in DOMAIN candidates
         /\ Sources(events[i]) \subseteq DOMAIN candidates
<1>1. ASSUME events[i].action = "promote", events[i].candidate # 0
      PROVE  About(events[i], events[i].candidate)
  BY <1>1 DEF LogInv, PromotionsLogged, About, CandidateStatuses
<1>2. events[i].action = "merge" => About(events[i], events[i].candidate)
  BY DEF LogInv, MergesLogged
<1>3. Sources(events[i]) \subseteq DOMAIN candidates
  BY DEF LogInv, LogNamesRows, Sources
<1> QED
  BY <1>1, <1>2, <1>3, AboutStored DEF LogInv

\* A step keeps all three.
LEMMA LogInvStep ==
  ASSUME TypeOK, TypeOK', LogInv, NEW event, Effects(event)
  PROVE  LogInv'
<1>1. /\ DOMAIN events \subseteq DOMAIN events'
      /\ \A i \in DOMAIN events : events'[i] = events[i]
      /\ \A i \in DOMAIN events' : i \notin DOMAIN events => events'[i] = event
      /\ event.after \in SUBSET (Nat \X CandidateStatuses)
  BY EventsAfter DEF Effects
<1>2. /\ DOMAIN candidates \subseteq DOMAIN candidates'
      /\ \A c \in DOMAIN candidates : candidates'[c].refs = candidates[c].refs
      /\ DOMAIN entries \subseteq DOMAIN entries' /\ sourceRefs \subseteq sourceRefs'
  BY DEF Effects, StatusEffects, EntryEffects
<1>3. LogNamesRows'
  <2>1. ASSUME NEW pair \in event.after PROVE pair[1] \in DOMAIN candidates'
    <3>1. pair = <<pair[1], pair[2]>> /\ pair[1] \in Nat /\ pair[2] \in CandidateStatuses
      BY <1>1
    <3> QED
      BY <3>1 DEF Effects, StatusEffects
  <2>2. event.entry \in DOMAIN entries' \cup {0}
    BY DEF Effects, EntryEffects
  <2>3. ASSUME NEW i \in DOMAIN events'
        PROVE  /\ \A pair \in events'[i].after : pair[1] \in DOMAIN candidates'
               /\ events'[i].entry \in DOMAIN entries' \cup {0}
    <3>1. CASE i \in DOMAIN events
      BY <1>1, <1>2, <3>1 DEF LogInv, LogNamesRows
    <3>2. CASE i \notin DOMAIN events
      BY <1>1, <2>1, <2>2, <3>2
    <3> QED
      BY <3>1, <3>2
  <2> QED
    BY <2>3 DEF LogNamesRows
<1>4. PromotionsLogged'
  <2>1. ASSUME NEW i \in DOMAIN events',
               events'[i].action = "promote", events'[i].candidate # 0
        PROVE  /\ events'[i].after = {<<events'[i].candidate, "promoted">>}
               /\ \A r \in candidates'[events'[i].candidate].refs :
                    <<events'[i].entry, r>> \in sourceRefs'
    <3>1. CASE i \in DOMAIN events
      <4>1. events'[i] = events[i] /\ events[i].candidate \in DOMAIN candidates
        BY <1>1, <2>1, <3>1, NamedStored
      <4> QED
        BY <1>2, <2>1, <3>1, <4>1 DEF LogInv, PromotionsLogged
    <3>2. CASE i \notin DOMAIN events
      BY <1>1, <2>1, <3>2 DEF Effects, PromoteEffects
    <3> QED
      BY <3>1, <3>2
  <2> QED
    BY <2>1 DEF PromotionsLogged
<1>5. MergesLogged'
  <2>1. ASSUME NEW i \in DOMAIN events', events'[i].action = "merge"
        PROVE  /\ About(events'[i], events'[i].candidate)
               /\ \A s \in Sources(events'[i]) :
                    candidates'[s].refs \subseteq candidates'[events'[i].candidate].refs
    <3>1. CASE i \in DOMAIN events
      <4>1. /\ events'[i] = events[i] /\ events[i].candidate \in DOMAIN candidates
            /\ Sources(events[i]) \subseteq DOMAIN candidates
        BY <1>1, <2>1, <3>1, NamedStored
      <4> QED
        BY <1>2, <2>1, <3>1, <4>1 DEF LogInv, MergesLogged
    <3>2. CASE i \notin DOMAIN events
      BY <1>1, <2>1, <3>2 DEF Effects, MergeEffects
    <3> QED
      BY <3>1, <3>2
  <2> QED
    BY <2>1 DEF MergesLogged
<1> QED
  BY <1>3, <1>4, <1>5 DEF LogInv

\* The log names only rows that are stored; what it says of promotions and merges
\* stays true of the rows: refs are never rewritten, nor is a reference detached.
THEOREM LogTrue == Spec => []LogInv
<1>1. Init => LogInv
  BY DEF Init, LogInv, LogNamesRows, PromotionsLogged, MergesLogged
<1>2. ASSUME TypeOK, TypeOK', LogInv, [Next]_vars PROVE LogInv'
  BY <1>2, BoxEffects, LogInvStep
<1> QED
  BY <1>1, <1>2, TypeCorrect, PTL DEF Spec

\* Through any chain of merges and promotions no reference is lost: the entry of a
\* promoted candidate has its refs and, if it was merged, those of all the candidates
\* merged into it (curation.go:231-243, 100-104).  A split may replace the refs
\* (curation.go:170), and the theorem does not relate a fragment to its source.
THEOREM ProvenanceKept == Spec => []ProvenanceSurvives
<1>1. ASSUME TypeOK, LogInv PROVE ProvenanceSurvives
  <2>1. SUFFICES ASSUME NEW i \in DOMAIN events, NEW c \in DOMAIN candidates,
                        Promotes(events[i], c)
                 PROVE  LET attached == {r \in Refs : <<events[i].entry, r>> \in sourceRefs}
                        IN  /\ candidates[c].refs \subseteq attached
                            /\ \A j \in DOMAIN events :
                                 events[j].action = "merge" /\ events[j].candidate = c =>
                                   \A s \in Sources(events[j]) :
                                     candidates[s].refs \subseteq attached
    BY DEF ProvenanceSurvives
  <2> DEFINE attached == {r \in Refs : <<events[i].entry, r>> \in sourceRefs}
  <2>2. c # 0 /\ candidates[c].refs \subseteq Refs
    BY <1>1, IdsAreNaturals DEF CandidateRow
  <2>3. candidates[c].refs \subseteq attached
    BY <1>1, <2>1, <2>2 DEF LogInv, PromotionsLogged, Promotes
  <2>4. ASSUME NEW j \in DOMAIN events, events[j].action = "merge", events[j].candidate = c,
               NEW s \in Sources(events[j])
        PROVE  candidates[s].refs \subseteq attached
    BY <1>1, <2>3, <2>4 DEF LogInv, MergesLogged
  <2> QED
    BY <2>3, <2>4
<1> QED
  BY <1>1, TypeCorrect, LogTrue, PTL

\* Only a curator gives a candidate policy strength: nothing is captured, split or
\* merged with it, and what a relabel or a rescope writes it logs.
THEOREM PolicyByCurator == Spec => []PolicyNeedsCurator
<1>1. Init => PolicyNeedsCurator
  BY DEF Init, PolicyNeedsCurator
<1>2. ASSUME TypeOK, TypeOK', PolicyNeedsCurator, [Next]_vars PROVE PolicyNeedsCurator'
  <2>1. PICK event : Effects(event)
    BY <1>2, BoxEffects
  <2>2. /\ DOMAIN events \subseteq DOMAIN events'
        /\ \A i \in DOMAIN events : events'[i] = events[i]
        /\ event # NoEvent =>
             Len(events) + 1 \in DOMAIN events' /\ events'[Len(events) + 1] = event
    BY <1>2, <2>1, EventsAfter DEF Effects
  <2>3. ASSUME NEW c \in DOMAIN candidates', candidates'[c].strength = "policy"
        PROVE  \E i \in DOMAIN events' : /\ events'[i].candidate = c
                                         /\ events'[i].action \in {"relabel", "rescope"}
    <3>1. CASE c \in DOMAIN candidates /\ candidates[c].strength = "policy"
      BY <1>2, <2>2, <3>1 DEF PolicyNeedsCurator
    <3>2. CASE event.candidate = c /\ event.action \in {"relabel", "rescope"}
      <4>1. event # NoEvent
        BY <3>2 DEF NoEvent
      <4> QED
        BY <2>2, <3>2, <4>1
    <3> QED
      BY <2>1, <2>3, <3>1, <3>2 DEF Effects, StrengthEffects
  <2> QED
    BY <2>3 DEF PolicyNeedsCurator
<1> QED
  BY <1>1, <1>2, TypeCorrect, PTL DEF Spec

(***************************************************************************)
(* The truth can be rebuilt from the log.                                  *)
(***************************************************************************)

\* The two halves of AuditReplay: a candidate's status, and an entry's.
CandidateReplay(c) ==
  \/ /\ candidates[c].status = "pending"
     /\ \A i \in DOMAIN events : ~About(events[i], c)
  \/ \E i \in DOMAIN events :
       /\ <<c, candidates[c].status>> \in events[i].after
       /\ \A j \in DOMAIN events : j > i => ~About(events[j], c)

EntryReplay(e) ==
  \E i \in DOMAIN events :
    /\ events[i].entry = e /\ events[i].entryStatus = entries[e].status
    /\ \A j \in DOMAIN events : j > i => events[j].entry # e

\* A step that writes a status logs it last.
LEMMA CandidateReplayStep ==
  ASSUME TypeOK, TypeOK', LogInv, AuditReplay, NEW event, Effects(event),
         NEW c \in DOMAIN candidates'
  PROVE  CandidateReplay(c)'
<1>1. /\ DOMAIN events \subseteq DOMAIN events'
      /\ DOMAIN events = 1..Len(events) /\ Len(events) \in Nat
      /\ \A i \in DOMAIN events : events'[i] = events[i]
      /\ \A i \in DOMAIN events' : i \notin DOMAIN events =>
           event # NoEvent /\ i = Len(events) + 1 /\ events'[i] = event
      /\ event # NoEvent =>
           Len(events) + 1 \in DOMAIN events' /\ events'[Len(events) + 1] = event
  BY EventsAfter DEF Effects
<1>2. c \in Nat
  BY LenProperties DEF TypeOK, CandidateTablesOK
<1>3. CASE About(event, c)
  <2>1. PICK status \in CandidateStatuses : <<c, status>> \in event.after
    BY <1>3 DEF About
  <2>2. candidates'[c].status = status
    BY <1>2, <2>1 DEF Effects, StatusEffects
  <2>3. event # NoEvent
    BY <2>1 DEF NoEvent
  <2>4. \A j \in DOMAIN events' : ~(j > Len(events) + 1)
    BY <1>1
  <2> QED
    BY <1>1, <2>1, <2>2, <2>3, <2>4 DEF CandidateReplay
<1>4. CASE ~About(event, c) /\ c \in DOMAIN candidates
  <2>1. candidates'[c].status = candidates[c].status
    BY <1>4 DEF Effects, StatusEffects
  <2>2. CandidateReplay(c)
    BY <1>4 DEF AuditReplay, CandidateReplay
  <2>3. CASE candidates[c].status = "pending" /\ \A i \in DOMAIN events : ~About(events[i], c)
    BY <1>1, <1>4, <2>1, <2>3 DEF CandidateReplay
  <2>4. ASSUME NEW i \in DOMAIN events, <<c, candidates[c].status>> \in events[i].after,
               \A j \in DOMAIN events : j > i => ~About(events[j], c)
        PROVE  CandidateReplay(c)'
    <3>1. \A j \in DOMAIN events' : j > i => ~About(events'[j], c)
      BY <1>1, <1>4, <2>4
    <3> QED
      BY <1>1, <2>1, <2>4, <3>1 DEF CandidateReplay
  <2> QED
    BY <2>2, <2>3, <2>4 DEF CandidateReplay
<1>5. CASE ~About(event, c) /\ c \notin DOMAIN candidates
  <2>1. candidates'[c].status = "pending"
    BY <1>5 DEF Effects, StatusEffects
  <2>2. \A i \in DOMAIN events : ~About(events[i], c)
    BY <1>5, AboutStored DEF LogInv
  <2> QED
    BY <1>1, <1>5, <2>1, <2>2 DEF CandidateReplay
<1> QED
  BY <1>3, <1>4, <1>5

LEMMA EntryReplayStep ==
  ASSUME TypeOK, TypeOK', AuditReplay, NEW event, Effects(event),
         NEW e \in DOMAIN entries'
  PROVE  EntryReplay(e)'
<1>1. /\ DOMAIN events \subseteq DOMAIN events'
      /\ DOMAIN events = 1..Len(events) /\ Len(events) \in Nat
      /\ \A i \in DOMAIN events : events'[i] = events[i]
      /\ \A i \in DOMAIN events' : i \notin DOMAIN events =>
           event # NoEvent /\ i = Len(events) + 1 /\ events'[i] = event
      /\ event # NoEvent =>
           Len(events) + 1 \in DOMAIN events' /\ events'[Len(events) + 1] = event
  BY EventsAfter DEF Effects
<1>2. e \in Nat \ {0}
  BY LenProperties DEF TypeOK, EntryTablesOK
<1>3. CASE e = event.entry
  <2>1. event # NoEvent
    BY <1>2, <1>3 DEF NoEvent
  <2>2. entries'[e].status = event.entryStatus
    BY <1>3 DEF Effects, EntryEffects
  <2>3. \A j \in DOMAIN events' : ~(j > Len(events) + 1)
    BY <1>1
  <2> QED
    BY <1>1, <1>3, <2>1, <2>2, <2>3 DEF EntryReplay
<1>4. CASE e # event.entry
  <2>1. e \in DOMAIN entries /\ entries'[e].status = entries[e].status
    BY <1>4 DEF Effects, EntryEffects
  <2>2. PICK i \in DOMAIN events :
          /\ events[i].entry = e /\ events[i].entryStatus = entries[e].status
          /\ \A j \in DOMAIN events : j > i => events[j].entry # e
    BY <2>1 DEF AuditReplay
  <2>3. \A j \in DOMAIN events' : j > i => events'[j].entry # e
    BY <1>1, <1>4, <2>2
  <2> QED
    BY <1>1, <2>1, <2>2, <2>3 DEF EntryReplay
<1> QED
  BY <1>3, <1>4

\* The status of every candidate and of every entry is the one the last event about
\* it recorded: no handler writes a status that it does not log in the same request.
THEOREM AuditComplete == Spec => []AuditReplay
<1>1. Init => AuditReplay
  BY DEF Init, AuditReplay
<1>2. ASSUME TypeOK, TypeOK', LogInv, AuditReplay, [Next]_vars PROVE AuditReplay'
  <2>1. PICK event : Effects(event)
    BY <1>2, BoxEffects
  <2>2. \A c \in DOMAIN candidates' : CandidateReplay(c)'
    BY <1>2, <2>1, CandidateReplayStep
  <2>3. \A e \in DOMAIN entries' : EntryReplay(e)'
    BY <1>2, <2>1, EntryReplayStep
  <2> QED
    BY <2>2, <2>3 DEF AuditReplay, CandidateReplay, EntryReplay
<1> QED
  BY <1>1, <1>2, TypeCorrect, LogTrue, PTL DEF Spec

\* Of two promotions of one candidate, a claim or a return to an open status lies
\* between: the first promotion left it promoted, the log holds every status since,
\* and only an open candidate is promoted.
THEOREM NoSecondPromotion == Spec => []PromotedOnce
<1>1. Init => PromotedOnce
  BY DEF Init, PromotedOnce
<1>2. ASSUME TypeOK, TypeOK', LogInv, AuditReplay, PromotedOnce, [Next]_vars
      PROVE  PromotedOnce'
  <2>1. PICK event : Effects(event)
    BY <1>2, BoxEffects
  <2>2. /\ DOMAIN events \subseteq DOMAIN events'
        /\ DOMAIN events = 1..Len(events) /\ Len(events) \in Nat
        /\ \A i \in DOMAIN events : events'[i] = events[i]
        /\ \A i \in DOMAIN events' : i \notin DOMAIN events =>
             event # NoEvent /\ i = Len(events) + 1 /\ events'[i] = event
    BY <1>2, <2>1, EventsAfter DEF Effects
  <2>3. SUFFICES ASSUME NEW i \in DOMAIN events', NEW j \in DOMAIN events',
                        NEW c \in DOMAIN candidates', i < j,
                        Promotes(events'[i], c), Promotes(events'[j], c)
                 PROVE  \E k \in i+1..j-1 : \/ <<c, "pending">> \in events'[k].after
                                             \/ <<c, "claimed">> \in events'[k].after
    BY DEF PromotedOnce
  <2>4. i \in DOMAIN events /\ events'[i] = events[i]
    BY <2>2, <2>3
  <2>5. c \in Nat \ {0}
    BY <1>2, LenProperties DEF TypeOK, CandidateTablesOK
  <2>6. c \in DOMAIN candidates /\ About(events[i], c)
    BY <1>2, <2>3, <2>4, <2>5, NamedStored DEF Promotes
  <2>7. CASE j \in DOMAIN events
    <3>1. PICK k \in i+1..j-1 : \/ <<c, "pending">> \in events[k].after
                                \/ <<c, "claimed">> \in events[k].after
      BY <1>2, <2>2, <2>3, <2>4, <2>6, <2>7 DEF PromotedOnce
    <3>2. k \in DOMAIN events
      BY <2>2, <2>4, <2>7
    <3> QED
      BY <2>2, <3>1, <3>2
  <2>8. CASE j \notin DOMAIN events
    <3>1. /\ j = Len(events) + 1
          /\ event.action = "promote" /\ event.candidate = c
      BY <2>2, <2>3, <2>8 DEF Promotes
    <3>2. candidates[c].status \in {"pending", "claimed"}
      BY <2>1, <2>5, <2>6, <3>1 DEF Effects, PromoteEffects
    <3>3. PICK k \in DOMAIN events :
            /\ <<c, candidates[c].status>> \in events[k].after
            /\ \A l \in DOMAIN events : l > k => ~About(events[l], c)
      BY <1>2, <2>4, <2>6 DEF AuditReplay
    <3>4. i <= k
      BY <2>2, <2>4, <2>6, <3>3
    <3>5. events[i].after = {<<c, "promoted">>}
      BY <1>2, <2>3, <2>4, <2>5 DEF Promotes, LogInv, PromotionsLogged
    <3>6. i # k
      BY <3>2, <3>3, <3>5
    <3>7. k \in i+1..j-1
      BY <2>2, <2>4, <3>1, <3>4, <3>6
    <3> QED
      BY <2>2, <3>2, <3>3, <3>7
  <2> QED
    BY <2>7, <2>8
<1> QED
  BY <1>1, <1>2, TypeCorrect, LogTrue, AuditComplete, PTL DEF Spec

(***************************************************************************)
(* Where candidates come from.                                             *)
(***************************************************************************)

CapturesOf(c) == {i \in DOMAIN captures : captures[i].candidate = c}
BirthsOf(c) == {i \in DOMAIN events : c \in Born(events[i])}

\* No capture and no event creates a candidate that is not stored.
LEMMA OriginStored ==
  ASSUME TypeOK, LogInv, NEW i \in DOMAIN events
  PROVE  Born(events[i]) \subseteq DOMAIN candidates
<1>1. events[i].action = "merge" => events[i].candidate \in DOMAIN candidates
  BY NamedStored
<1>2. \A pair \in events[i].after : pair[1] \in DOMAIN candidates
  BY DEF LogInv, LogNamesRows
<1> QED
  BY <1>1, <1>2 DEF Born

\* A set without a member has size 0, a set with one size 1.
LEMMA NoneAndOne == Cardinality({}) = 0 /\ \A x : Cardinality({x}) = 1
  BY FS_EmptySet, FS_Singleton

\* Every candidate has exactly one origin, a captured event or a split or merge, and
\* no log row names a candidate that was never stored.
THEOREM OneOrigin == Spec => []CandidateOrigin
<1> DEFINE Inv == /\ \A c \in DOMAIN candidates :
                       Cardinality(CapturesOf(c)) + Cardinality(BirthsOf(c)) = 1
                  /\ \A i \in DOMAIN captures :
                       captures[i].candidate \in DOMAIN candidates \cup {0}
<1>1. Init => Inv
  BY DEF Init
<1>2. ASSUME TypeOK, TypeOK', LogInv, Inv, [Next]_vars PROVE Inv'
  <2>1. PICK event : Effects(event)
    BY <1>2, BoxEffects
  <2>2. /\ DOMAIN events \subseteq DOMAIN events'
        /\ \A i \in DOMAIN events : events'[i] = events[i]
        /\ \A i \in DOMAIN events' : i \notin DOMAIN events =>
             event # NoEvent /\ i = Len(events) + 1 /\ events'[i] = event
        /\ event # NoEvent =>
             Len(events) + 1 \in DOMAIN events' /\ events'[Len(events) + 1] = event
        /\ Len(events) + 1 \notin DOMAIN events
    BY <1>2, <2>1, EventsAfter DEF Effects
  <2>3. /\ DOMAIN candidates \subseteq DOMAIN candidates'
        /\ DOMAIN captures \subseteq DOMAIN captures'
        /\ \A i \in DOMAIN captures : captures'[i] = captures[i]
        /\ \A i \in NewCaptures :
             captures'[i].candidate \in (DOMAIN candidates' \ DOMAIN candidates) \cup {0}
        /\ Born(event) \cap DOMAIN candidates = {}
    BY <2>1 DEF Effects, StatusEffects, OriginEffects
  <2>4. \A c \in DOMAIN candidates' : c # 0
    BY <1>2, LenProperties DEF TypeOK, CandidateTablesOK
  <2>5. \A i \in DOMAIN events : Born(events[i]) \subseteq DOMAIN candidates
    BY <1>2, OriginStored
  <2>6. ASSUME NEW c \in DOMAIN candidates
        PROVE  CapturesOf(c)' = CapturesOf(c) /\ BirthsOf(c)' = BirthsOf(c)
    <3>1. CapturesOf(c)' = CapturesOf(c)
      BY <2>3, <2>4 DEF CapturesOf, NewCaptures
    <3>2. BirthsOf(c)' = BirthsOf(c)
      BY <2>2, <2>3 DEF BirthsOf
    <3> QED
      BY <3>1, <3>2
  <2>7. ASSUME NEW c \in DOMAIN candidates' \ DOMAIN candidates
        PROVE  Cardinality(CapturesOf(c)') + Cardinality(BirthsOf(c)') = 1
    <3>1. /\ \A i \in DOMAIN captures : captures'[i].candidate # c
          /\ \A i \in DOMAIN events : c \notin Born(events'[i])
      BY <1>2, <2>2, <2>3, <2>4, <2>5, <2>7
    <3>2. CASE c \in Born(event)
      <4>1. CapturesOf(c)' = {}
        BY <2>1, <2>7, <3>1, <3>2 DEF CapturesOf, Effects, OriginEffects, NewCaptures
      <4>2. event # NoEvent
        BY <3>2 DEF NoEvent, Born
      <4>3. BirthsOf(c)' = {Len(events) + 1}
        BY <2>2, <3>1, <3>2, <4>2 DEF BirthsOf
      <4>4. Cardinality(CapturesOf(c)') = 0 /\ Cardinality(BirthsOf(c)') = 1
        BY <4>1, <4>3, NoneAndOne
      <4> QED
        BY <4>4
    <3>3. CASE c \notin Born(event)
      <4>1. PICK k \in NewCaptures :
              \A i \in NewCaptures : captures'[i].candidate = c <=> i = k
        BY <2>1, <2>7, <3>3 DEF Effects, OriginEffects
      <4>2. CapturesOf(c)' = {k}
        BY <2>3, <3>1, <4>1 DEF CapturesOf, NewCaptures
      <4>3. BirthsOf(c)' = {}
        BY <2>2, <3>1, <3>3 DEF BirthsOf
      <4>4. Cardinality(CapturesOf(c)') = 1 /\ Cardinality(BirthsOf(c)') = 0
        BY <4>2, <4>3, NoneAndOne
      <4> QED
        BY <4>4
    <3> QED
      BY <3>2, <3>3
  <2>8. ASSUME NEW i \in DOMAIN captures'
        PROVE  captures'[i].candidate \in DOMAIN candidates' \cup {0}
    BY <1>2, <2>3 DEF NewCaptures
  <2> QED
    BY <1>2, <2>6, <2>7, <2>8
<1>3. ASSUME LogInv, Inv PROVE CandidateOrigin
  BY <1>3 DEF CandidateOrigin, CapturesOf, BirthsOf, LogInv, LogNamesRows
<1> QED
  BY <1>1, <1>2, <1>3, TypeCorrect, LogTrue, PTL DEF Spec

(***************************************************************************)
(* Proposals and the events that applied them.                             *)
(***************************************************************************)

\* The conjunct of ProposalLinks about one proposal, log being the events and
\* rows the entries.
Link(proposal, log, rows) ==
  /\ proposal.status = "applied" <=> proposal.event # 0
  /\ proposal.event # 0 =>
       /\ proposal.event \in DOMAIN log
       /\ proposal.candidates = {log[proposal.event].candidate}
       /\ proposal.entry = log[proposal.event].entry
       /\ \/ /\ proposal.kind = "promote_candidate"
             /\ log[proposal.event].action = "promote"
             /\ proposal.entry \in DOMAIN rows
          \/ /\ proposal.kind = "reject_candidate"
             /\ log[proposal.event].action = "reject"
             /\ proposal.entry = 0

\* A link once made stays: events are not rewritten, entries not removed.
LEMMA LinkStays ==
  ASSUME TypeOK, TypeOK', NEW event, Effects(event),
         NEW proposal, Link(proposal, events, entries)
  PROVE  Link(proposal, events', entries')
<1>1. /\ DOMAIN events \subseteq DOMAIN events'
      /\ \A i \in DOMAIN events : events'[i] = events[i]
  BY EventsAfter DEF Effects
<1>2. DOMAIN entries \subseteq DOMAIN entries'
  BY DEF Effects, EntryEffects
<1> QED
  BY <1>1, <1>2 DEF Link

\* What the UPDATE that applies a proposal needs to find in the log.
AppliedBy(p, e) ==
  /\ Undecided(p) /\ MarkApplied(p, e)
  /\ NewId(events) \in DOMAIN events'
  /\ proposals[p].candidates = {events'[NewId(events)].candidate}
  /\ e = events'[NewId(events)].entry
  /\ \/ /\ proposals[p].kind = "promote_candidate"
        /\ events'[NewId(events)].action = "promote" /\ e \in DOMAIN entries'
     \/ /\ proposals[p].kind = "reject_candidate"
        /\ events'[NewId(events)].action = "reject" /\ e = 0

\* An event that is written is found under the next id.
LEMMA EventStored ==
  ASSUME TypeOK, NEW action \in CurationActions, NEW c \in Nat, NEW e \in Nat,
         NEW after \in SUBSET (Nat \X CandidateStatuses),
         NEW status \in EntryStatuses \cup {"none"},
         LogCuration(action, c, e, after, status)
  PROVE  /\ NewId(events) \in DOMAIN events'
         /\ events'[NewId(events)] = Event(action, c, e, after, status)
<1>1. events \in Seq(EventRow)
  BY DEF TypeOK, LogsOK
<1>2. /\ events' \in Seq(EventRow) /\ Len(events') = Len(events) + 1 /\ Len(events) \in Nat
      /\ events'[Len(events) + 1] = Event(action, c, e, after, status)
  BY <1>1, CurationLogged DEF Event
<1> QED
  BY <1>2, LenProperties DEF NewId

\* Both handlers that apply a proposal leave it what it needs.
LEMMA PromotionApplied ==
  ASSUME TypeOK, NEW p \in DOMAIN proposals, NEW c \in DOMAIN candidates,
         NEW title \in Titles, ApplyPromoteCandidate(p, c, title)
  PROVE  AppliedBy(p, NewId(entries)) /\ NewId(entries) \in Nat
<1>1. /\ proposals[p].slug \in Slugs \cup {NoSlug} /\ c \in Nat /\ NewId(entries) \in Nat
      /\ candidates[c] \in CandidateRow
  BY IdsAreNaturals DEF ProposalRow, NewId
<1>2. /\ Undecided(p) /\ MarkApplied(p, NewId(entries))
      /\ proposals[p].kind = "promote_candidate" /\ proposals[p].candidates = {c}
      /\ Promote(c, proposals[p].slug, title)
  BY DEF ApplyPromoteCandidate
<1>3. NewId(events) \in DOMAIN events' /\ events'[NewId(events)] =
        Event("promote", c, NewId(entries), {<<c, "promoted">>}, "active")
  <2>1. /\ "promote" \in CurationActions /\ "active" \in EntryStatuses \cup {"none"}
        /\ {<<c, "promoted">>} \in SUBSET (Nat \X CandidateStatuses)
    BY <1>1 DEF CurationActions, CandidateStatuses, EntryStatuses
  <2>2. LogCuration("promote", c, NewId(entries), {<<c, "promoted">>}, "active")
    BY <1>2 DEF Promote
  <2> QED
    BY <1>1, <2>1, <2>2, EventStored
<1>4. NewId(entries) \in DOMAIN entries'
  <2>1. /\ EntrySlug(proposals[p].slug, candidates[c], c) \in EntrySlugs
        /\ candidates[c].refs \in SUBSET Refs /\ "active" \in EntryStatuses
    BY <1>1, EntrySlugType DEF CandidateRow, EntryStatuses
  <2> QED
    BY <1>2, <2>1, EntryRowInserted DEF Promote
<1> QED
  BY <1>1, <1>2, <1>3, <1>4 DEF AppliedBy, Event

LEMMA RejectionApplied ==
  ASSUME TypeOK, NEW p \in DOMAIN proposals, NEW c \in DOMAIN candidates,
         ApplyRejectCandidate(p, c)
  PROVE  AppliedBy(p, 0)
<1>1. /\ Undecided(p) /\ MarkApplied(p, 0)
      /\ proposals[p].kind = "reject_candidate" /\ proposals[p].candidates = {c}
      /\ LogCuration("reject", c, 0, {<<c, "rejected">>}, "none")
  BY DEF ApplyRejectCandidate, SetStatus
<1>2. NewId(events) \in DOMAIN events' /\ events'[NewId(events)] =
        Event("reject", c, 0, {<<c, "rejected">>}, "none")
  <2>1. /\ "reject" \in CurationActions /\ c \in Nat
        /\ {<<c, "rejected">>} \in SUBSET (Nat \X CandidateStatuses)
    BY IdsAreNaturals DEF CurationActions, CandidateStatuses
  <2> QED
    BY <1>1, <2>1, EventStored
<1> QED
  BY <1>1, <1>2 DEF AppliedBy, Event

\* What requests do to the proposals: apply one, mark one, add one, or nothing.
LEMMA ProposalSteps ==
  ASSUME TypeOK, [Next]_vars
  PROVE  \/ \E p \in DOMAIN proposals, e \in Nat : AppliedBy(p, e)
         \/ \E p \in DOMAIN proposals, status \in {"rejected", "deferred"} :
              MarkCurationProposal(p, status)
         \/ \E kind, slug, ids : \E status \in {"proposed", "needs_human"} :
              CreateCurationProposal(kind, status, ids, slug)
         \/ UNCHANGED proposals
<1>1. CASE ProposalNext
  BY <1>1, PromotionApplied, RejectionApplied DEF ProposalNext
<1>2. CASE CaptureNext
  BY <1>2 DEF CaptureNext, CreateCandidate, CaptureCandidate, CaptureDeclined,
              CapturePromoted, CapturePromotionErrored
<1>3. CASE CandidateNext
  BY <1>3 DEF CandidateNext, ClaimCandidate, RejectCandidate, UpdateCandidateStatus,
              RelabelCandidate, RescopeCandidate, PromoteCandidate, SplitCandidate,
              MergeCandidates
<1>4. CASE EntryNext
  BY <1>4 DEF EntryNext, CreateEntry, UpdateEntry, CurationSupersedeEntry
<1> QED
  BY <1>1, <1>2, <1>3, <1>4 DEF Next, vars

\* A proposal is applied exactly when it is linked to the event that applied it, an
\* event of its kind, its one candidate and its entry, and of no other proposal.
THEOREM ProposalsLinked == Spec => []ProposalLinks
<1> DEFINE Links(table, log, rows) ==
             /\ \A p \in DOMAIN table : Link(table[p], log, rows)
             /\ \A p, q \in DOMAIN table :
                  p # q /\ table[p].event # 0 => table[p].event # table[q].event
<1>1. Init => ProposalLinks
  BY DEF Init, ProposalLinks
<1>2. ASSUME TypeOK, TypeOK', Links(proposals, events, entries), [Next]_vars
      PROVE  Links(proposals', events', entries')
  <2>1. PICK event : Effects(event)
    BY <1>2, BoxEffects
  <2>2. /\ DOMAIN proposals = 1..Len(proposals) /\ Len(proposals) \in Nat
        /\ DOMAIN events = 1..Len(events) /\ Len(events) \in Nat
        /\ \A p \in DOMAIN proposals : proposals[p] \in ProposalRow
    BY <1>2, IdsAreNaturals
  <2>3. \A p \in DOMAIN proposals : Link(proposals[p], events', entries')
    BY <1>2, <2>1, LinkStays
  <2>4. \A p \in DOMAIN proposals : proposals[p].event # NewId(events)
    BY <1>2, <2>2 DEF Link, NewId
  <2>5. CASE UNCHANGED proposals
    BY <1>2, <2>3, <2>5
  <2>6. ASSUME NEW p \in DOMAIN proposals, NEW e \in Nat, AppliedBy(p, e)
        PROVE  Links(proposals', events', entries')
    <3> DEFINE row == [proposals[p] EXCEPT !.status = "applied",
                                           !.event = NewId(events), !.entry = e]
    <3>1. /\ Len(proposals') = Len(proposals) /\ proposals' \in Seq(ProposalRow)
          /\ \A q \in DOMAIN proposals :
               proposals'[q] = IF q = p THEN row ELSE proposals[q]
      BY <1>2, <2>6, AppliedMarked DEF AppliedBy
    <3>2. DOMAIN proposals' = DOMAIN proposals
      BY <2>2, <3>1, LenProperties
    <3>3. /\ row.status = "applied" /\ row.event = NewId(events) /\ row.entry = e
          /\ row.candidates = proposals[p].candidates /\ row.kind = proposals[p].kind
      BY <2>2 DEF ProposalRow
    <3>4. NewId(events) # 0
      BY <2>2 DEF NewId
    <3> HIDE DEF row
    <3>5. Link(row, events', entries')
      BY <2>6, <3>3, <3>4 DEF Link, AppliedBy
    <3> QED
      BY <1>2, <2>3, <2>4, <3>1, <3>2, <3>3, <3>5
  <2>7. ASSUME NEW p \in DOMAIN proposals, NEW status \in {"rejected", "deferred"},
               MarkCurationProposal(p, status)
        PROVE  Links(proposals', events', entries')
    <3> DEFINE row == [proposals[p] EXCEPT !.status = status]
    <3>1. /\ row.status = status /\ row.event = proposals[p].event
          /\ proposals[p].status # "applied"
      BY <2>2, <2>7 DEF ProposalRow, MarkCurationProposal, Undecided
    <3>2. proposals[p].event = 0
      BY <1>2, <3>1 DEF Link
    <3>3. /\ DOMAIN proposals' = DOMAIN proposals
          /\ \A q \in DOMAIN proposals :
               proposals'[q] = IF q = p THEN row ELSE proposals[q]
      BY <2>2, <2>7 DEF MarkCurationProposal, ProposalRow
    <3> HIDE DEF row
    <3>4. Link(row, events', entries')
      BY <3>1, <3>2 DEF Link
    <3> QED
      BY <1>2, <2>3, <3>1, <3>2, <3>3, <3>4
  <2>8. ASSUME NEW kind, NEW slug, NEW ids, NEW status \in {"proposed", "needs_human"},
               CreateCurationProposal(kind, status, ids, slug)
        PROVE  Links(proposals', events', entries')
    <3> DEFINE row == [kind |-> kind, status |-> status, candidates |-> ids,
                       slug |-> slug, event |-> 0, entry |-> 0]
               p == Len(proposals) + 1
    <3>1. proposals \in Seq(ProposalRow \cup {row})
      BY <1>2, SeqMonotonic DEF TypeOK, LogsOK
    <3>2. /\ Len(proposals') = p /\ proposals' \in Seq(ProposalRow \cup {row})
          /\ \A q \in 1..Len(proposals) : proposals'[q] = proposals[q]
          /\ proposals'[p] = row
      BY <2>8, <3>1, Appended DEF CreateCurationProposal
    <3>3. DOMAIN proposals' = DOMAIN proposals \cup {p}
      BY <2>2, <3>2, LenProperties
    <3>4. row.event = 0 /\ Link(row, events', entries')
      BY DEF Link
    <3> HIDE DEF row, p
    <3> QED
      BY <1>2, <2>2, <2>3, <3>2, <3>3, <3>4
  <2> QED
    BY <1>2, <2>5, <2>6, <2>7, <2>8, ProposalSteps
<1>3. ProposalLinks <=> Links(proposals, events, entries)
  BY DEF ProposalLinks, Link
<1>4. ProposalLinks' <=> Links(proposals', events', entries')
  BY DEF ProposalLinks, Link
<1>5. TypeOK /\ TypeOK' /\ ProposalLinks /\ [Next]_vars => ProposalLinks'
  BY <1>2, <1>3, <1>4
<1> QED
  BY <1>1, <1>5, TypeCorrect, PTL DEF Spec

=============================================================================
