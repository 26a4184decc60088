------------------------------ MODULE Curation ------------------------------
(***************************************************************************)
(* The curation workflow of den-memory: candidates are captured, curated   *)
(* (claimed, relabelled, split, merged, rejected) and promoted into memory *)
(* entries, by hand or by applying a proposal; every step is logged.       *)
(*                                                                         *)
(* One action is one HTTP request.  Each handler runs its reads and writes *)
(* in one transaction of a database whose pool holds a single connection   *)
(* (store.go:35), so requests are serial; creating, rejecting or deferring *)
(* a proposal has no transaction, and writes in one statement.  A request  *)
(* the code refuses rolls back and changes nothing: a stuttering step.     *)
(* A row's INTEGER PRIMARY KEY is its position in the table: no handler    *)
(* deletes a row of these tables, so the next rowid is the length plus 1.  *)
(***************************************************************************)
EXTENDS Naturals, Sequences, FiniteSets

CONSTANTS
  Slugs,             \* slugs a caller may give
  NoSlug,            \* no slug given (NULL or the empty string)
  Titles,            \* titles a caller may give
  Refs,              \* source references
  RefLists,          \* the source_refs lists callers attach, as sets of Refs
  StrengthInputs,    \* claim strengths callers write
  PatchInputs,       \* statuses callers PATCH a candidate to
  EntryStatusInputs, \* statuses callers give an entry
  KindInputs,        \* proposal kinds callers create
  ColumnInputs,      \* whether a capture's layer, confidence and stability pass
                     \* the CHECKs of memory_entries: "valid", "refused"
  MaxFragments,      \* bounds of the tables and of one split
  MaxCandidates, MaxEntries, MaxCaptures, MaxEvents, MaxProposals

CandidateStatuses == {"pending", "claimed", "promoted", "rejected",
                      "needs_split", "needs_merge", "superseded"}
EntryStatuses == {"draft", "active", "disputed", "superseded", "deprecated",
                  "archived"}
ClaimStrengths == {"observation", "assessment", "recommendation", "policy"}
Decisions == {"captured", "ignored", "filtered", "errored"}
CurationActions == {"claim", "promote", "reject", "split", "merge",
                    "supersede", "rescope", "relabel", "link", "unlink"}
ProposalKinds == {"promote_candidate", "reject_candidate", "split_candidate",
                  "merge_candidates", "rescope_candidate", "relabel_candidate",
                  "supersede_entry", "knowledge_candidate",
                  "doc_update_candidate", "defer"}
ProposalStatuses == {"proposed", "needs_human", "applied", "rejected",
                     "deferred", "superseded", "invalid"}

ASSUME SlugAssumption == NoSlug \notin Slugs
ASSUME InputAssumption ==
  /\ RefLists \subseteq SUBSET Refs
  /\ StrengthInputs \subseteq ClaimStrengths
  /\ PatchInputs \subseteq CandidateStatuses
  /\ EntryStatusInputs \subseteq EntryStatuses
  /\ KindInputs \subseteq ProposalKinds
  /\ ColumnInputs \subseteq {"valid", "refused"}
ASSUME BoundAssumption ==
  /\ MaxFragments \in Nat /\ MaxCandidates \in Nat /\ MaxEntries \in Nat
  /\ MaxCaptures \in Nat /\ MaxEvents \in Nat /\ MaxProposals \in Nat

VARIABLES
  candidates,   \* memory_candidates
  candidateFts, \* memory_candidates_fts: the title indexed for each rowid
  entries,      \* memory_entries
  entryFts,     \* memory_entries_fts: the title indexed for each rowid
  sourceRefs,   \* source_refs of target_kind memory_entry: <<target_id, ref>>
  captures,     \* capture_events
  events,       \* curation_events
  proposals     \* curation_proposals

vars == <<candidates, candidateFts, entries, entryFts, sourceRefs, captures,
          events, proposals>>
candidateVars == <<candidates, candidateFts>>
entryVars == <<entries, entryFts, sourceRefs>>

(***************************************************************************)
(* Row types.                                                              *)
(***************************************************************************)

\* The slug given to an entry whose candidate proposes none: "candidate-<id>".
\* An auto-promoted capture has no id in its payload and gets "candidate-<nil>",
\* which id 0 stands for.
FallbackSlug(id) == <<"candidate", id>>
EntrySlugs == Slugs \cup ({"candidate"} \X Nat)

CandidateRow == [status: CandidateStatuses, slug: Slugs \cup {NoSlug},
                 title: Titles, strength: ClaimStrengths, refs: SUBSET Refs]
EntryRow == [slug: EntrySlugs, title: Titles, status: EntryStatuses]
\* candidate is 0 when candidate_ids_json is empty; eligible is what
\* autoPromoteEligible answered for the payload (the table keeps only part of it).
CaptureRow == [decision: Decisions, candidate: Nat, eligible: BOOLEAN]
\* candidate and entry are 0 when NULL.  after holds the candidates of after_json
\* with their status; entryStatus is the one it gives the entry (the handler's
\* default, draft, when the payload omits it), "none" when it has no entry.
EventRow == [action: CurationActions, candidate: Nat, entry: Nat,
             after: SUBSET (Nat \X CandidateStatuses),
             entryStatus: EntryStatuses \cup {"none"}]
ProposalRow == [kind: ProposalKinds, status: ProposalStatuses,
                candidates: SUBSET Nat, slug: Slugs \cup {NoSlug},
                event: Nat, entry: Nat]

Init ==
  /\ candidates = <<>> /\ candidateFts = <<>>
  /\ entries = <<>> /\ entryFts = <<>> /\ sourceRefs = {}
  /\ captures = <<>> /\ events = <<>> /\ proposals = <<>>

(***************************************************************************)
(* The statements the handlers share.                                      *)
(***************************************************************************)

NewId(table) == Len(table) + 1

\* Mutant: an update of an indexed row is not re-indexed.
StaleRefreshed(fts, rows, ids) ==
  [i \in 1..Len(rows) |-> IF i \in DOMAIN fts THEN fts[i] ELSE rows[i].title]

\* A full-text table after rows ids of rows were written and refreshed.
Refreshed(fts, rows, ids) ==
  [i \in 1..Len(rows) |-> IF i \in ids THEN rows[i].title ELSE fts[i]]

\* rows, the table after rows ids were inserted or updated, is the new table.
WriteCandidates(rows, ids) ==
  /\ Len(rows) <= MaxCandidates
  /\ candidates' = rows
  /\ candidateFts' = Refreshed(candidateFts, rows, ids)

UpdateCandidate(c, row) ==
  WriteCandidates([candidates EXCEPT ![c] = row], {c})

\* What a create, a capture, a split fragment or a merge may write.
RowInputs == [status: {"pending"}, slug: Slugs \cup {NoSlug}, title: Titles,
              strength: StrengthInputs, refs: RefLists]

\* Mutant: policy strength is not refused.
AnyInsertable(row) == row.status = "pending"

\* insertCandidate's own checks.
Insertable(row) == row.status = "pending" /\ row.strength # "policy"

LogCaptures(rows) ==
  /\ Len(captures) + Len(rows) <= MaxCaptures
  /\ captures' = captures \o rows

CaptureLog(decision, c, eligible) ==
  [decision |-> decision, candidate |-> c, eligible |-> eligible]

LogCuration(action, c, e, after, entryStatus) ==
  /\ Len(events) < MaxEvents
  /\ events' = Append(events, [action |-> action, candidate |-> c, entry |-> e,
                               after |-> after, entryStatus |-> entryStatus])

\* One candidate, unchanged but for its status, and the event about it.
SetStatus(c, status, action) ==
  /\ UpdateCandidate(c, [candidates[c] EXCEPT !.status = status])
  /\ LogCuration(action, c, 0, {<<c, status>>}, "none")

UsedSlugs == {entries[i].slug : i \in DOMAIN entries}

InsertEntry(slug, title, status, refs) ==
  /\ Len(entries) < MaxEntries
  /\ slug \notin UsedSlugs
  /\ entries' = Append(entries, [slug |-> slug, title |-> title, status |-> status])
  /\ entryFts' = Refreshed(entryFts, entries', {NewId(entries)})
  /\ sourceRefs' = sourceRefs \cup ({NewId(entries)} \X refs)

\* Mutant: no fallback when neither the payload nor the candidate has a slug.
PayloadSlugOnly(slug, row, id) ==
  IF slug # NoSlug THEN slug ELSE row.slug

\* The slug of the entry made from candidate row, id being what the row says
\* its id is: the payload's, else the proposed one, else the fallback.
EntrySlug(slug, row, id) ==
  IF slug # NoSlug THEN slug
  ELSE IF row.slug # NoSlug THEN row.slug ELSE FallbackSlug(id)

(***************************************************************************)
(* Capture.                                                                *)
(***************************************************************************)

\* POST /api/candidates
CreateCandidate(row) ==
  /\ Insertable(row)
  /\ WriteCandidates(Append(candidates, row), {NewId(candidates)})
  /\ LogCaptures(<<CaptureLog("captured", NewId(candidates), FALSE)>>)
  /\ UNCHANGED <<entryVars, events, proposals>>

\* POST /api/capture answering ignored (mode), filtered (content) or errored.
CaptureDeclined(decision, eligible) ==
  /\ LogCaptures(<<CaptureLog(decision, 0, eligible)>>)
  /\ UNCHANGED <<candidateVars, entryVars, events, proposals>>

\* POST /api/capture by a caller that autoPromoteEligible turns down.
CaptureCandidate(row) ==
  /\ Insertable(row)
  /\ WriteCandidates(Append(candidates, row), {NewId(candidates)})
  /\ LogCaptures(<<CaptureLog("captured", NewId(candidates), FALSE)>>)
  /\ UNCHANGED <<entryVars, events, proposals>>

\* POST /api/capture by an eligible caller: candidate, entry and both logs.
CapturePromoted(row, slug) ==
  LET c == NewId(candidates) IN
  /\ Insertable(row)
  /\ InsertEntry(EntrySlug(slug, row, 0), row.title, "active", row.refs)
  /\ WriteCandidates(Append(candidates, [row EXCEPT !.status = "promoted"]), {c})
  /\ LogCaptures(<<CaptureLog("captured", c, TRUE)>>)
  /\ LogCuration("promote", c, NewId(entries), {<<c, "promoted">>}, "active")
  /\ UNCHANGED proposals

\* The same when the entry is refused, its slug taken or a column failing its
\* CHECK: captureDecision logs a second, errored event and commits the candidate
\* and the captured event along with it.
CapturePromotionErrored(row, slug, columns) ==
  /\ Insertable(row)
  /\ columns = "refused" \/ EntrySlug(slug, row, 0) \in UsedSlugs
  /\ WriteCandidates(Append(candidates, row), {NewId(candidates)})
  /\ LogCaptures(<<CaptureLog("captured", NewId(candidates), TRUE),
                   CaptureLog("errored", 0, TRUE)>>)
  /\ UNCHANGED <<entryVars, events, proposals>>

(***************************************************************************)
(* Curation of candidates.                                                 *)
(***************************************************************************)

\* POST /api/curation/candidates/{id}/claim and /reject: no status is refused.
ClaimCandidate(c) ==
  /\ SetStatus(c, "claimed", "claim")
  /\ UNCHANGED <<entryVars, captures, proposals>>

RejectCandidate(c) ==
  /\ SetStatus(c, "rejected", "reject")
  /\ UNCHANGED <<entryVars, captures, proposals>>

\* PATCH /api/candidates/{id}/status: any status the column accepts.
PatchAction(status) ==
  CASE status = "claimed" -> "claim"
    [] status = "rejected" -> "reject"
    [] status = "superseded" -> "supersede"
    [] OTHER -> "relabel"

UpdateCandidateStatus(c, status) ==
  /\ SetStatus(c, status, PatchAction(status))
  /\ UNCHANGED <<entryVars, captures, proposals>>

RelabelCandidate(c, title, strength) ==
  /\ UpdateCandidate(c, [candidates[c] EXCEPT !.title = title, !.strength = strength])
  /\ LogCuration("relabel", c, 0, {<<c, candidates[c].status>>}, "none")
  /\ UNCHANGED <<entryVars, captures, proposals>>

\* Scope columns are not modelled; claim_strength is required and written.
RescopeCandidate(c, strength) ==
  /\ UpdateCandidate(c, [candidates[c] EXCEPT !.strength = strength])
  /\ LogCuration("rescope", c, 0, {<<c, candidates[c].status>>}, "none")
  /\ UNCHANGED <<entryVars, captures, proposals>>

\* Mutant: only a promoted candidate is refused.
AnyPromotable(row) == row.status # "promoted"

\* candidate_not_promotable
Promotable(row) == row.status \in {"pending", "claimed"}

\* What promoteCandidate and applyPromoteCandidateProposal both do.
Promote(c, slug, title) ==
  LET row == candidates[c] IN
  /\ Promotable(row)
  /\ InsertEntry(EntrySlug(slug, row, c), title, "active", row.refs)
  /\ UpdateCandidate(c, [row EXCEPT !.status = "promoted"])
  /\ LogCuration("promote", c, NewId(entries), {<<c, "promoted">>}, "active")

PromoteCandidate(c, slug, title) ==
  /\ Promote(c, slug, title)
  /\ UNCHANGED <<captures, proposals>>

\* What a fragment of candidate row may be: every field it omits is inherited.
FragmentInputs(row) ==
  [status: {"pending"}, slug: Slugs \cup {NoSlug}, title: Titles,
   strength: StrengthInputs \cup {row.strength}, refs: RefLists \cup {row.refs}]

\* Mutant: the event does not log the fragments.
OriginalOnly(c, ids) == {<<c, "needs_split">>}

\* after_json of a split of c into candidates ids.
SplitAfter(c, ids) == {<<c, "needs_split">>} \cup (ids \X {"pending"})

\* POST /api/curation/candidates/{id}/split.  Two fragments are required, but one
\* that is not an object is skipped, so any number, even none, is inserted.
SplitCandidate(c, parts) ==
  LET original == [candidates[c] EXCEPT !.status = "needs_split"]
      ids == (Len(candidates) + 1)..(Len(candidates) + Len(parts))
  IN
  /\ \A i \in DOMAIN parts : Insertable(parts[i])
  /\ WriteCandidates([candidates EXCEPT ![c] = original] \o parts, ids \cup {c})
  /\ LogCuration("split", c, 0, SplitAfter(c, ids), "none")
  /\ UNCHANGED <<entryVars, captures, proposals>>

\* Mutant: the merged candidate takes the first source's refs.
FirstRefs(ids) == candidates[CHOOSE c \in ids : \A d \in ids : c <= d].refs

\* mergedSources: all the refs of all the sources.
MergedRefs(ids) == UNION {candidates[c].refs : c \in ids}

\* Mutant: the event logs the merged candidate only.
MergedOnly(ids, m) == {<<m, "pending">>}

\* after_json of a merge of candidates ids into m.
MergeAfter(ids, m) == {<<m, "pending">>} \cup (ids \X {"needs_merge"})

\* POST /api/curation/candidates/merge.  candidate_ids has two or more members, but
\* they may be equal: ids is any non-empty set.  The merged row proposes no slug; a
\* strength the payload omits is the first source's, itself one callers wrote.
MergeCandidates(ids, title, strength) ==
  LET m == NewId(candidates)
      merged == [status |-> "pending", slug |-> NoSlug, title |-> title,
                 strength |-> strength, refs |-> MergedRefs(ids)]
      sources == [c \in DOMAIN candidates |->
                    IF c \in ids THEN [candidates[c] EXCEPT !.status = "needs_merge"]
                    ELSE candidates[c]]
  IN
  /\ Insertable(merged)
  /\ WriteCandidates(Append(sources, merged), ids \cup {m})
  /\ LogCuration("merge", m, 0, MergeAfter(ids, m), "none")
  /\ UNCHANGED <<entryVars, captures, proposals>>

(***************************************************************************)
(* Proposals.                                                              *)
(***************************************************************************)

\* strings.Contains(kind, "candidate")
NeedsCandidates(kind) == kind \notin {"supersede_entry", "defer"}

\* POST /api/curation/proposals: the candidates named must exist.
CreateCurationProposal(kind, status, ids, slug) ==
  /\ NeedsCandidates(kind) => ids # {}
  /\ Len(proposals) < MaxProposals
  /\ proposals' = Append(proposals,
       [kind |-> kind, status |-> status, candidates |-> ids, slug |-> slug,
        event |-> 0, entry |-> 0])
  /\ UNCHANGED <<candidateVars, entryVars, captures, events>>

\* Mutant: only a rejected proposal is refused.
NotRejected(p) == proposals[p].status # "rejected"

\* proposal_not_applicable, and the WHERE of markCurationProposal.
Undecided(p) == proposals[p].status \in {"proposed", "needs_human"}

\* Mutant: the event is not linked.
MarkAppliedUnlinked(p, e) ==
  proposals' = [proposals EXCEPT ![p].status = "applied", ![p].entry = e]

\* The UPDATE that ends applyCurationProposal; e is 0 for no entry.
MarkApplied(p, e) ==
  proposals' = [proposals EXCEPT ![p].status = "applied",
                                 ![p].event = NewId(events), ![p].entry = e]

\* POST /api/curation/proposals/{id}/apply of kind promote_candidate.
ApplyPromoteCandidate(p, c, title) ==
  /\ Undecided(p)
  /\ proposals[p].kind = "promote_candidate"
  /\ proposals[p].candidates = {c}
  /\ Promote(c, proposals[p].slug, title)
  /\ MarkApplied(p, NewId(entries))
  /\ UNCHANGED captures

\* The same of kind reject_candidate: the candidate's status is not looked at.
ApplyRejectCandidate(p, c) ==
  /\ Undecided(p)
  /\ proposals[p].kind = "reject_candidate"
  /\ proposals[p].candidates = {c}
  /\ SetStatus(c, "rejected", "reject")
  /\ MarkApplied(p, 0)
  /\ UNCHANGED <<entryVars, captures>>

\* POST .../reject and .../defer: UPDATE ... WHERE status is still open.
MarkCurationProposal(p, status) ==
  /\ Undecided(p)
  /\ proposals' = [proposals EXCEPT ![p].status = status]
  /\ UNCHANGED <<candidateVars, entryVars, captures, events>>

(***************************************************************************)
(* Entries.                                                                *)
(***************************************************************************)

\* POST /api/memory-entries.  action is "promote" when the payload says it is curated.
CreateEntry(slug, title, status, refs, action) ==
  /\ InsertEntry(slug, title, status, refs)
  /\ LogCuration(action, 0, NewId(entries), {}, status)
  /\ UNCHANGED <<candidateVars, captures, proposals>>

WriteEntry(e, row) == entries' = [entries EXCEPT ![e] = row]

\* PUT /api/memory-entries/{slug}; .../archive and .../supersede PUT the status.
UpdateEntry(e, title, status) ==
  /\ WriteEntry(e, [entries[e] EXCEPT !.title = title, !.status = status])
  /\ entryFts' = Refreshed(entryFts, entries', {e})
  /\ LogCuration("relabel", 0, e, {}, status)
  /\ UNCHANGED <<candidateVars, sourceRefs, captures, proposals>>

\* POST /api/curation/memory-entries/{slug}/supersede: only status columns, no re-indexing.
CurationSupersedeEntry(e) ==
  /\ WriteEntry(e, [entries[e] EXCEPT !.status = "superseded"])
  /\ LogCuration("supersede", 0, e, {}, "superseded")
  /\ UNCHANGED <<candidateVars, entryFts, sourceRefs, captures, proposals>>

(***************************************************************************)
(* The specification.                                                      *)
(***************************************************************************)

CaptureNext ==
  \/ \E row \in RowInputs : CreateCandidate(row) \/ CaptureCandidate(row)
  \/ \E decision \in Decisions \ {"captured"}, eligible \in BOOLEAN :
       CaptureDeclined(decision, eligible)
  \/ \E row \in RowInputs, slug \in Slugs \cup {NoSlug} :
       \/ CapturePromoted(row, slug)
       \/ \E columns \in ColumnInputs : CapturePromotionErrored(row, slug, columns)

CandidateNext ==
  \/ \E c \in DOMAIN candidates :
       \/ ClaimCandidate(c)
       \/ RejectCandidate(c)
       \/ \E status \in PatchInputs : UpdateCandidateStatus(c, status)
       \/ \E title \in Titles, strength \in StrengthInputs \cup {candidates[c].strength} :
            RelabelCandidate(c, title, strength)
       \/ \E strength \in StrengthInputs : RescopeCandidate(c, strength)
       \/ \E slug \in Slugs \cup {NoSlug}, title \in Titles : PromoteCandidate(c, slug, title)
       \/ \E n \in 0..MaxFragments :
            \E parts \in [1..n -> FragmentInputs(candidates[c])] : SplitCandidate(c, parts)
  \/ \E ids \in SUBSET DOMAIN candidates \ {{}}, title \in Titles, strength \in StrengthInputs :
       MergeCandidates(ids, title, strength)

ProposalNext ==
  \/ \E kind \in KindInputs, status \in {"proposed", "needs_human"},
        ids \in SUBSET DOMAIN candidates, slug \in Slugs \cup {NoSlug} :
       CreateCurationProposal(kind, status, ids, slug)
  \/ \E p \in DOMAIN proposals, c \in DOMAIN candidates :
       \/ \E title \in Titles : ApplyPromoteCandidate(p, c, title)
       \/ ApplyRejectCandidate(p, c)
  \/ \E p \in DOMAIN proposals, status \in {"rejected", "deferred"} :
       MarkCurationProposal(p, status)

EntryNext ==
  \/ \E slug \in Slugs, title \in Titles, status \in EntryStatusInputs, refs \in RefLists,
        action \in {"promote", "relabel"} :
       CreateEntry(slug, title, status, refs, action)
  \/ \E e \in DOMAIN entries :
       \/ \E title \in Titles, status \in EntryStatusInputs \cup {entries[e].status} :
            UpdateEntry(e, title, status)
       \/ CurationSupersedeEntry(e)

Next == CaptureNext \/ CandidateNext \/ ProposalNext \/ EntryNext

Spec == Init /\ [][Next]_vars

(***************************************************************************)
(* Properties.                                                             *)
(***************************************************************************)

CandidateTablesOK ==
  /\ candidates \in Seq(CandidateRow)
  /\ candidateFts \in Seq(Titles) /\ Len(candidateFts) = Len(candidates)
EntryTablesOK ==
  /\ entries \in Seq(EntryRow)
  /\ entryFts \in Seq(Titles) /\ Len(entryFts) = Len(entries)
  /\ sourceRefs \in SUBSET (Nat \X Refs)
LogsOK ==
  /\ captures \in Seq(CaptureRow)
  /\ events \in Seq(EventRow)
  /\ proposals \in Seq(ProposalRow)

\* Every table holds rows of its type and both indexes cover their tables:
\* what the columns' CHECKs and the handlers' refreshes keep (001_v0_schema.sql).
TypeOK == CandidateTablesOK /\ EntryTablesOK /\ LogsOK

\* Searching finds every row by its current title and by no former one: a
\* handler that changes an indexed column re-indexes the row (write_ops.go:13-29).
FtsInSync ==
  /\ \A c \in DOMAIN candidates : candidateFts[c] = candidates[c].title
  /\ \A e \in DOMAIN entries : entryFts[e] = entries[e].title

About(event, c) == \E status \in CandidateStatuses : <<c, status>> \in event.after

\* The audit log is enough to rebuild the truth: a candidate's status is the one
\* the last event about it recorded (pending if there is none), and so is an
\* entry's.  Every handler that writes a status logs it in the same transaction.
AuditReplay ==
  /\ \A c \in DOMAIN candidates :
       \/ /\ candidates[c].status = "pending"
          /\ \A i \in DOMAIN events : ~About(events[i], c)
       \/ \E i \in DOMAIN events :
            /\ <<c, candidates[c].status>> \in events[i].after
            /\ \A j \in DOMAIN events : j > i => ~About(events[j], c)
  /\ \A e \in DOMAIN entries : \E i \in DOMAIN events :
       /\ events[i].entry = e /\ events[i].entryStatus = entries[e].status
       /\ \A j \in DOMAIN events : j > i => events[j].entry # e

\* The candidates an event created: a split's fragments, a merge's result.
Born(event) ==
  IF event.action = "split"
  THEN {pair[1] : pair \in event.after} \ {event.candidate}
  ELSE IF event.action = "merge" THEN {event.candidate} ELSE {}

\* Every candidate has exactly one origin: one captured event, or one split or
\* merge; and no log row names a candidate that was never stored.
CandidateOrigin ==
  /\ \A c \in DOMAIN candidates :
       Cardinality({i \in DOMAIN captures : captures[i].candidate = c})
         + Cardinality({i \in DOMAIN events : c \in Born(events[i])}) = 1
  /\ \A i \in DOMAIN captures : captures[i].candidate \in DOMAIN candidates \cup {0}
  /\ \A i \in DOMAIN events : \A pair \in events[i].after : pair[1] \in DOMAIN candidates

Promotes(event, c) == event.action = "promote" /\ event.candidate = c

\* A candidate is promoted at most once between two reopenings: of two promote
\* events of one candidate, a claim or a PATCH back to an open status lies
\* between (candidate_not_promotable, curation.go:91-95).
PromotedOnce ==
  \A i, j \in DOMAIN events : \A c \in DOMAIN candidates :
    i < j /\ Promotes(events[i], c) /\ Promotes(events[j], c)
      => \E k \in i+1..j-1 : \/ <<c, "pending">> \in events[k].after
                              \/ <<c, "claimed">> \in events[k].after

\* A proposal is applied exactly when it is linked to the event that applied it:
\* an event of its kind, about its one candidate, with its entry, and of no other
\* proposal (curation_proposals.go:163-197).
ProposalLinks ==
  /\ \A p \in DOMAIN proposals :
       LET proposal == proposals[p] IN
       /\ proposal.status = "applied" <=> proposal.event # 0
       /\ proposal.event # 0 =>
            /\ proposal.event \in DOMAIN events
            /\ proposal.candidates = {events[proposal.event].candidate}
            /\ proposal.entry = events[proposal.event].entry
            /\ \/ /\ proposal.kind = "promote_candidate"
                  /\ events[proposal.event].action = "promote"
                  /\ proposal.entry \in DOMAIN entries
               \/ /\ proposal.kind = "reject_candidate"
                  /\ events[proposal.event].action = "reject"
                  /\ proposal.entry = 0
  /\ \A p, q \in DOMAIN proposals :
       p # q /\ proposals[p].event # 0 => proposals[p].event # proposals[q].event

\* A decision on a proposal is final: once applied, rejected or deferred it never
\* changes again, whatever is applied, rejected or deferred later
\* (curation_proposals.go:163-167, 233).
DecisionsAreFinal ==
  [][\A p \in DOMAIN proposals :
       proposals[p].status \notin {"proposed", "needs_human"} =>
         proposals'[p] = proposals[p]]_proposals

\* The candidates a merge event says its result was made from.
Sources(event) == {pair[1] : pair \in event.after} \ {event.candidate}

\* Merging and promoting lose no provenance: the entry of a promoted candidate has
\* all the candidate's source refs and, if the candidate is the result of merges,
\* those of every candidate merged into it (curation.go:231-243, 100-104).  Nothing
\* is said of splits, whose fragments may give refs of their own (curation.go:170).
ProvenanceSurvives ==
  \A i \in DOMAIN events : \A c \in DOMAIN candidates :
    Promotes(events[i], c) =>
      LET attached == {r \in Refs : <<events[i].entry, r>> \in sourceRefs} IN
      /\ candidates[c].refs \subseteq attached
      /\ \A j \in DOMAIN events :
           events[j].action = "merge" /\ events[j].candidate = c =>
             \A s \in Sources(events[j]) : candidates[s].refs \subseteq attached

\* Only a curator gives a candidate policy strength: whatever it was captured,
\* split or merged from, a relabel or a rescope of that candidate is in the log
\* (write_ops.go:77-79).
PolicyNeedsCurator ==
  \A c \in DOMAIN candidates :
    candidates[c].strength = "policy" =>
      \E i \in DOMAIN events :
        events[i].candidate = c /\ events[i].action \in {"relabel", "rescope"}

\* What the tool contract and candidates.go:316 say of a store: what an eligible
\* caller captures is an entry at once.
StoreAutoPromotes ==
  \A i \in DOMAIN captures :
    captures[i].decision = "captured" /\ captures[i].eligible =>
      \E j \in DOMAIN events : Promotes(events[j], captures[i].candidate)

=============================================================================
